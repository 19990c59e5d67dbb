SPECIFICATION LimitsSpec
CONSTANTS
  Hosts = {p1, p2, p3, p4}
  NoClient = NoClient
  max_nb_clients = 3
  fp_throttle = 3
  fp_decay_time = 2
  Endpoints = {p1, p2, p3}
  NoEndpoint = NoEndpoint
  HEARTBEAT_LIMIT_SLOTS = 2
  HEARTBEAT_LIMIT_WINDOW = 2
  HEARTBEAT_LIMIT_BURST = 2
  Addresses = {p1, p2, p3}
  NoAddress = NoAddress
  Handlers = {t1, t2}
  RATE = 1
  BURST = 3
  max_clients = 2
  MaxDelay = 2
SYMMETRY Symmetry
INVARIANTS
  LimitsTypeOK
  NoHostGetsMore
  ThrottledBriefly
  RefusedOnlyWhenBusy
  RefusedOnlyIfTooMany
  AtMostTwoBursts
  LimiterShare
  RefusedOnlyIfSpent
