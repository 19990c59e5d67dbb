SPECIFICATION ProbeSpec
CONSTANTS
  Hosts = {local, h1}
  Local = local
  NoClient = NoClient
  max_nb_clients = 2
  fp_throttle = 5
  fp_decay_time = 3
  Probers = {healthz, metrics, timer}
  PROBE_TIMEOUT = 1
INVARIANT
  UnavailableIsTrue
