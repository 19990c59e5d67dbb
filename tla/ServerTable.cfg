SPECIFICATION Spec
CONSTANTS
  Addresses <- MCAddresses
  NoAddress = "none"
  PublicOf <- MCPublicOf
  BucketOf <- TwoBuckets
  Unmapped = {"l1"}
  max_nb_servers = 3
  max_per_address = 2
  TIMEOUT_HEARTBEAT = 1
  TIMEOUT_INFORESPONSE = 2
  MaxTime = 3
INVARIANTS
  TypeOK
  SlotAccounting
  StrandedAreSheltered
  ChainsExact
  OneEntryPerAddress
  QuotaRespected
  LoopsAgree
  RefusedOnlyIfFull
PROPERTIES
  OnlyExpiredLeave
  OnlyInfoResponseProlongs
  ImplementsRegistry
