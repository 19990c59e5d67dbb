SPECIFICATION Spec
CONSTANTS
  Addresses <- MCAddresses
  NoAddress = "none"
  PublicOf <- MCPublicOf
  BucketOf <- TwoBuckets
  Unmapped = {"l1"}
  max_nb_servers = 3
  max_per_address = 0
  TIMEOUT_HEARTBEAT = 1
  TIMEOUT_INFORESPONSE = 2
  MaxTime = 3
PROPERTY
  ReplyOffersEveryServer
