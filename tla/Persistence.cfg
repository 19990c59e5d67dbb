SPECIFICATION Spec
CONSTANTS
  Servers = {s1, s3}
  Unloadable = {s3}
  NotListed = NotListed
  NoFile = NoFile
  TIMEOUT_INFORESPONSE = 3
INVARIANTS
  CrashNeverTears
  NeverExtended
  KillLosesNothing
PROPERTIES
  SnapshotsKeepServers
