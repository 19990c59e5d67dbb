SPECIFICATION FairSpec
CONSTANTS
  Endpoints = {"a"}
  Names = {"q3", "nexuiz"}
  Games = {"q3"}
  Accepted = {"q3", "nexuiz"}
  DarkPlaces = "DarkPlaces"
  Ignored = "ignored"
  NoGame = "absent"
  Malformed = "malformed"
  Configs <- MCConfigs
  Off = Off
  NoEntry = NoEntry
  MaxNet = 2
  MaxRestarts = 1
  TIMEOUT_HEARTBEAT = 1
  TIMEOUT_CHALLENGE = 1
  TIMEOUT_INFORESPONSE = 2
INVARIANTS
  AnswerFitsHeartbeat
  ListedUnderItsGame
PROPERTIES
  KeepsComingBack
  DeadIsForgotten
