SPECIFICATION DpmasterSpec
CONSTANTS
  UINT_RANGE = 8
  USHORT_RANGE = 4
  MAX_HASH_SIZE = 3
  NotANumber = NotANumber
  DefaultSettings <- MCDefaultSettings
  Names = {1, 2, 3, 4}
  BadNames = {4}
  Protocols = {1, 2, 3}
  Hello = Hello
  SendEmpty = SendEmpty
  Unreadable = Unreadable
  NoTag = NoTag
  DarkPlaces = DarkPlaces
  Tags = {Hello, DarkPlaces}
  OptionNames = {SendEmpty}
  BuiltIn <- MCBuiltIn
  HostAddresses = {0, 1, 2, 3}
  LoopbackAddresses = {3}
  Unknown = Unknown
  NoPort = NoPort
  MaxMappings = 3
  MAX_LISTEN_SOCKETS = 3
  AnyHost = AnyHost
  MasterPort = MasterPort
  Scenarios <- MCScenarios
  Options <- MCOptions
  HostFamilies <- MCHostFamilies
  Signals = {"log"}
INVARIANTS
  DpmasterTypeOK
  LookupsFollowOptions
  MappingsAreFollowed
  ListensAsAsked
  LogFollowsSignals
CHECK_DEADLOCK FALSE
