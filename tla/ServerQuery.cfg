SPECIFICATION Spec
CONSTANTS
  Servers = {1, 2, 3, 4, 5, 6, 7, 8, 9}
  Server <- MCServer
  Requests <- MCRequests
  Names = {"q3", "et", "banned"}
  NoName = ""
  AnyType = "any"
  Protocols = {7, 68}
  NameOf <- MCNameOf
  Options <- MCOptions
  Accepted = {"q3", "et"}
  MaxVisited = 3
  MAX_PACKET_SIZE_OUT = 24
  HeaderSize = 4
INVARIANTS
  TypeOK
  PacketsAreFull
  KnownGameGetsAll
  UnknownGameGetsOne
CHECK_DEADLOCK FALSE
