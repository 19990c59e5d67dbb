---------------------------- MODULE AddressMaps ----------------------------
(***************************************************************************)
(* The address mappings of src/src/servers.c: declared on the command      *)
(* line, resolved at start-up into a list sorted by address and port, and  *)
(* searched for every server that registers.                               *)
(*                                                                         *)
(* A host is its address as a number, and ports are numbers, in the order  *)
(* of the list.  The port 0 of a mapping stands for no port.               *)
(***************************************************************************)
EXTENDS CommandLine, SequencesExt

CONSTANTS
  HostAddresses,        \* the IPv4 addresses of the hosts that names resolve to
  LoopbackAddresses,    \* those of 127.0.0.0/8
  NoPort,               \* a name without a port
  MaxMappings           \* bound on the mappings of a command line

ASSUME MapAssumption ==
  /\ HostAddresses \subseteq Nat /\ LoopbackAddresses \subseteq HostAddresses \ {0}
  /\ NoPort # NotANumber

VARIABLES
  addrmaps,             \* as declared, and once resolved as [from, to]
  declared_maps         \* history: the mappings on the command line

mapVars == <<addrmaps, declared_maps>>

Endpoint4(host, port) == [host |-> host, port |-> port]
Ports == 0 .. USHORT_RANGE - 1

\* What stands on each side of "=": a host, and a port as strtol reads it.
IsName(name) ==
  /\ name = [host |-> name.host, port |-> name.port]
  /\ name.port \in Int \cup {NoPort, NotANumber}

\* Sv_AddAddressMapping: a parameter without "=" is refused, another one goes on
\* top of the list.
MapOption(o) ==
  /\ status = "parsing"
  /\ o.option = "map"
  /\ Len(addrmaps) < MaxMappings
  /\ IF o.equals
       THEN /\ addrmaps' = Cons(o.mapping, addrmaps)
            /\ declared_maps' = declared_maps \cup {o.mapping}
            /\ UNCHANGED status
       ELSE Refused /\ UNCHANGED mapVars

\* Sv_ResolveIPv4Addr: a name is [host, port]; the port is cast to an unsigned
\* short before it is compared with 0.
Resolves(name) ==
  /\ name.host \in HostAddresses
  /\ \/ name.port = NoPort
     \/ name.port # NotANumber /\ name.port % USHORT_RANGE # 0

Sv_ResolveIPv4Addr(name) ==
  Endpoint4(name.host, IF name.port = NoPort THEN 0 ELSE name.port % USHORT_RANGE)

Allowed(map) ==
  /\ Resolves(map.from) /\ Resolves(map.to)
  /\ map.from.host # 0 /\ map.to.host # 0
  /\ map.to.host \notin LoopbackAddresses

Sv_ResolveAddrmap(map) ==
  [from |-> Sv_ResolveIPv4Addr(map.from), to |-> Sv_ResolveIPv4Addr(map.to)]

\* Mutant: the ports of a host are not looked at.
Mutant_NotBefore(map, address) == map.from.host >= address.host
\* Where the walks through the sorted list stop.
NotBefore(map, address) ==
  \/ map.from.host > address.host
  \/ map.from.host = address.host /\ map.from.port >= address.port

Stop(list, address) == SelectInSeq(list, LAMBDA map : NotBefore(map, address))

\* A second mapping for an address makes the whole resolution fail.
Duplicate(list, map) ==
  LET i == Stop(list, map.from) IN i # 0 /\ list[i].from = map.from

Sv_InsertAddrmapIntoList(list, map) ==
  LET i == Stop(list, map.from)
  IN  IF i = 0 THEN Append(list, map) ELSE InsertAt(list, i, map)

\* Sv_ResolveAddressMappings: the list and whether it could be built.
Sv_ResolveAddressMappings ==
  IF \A i \in DOMAIN addrmaps : Allowed(addrmaps[i])
    THEN FoldLeft(LAMBDA r, map : LET m == Sv_ResolveAddrmap(map)
                                  IN  IF ~ r.ok \/ Duplicate(r.list, m) THEN [r EXCEPT !.ok = FALSE]
                                      ELSE [r EXCEPT !.list = Sv_InsertAddrmapIntoList(@, m)],
                  [ok |-> TRUE, list |-> <<>>], addrmaps)
    ELSE [ok |-> FALSE, list |-> <<>>]

\* The mapping of an address, as a sequence of at most one: the exact one, or
\* the last one of its host that was passed on the way.
Sv_GetAddrmap(address) ==
  LET i == Stop(addrmaps, address)
      passed_by == IF i = 0 THEN addrmaps ELSE SubSeq(addrmaps, 1, i - 1)
      found == SelectLastInSeq(passed_by, LAMBDA map : map.from = Endpoint4(address.host, 0))
  IN  IF i # 0 /\ addrmaps[i].from = address THEN <<addrmaps[i]>>
      ELSE IF found # 0 THEN <<passed_by[found]>> ELSE <<>>

\* Sv_GetByAddr looks for a mapping only when loopback addresses are not allowed.
MappingOf(address) ==
  IF "allow-loopback" \in flags THEN <<>> ELSE Sv_GetAddrmap(address)

\* The address that HandleGetServers puts in its packets for a server.
Transmitted(address) ==
  LET map == MappingOf(address)
  IN  IF map = <<>> THEN address
      ELSE Endpoint4(map[1].to.host,
                     IF map[1].to.port # 0 THEN map[1].to.port ELSE address.port)

\* A server on a loopback address needs a mapping.
MayRegister(address) ==
  \/ "allow-loopback" \in flags
  \/ address.host \notin LoopbackAddresses
  \/ MappingOf(address) # <<>>

MapsInit ==
  /\ addrmaps = <<>>
  /\ declared_maps = {}

----------------------------------------------------------------------------
\* Servers are transmitted as doc/manual.txt:320-353 says of the command line:
\* a mapping with a port applies to that endpoint only, and before the one of
\* its host; a port is replaced only by a mapping to a port; a loopback address
\* needs a mapping.  The order of the declarations does not matter.  (With
\* --allow-loopback the master ignores its mappings.)
DocumentedMaps(address) ==
  LET named(port) == {map \in declared_maps : /\ map.from.host = address.host
                                              /\ map.from.port # NoPort
                                              /\ map.from.port % USHORT_RANGE = port}
      hostwide    == {map \in declared_maps : map.from = [host |-> address.host, port |-> NoPort]}
  IN  IF named(address.port) # {} THEN named(address.port) ELSE hostwide

DocumentedAddress(address, map) ==
  Endpoint4(map.to.host, IF map.to.port = NoPort THEN address.port ELSE map.to.port % USHORT_RANGE)

MappingsAreFollowed ==
  status = "running" /\ "allow-loopback" \notin flags =>
    \A host \in HostAddresses \ {0}, port \in Ports \ {0} :
      LET address == Endpoint4(host, port)
          maps    == DocumentedMaps(address)
      IN  IF maps = {} THEN /\ Transmitted(address) = address
                            /\ MayRegister(address) = (host \notin LoopbackAddresses)
          ELSE /\ MayRegister(address)
               /\ \A map \in maps : Transmitted(address) = DocumentedAddress(address, map)
=============================================================================
