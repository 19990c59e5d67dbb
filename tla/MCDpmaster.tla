----------------------------- MODULE MCDpmaster -----------------------------
(***************************************************************************)
(* A small instance of Dpmaster, in five scenarios: the options on games   *)
(* (four names, one of them unusable, three protocols, all the operators   *)
(* on each kind of property), the numbers and flags, the mappings, the     *)
(* listening sockets, and the log with its signals.                        *)
(***************************************************************************)
EXTENDS Dpmaster, TLC

CONSTANTS Hello, SendEmpty, Unreadable, Unknown

Update(prop, op, values) == [prop |-> prop, op |-> op, values |-> values]
Operators == {"=", "+=", "-="}

MCBuiltIn ==
  <<[game |-> 3, updates |-> <<Update("protocols", "=", <<3, 1>>)>>],
    [game |-> 1, updates |-> <<Update("protocols", "=", <<2>>),
                               Update("heartbeat", "=", <<Hello>>)>>]>>

ProtocolLists == {<<>>, <<1>>, <<2>>, <<3>>, <<2, 1>>, <<3, 2>>, <<1, Unreadable>>}

Updates ==
  {Update("protocols", op, values) : op \in Operators, values \in ProtocolLists}
    \cup {Update("options", op, <<v>>) : op \in Operators, v \in {SendEmpty, Unreadable}}
    \cup {Update(prop, op, <<tag>>) : prop \in {"heartbeat", "flatline"}, op \in Operators,
                                      tag \in {Hello, DarkPlaces}}
    \cup {Update("unknown", "=", <<>>), Update("unknown", "+=", <<Unreadable>>)}

PropertyOption(attached, game, updates) ==
  [option |-> "game-properties", attached |-> attached, game |-> game, updates |-> updates]

PropertyOptions ==
  {PropertyOption(FALSE, game, updates) :
     game \in {1, 3, 4},
     updates \in {<<>>, <<Update("protocols", "-=", <<2>>), Update("protocols", "+=", <<3>>)>>}
                   \cup {<<u>> : u \in Updates}}
    \cup {PropertyOption(TRUE, 1, updates) : updates \in {<<>>, <<Update("protocols", "=", <<3>>)>>}}

PolicyOptions ==
  {[option |-> "game-policy", attached |-> FALSE, policy |-> policy, games |-> games] :
     policy \in {"accept", "reject", "other"},
     games \in {<<2>>, <<2, 1>>, <<3, 3>>}}
    \cup {[option |-> "game-policy", attached |-> TRUE, policy |-> "accept", games |-> <<1>>]}

----------------------------------------------------------------------------
Settings(option, numbers) == {[option |-> option, number |-> n] : n \in numbers}
Flags(options) == {[option |-> option] : option \in options}

MCDefaultSettings ==
  [option \in NumericOptions |->
     CASE option = "fp-throttle" -> 3 [] option = "verbose" -> 3
       [] option = "port" -> 1 [] OTHER -> 2]

\* Around 0, around the ranges of the types, and not a number.
LimitOptions ==
  Settings("max-clients", {-1, 0, 1, UINT_RANGE, NotANumber})
    \cup Settings("max-servers", {-1, 0, UINT_RANGE + 1})
    \cup Settings("max-servers-per-addr", {-1, 0})
    \cup Settings("fp-decay-time", {1 - UINT_RANGE, UINT_RANGE})
    \cup Settings("fp-throttle", {1, 2, -1})
    \cup Settings("hash-size", {0, MAX_HASH_SIZE, MAX_HASH_SIZE + 1, -1})
    \cup Settings("cl-hash-size", {MAX_HASH_SIZE, -1})
    \cup Settings("port", {USHORT_RANGE, USHORT_RANGE + 1})
    \cup Settings("verbose", {0, MSG_DEBUG, MSG_DEBUG + 1})
    \cup Flags({"flood-protection", "hash-ports", "daemon"})

Name(host, port) == [host |-> host, port |-> port]
Map(from, to) == [option |-> "map", equals |-> TRUE, mapping |-> [from |-> from, to |-> to]]

\* Hosts: 0 is 0.0.0.0, 3 is a loopback address, Unknown does not resolve.
MapOptions ==
  {Map(Name(host, port), to) :
     host \in {1, 3}, port \in {NoPort, 1, 2}, to \in {Name(2, NoPort), Name(1, 3)}}
    \cup {Map(Name(2, 1 - USHORT_RANGE), Name(1, NoPort)), Map(Name(2, 2), Name(2, USHORT_RANGE)),
          Map(Name(2, NotANumber), Name(1, NoPort)), Map(Name(0, 1), Name(1, NoPort)),
          Map(Name(1, 3), Name(0, NoPort)), Map(Name(1, NoPort), Name(3, 1)),
          Map(Name(Unknown, NoPort), Name(1, NoPort)), [option |-> "map", equals |-> FALSE]}
    \cup Flags({"allow-loopback"})

Listen(readable, family, host, port) ==
  [option |-> "listen", empty |-> FALSE,
   name |-> [readable |-> readable, family |-> family, host |-> host, port |-> port]]

ListenOptions ==
  {Listen(TRUE, family, host, port) :
     family \in Families, host \in {1, AnyHost}, port \in {MasterPort, 2}}
    \cup {Listen(FALSE, "IPv4", 1, MasterPort), [option |-> "listen", empty |-> TRUE]}
    \cup Settings("port", {3})

LogOptions == Flags({"log"})

MCScenarios == {"games", "limits", "mappings", "sockets", "log"}
MCOptions ==
  [s \in MCScenarios |->
     CASE s = "games" -> PropertyOptions \cup PolicyOptions
       [] s = "limits" -> LimitOptions
       [] s = "mappings" -> MapOptions
       [] s = "sockets" -> ListenOptions
       [] s = "log" -> LogOptions]
MCHostFamilies ==
  [s \in MCScenarios |-> IF s = "sockets" THEN SUBSET Families ELSE {Families}]
=============================================================================
