----------------------------- MODULE ServerQuery -----------------------------
(***************************************************************************)
(* The answer to a getservers or getserversExt request (HandleGetServers   *)
(* of src/src/messages.c): the loop over the servers, the choice of a game *)
(* for a client that does not name one, the filters, and the packets.      *)
(*                                                                         *)
(* The servers come in the order of Sv_GetFirst and Sv_GetNext, which      *)
(* starts anywhere and which ServerTable models: any sequence of distinct  *)
(* servers here.  The request has been parsed into fields; one whose game  *)
(* or protocol cannot be read is answered by nothing.                      *)
(***************************************************************************)
EXTENDS Integers, FiniteSets, SequencesExt

CONSTANTS
  Servers,
  Server,               \* their entries
  Requests,
  Names,                \* game names
  NoName,               \* an empty game name
  AnyType,              \* no game type asked for
  Protocols,
  NameOf,               \* Game_GetNameByProtocol, NoName for most protocols
  Options,              \* Game_GetOptions: what each game's clients always get
  Accepted,             \* the games the policy accepts
  MaxVisited,           \* bound on the number of servers
  MAX_PACKET_SIZE_OUT,
  HeaderSize

States == {"uninitialized", "empty", "occupied", "full"}
Entries ==
  [state : States, protocol : Protocols, game : Names, anon : BOOLEAN,
   family : {"ipv4", "ipv6"}, gametype : STRING]

\* A separator, the address and the port.  The end mark looks like an IPv4 record.
RecordSize(family) == IF family = "ipv4" THEN 7 ELSE 19
EOTSize == 7

\* A request names a game, or only a protocol; an extended one always names it.
\* HandleInfoResponse registers accepted games only, so that the loop's own test
\* of the name it has taken from a server never fails.
ASSUME QueryAssumption ==
  /\ NoName \notin Names
  /\ NameOf \in [Protocols -> Names \cup {NoName}]
  /\ Options \in [Names -> SUBSET {"empty", "full"}]
  /\ \A s \in Servers : Server[s] \in Entries /\ Server[s].game \in Accepted
  /\ \A r \in Requests : /\ r.protocol \in Protocols /\ r.game \in Names \cup {NoName}
                         /\ r.extended => r.game # NoName
  /\ MaxVisited \in Nat
  /\ {HeaderSize, MAX_PACKET_SIZE_OUT} \subseteq Nat
  /\ HeaderSize + RecordSize("ipv6") <= MAX_PACKET_SIZE_OUT

VARIABLES
  request,
  visited,              \* the servers of the iteration
  next,                 \* the index of the one that comes next
  gamename,             \* the game to look for, NoName while unknown
  packet,               \* the servers of the packet that is being filled
  sent,                 \* the packets sent: their servers, and the EOT mark
  status                \* "parsing", "running", "answered" or "rejected"

vars == <<request, visited, next, gamename, packet, sent, status>>

----------------------------------------------------------------------------
(* The request.                                                            *)

Named(r) == IF r.game # NoName THEN r.game ELSE NameOf[r.protocol]

\* The options of the game are applied before those of the request.
Wanted(r, state) ==
  \/ state \notin {"empty", "full"}
  \/ state \in r.options
  \/ Named(r) \in Names /\ state \in Options[Named(r)]

\* A plain request gets IPv4 whatever it asks; an extended one that asks for no
\* family gets both.
Families(r) ==
  LET asked == r.options \cap {"ipv4", "ipv6"}
  IN  CASE ~ r.extended -> {"ipv4"}
        [] r.extended /\ asked = {} -> {"ipv4", "ipv6"}
        [] OTHER -> asked

Parse ==
  /\ status = "parsing"
  /\ gamename' = Named(request)
  /\ status' = IF gamename' = NoName \/ gamename' \in Accepted THEN "running" ELSE "rejected"
  /\ UNCHANGED <<request, visited, next, packet, sent>>

----------------------------------------------------------------------------
(* The loop.                                                               *)

\* Mutant: servers that have not been validated are not skipped.
Mutant_Comparable(s) == Server[s].protocol = request.protocol
Comparable(s) == Server[s].state # "uninitialized" /\ Server[s].protocol = request.protocol

\* Mutant: only a server that would be sent can lend its name.
Mutant_Lends(s) == Comparable(s) /\ Server[s].anon /\ Wanted(request, Server[s].state)

\* An unknown game is that of the first server of the protocol that does not use
\* the DarkPlaces protocol, even if the filters leave this one out.
Lends(s) == Comparable(s) /\ Server[s].anon

\* Mutant: an unknown game matches any.
Mutant_PassesFor(s, game) ==
  /\ Comparable(s)
  /\ Wanted(request, Server[s].state)
  /\ Server[s].family \in Families(request)
  /\ request.gametype \in {AnyType, Server[s].gametype}
  /\ game \in {NoName, Server[s].game}

PassesFor(s, game) ==
  /\ Comparable(s)
  /\ Wanted(request, Server[s].state)
  /\ Server[s].family \in Families(request)
  /\ request.gametype \in {AnyType, Server[s].gametype}
  /\ Server[s].game = game

SizeOf(s) == RecordSize(Server[s].family)

\* The servers are put one after the other behind the header.
Records(packed, family) == {i \in DOMAIN packed : Server[packed[i]].family = family}
SizeOfAll(packed) ==
  HeaderSize + RecordSize("ipv4") * Cardinality(Records(packed, "ipv4"))
             + RecordSize("ipv6") * Cardinality(Records(packed, "ipv6"))

\* Mutant: the packet is full a byte later than it is.
Mutant_HasRoom(size) == SizeOfAll(packet) + size <= MAX_PACKET_SIZE_OUT + 1
HasRoom(size) == SizeOfAll(packet) + size <= MAX_PACKET_SIZE_OUT

Sending(packed) == Append(sent, [servers |-> packed, eot |-> FALSE])

\* Mutant: the packet is sent but not emptied.
Mutant_Put(s) ==
  /\ packet' = Append(packet, s)
  /\ sent' = IF HasRoom(SizeOf(s)) THEN sent ELSE Sending(packet)

\* The server goes into the packet, or into the next one.
Put(s) ==
  IF HasRoom(SizeOf(s))
    THEN packet' = Append(packet, s) /\ UNCHANGED sent
    ELSE packet' = <<s>> /\ sent' = Sending(packet)

Visit ==
  /\ status = "running"
  /\ next <= Len(visited)
  /\ LET s == visited[next]
     IN  /\ gamename' = IF gamename = NoName /\ Lends(s) THEN Server[s].game ELSE gamename
         /\ IF PassesFor(s, gamename') THEN Put(s) ELSE UNCHANGED <<packet, sent>>
  /\ next' = next + 1
  /\ UNCHANGED <<request, visited, status>>

\* Mutant: the mark is put into the last packet without looking at its size.
Mutant_Finish ==
  /\ status = "running"
  /\ next > Len(visited)
  /\ sent' = Append(sent, [servers |-> packet, eot |-> TRUE])
  /\ packet' = <<>>
  /\ status' = "answered"
  /\ UNCHANGED <<request, visited, next, gamename>>

\* The end of transmission, in a packet of its own when the last one is full.
Finish ==
  /\ status = "running"
  /\ next > Len(visited)
  /\ sent' = IF HasRoom(EOTSize)
               THEN Append(sent, [servers |-> packet, eot |-> TRUE])
               ELSE Append(Sending(packet), [servers |-> <<>>, eot |-> TRUE])
  /\ packet' = <<>>
  /\ status' = "answered"
  /\ UNCHANGED <<request, visited, next, gamename>>

Iterations == {v \in SeqOf(Servers, MaxVisited) : IsInjective(v)}

Init ==
  /\ request \in Requests
  /\ visited \in Iterations
  /\ next = 1
  /\ gamename = NoName
  /\ packet = <<>>
  /\ sent = <<>>
  /\ status = "parsing"

Next == Parse \/ Visit \/ Finish

Spec == Init /\ [][Next]_vars

----------------------------------------------------------------------------
(* Properties.                                                             *)

\* The variables have their types, and the packet never outgrows its buffer.
TypeOK ==
  /\ request \in Requests
  /\ visited \in Iterations
  /\ next \in 1 .. MaxVisited + 1
  /\ gamename \in Names \cup {NoName}
  /\ packet \in SeqOf(Servers, MaxVisited) /\ SizeOfAll(packet) <= MAX_PACKET_SIZE_OUT
  /\ sent \in Seq([servers : SeqOf(Servers, MaxVisited), eot : BOOLEAN])
  /\ status \in {"parsing", "running", "answered", "rejected"}

IsAnswered == status = "answered"

\* The servers of the reply, however they are packed; and that each of them comes
\* once, in the order of the iteration.
Reply == UNION {ToSet(sent[i].servers) : i \in DOMAIN sent}

ComesBefore(s, t) ==
  \E m, n \in DOMAIN visited : m < n /\ visited[m] = s /\ visited[n] = t

InOrder ==
  \A i, j \in DOMAIN sent :
    \A k \in DOMAIN sent[i].servers, l \in DOMAIN sent[j].servers :
      i < j \/ (i = j /\ k < l) => ComesBefore(sent[i].servers[k], sent[j].servers[l])

\* A reply is cut into packets that fit in their buffer and are as full as they
\* can be, and only the last carries the end mark, by which the client knows
\* that it has the whole list: nothing is sent empty but a lone mark.
PacketSize(p) == SizeOfAll(p.servers) + IF p.eot THEN EOTSize ELSE 0
Following(i) == IF sent[i + 1].servers = <<>> THEN EOTSize ELSE SizeOf(Head(sent[i + 1].servers))

PacketsAreFull ==
  IsAnswered =>
    \A i \in DOMAIN sent :
      /\ PacketSize(sent[i]) <= MAX_PACKET_SIZE_OUT
      /\ sent[i].eot <=> i = Len(sent)
      /\ i < Len(sent) => /\ sent[i].servers # <<>>
                          /\ PacketSize(sent[i]) + Following(i) > MAX_PACKET_SIZE_OUT

\* A server that has not answered a challenge is never shown, nor does it lend
\* its name (doc/techinfo.txt:391).
Validated(s) == Server[s].state # "uninitialized"

\* A client whose game is known gets exactly the servers that fit its request,
\* each once and in the order of the iteration, however they are packed.
KnownGameGetsAll ==
  IsAnswered /\ Named(request) # NoName =>
    /\ Reply = {s \in ToSet(visited) : Validated(s) /\ PassesFor(s, Named(request))}
    /\ InOrder

\* The server that lends its name to a request without one (messages.c:599-607):
\* the first of the iteration that has been validated, has the protocol of the
\* request and does not use the DarkPlaces protocol, whatever the filters.
MayLend(s) == Validated(s) /\ Server[s].protocol = request.protocol /\ Server[s].anon
IsLender(m) == MayLend(visited[m]) /\ \A j \in 1 .. m - 1 : ~ MayLend(visited[j])

\* A client whose game is not known gets exactly the servers that fit its request
\* and have the lender's game, from the lender on, and nothing without a lender.
\* Servers of that game that come before the lender, which use the DarkPlaces
\* protocol, are missed: doc/manual.txt:207-210 says without reserve that the
\* lender's game name is used "as the request's game name".
UnknownGameGetsOne ==
  IsAnswered /\ Named(request) = NoName =>
    /\ \A m \in DOMAIN visited : IsLender(m) =>
         Reply = {visited[n] : n \in {k \in m .. Len(visited) :
                    Validated(visited[k]) /\ PassesFor(visited[k], Server[visited[m]].game)}}
    /\ (\A m \in DOMAIN visited : ~ MayLend(visited[m])) => Reply = {}
    /\ InOrder
=============================================================================
