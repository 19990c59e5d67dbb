---------------------------- MODULE ServerTable ----------------------------
(***************************************************************************)
(* The server list of the master (src/src/servers.c): a fixed array of     *)
(* slots, two cursors that speed up allocation, a hash table of chains, a  *)
(* quota per public address and lazy expiry, as the message handlers of    *)
(* src/src/messages.c drive it.                                            *)
(*                                                                         *)
(* The process is single-threaded: one handler runs to its end for each    *)
(* datagram, so an action is a whole handler, with every expired entry it  *)
(* removes on its way.  The table is one record, and the functions of      *)
(* servers.c are operators from a table to a table.                        *)
(*                                                                         *)
(* Abstractions.  An address stands for an IP address with its port;       *)
(* PublicOf gives what the quota groups by (the IPv4 address, the /64 of   *)
(* an IPv6 one) and BucketOf the hash.  The states empty, occupied and     *)
(* full are one value, "validated": servers.c treats them alike.  The      *)
(* loops are given by what they compute; ServerTableLoops runs them step   *)
(* by step against the definitions used here.                              *)
(***************************************************************************)
EXTENDS Integers, FiniteSets, FiniteSetsExt

CONSTANTS
  Addresses,            \* endpoints that talk to the master
  NoAddress,            \* the address field of a free slot
  PublicOf,             \* the part of an address the quota groups by
  BucketOf,             \* Com_AddressHash
  Unmapped,             \* loopback endpoints without an address mapping
  max_nb_servers,
  max_per_address,      \* 0 means there is no limit
  TIMEOUT_HEARTBEAT,
  TIMEOUT_INFORESPONSE,
  MaxTime               \* bound on the clock

\* dpmaster.c refuses an empty server list (Sv_SetMaxNbServers).
ASSUME SizeAssumption == max_nb_servers \in Nat \ {0} /\ max_per_address \in Nat
ASSUME TimeAssumption ==
  /\ TIMEOUT_HEARTBEAT \in Nat
  /\ TIMEOUT_INFORESPONSE \in Nat
  /\ MaxTime \in Nat
\* Endpoints of one public address share a bucket: the hash ignores the port
\* and the low half of an IPv6 address, unless the debugging option
\* --hash-ports is given, which dpmaster.c:125 documents to break the quota.
ASSUME HashAssumption ==
  /\ NoAddress \notin Addresses
  /\ Unmapped \subseteq Addresses
  /\ DOMAIN PublicOf = Addresses
  /\ DOMAIN BucketOf = Addresses
  /\ \A a, b \in Addresses : PublicOf[a] = PublicOf[b] => BucketOf[a] = BucketOf[b]

VARIABLES
  table,                \* the static variables of servers.c
  crt_time,             \* the clock read once per turn of the main loop
  up,                   \* FALSE once the process has been killed by a signal
  listed                \* the endpoints the getservers just handled may be sent

vars == <<table, crt_time, up, listed>>

Slots   == 0 .. max_nb_servers - 1
Buckets == {BucketOf[a] : a \in Addresses}
Clock   == 0 .. MaxTime
Deadlines == 0 .. MaxTime + TIMEOUT_HEARTBEAT + TIMEOUT_INFORESPONSE

FreeSlot == [state |-> "unused", address |-> NoAddress, timeout |-> 0]

Servers ==
  {FreeSlot} \cup
    [state : {"uninitialized", "validated"}, address : Addresses, timeout : Deadlines]

\* servers[], the counters and cursors, and the hash table: chain[b] holds the
\* slots linked in bucket b, and <<i, j>> \in ahead says that i comes before j
\* in the chain they share.
Tables ==
  [servers         : [Slots -> Servers],
   nb_servers      : Int,
   last_used_slot  : Slots \cup {-1},
   first_free_slot : Slots \cup {-1},
   chain           : [Buckets -> SUBSET Slots],
   ahead           : SUBSET (Slots \X Slots)]

EmptyTable ==
  [servers         |-> [i \in Slots |-> FreeSlot],
   nb_servers      |-> 0,
   last_used_slot  |-> -1,
   first_free_slot |-> 0,
   chain           |-> [b \in Buckets |-> {}],
   ahead           |-> {}]

----------------------------------------------------------------------------
(* The functions of servers.c.                                             *)

UsedSlots(t) == {i \in Slots : t.servers[i].state # "unused"}

\* Wrong versions of definitions, here and below, are marked "Mutant".  This one
\* drops an entry in the second of its deadline.
Mutant_Expired(t, i, now) == i \in UsedSlots(t) /\ t.servers[i].timeout <= now

\* What Sv_IsActive answers, and when it removes the entry instead.
Active(t, i, now)  == i \in UsedSlots(t) /\ t.servers[i].timeout >= now
Expired(t, i, now) == i \in UsedSlots(t) /\ t.servers[i].timeout < now

\* Mutant: first_free_slot is overwritten by each removal, not lowered.
Mutant_RemoveCursor(t, S) ==
  [servers         |-> [i \in Slots |-> IF i \in S THEN FreeSlot ELSE t.servers[i]],
   nb_servers      |-> t.nb_servers - Cardinality(S),
   last_used_slot  |-> IF t.last_used_slot \in S
                         THEN Max({-1} \cup {i \in UsedSlots(t) \ S : i < t.last_used_slot})
                         ELSE t.last_used_slot,
   first_free_slot |-> IF S = {} THEN t.first_free_slot ELSE Max(S),
   chain           |-> [b \in Buckets |-> t.chain[b] \ S],
   ahead           |-> t.ahead \cap ((Slots \ S) \X (Slots \ S))]

\* One Sv_Remove per slot of S, in any order.
Sv_RemoveAll(t, S) ==
  [servers         |-> [i \in Slots |-> IF i \in S THEN FreeSlot ELSE t.servers[i]],
   nb_servers      |-> t.nb_servers - Cardinality(S),
   last_used_slot  |-> IF t.last_used_slot \in S
                         THEN Max({-1} \cup {i \in UsedSlots(t) \ S : i < t.last_used_slot})
                         ELSE t.last_used_slot,
   first_free_slot |-> IF S = {}
                         THEN t.first_free_slot
                         ELSE Min(S \cup ({t.first_free_slot} \ {-1})),
   chain           |-> [b \in Buckets |-> t.chain[b] \ S],
   ahead           |-> t.ahead \cap ((Slots \ S) \X (Slots \ S))]

\* Com_UserHashTable_Add: the new entry becomes the head of its chain.
LinkFirst(t, i, b) ==
  [t EXCEPT !.chain[b] = @ \cup {i}, !.ahead = @ \cup ({i} \X t.chain[b])]

\* Mutant: the removal is forgotten, the entry stays behind others as well.
Mutant_MoveToTop(t, i, b) == LinkFirst(t, i, b)

\* Com_UserHashTable_Remove, then Com_UserHashTable_Add.
MoveToTop(t, i, b) ==
  LinkFirst([t EXCEPT !.chain[b] = @ \ {i},
                      !.ahead = @ \cap ((Slots \ {i}) \X (Slots \ {i}))], i, b)

\* Mutant: the match is strict where Sv_IsActive is not.
Mutant_Matches(t, a, now) ==
  {i \in t.chain[BucketOf[a]] :
     Active(t, i, now) /\ t.servers[i].timeout > now /\ t.servers[i].address = a}

\* The active entries of a's chain whose address is a, and the first of them.
Matches(t, a, now) ==
  {i \in t.chain[BucketOf[a]] : Active(t, i, now) /\ t.servers[i].address = a}

FoundSlot(t, a, now) ==
  CHOOSE i \in Matches(t, a, now) :
    \A j \in Matches(t, a, now) \ {i} : <<i, j>> \in t.ahead

\* Mutant: the walk goes on after the entry it found.
Mutant_Walked(t, a, now) == t.chain[BucketOf[a]]

\* The walk stops at the entry it finds; without one it reaches the end.
Walked(t, a, now) ==
  {i \in t.chain[BucketOf[a]] :
     Matches(t, a, now) # {} => <<i, FoundSlot(t, a, now)>> \in t.ahead}

Sv_GetByAddr_Internal(t, a, now) ==
  LET left == Sv_RemoveAll(t, {i \in Walked(t, a, now) : Expired(t, i, now)})
  IN  IF Matches(t, a, now) = {}
        THEN left
        ELSE MoveToTop(left, FoundSlot(t, a, now), BucketOf[a])

\* nb_same_address after a walk that found nothing.
SameAddressFound(t, a, now) ==
  Cardinality({i \in t.chain[BucketOf[a]] :
                 /\ Active(t, i, now)
                 /\ PublicOf[t.servers[i].address] = PublicOf[a]})

\* Mutant: the last used slot is not looked at.
Mutant_CheckTimeouts(t, now) ==
  Sv_RemoveAll(t, {i \in 0 .. t.last_used_slot - 1 : Expired(t, i, now)})

Sv_CheckTimeouts(t, now) ==
  Sv_RemoveAll(t, {i \in 0 .. t.last_used_slot : Expired(t, i, now)})

\* Mutant: the look-up of the next free slot takes expired entries for live ones.
Mutant_NextFree(t, i, now) == {j \in Slots : j > i /\ j \notin UsedSlots(t)}

\* The tail of Sv_GetByAddr: take first_free_slot, look for the next free slot
\* (the look-up removes at most one entry, the expired one it stops at, while
\* the slot just taken is still marked unused), then fill the slot in.
NextFree(t, i, now) == {j \in Slots : j > i /\ ~ Active(t, j, now)}

\* Mutant: without a free slot left, first_free_slot keeps the loop's last index.
Mutant_TakeIndex(t, a, now) ==
  LET new    == t.first_free_slot
      server == [state |-> "uninitialized", address |-> a,
                 timeout |-> now + TIMEOUT_HEARTBEAT]
  IN  LinkFirst([t EXCEPT !.servers[new] = server, !.nb_servers = @ + 1,
                          !.last_used_slot = IF @ < new THEN new ELSE @,
                          !.first_free_slot = Min(NextFree(t, new, now) \cup {max_nb_servers})],
                new, BucketOf[a])

\* Mutant: last_used_slot does not follow the slot taken.
Mutant_TakeNoCursor(t, a, now) ==
  LET new    == t.first_free_slot
      free   == {j \in Slots : j > new /\ j \notin UsedSlots(t)}
      server == [state |-> "uninitialized", address |-> a,
                 timeout |-> now + TIMEOUT_HEARTBEAT]
  IN  LinkFirst([t EXCEPT !.servers[new] = server, !.nb_servers = @ + 1,
                          !.last_used_slot = IF @ = -1 THEN new ELSE @,
                          !.first_free_slot = IF free = {} THEN -1 ELSE Min(free)],
                new, BucketOf[a])

Sv_TakeFreeSlot(t, a, now) ==
  LET new     == t.first_free_slot
      free    == NextFree(t, new, now)
      claimed == [t EXCEPT !.last_used_slot = IF @ < new THEN new ELSE @,
                           !.first_free_slot = -1]
      scanned == IF free = {}
                   THEN claimed
                   ELSE [Sv_RemoveAll(claimed, {Min(free)} \cap UsedSlots(t))
                           EXCEPT !.first_free_slot = Min(free)]
      server  == [state |-> "uninitialized", address |-> a,
                  timeout |-> now + TIMEOUT_HEARTBEAT]
  IN  LinkFirst([scanned EXCEPT !.servers[new] = server, !.nb_servers = @ + 1],
                new, BucketOf[a])

\* The slots Sv_GetFirst and Sv_GetNext visit from the random start k: from k
\* up to the last used slot, then from 0 up to k - 1.  When nothing is active
\* from k on, the removals pull both iteration cursors back to the same slot,
\* below k, and the iteration ends there.
\* (Mutant: the iteration always wraps around.)
Mutant_AlwaysWrap(t, k, now) == 0 .. t.last_used_slot

Visited(t, k, now) ==
  IF k > 0 /\ \A i \in k .. t.last_used_slot : ~ Active(t, i, now)
    THEN k .. t.last_used_slot
    ELSE 0 .. t.last_used_slot

Sv_Browse(t, k, now) ==
  Sv_RemoveAll(t, {i \in Visited(t, k, now) : Expired(t, i, now)})

\* Mutant: a server that has not answered its challenge yet is offered too.
Mutant_Browsed(t, k, now) ==
  {t.servers[i].address : i \in {j \in Visited(t, k, now) : Active(t, j, now)}}

\* Of the active servers it meets, the reply offers the validated ones.
Browsed(t, k, now) ==
  {t.servers[i].address :
     i \in {j \in Visited(t, k, now) :
              Active(t, j, now) /\ t.servers[j].state = "validated"}}

----------------------------------------------------------------------------
(* The handlers.                                                           *)

\* Mutant: a heartbeat is taken as a sign of life.
Mutant_HeartbeatKnown(a) ==
  /\ up
  /\ Matches(table, a, crt_time) # {}
  /\ table' = [Sv_GetByAddr_Internal(table, a, crt_time)
                 EXCEPT !.servers[FoundSlot(table, a, crt_time)].timeout =
                   crt_time + TIMEOUT_HEARTBEAT]
  /\ listed' = {}
  /\ UNCHANGED <<crt_time, up>>

\* A heartbeat of an accepted game, from an endpoint that has an entry.
HeartbeatKnown(a) ==
  /\ up
  /\ Matches(table, a, crt_time) # {}
  /\ table' = Sv_GetByAddr_Internal(table, a, crt_time)
  /\ listed' = {}
  /\ UNCHANGED <<crt_time, up>>

\* Mutant: the quota is checked after the entry that would exceed it.
Mutant_OverQuota(a) ==
  max_per_address # 0 /\ SameAddressFound(table, a, crt_time) > max_per_address

OverQuota(a) ==
  max_per_address # 0 /\ SameAddressFound(table, a, crt_time) >= max_per_address

\* ... from a new endpoint that its quota or the loopback rule keeps out.
HeartbeatRefused(a) ==
  /\ up
  /\ Matches(table, a, crt_time) = {}
  /\ OverQuota(a) \/ a \in Unmapped
  /\ table' = Sv_GetByAddr_Internal(table, a, crt_time)
  /\ listed' = {}
  /\ UNCHANGED <<crt_time, up>>

\* Mutant: the list is not swept.
Mutant_MakeRoom(t, now) == t

\* A full list is swept before it turns a server away.
MakeRoom(t, now) ==
  IF t.nb_servers = max_nb_servers THEN Sv_CheckTimeouts(t, now) ELSE t

\* ... from a new endpoint there is no room for, or that is added.
HeartbeatNew(a) ==
  /\ up
  /\ Matches(table, a, crt_time) = {}
  /\ ~ OverQuota(a) /\ a \notin Unmapped
  /\ LET t == MakeRoom(Sv_GetByAddr_Internal(table, a, crt_time), crt_time)
     IN  \/ t.nb_servers = max_nb_servers /\ table' = t
         \/ t.nb_servers # max_nb_servers /\ table' = Sv_TakeFreeSlot(t, a, crt_time)
  /\ listed' = {}
  /\ UNCHANGED <<crt_time, up>>

\* An infoResponse that is refused: no entry, wrong challenge or bad contents.
InfoResponseRefused(a) ==
  /\ up
  /\ table' = Sv_GetByAddr_Internal(table, a, crt_time)
  /\ listed' = {}
  /\ UNCHANGED <<crt_time, up>>

\* An infoResponse that answers the challenge of its sender's entry.
InfoResponseAccepted(a) ==
  /\ up
  /\ Matches(table, a, crt_time) # {}
  /\ table' = [Sv_GetByAddr_Internal(table, a, crt_time)
                 EXCEPT !.servers[FoundSlot(table, a, crt_time)] =
                   [@ EXCEPT !.state = "validated",
                             !.timeout = crt_time + TIMEOUT_INFORESPONSE]]
  /\ listed' = {}
  /\ UNCHANGED <<crt_time, up>>

\* A getservers query: rand () picks the start k of the iteration.
GetServers(k) ==
  /\ up
  /\ table.nb_servers > 0
  /\ k \in 0 .. table.last_used_slot
  /\ table' = Sv_Browse(table, k, crt_time)
  /\ listed' = Browsed(table, k, crt_time)
  /\ UNCHANGED <<crt_time, up>>

\* rand () % (last_used_slot + 1) with last_used_slot = -1: the division traps
\* on x86, and the release build has no handler for SIGFPE.
GetServersTraps ==
  /\ up
  /\ table.nb_servers > 0
  /\ table.last_used_slot = -1
  /\ up' = FALSE
  /\ listed' = {}
  /\ UNCHANGED <<table, crt_time>>

\* The list is printed when SIGUSR1 reopens the log.
PrintServerList ==
  /\ up
  /\ table' = Sv_CheckTimeouts(table, crt_time)
  /\ listed' = {}
  /\ UNCHANGED <<crt_time, up>>

\* systemd starts the process again; without a state file the list is empty.
Restart ==
  /\ ~ up
  /\ up' = TRUE
  /\ table' = EmptyTable
  /\ listed' = {}
  /\ UNCHANGED crt_time

Tick ==
  /\ crt_time < MaxTime
  /\ crt_time' = crt_time + 1
  /\ listed' = {}
  /\ UNCHANGED <<table, up>>

Init ==
  /\ table = EmptyTable
  /\ crt_time = 0
  /\ up = TRUE
  /\ listed = {}

Next ==
  \/ \E a \in Addresses :
       \/ HeartbeatKnown(a)
       \/ HeartbeatRefused(a)
       \/ HeartbeatNew(a)
       \/ InfoResponseRefused(a)
       \/ InfoResponseAccepted(a)
  \/ \E k \in Slots : GetServers(k)
  \/ GetServersTraps
  \/ PrintServerList
  \/ Restart
  \/ Tick

Spec == Init /\ [][Next]_vars

----------------------------------------------------------------------------
(* Properties.                                                             *)

\* The variables have their types.
TypeOK ==
  /\ table \in Tables
  /\ crt_time \in Clock
  /\ up \in BOOLEAN
  /\ listed \in SUBSET Addresses

\* nb_servers counts the used slots, first_free_slot is the lowest free one
\* (-1 when the array is full) and last_used_slot is never a free slot: what
\* the assertions of Sv_GetByAddr (servers.c:764-779) take for granted.
Accounted(t) ==
  /\ t.nb_servers = Cardinality(UsedSlots(t))
  /\ \A i \in Slots : i < t.first_free_slot => i \in UsedSlots(t)
  /\ t.first_free_slot \notin UsedSlots(t)
  /\ t.first_free_slot = -1 => UsedSlots(t) = Slots
  /\ t.last_used_slot # -1 => t.last_used_slot \in UsedSlots(t)

SlotAccounting == Accounted(table)

\* A server that last_used_slot was pulled below (it is repaired while the slot
\* being taken still counts as free) always has a free slot above it: additions
\* fill it, and push last_used_slot up again, before the list can be full.
Sheltered(t) ==
  \A i \in UsedSlots(t) :
    i > t.last_used_slot => \E j \in Slots \ UsedSlots(t) : j > i

StrandedAreSheltered == Sheltered(table)

\* The sweep of a full list (servers.c:761-774) reaches every slot: when the
\* list is full, last_used_slot is the last slot of the array.
FullListIsSwept ==
  table.nb_servers = max_nb_servers => table.last_used_slot = max_nb_servers - 1

\* Each server is linked in the chain of its own address and in no other, and
\* a chain is totally ordered: a lookup walks into every server it should.
BucketOfSlot(t, i) == BucketOf[t.servers[i].address]

Linked(t) ==
  /\ \A b \in Buckets : t.chain[b] = {i \in UsedSlots(t) : BucketOfSlot(t, i) = b}
  /\ t.ahead \subseteq UsedSlots(t) \X UsedSlots(t)

Compared(t) ==
  \A i, j \in UsedSlots(t) :
    /\ <<i, j>> \in t.ahead => <<j, i>> \notin t.ahead /\ BucketOfSlot(t, i) = BucketOfSlot(t, j)
    /\ i # j /\ BucketOfSlot(t, i) = BucketOfSlot(t, j)
         => <<i, j>> \in t.ahead \/ <<j, i>> \in t.ahead

Transitive(t) ==
  \A i, j, k \in UsedSlots(t) :
    <<i, j>> \in t.ahead /\ <<j, k>> \in t.ahead => <<i, k>> \in t.ahead

Ordered(t) == Compared(t) /\ Transitive(t)

ChainsExact == Linked(table) /\ Ordered(table)

\* An endpoint never has two entries, whatever expired and came back.
Unique(t) ==
  \A i, j \in UsedSlots(t) : t.servers[i].address = t.servers[j].address => i = j

OneEntryPerAddress == Unique(table)

\* No public address holds more than max_per_address entries, expired ones
\* included (servers.c:715-723).
SlotsOfHost(t, a) == {i \in UsedSlots(t) : PublicOf[t.servers[i].address] = PublicOf[a]}

WithinQuota(t) ==
  max_per_address # 0 =>
    \A a \in Addresses : Cardinality(SlotsOfHost(t, a)) <= max_per_address

QuotaRespected == WithinQuota(table)

\* A newcomer within its quota is turned away only by a list full of live
\* servers: no expired entry survives the look-up and the sweep that make room
\* for it.  Whoever would send the next heartbeat finds it so.
Welcome(a) ==
  /\ Matches(table, a, crt_time) = {}
  /\ ~ OverQuota(a) /\ a \notin Unmapped

RefusedOnlyIfFull ==
  \A a \in Addresses :
    LET t == MakeRoom(Sv_GetByAddr_Internal(table, a, crt_time), crt_time)
    IN  Welcome(a) /\ t.nb_servers = max_nb_servers =>
          \A i \in Slots : Active(t, i, crt_time)

\* The comment at servers.c:50: last_used_slot is -1 when no slot is used, and
\* only then.
NoUsedSlotIsMinusOne == table.last_used_slot = -1 <=> UsedSlots(table) = {}

\* techinfo.txt:397: a validated server is transmitted to the appropriate
\* clients until it times out, so a query without filters is offered all of them.
ReplyOffersEveryServer ==
  [][\A k \in Slots : GetServers(k) =>
       \A i \in UsedSlots(table) :
         Active(table, i, crt_time) /\ table.servers[i].state = "validated"
           => table.servers[i].address \in listed']_vars

\* While the process lives, an entry leaves the list, or has its slot taken by
\* another one, only once its timeout is in the past.
OnlyExpiredLeave ==
  [][up /\ up' =>
       \A i \in UsedSlots(table) :
         \/ table.servers[i].timeout < crt_time
         \/ /\ table'.servers[i].address = table.servers[i].address
            /\ table'.servers[i].state # "unused"]_vars

\* A heartbeat never prolongs the life of an entry (techinfo.txt:390): the
\* deadline of an entry only moves when its endpoint's own infoResponse does it.
OnlyInfoResponseProlongs ==
  [][\A i \in UsedSlots(table) :
       (/\ table'.servers[i].address = table.servers[i].address
        /\ table'.servers[i].timeout # table.servers[i].timeout
        /\ table.servers[i].timeout >= crt_time)
       => InfoResponseAccepted(table.servers[i].address)]_vars

\* The table implements the abstract server list: its used slots, as a set of
\* entries, take only the steps Registry allows.
R == INSTANCE Registry WITH entries <- {table.servers[i] : i \in UsedSlots(table)}

ImplementsRegistry == R!Spec
=============================================================================
