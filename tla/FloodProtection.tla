-------------------------- MODULE FloodProtection --------------------------
(***************************************************************************)
(* The flood protection of src/src/clients.c: which getservers requests    *)
(* are ignored because their client has made too many (--flood-protection).*)
(*                                                                         *)
(* Clients are told apart by their public address, "host" here.  A record  *)
(* keeps the seconds since last_time, which is capped at MaxAge: nothing   *)
(* tells two longer ages apart, so the clock needs no bound.  The chains   *)
(* of the hash table are those of ServerTable and are left out: a look-up  *)
(* finds the record of a host whenever there is one.                       *)
(***************************************************************************)
EXTENDS Integers

CONSTANTS
  Hosts,                \* public addresses of clients
  NoClient,             \* a slot that has never been used
  max_nb_clients,
  fp_throttle,
  fp_decay_time

\* The command line refuses other values (Cl_SetMaxNbClients,
\* Cl_SetFPDecayTime, Cl_SetFPThrottle), except for throttle limits from 2^31
\* on, see CommandLine.
ASSUME LimitAssumption ==
  /\ max_nb_clients \in Nat \ {0}
  /\ fp_throttle \in Nat \ {0, 1}
  /\ fp_decay_time \in Nat \ {0}
ASSUME HostAssumption == NoClient \notin [host : Hosts, count : Nat, age : Nat]

VARIABLES
  clients,
  last_used_slot,
  last,                 \* history: the latest request and what became of it
  load,                 \* history: the bandwidth each host has used, see Answered
  silent                \* history: seconds since the last answer to each host

vars == <<clients, last_used_slot, last, load, silent>>

Slots  == 0 .. max_nb_clients - 1
MaxAge == fp_throttle * fp_decay_time
Ages   == 0 .. MaxAge

Records  == [host : Hosts, count : 1 .. fp_throttle - 1, age : Ages]
NoRequest == [host |-> NoClient, verdict |-> "none"]
Verdicts == {"answered", "throttled", "no room"}

\* Mutant: a record fades a second too early.
Mutant_Decay(client) ==
  LET count == client.count - (client.age + 1) \div fp_decay_time
  IN  IF count < 0 THEN 0 ELSE count

Cl_QueryThrottleDecay(client) ==
  LET count == client.count - client.age \div fp_decay_time
  IN  IF count < 0 THEN 0 ELSE count

Used(i)    == clients[i] # NoClient
RecordOf(h) == {i \in Slots : Used(i) /\ clients[i].host = h}

\* Mutant: a record that counts one request may be reused.
Mutant_Retired(i) == ~ Used(i) \/ Cl_QueryThrottleDecay(clients[i]) <= 1
\* The records that the rolling window may reuse.
Retired(i) == ~ Used(i) \/ Cl_QueryThrottleDecay(clients[i]) = 0

\* Mutant: the search does not go round the table.
Mutant_Searched(n) == last_used_slot + 1 + n
\* The slots in the order of the search, which starts after last_used_slot.
Searched(n) == (last_used_slot + 1 + n) % max_nb_clients

\* Mutant: the limit is off by one.
Mutant_IsBlocked(new_count) == new_count > fp_throttle
IsBlocked(new_count) == new_count >= fp_throttle

\* What an answer costs its host: fp_decay_time seconds of its bandwidth.
Answered(h) ==
  /\ last' = [host |-> h, verdict |-> "answered"]
  /\ load' = [load EXCEPT ![h] = @ + fp_decay_time]
  /\ silent' = [silent EXCEPT ![h] = 0]

Ignored(h, verdict) ==
  /\ last' = [host |-> h, verdict |-> verdict]
  /\ UNCHANGED <<load, silent>>

\* Mutant: a request that is ignored is counted all the same.
Mutant_Throttled(h) ==
  \E i \in RecordOf(h) :
    /\ IsBlocked(Cl_QueryThrottleDecay(clients[i]) + 1)
    /\ clients' = [clients EXCEPT ![i].age = 0]
    /\ Ignored(h, "throttled")
    /\ UNCHANGED last_used_slot

\* Cl_BlockedByThrottle, for a client whose record is found.
Throttled(h) ==
  \E i \in RecordOf(h) :
    /\ IsBlocked(Cl_QueryThrottleDecay(clients[i]) + 1)
    /\ Ignored(h, "throttled")
    /\ UNCHANGED <<clients, last_used_slot>>

NotThrottled(h) ==
  \E i \in RecordOf(h) :
    LET new_count == Cl_QueryThrottleDecay(clients[i]) + 1
    IN  /\ ~ IsBlocked(new_count)
        /\ clients' = [clients EXCEPT ![i] = [host |-> h, count |-> new_count, age |-> 0]]
        /\ Answered(h)
        /\ UNCHANGED last_used_slot

\* Cl_AddClient takes the first slot of the search it may use.
Candidates == {n \in 0 .. max_nb_clients - 1 : Searched(n) \in Slots /\ Retired(Searched(n))}

Added(h) ==
  /\ RecordOf(h) = {}
  /\ \E n \in Candidates :
       /\ \A m \in Candidates : n <= m
       /\ clients' = [clients EXCEPT ![Searched(n)] = [host |-> h, count |-> 1, age |-> 0]]
       /\ last_used_slot' = Searched(n)
  /\ Answered(h)

NotAdded(h) ==
  /\ RecordOf(h) = {}
  /\ Candidates = {}
  /\ Ignored(h, "no room")
  /\ UNCHANGED <<clients, last_used_slot>>

Older(age) == IF age < MaxAge THEN age + 1 ELSE age

\* One second on the clock.
Tick ==
  /\ clients' = [i \in Slots |-> IF Used(i) THEN [clients[i] EXCEPT !.age = Older(@)]
                                            ELSE NoClient]
  /\ last' = NoRequest
  /\ load' = [h \in Hosts |-> IF load[h] > 0 THEN load[h] - 1 ELSE 0]
  /\ silent' = [h \in Hosts |-> Older(silent[h])]
  /\ UNCHANGED last_used_slot

\* Cl_Init
Init ==
  /\ clients = [i \in Slots |-> NoClient]
  /\ last_used_slot = -1
  /\ last = NoRequest
  /\ load = [h \in Hosts |-> 0]
  /\ silent = [h \in Hosts |-> MaxAge]

Request(h) == Throttled(h) \/ NotThrottled(h) \/ Added(h) \/ NotAdded(h)

Next == (\E h \in Hosts : Request(h)) \/ Tick

Spec == Init /\ [][Next]_vars

----------------------------------------------------------------------------
(* Properties.                                                             *)

\* The variables have their types.  The stored count never reaches the
\* throttle limit, and is never 0 (the assertion of clients.c:109).
TypeOK ==
  /\ clients \in [Slots -> Records \cup {NoClient}]
  /\ last_used_slot \in -1 .. max_nb_clients - 1
  /\ last \in [host : Hosts, verdict : Verdicts] \cup {NoRequest}
  /\ load \in [Hosts -> 0 .. MaxAge]
  /\ silent \in [Hosts -> Ages]

\* "Allow throttle - 1 queries in a row, then force a throttle to one every
\* decay time seconds" (clients.c:51): no host ever gets more, whatever happens
\* to its record while the hosts compete for the slots.
NoHostGetsMore == \A h \in Hosts : load[h] <= (fp_throttle - 1) * fp_decay_time

\* A throttled client waits less than one decay time from its last answer, even
\* if it goes on asking: being ignored costs nothing.
ThrottledBriefly == last.verdict = "throttled" => silent[last.host] < fp_decay_time

\* A newcomer is ignored only while every slot belongs to some other host that
\* was answered recently: no two slots are wasted on one host.
RefusedOnlyWhenBusy ==
  last.verdict = "no room" =>
    \A i \in Slots : /\ Used(i)
                     /\ silent[clients[i].host] < clients[i].count * fp_decay_time
                     /\ \A j \in Slots \ {i} : clients[j].host # clients[i].host
=============================================================================
