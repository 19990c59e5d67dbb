------------------------------ MODULE Registry ------------------------------
(***************************************************************************)
(* What the server list of the master promises, without slots, cursors,    *)
(* hash chains or sweeps: a bounded set of entries, one for each endpoint, *)
(* that holds every entry until its deadline, forgets those past it at     *)
(* any moment, and offers clients live and validated entries only.         *)
(* ServerTable implements it.                                              *)
(***************************************************************************)
EXTENDS Integers, FiniteSets

CONSTANTS
  Addresses, PublicOf, Unmapped,
  max_nb_servers, max_per_address,
  TIMEOUT_HEARTBEAT, TIMEOUT_INFORESPONSE, MaxTime

VARIABLES
  entries,              \* records of a state, an address and a timeout
  crt_time,
  up,
  listed                \* the endpoints the last query was offered

vars == <<entries, crt_time, up, listed>>

\* What may be left of the entries: any of those past their deadline go.
Left == {left \in SUBSET entries : \A e \in entries \ left : e.timeout < crt_time}

OfHost(left, a) == {e \in left : PublicOf[e.address] = PublicOf[a]}

RoomFor(left, a) ==
  /\ \A e \in left : e.address # a
  /\ Cardinality(left) < max_nb_servers
  /\ max_per_address # 0 => Cardinality(OfHost(left, a)) < max_per_address

Offered == {e.address : e \in {x \in entries : x.state = "validated" /\ x.timeout >= crt_time}}

\* Any request may find out that entries have timed out.
Forget ==
  /\ up
  /\ entries' \in Left
  /\ listed' \in SUBSET Offered
  /\ UNCHANGED <<crt_time, up>>

\* A heartbeat of a new endpoint.
Register(a) ==
  /\ up
  /\ a \notin Unmapped
  /\ \E left \in Left :
       /\ RoomFor(left, a)
       /\ entries' = left \cup {[state |-> "uninitialized", address |-> a,
                                 timeout |-> crt_time + TIMEOUT_HEARTBEAT]}
  /\ listed' = {}
  /\ UNCHANGED <<crt_time, up>>

\* A live entry answers its challenge.
Validate(e) ==
  /\ up
  /\ e.timeout >= crt_time
  /\ \E left \in Left :
       entries' = (left \ {e}) \cup {[state |-> "validated", address |-> e.address,
                                      timeout |-> crt_time + TIMEOUT_INFORESPONSE]}
  /\ listed' = {}
  /\ UNCHANGED <<crt_time, up>>

Stop ==
  /\ up /\ up' = FALSE
  /\ listed' = {}
  /\ UNCHANGED <<entries, crt_time>>

Start ==
  /\ ~ up /\ up' = TRUE
  /\ entries' = {} /\ listed' = {}
  /\ UNCHANGED crt_time

Tick ==
  /\ crt_time < MaxTime
  /\ crt_time' = crt_time + 1
  /\ listed' = {}
  /\ UNCHANGED <<entries, up>>

Init ==
  /\ entries = {}
  /\ crt_time = 0
  /\ up = TRUE
  /\ listed = {}

Next ==
  \/ Forget
  \/ \E a \in Addresses : Register(a)
  \/ \E e \in entries : Validate(e)
  \/ Stop
  \/ Start
  \/ Tick

Spec == Init /\ [][Next]_vars
=============================================================================
