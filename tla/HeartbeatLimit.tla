--------------------------- MODULE HeartbeatLimit ---------------------------
(***************************************************************************)
(* HeartbeatRateLimited of src/src/messages.c: a ring of records, each     *)
(* counting the heartbeats of one endpoint in a window that starts with    *)
(* the first one.  A record keeps the seconds since window_start, capped   *)
(* at the length of the window, and counts up to the first heartbeat over  *)
(* the burst: nothing tells larger values apart.  The ring's index wraps   *)
(* at 2^32, a multiple of its 1024 slots, and is kept modulo the slots.    *)
(***************************************************************************)
EXTENDS Integers

CONSTANTS
  Endpoints,
  NoEndpoint,           \* the address of a record that was never used
  HEARTBEAT_LIMIT_SLOTS,
  HEARTBEAT_LIMIT_WINDOW,
  HEARTBEAT_LIMIT_BURST

ASSUME HeartbeatAssumption ==
  /\ HEARTBEAT_LIMIT_SLOTS \in Nat \ {0}
  /\ HEARTBEAT_LIMIT_WINDOW \in Nat \ {0}
  /\ HEARTBEAT_LIMIT_BURST \in Nat \ {0}
ASSUME EndpointAssumption == NoEndpoint \notin Endpoints

VARIABLES
  heartbeat_limits,
  heartbeat_limit_next,
  sent,                 \* history: ages of each endpoint's latest heartbeats
  passed,               \* history: ages of the latest that were let through
  overwritten,          \* history: seconds since a record of it was lost
  refused               \* history: the endpoint just refused

heartbeatVars == <<heartbeat_limits, heartbeat_limit_next, sent, passed, overwritten, refused>>

LimitSlots   == 0 .. HEARTBEAT_LIMIT_SLOTS - 1
WindowAges   == 0 .. HEARTBEAT_LIMIT_WINDOW
TooMany      == HEARTBEAT_LIMIT_BURST + 1
LimitRecords == [address : Endpoints \cup {NoEndpoint}, age : WindowAges, count : 0 .. TooMany]

\* The ages of the latest n heartbeats of an endpoint, the newest first.
Latest(n) == [1 .. n -> WindowAges]

EmptyRecord == [address |-> NoEndpoint, age |-> 0, count |-> 0]
LimitOf(e) == {i \in LimitSlots : heartbeat_limits[i].address = e}

OneMore(count) == IF count < TooMany THEN count + 1 ELSE count

\* Mutant: a window never ends.
Mutant_WindowOver(record) == FALSE
WindowOver(record) == record.age >= HEARTBEAT_LIMIT_WINDOW

\* Mutant: a full record starts a new window.
Mutant_Counted(record) ==
  IF WindowOver(record) \/ record.count >= HEARTBEAT_LIMIT_BURST
    THEN [record EXCEPT !.age = 0, !.count = 1]
    ELSE [record EXCEPT !.count = OneMore(@)]

Counted(record) ==
  IF WindowOver(record) THEN [record EXCEPT !.age = 0, !.count = 1]
                        ELSE [record EXCEPT !.count = OneMore(@)]

\* Mutant: the ring is one slot longer than its records.
Mutant_NextSlot(i) == (i + 1) % (HEARTBEAT_LIMIT_SLOTS + 1)
NextSlot(i) == (i + 1) % HEARTBEAT_LIMIT_SLOTS

WithNewest(ages) == [n \in DOMAIN ages |-> IF n = 1 THEN 0 ELSE ages[n - 1]]

IsSent(e) == sent' = [sent EXCEPT ![e] = WithNewest(@)]

IsPassed(e) ==
  /\ passed' = [passed EXCEPT ![e] = WithNewest(@)]
  /\ refused' = NoEndpoint

IsRefused(e) ==
  /\ refused' = e
  /\ UNCHANGED passed

\* The endpoint has a record.
HeartbeatKnown(e) ==
  /\ IsSent(e)
  /\ \E i \in LimitOf(e) :
       LET record == Counted(heartbeat_limits[i])
       IN  /\ heartbeat_limits' = [heartbeat_limits EXCEPT ![i] = record]
           /\ IF record.count > HEARTBEAT_LIMIT_BURST THEN IsRefused(e) ELSE IsPassed(e)
  /\ UNCHANGED <<heartbeat_limit_next, overwritten>>

\* It has none: the next record of the ring is overwritten, whoever owns it.
HeartbeatNew(e) ==
  /\ IsSent(e)
  /\ LimitOf(e) = {}
  /\ LET i     == heartbeat_limit_next
         owner == heartbeat_limits[i].address
     IN  /\ heartbeat_limits' = [heartbeat_limits EXCEPT ![i] =
                                   [address |-> e, age |-> 0, count |-> 1]]
         /\ overwritten' = [x \in Endpoints |-> IF x = owner THEN 0 ELSE overwritten[x]]
  /\ heartbeat_limit_next' = NextSlot(heartbeat_limit_next)
  /\ IsPassed(e)

OlderWindow(age) == IF age < HEARTBEAT_LIMIT_WINDOW THEN age + 1 ELSE age
Aged(history) == [e \in Endpoints |->
                    [n \in DOMAIN history[e] |-> OlderWindow(history[e][n])]]

\* One second on the clock.
HeartbeatTick ==
  /\ heartbeat_limits' =
       [i \in LimitSlots |-> [heartbeat_limits[i] EXCEPT !.age = OlderWindow(@)]]
  /\ sent' = Aged(sent)
  /\ passed' = Aged(passed)
  /\ overwritten' = [e \in Endpoints |-> OlderWindow(overwritten[e])]
  /\ refused' = NoEndpoint
  /\ UNCHANGED heartbeat_limit_next

\* No heartbeat within the window, as far as n heartbeats tell.
NoneYet(n) == [e \in Endpoints |-> [i \in 1 .. n |-> HEARTBEAT_LIMIT_WINDOW]]

\* The static variables of messages.c start at zero.
HeartbeatInit ==
  /\ heartbeat_limits = [i \in LimitSlots |-> EmptyRecord]
  /\ heartbeat_limit_next = 0
  /\ sent = NoneYet(TooMany)
  /\ passed = NoneYet(2 * HEARTBEAT_LIMIT_BURST + 1)
  /\ overwritten = [e \in Endpoints |-> HEARTBEAT_LIMIT_WINDOW]
  /\ refused = NoEndpoint

HeartbeatNext ==
  \/ \E e \in Endpoints : HeartbeatKnown(e) \/ HeartbeatNew(e)
  \/ HeartbeatTick

HeartbeatSpec == HeartbeatInit /\ [][HeartbeatNext]_heartbeatVars

----------------------------------------------------------------------------
(* Properties.                                                             *)

\* The variables have their types.
HeartbeatTypeOK ==
  /\ heartbeat_limits \in [LimitSlots -> LimitRecords]
  /\ heartbeat_limit_next \in LimitSlots
  /\ sent \in [Endpoints -> Latest(TooMany)]
  /\ passed \in [Endpoints -> Latest(2 * HEARTBEAT_LIMIT_BURST + 1)]
  /\ overwritten \in [Endpoints -> WindowAges]
  /\ refused \in Endpoints \cup {NoEndpoint}

\* A heartbeat is only refused to an endpoint that has sent more than the burst
\* within one window's time: a well-behaved server is never held back, whatever
\* the others send and whatever happened to its record.
RefusedOnlyIfTooMany ==
  refused # NoEndpoint => sent[refused][TooMany] < HEARTBEAT_LIMIT_WINDOW

\* An endpoint that keeps its record gets no more than two bursts in any window's
\* time, the end of one window and the beginning of the next.  The 10 messages per
\* 10 seconds of doc/techinfo.txt:407 hold for the windows of a record only.
AtMostTwoBursts ==
  \A e \in Endpoints :
    overwritten[e] = HEARTBEAT_LIMIT_WINDOW =>
      passed[e][2 * HEARTBEAT_LIMIT_BURST + 1] >= HEARTBEAT_LIMIT_WINDOW
=============================================================================
