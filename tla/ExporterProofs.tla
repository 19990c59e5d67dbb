--------------------------- MODULE ExporterProofs ---------------------------
(***************************************************************************)
(* Theorems about Exporter, for any number of servers, threads and worker  *)
(* slots, any size of the pool and of the cache, and any timeouts.         *)
(*                                                                         *)
(* Neither property is inductive.  That a cached row is fresh needs the    *)
(* stamp of an entry never to be younger than the query it came from,      *)
(* which holds because both are the "now" of the page that stored it       *)
(* (StampsAreTrue).  That a query that ends leaves the slots alone needs   *)
(* its page to be live (RunningIsQuerying).  That a page waits for no more *)
(* than the rounds of its pool needs to know how far it is in each         *)
(* (WaitInv): when the j-th round ends, j times POOL of its queries are    *)
(* over, or all, however the queries of different rounds overlap.          *)
(***************************************************************************)
EXTENDS Exporter, FiniteSetTheorems, TLAPS

StampsAreTrue == \A s \in Servers : STATUS_CACHE[s].stamp = STATUS_CACHE[s].asked

\* Only a page that waits for its pool has queries running.
RunningIsQuerying ==
  \A w \in Threads : \A s \in Running(w) : thread[w].state = "querying"

\* What every step preserves.
IInv == TypeOK /\ SlotsAccounted /\ StampsAreTrue /\ ServedIsFresh /\ RunningIsQuerying

Threadset == [state : States, now : Nat, waited : Nat, rows : [Servers -> Rows]]

\* The constants are what their names say.
LEMMA Constants ==
  /\ MAX_WORKERS \in Nat \ {0} /\ QUERY_TIMEOUT \in Nat \ {0} /\ QUERY_CACHE_TTL \in Nat \ {0}
  /\ MaxAge \in Nat
  BY ExporterAssumption DEF MaxAge

\* The larger of two numbers.
LEMMA MaxOfTwo ==
  ASSUME NEW a \in Int, NEW b \in Int
  PROVE  Max({a, b}) = IF a >= b THEN a ELSE b
  BY DEF Max

\* The smaller of two numbers.
LEMMA MinOfTwo ==
  ASSUME NEW a \in Int, NEW b \in Int
  PROVE  Min({a, b}) = IF a <= b THEN a ELSE b
  BY DEF Min

\* A new thread has the type of a thread.
LEMMA NewThread ==
  ASSUME NEW state \in States
  PROVE  /\ Thread(state) \in Threadset
         /\ Thread(state).state = state
         /\ \A s \in Servers : Thread(state).rows[s].phase = "absent"
  BY Constants DEF Thread, Blank, Row, Threadset, Rows, Phases

\* At first every slot is free and nothing is cached.
LEMMA InitInv == Init => IInv
<1> SUFFICES ASSUME Init PROVE IInv
  OBVIOUS
<1>1. TypeOK
  <2>1. thread \in [Threads -> Threadset]
    BY NewThread DEF Init, States
  <2>2. worker_slots \in 0 .. MAX_WORKERS
    BY Constants DEF Init
  <2>3. dispatching \in BOOLEAN
    BY Zenon DEF Init
  <2>4. STATUS_CACHE \in [Servers -> Entries \cup {NotCached}]
    BY DEF Init
  <2> QED BY <2>1, <2>2, <2>3, <2>4 DEF TypeOK, Threadset
<1>2. Live = {}
  BY NewThread DEF Init, Live, States
<1>3. SlotsAccounted
  BY <1>2, Constants, FS_EmptySet DEF Init, SlotsAccounted
<1>4. StampsAreTrue
  BY DEF Init, StampsAreTrue, NotCached
<1>5. ServedIsFresh
  BY NewThread DEF Init, ServedIsFresh, Rowset, States
<1>6. RunningIsQuerying
  BY NewThread DEF Init, RunningIsQuerying, Running, Rowset, States
<1> QED BY <1>1, <1>3, <1>4, <1>5, <1>6 DEF IInv

\* Live threads are counted.
LEMMA LiveIsFinite == IsFiniteSet(Live) /\ Cardinality(Live) \in Nat
  BY ExporterAssumption, FS_Subset, FS_CardinalityType DEF Live

\* The page of a thread shows nothing stale, and runs queries only while it waits.
Sound(t) ==
  \A s \in Servers : /\ t.rows[s].phase = "cached" => t.rows[s].before < QUERY_CACHE_TTL
                     /\ t.rows[s].phase \in {"status", "info"} => t.state = "querying"

\* A step that replaces one thread changes the live ones at that thread only, and
\* keeps the pages fresh when the new thread shows nothing stale.
LEMMA Replaced ==
  ASSUME IInv, NEW w \in Threads, NEW t \in Threadset, thread' = [thread EXCEPT ![w] = t], Sound(t)
  PROVE  /\ thread' \in [Threads -> Threadset]
         /\ ServedIsFresh' /\ RunningIsQuerying'
         /\ Live' = IF t.state = "none" THEN Live \ {w} ELSE Live \cup {w}
<1>1. thread \in [Threads -> Threadset]
  BY DEF IInv, TypeOK, Threadset
<1>2. \A x \in Threads : thread'[x] = IF x = w THEN t ELSE thread[x]
  BY <1>1
<1>3. ServedIsFresh' /\ RunningIsQuerying'
  BY <1>2 DEF IInv, ServedIsFresh, RunningIsQuerying, Running, Rowset, Sound
<1> QED BY <1>1, <1>2, <1>3 DEF Live

\* A live thread that goes on, or one that was not live and starts, or ends.
LEMMA Counted ==
  ASSUME IInv, NEW w \in Threads
  PROVE  /\ thread[w].state = "none" => Cardinality(Live \cup {w}) = Cardinality(Live) + 1
         /\ thread[w].state # "none" => /\ Live \cup {w} = Live
                                        /\ Cardinality(Live \ {w}) = Cardinality(Live) - 1
<1>1. CASE thread[w].state = "none"
  <2>1. w \notin Live
    BY <1>1 DEF Live
  <2> QED BY <1>1, <2>1, LiveIsFinite, FS_AddElement
<1>2. CASE thread[w].state # "none"
  <2>1. w \in Live
    BY <1>2 DEF Live
  <2>2. Cardinality(Live \ {w}) = Cardinality(Live) - 1
    BY <2>1, LiveIsFinite, FS_RemoveElement
  <2> QED BY <1>2, <2>1, <2>2
<1> QED BY <1>1, <1>2

\* A handler that goes on with other rows and times.
LEMMA GoesOn ==
  ASSUME IInv, NEW w \in Threads, NEW t \in Threadset, thread' = [thread EXCEPT ![w] = t], Sound(t),
         thread[w].state # "none", t.state # "none",
         UNCHANGED <<worker_slots, dispatching>>,
         STATUS_CACHE' \in [Servers -> Entries \cup {NotCached}], StampsAreTrue'
  PROVE  IInv'
<1>1. Live' = Live
  BY Replaced, Counted
<1>2. TypeOK' /\ ServedIsFresh' /\ RunningIsQuerying'
  BY Replaced DEF IInv, TypeOK, Threadset
<1> QED BY <1>1, <1>2 DEF IInv, SlotsAccounted

\* A handler that ends and gives its slot back.
LEMMA Ends ==
  ASSUME IInv, NEW w \in Threads, thread' = [thread EXCEPT ![w] = Thread("none")],
         thread[w].state # "none", worker_slots' = Released,
         UNCHANGED <<dispatching, STATUS_CACHE>>
  PROVE  IInv'
<1>1. /\ thread' \in [Threads -> Threadset] /\ ServedIsFresh' /\ RunningIsQuerying'
      /\ Live' = Live \ {w}
  BY Replaced, NewThread DEF States, Sound
<1>2. Cardinality(Live') = Cardinality(Live) - 1
  BY <1>1, Counted
<1>3. SlotsAccounted'
  BY <1>2, LiveIsFinite DEF IInv, SlotsAccounted, TypeOK, Released
<1>4. worker_slots' \in 0 .. MAX_WORKERS
  <2>1. Cardinality(Live') \in Nat
    BY <1>1, LiveIsFinite, FS_RemoveElement, FS_CardinalityType
  <2> QED BY <1>3, <2>1, Constants DEF IInv, TypeOK, SlotsAccounted, Released
<1>5. TypeOK'
  BY <1>1, <1>4 DEF IInv, TypeOK, Threadset
<1>6. StampsAreTrue'
  BY DEF IInv, StampsAreTrue
<1> QED BY <1>1, <1>3, <1>5, <1>6 DEF IInv

\* The rows of a page after its look-up in the cache.
LEMMA LookUpInv == ASSUME IInv, NEW w \in Threads, LookUp(w) PROVE IInv'
<1> DEFINE row(s) == IF s \in Queued(w) /\ Usable(STATUS_CACHE[s], thread[w].now)
                       THEN [Row("cached") EXCEPT !.before =
                               Max({0, STATUS_CACHE[s].asked - thread[w].now})]
                       ELSE thread[w].rows[s]
           t == [thread[w] EXCEPT !.state = "querying", !.rows = [s \in Servers |-> row(s)]]
<1>1. thread[w] \in Threadset
  BY DEF IInv, TypeOK, Threadset
<1>2. ASSUME NEW s \in Servers
      PROVE  /\ row(s) \in Rows
             /\ row(s).phase = "cached" => row(s).before < QUERY_CACHE_TTL
  <2>1. CASE s \in Queued(w) /\ Usable(STATUS_CACHE[s], thread[w].now)
    <3>1. STATUS_CACHE[s] \in Entries /\ thread[w].now \in Nat
      BY <1>1, <2>1 DEF IInv, TypeOK, Usable, NotCached, Threadset
    <3>2. /\ STATUS_CACHE[s].asked \in 0 .. MaxAge
          /\ STATUS_CACHE[s].asked - thread[w].now < QUERY_CACHE_TTL
      BY <2>1, <3>1 DEF IInv, StampsAreTrue, Usable, Entries
    <3> DEFINE b == Max({0, STATUS_CACHE[s].asked - thread[w].now})
    <3>3. b \in 0 .. MaxAge /\ b < QUERY_CACHE_TTL
      BY <3>1, <3>2, Constants, MaxOfTwo
    <3>4. row(s) = [phase |-> "cached", timer |-> 0, before |-> b]
      BY <2>1 DEF Row
    <3> HIDE DEF row
    <3> QED BY <3>3, <3>4, Constants DEF Rows, Phases
  <2>2. CASE ~ (s \in Queued(w) /\ Usable(STATUS_CACHE[s], thread[w].now))
    BY <1>1, <2>2 DEF IInv, ServedIsFresh, Rowset, Threadset
  <2> QED BY <2>1, <2>2
<1>3. /\ t \in Threadset /\ t.state = "querying"
      /\ \A s \in Servers : t.rows[s] = row(s)
  BY <1>1, <1>2 DEF Threadset, States
<1>4. /\ thread' = [thread EXCEPT ![w] = t] /\ thread[w].state = "looking"
      /\ UNCHANGED <<worker_slots, dispatching>>
  BY DEF LookUp
<1> HIDE DEF row, t
<1>5. Sound(t)
  BY <1>2, <1>3 DEF Sound
<1>6. STATUS_CACHE' \in [Servers -> Entries \cup {NotCached}] /\ StampsAreTrue'
  BY DEF LookUp, IInv, TypeOK, StampsAreTrue
<1> QED BY <1>3, <1>4, <1>5, <1>6, GoesOn

\* A step that changes one row of a page to a new one.
LEMMA RowInv ==
  ASSUME IInv, NEW w \in Threads, NEW s \in Servers, NEW phase \in Phases \ {"cached"},
         thread' = [thread EXCEPT ![w].rows[s] = Row(phase)], thread[w].state = "querying",
         UNCHANGED <<worker_slots, dispatching, STATUS_CACHE>>
  PROVE  IInv'
<1> DEFINE t == [thread[w] EXCEPT !.rows[s] = Row(phase)]
<1>1. thread[w] \in Threadset
  BY DEF IInv, TypeOK, Threadset
<1>2. Row(phase) \in Rows /\ Row(phase).phase # "cached"
  BY Constants DEF Row, Rows
<1>3. /\ t \in Threadset /\ t.state = thread[w].state
      /\ \A x \in Servers : t.rows[x] = IF x = s THEN Row(phase) ELSE thread[w].rows[x]
  BY <1>1, <1>2 DEF Threadset
<1>4. thread' = [thread EXCEPT ![w] = t]
  OBVIOUS
<1> HIDE DEF t
<1>5. Sound(t)
  BY <1>2, <1>3 DEF IInv, ServedIsFresh, Rowset, Sound
<1>6. STATUS_CACHE' \in [Servers -> Entries \cup {NotCached}] /\ StampsAreTrue'
  BY DEF IInv, TypeOK, StampsAreTrue
<1> QED BY <1>3, <1>4, <1>5, <1>6, GoesOn

\* A handler that starts anew with what it does.
LEMMA StateInv ==
  ASSUME IInv, NEW w \in Threads, NEW state \in States \ {"none"},
         thread' = [thread EXCEPT ![w] = Thread(state)], thread[w].state # "none",
         UNCHANGED <<worker_slots, dispatching>>,
         STATUS_CACHE' \in [Servers -> Entries \cup {NotCached}], StampsAreTrue'
  PROVE  IInv'
<1>1. Thread(state) \in Threadset /\ Thread(state).state # "none" /\ Sound(Thread(state))
  BY NewThread DEF Sound
<1> QED BY <1>1, GoesOn

\* The results of a page are stored, or the cache is full and emptied.
LEMMA StoreInv == ASSUME IInv, NEW w \in Threads, Store(w) PROVE IInv'
<1> DEFINE stored == [s \in Servers |->
                        IF s \in Rowset(w, {"done"})
                          THEN [stamp |-> Min({MaxAge, Stamp(w)}),
                                asked |-> Min({MaxAge, thread[w].now})]
                          ELSE STATUS_CACHE[s]]
<1>1. thread[w].now \in Nat
  BY DEF IInv, TypeOK
<1>2. Min({MaxAge, thread[w].now}) \in 0 .. MaxAge
  BY <1>1, Constants, MinOfTwo
<1>3. ASSUME NEW s \in Servers
      PROVE  stored[s] \in Entries \cup {NotCached} /\ stored[s].stamp = stored[s].asked
  BY <1>2 DEF Entries, Stamp, IInv, TypeOK, StampsAreTrue
<1>4. STATUS_CACHE' \in {stored, [s \in Servers |-> NotCached]}
  BY DEF Store
<1>5. STATUS_CACHE' \in [Servers -> Entries \cup {NotCached}]
  BY <1>3, <1>4
<1>6. StampsAreTrue'
  <2>1. CASE STATUS_CACHE' = stored
    BY <1>3, <2>1 DEF StampsAreTrue
  <2>2. CASE STATUS_CACHE' = [s \in Servers |-> NotCached]
    BY <2>2 DEF StampsAreTrue, NotCached
  <2> QED BY <1>4, <2>1, <2>2
<1>7. /\ thread' = [thread EXCEPT ![w] = Thread("replying")] /\ thread[w].state # "none"
      /\ UNCHANGED <<worker_slots, dispatching>>
  BY DEF Store
<1> HIDE DEF stored
<1> QED BY <1>5, <1>6, <1>7, StateInv DEF States

\* Time passes: pages and cached results age together.
LEMMA TickInv == ASSUME IInv, Tick PROVE IInv'
<1>1. ASSUME NEW w \in Threads
      PROVE  /\ thread'[w] \in Threadset /\ thread'[w].state = thread[w].state
             /\ \A s \in Servers : /\ thread'[w].rows[s].phase = thread[w].rows[s].phase
                                   /\ thread'[w].rows[s].before = thread[w].rows[s].before
  <2>1. thread[w] \in Threadset
    BY DEF IInv, TypeOK, Threadset
  <2>2. CASE ~ Paging(w)
    BY <2>1, <2>2 DEF Tick
  <2>3. CASE Paging(w)
    <3>1. ASSUME NEW s \in Servers
          PROVE  /\ OlderRow(thread[w].rows[s]) \in Rows
                 /\ OlderRow(thread[w].rows[s]).phase = thread[w].rows[s].phase
                 /\ OlderRow(thread[w].rows[s]).before = thread[w].rows[s].before
      <4>1. thread[w].rows[s] \in Rows
        BY <2>1 DEF Threadset
      <4>2. thread[w].rows[s].phase \in {"status", "info"} =>
              thread[w].rows[s].timer < QUERY_TIMEOUT
        BY DEF Tick, Running, Rowset, MayWait
      <4> QED BY <4>1, <4>2, Constants DEF OlderRow, Rows
    <3>2. thread'[w] = OlderThread(w)
      BY <2>3 DEF Tick
    <3>3. /\ OlderThread(w).state = thread[w].state
          /\ OlderThread(w).now \in Nat /\ OlderThread(w).waited \in Nat
          /\ OlderThread(w).rows = [s \in Servers |-> OlderRow(thread[w].rows[s])]
          /\ OlderThread(w) \in [state : States, now : Nat, waited : Nat,
                                 rows : {[s \in Servers |-> OlderRow(thread[w].rows[s])]}]
      <4> DEFINE wait == IF Running(w) # {} THEN thread[w].waited + 1 ELSE thread[w].waited
                 page == [s \in Servers |-> OlderRow(thread[w].rows[s])]
      <4>1. OlderThread(w) = [thread[w] EXCEPT !.now = thread[w].now + 1, !.waited = wait,
                                               !.rows = page]
        BY Zenon DEF OlderThread
      <4>2. wait \in Nat
        BY <2>1 DEF Threadset
      <4> HIDE DEF wait, page
      <4>3. OlderThread(w) = [state |-> thread[w].state, now |-> thread[w].now + 1,
                              waited |-> wait, rows |-> page]
        BY <2>1, <4>1 DEF Threadset
      <4> QED BY <2>1, <4>2, <4>3 DEF Threadset, page
    <3>4. [s \in Servers |-> OlderRow(thread[w].rows[s])] \in [Servers -> Rows]
      BY <3>1
    <3> QED BY <3>1, <3>2, <3>3, <3>4 DEF Threadset
  <2> QED BY <2>2, <2>3
<1>2. thread' \in [Threads -> Threadset]
  BY <1>1 DEF Tick
<1>3. Live' = Live
  BY <1>1 DEF Live
<1>4. ServedIsFresh' /\ RunningIsQuerying'
  BY <1>1 DEF IInv, ServedIsFresh, RunningIsQuerying, Running, Rowset
<1>5. ASSUME NEW s \in Servers
      PROVE  STATUS_CACHE'[s] \in Entries \cup {NotCached}
               /\ STATUS_CACHE'[s].stamp = STATUS_CACHE'[s].asked
  <2>1. STATUS_CACHE[s] \in Entries \cup {NotCached}
    BY DEF IInv, TypeOK
  <2>2. CASE STATUS_CACHE[s].stamp < 0
    BY <2>2 DEF Tick, NotCached
  <2>3. CASE ~ STATUS_CACHE[s].stamp < 0
    BY <2>1, <2>3, Constants DEF Tick, IInv, StampsAreTrue, Older, Entries, NotCached
  <2> QED BY <2>2, <2>3
<1>6. STATUS_CACHE' \in [Servers -> Entries \cup {NotCached}] /\ StampsAreTrue'
  BY <1>5 DEF Tick, StampsAreTrue
<1> QED BY <1>2, <1>3, <1>4, <1>6 DEF Tick, IInv, TypeOK, Threadset, SlotsAccounted

\* The next-state relation, one step per action.
LEMMA NextInv == IInv /\ [Next]_vars => IInv'
<1> SUFFICES ASSUME IInv, [Next]_vars PROVE IInv'
  OBVIOUS
<1>0. /\ STATUS_CACHE \in [Servers -> Entries \cup {NotCached}] /\ StampsAreTrue
      /\ STATUS_CACHE' = STATUS_CACHE =>
           STATUS_CACHE' \in [Servers -> Entries \cup {NotCached}] /\ StampsAreTrue'
  BY DEF IInv, TypeOK, StampsAreTrue
<1>1. CASE Acquire
  <2>1. Live' = Live /\ TypeOK /\ ~ dispatching /\ dispatching'
    BY <1>1 DEF Acquire, Live, IInv
  <2>2. worker_slots' \in 0 .. MAX_WORKERS /\ worker_slots' = worker_slots - 1
    BY <1>1, <2>1, Constants DEF Acquire, TypeOK
  <2>3. SlotsAccounted'
    BY <2>1, <2>2, LiveIsFinite, Constants DEF IInv, TypeOK, SlotsAccounted
  <2>4. dispatching' \in BOOLEAN
    BY <1>1, Zenon DEF Acquire
  <2> QED BY <1>0, <1>1, <2>2, <2>3, <2>4 DEF Acquire, IInv, TypeOK, ServedIsFresh,
             RunningIsQuerying, Running, Rowset
<1>2. CASE DispatchFails
  <2>1. Live' = Live /\ TypeOK /\ dispatching
    BY <1>2 DEF DispatchFails, Live, IInv
  <2>2. worker_slots' + Cardinality(Live) = MAX_WORKERS
    BY <1>2, <2>1, LiveIsFinite DEF DispatchFails, IInv, TypeOK, SlotsAccounted, Released
  <2>3. worker_slots' \in 0 .. MAX_WORKERS
    BY <1>2, <2>1, <2>2, LiveIsFinite, Constants DEF DispatchFails, TypeOK, Released
  <2>4. SlotsAccounted'
    BY <1>2, <2>1, <2>2, LiveIsFinite, Constants DEF DispatchFails, SlotsAccounted
  <2> QED BY <1>0, <1>2, <2>3, <2>4 DEF DispatchFails, IInv, TypeOK, ServedIsFresh,
     RunningIsQuerying, Running, Rowset
<1>3. CASE Tick
  BY <1>3, TickInv
<1>4. ASSUME NEW w \in Threads, Dispatch(w) PROVE IInv'
  <2>1. /\ thread' \in [Threads -> Threadset] /\ ServedIsFresh' /\ RunningIsQuerying'
        /\ Live' = Live \cup {w}
    BY <1>4, Replaced, NewThread DEF Dispatch, States, Sound
  <2>2. Cardinality(Live') = Cardinality(Live) + 1
    BY <1>4, <2>1, Counted DEF Dispatch
  <2>3. SlotsAccounted'
    BY <1>4, <2>2, LiveIsFinite DEF Dispatch, IInv, TypeOK, SlotsAccounted
  <2> QED BY <1>0, <1>4, <2>1, <2>3 DEF Dispatch, IInv, TypeOK, Threadset
<1>5. ASSUME NEW w \in Threads, Close(w) PROVE IInv'
  BY <1>5, Ends DEF Close
<1>6. ASSUME NEW w \in Threads, PoolFails(w) PROVE IInv'
  BY <1>6, Ends DEF PoolFails
<1>7. ASSUME NEW w \in Threads, Get(w) PROVE IInv'
  <2>1. CASE thread' = [thread EXCEPT ![w] = Thread("replying")]
    BY <1>0, <1>7, <2>1, StateInv DEF Get, States
  <2>2. ASSUME NEW listed \in SUBSET Servers,
               thread' = [thread EXCEPT ![w] =
                 [Thread("looking") EXCEPT
                    !.rows = [s \in Servers |-> IF s \in listed THEN Row("queued")
                                                ELSE Row("absent")]]]
        PROVE  IInv'
    <3> DEFINE t == [Thread("looking") EXCEPT
                       !.rows = [s \in Servers |-> IF s \in listed THEN Row("queued")
                                                   ELSE Row("absent")]]
    <3>1. /\ t \in Threadset /\ t.state = "looking"
          /\ \A s \in Servers : t.rows[s].phase \in {"queued", "absent"}
      BY Constants DEF Thread, Row, Threadset, Rows, Phases, States
    <3>2. /\ thread' = [thread EXCEPT ![w] = t] /\ thread[w].state # "none"
          /\ UNCHANGED <<worker_slots, dispatching, STATUS_CACHE>>
      BY <1>7, <2>2 DEF Get
    <3> HIDE DEF t
    <3>3. Sound(t)
      BY <3>1 DEF Sound
    <3> QED BY <1>0, <3>1, <3>2, <3>3, GoesOn
  <2> QED BY <1>7, <2>1, <2>2 DEF Get
<1>8. ASSUME NEW w \in Threads, Reply(w) PROVE IInv'
  BY <1>0, <1>8, StateInv DEF Reply, States
<1>9. ASSUME NEW w \in Threads, LookUp(w) PROVE IInv'
  BY <1>9, LookUpInv
<1>10. ASSUME NEW w \in Threads, Store(w) PROVE IInv'
  BY <1>10, StoreInv
<1>11. ASSUME NEW w \in Threads, NEW s \in Servers, StartQuery(w, s) PROVE IInv'
  <2>1. "status" \in Phases \ {"cached"}
    BY DEF Phases
  <2>2. /\ thread' = [thread EXCEPT ![w].rows[s] = Row("status")]
        /\ thread[w].state = "querying"
        /\ UNCHANGED <<worker_slots, dispatching, STATUS_CACHE>>
    BY <1>11 DEF StartQuery
  <2> QED BY <2>1, <2>2, RowInv
<1>12. ASSUME NEW w \in Threads, NEW s \in Servers, Answered(w, s) PROVE IInv'
  <2>1. thread[w].state = "querying"
    BY <1>12 DEF Answered, IInv, RunningIsQuerying
  <2>2. PICK phase \in {"info", "done"} : thread' = [thread EXCEPT ![w].rows[s] = Row(phase)]
    BY <1>12 DEF Answered
  <2> QED BY <1>12, <2>1, <2>2, RowInv DEF Answered, Phases
<1>13. CASE UNCHANGED vars
  BY <1>13 DEF vars, IInv, TypeOK, SlotsAccounted, StampsAreTrue, ServedIsFresh,
     RunningIsQuerying, Running, Rowset, Live
<1> QED
  BY <1>1, <1>2, <1>3, <1>4, <1>5, <1>6, <1>7, <1>8, <1>9, <1>10, <1>11, <1>12, <1>13
     DEF Next, Handle

\* The invariant holds in every reachable state.
LEMMA Invariance == Spec => []IInv
  BY InitInv, NextInv, PTL DEF Spec

\* The variables have their types, for any constants.
THEOREM TypeCorrect == Spec => []TypeOK
<1>1. IInv => TypeOK
  BY DEF IInv
<1> QED BY <1>1, Invariance, PTL

\* Whichever way the handlers end, every worker slot is free, held by one live
\* handler, or about to be given to one.
THEOREM SlotsComeBack == Spec => []SlotsAccounted
<1>1. IInv => SlotsAccounted
  BY DEF IInv
<1> QED BY <1>1, Invariance, PTL

\* However many pages overlap and however slow they are, none shows details that
\* were queried longer before it was asked for than the cache may keep them.
THEOREM PagesAreFresh == Spec => []ServedIsFresh
<1>1. IInv => ServedIsFresh
  BY DEF IInv
<1> QED BY <1>1, Invariance, PTL

----------------------------------------------------------------------------
(* How long a page waits.                                                  *)

Deadline(j) == 2 * QUERY_TIMEOUT * j

\* The rows a page has to query, the latest end of a running query, and the
\* queries of a page that are over when it has waited for j rounds.
Asked(t)     == {s \in Servers : t.rows[s].phase \notin {"absent", "cached"}}
Latest(t, s) == t.waited + (QUERY_TIMEOUT - t.rows[s].timer)
                  + (IF t.rows[s].phase = "status" THEN QUERY_TIMEOUT ELSE 0)
Over(t, j)   == {s \in Servers :
  \/ t.rows[s].phase = "done"
  \/ t.rows[s].phase \in {"status", "info"} /\ Latest(t, s) <= Deadline(j)}

\* A page in its j-th round, whose end is not past and which began with rows left:
\* when the round ends, j times the workers of the pool have finished, or all.
InRound(t, j) ==
  /\ t.waited <= Deadline(j)
  /\ (j - 1) * POOL < Cardinality(Asked(t))
  /\ Over(t, j) = Asked(t) \/ Cardinality(Over(t, j)) >= j * POOL

\* Each page is in some round, and only one that queries has waited.
InTime(t) ==
  /\ t.state # "querying" => t.waited = 0
  /\ \E j \in Nat : InRound(t, j)

WaitInv == \A w \in Threads : InTime(thread[w])

\* Rounds follow each other; each takes two timeouts and fills the pool once.
LEMMA NextRound ==
  ASSUME NEW j \in Nat
  PROVE  /\ POOL \in Nat \ {0} /\ QUERY_TIMEOUT \in Nat \ {0}
         /\ Deadline(j) \in Nat /\ j * POOL \in Nat
         /\ Deadline(j + 1) = Deadline(j) + 2 * QUERY_TIMEOUT
         /\ ((j + 1) - 1) * POOL = j * POOL
         /\ (j + 1) * POOL = j * POOL + POOL
<1>1. POOL \in Nat \ {0} /\ QUERY_TIMEOUT \in Nat \ {0}
  BY ExporterAssumption
<1> QED BY <1>1 DEF Deadline

\* The rows of a page can be counted.
LEMMA PageIsFinite ==
  ASSUME NEW t, NEW j
  PROVE  /\ IsFiniteSet(Asked(t)) /\ Cardinality(Asked(t)) \in Nat
         /\ IsFiniteSet(Over(t, j)) /\ Cardinality(Over(t, j)) \in Nat
         /\ Over(t, j) \subseteq Asked(t)
<1>1. Asked(t) \subseteq Servers /\ Over(t, j) \subseteq Servers /\ IsFiniteSet(Servers)
  BY ExporterAssumption DEF Asked, Over
<1>2. Over(t, j) \subseteq Asked(t)
  BY DEF Asked, Over
<1> QED BY <1>1, <1>2, FS_Subset, FS_CardinalityType

\* A page that has not waited yet is in time.
LEMMA Unwaited == ASSUME NEW t, t.waited = 0 PROVE InTime(t)
<1>1. Cardinality(Asked(t)) \in Nat /\ Cardinality(Over(t, 0)) \in Nat
  BY PageIsFinite
<1>2. POOL \in Nat \ {0} /\ 0 * POOL = 0 /\ (0 - 1) * POOL < 0 /\ Deadline(0) = 0
  BY ExporterAssumption DEF Deadline
<1>3. InRound(t, 0)
  BY <1>1, <1>2 DEF InRound
<1> QED BY <1>3 DEF InTime

\* A page that has as many rows to query, of which at least the same are over when
\* the round ends, stays in its round.
LEMMA SameRound ==
  ASSUME NEW t, NEW u, NEW j \in Nat, InRound(t, j),
         Asked(u) = Asked(t), Over(t, j) \subseteq Over(u, j), u.waited <= Deadline(j)
  PROVE  InRound(u, j)
<1>1. Over(u, j) \subseteq Asked(u) /\ IsFiniteSet(Over(u, j))
  BY PageIsFinite
<1>2. Cardinality(Over(t, j)) <= Cardinality(Over(u, j))
  BY <1>1, FS_Subset
<1>3. Over(t, j) = Asked(t) => Over(u, j) = Asked(u)
  BY <1>1
<1>4. /\ Cardinality(Over(t, j)) \in Nat /\ Cardinality(Over(u, j)) \in Nat
      /\ j * POOL \in Nat
  BY PageIsFinite, NextRound
<1>5. Cardinality(Over(t, j)) >= j * POOL => Cardinality(Over(u, j)) >= j * POOL
  BY <1>2, <1>4
<1> QED BY <1>3, <1>5 DEF InRound

\* A row that goes on to its next phase: the rows that were to be over when the
\* round ends still are.
LEMMA RowWait ==
  ASSUME IInv, WaitInv, NEW w \in Threads, NEW s \in Servers, NEW phase \in {"status", "info", "done"},
         thread[w].state = "querying",
         \/ thread[w].rows[s].phase = "queued" /\ phase = "status"
         \/ thread[w].rows[s].phase = "status" /\ phase = "info"
         \/ thread[w].rows[s].phase = "info" /\ phase = "done",
         thread' = [thread EXCEPT ![w].rows[s] = Row(phase)]
  PROVE  WaitInv'
<1>1. PICK t \in Threadset : t = thread[w]
  BY DEF IInv, TypeOK, Threadset
<1>2. PICK u : u = [t EXCEPT !.rows[s] = Row(phase)]
  OBVIOUS
<1>3. /\ u.state = t.state /\ u.waited = t.waited
      /\ \A x \in Servers : u.rows[x] = IF x = s THEN Row(phase) ELSE t.rows[x]
  BY <1>1, <1>2 DEF Threadset
<1>4. Row(phase).phase = phase /\ Row(phase).timer = 0
  BY DEF Row
<1>5. PICK j \in Nat : InRound(t, j)
  BY <1>1 DEF WaitInv, InTime
<1>6. Asked(u) = Asked(t)
  BY <1>1, <1>3, <1>4 DEF Asked
<1>7. Over(t, j) \subseteq Over(u, j)
  <2> SUFFICES ASSUME NEW x \in Servers, x \in Over(t, j) PROVE x \in Over(u, j)
    BY DEF Over
  <2>1. CASE x # s
    BY <1>3, <2>1 DEF Over, Latest
  <2>2. CASE x = s
    <3>1. t.rows[s] \in Rows /\ t.waited \in Nat
      BY <1>1 DEF Threadset
    <3>2. t.rows[s].timer \in 0 .. QUERY_TIMEOUT
      BY <3>1 DEF Rows
    <3>3. CASE t.rows[s].phase = "status" /\ phase = "info"
      <4>1. Latest(u, s) <= Latest(t, s)
        BY <1>3, <1>4, <3>1, <3>2, <3>3, NextRound DEF Latest
      <4>2. Latest(t, s) <= Deadline(j)
        BY <2>2, <3>3 DEF Over
      <4>3. Latest(t, s) \in Int /\ Latest(u, s) \in Int /\ Deadline(j) \in Int
        BY <1>3, <1>4, <3>1, <3>2, NextRound DEF Latest
      <4> QED BY <1>3, <1>4, <2>2, <3>3, <4>1, <4>2, <4>3 DEF Over
    <3>4. CASE phase = "done"
      BY <1>3, <1>4, <2>2, <3>4 DEF Over
    <3>5. t.rows[s].phase # "queued"
      BY <2>2 DEF Over
    <3> QED BY <1>1, <3>3, <3>4, <3>5
  <2> QED BY <2>1, <2>2
<1>8. InRound(u, j)
  BY <1>3, <1>5, <1>6, <1>7, SameRound DEF InRound
<1>9. InTime(u)
  BY <1>1, <1>3, <1>8 DEF InTime
<1>10. ASSUME NEW x \in Threads PROVE thread'[x] = IF x = w THEN u ELSE thread[x]
  BY <1>1, <1>2 DEF IInv, TypeOK
<1> QED BY <1>9, <1>10 DEF WaitInv

\* Time passes for a page only while its queries run; a round that ends then has
\* left rows, and the workers of the pool are all at the rows of the next.
LEMMA TickWait == ASSUME IInv, WaitInv, Tick PROVE WaitInv'
<1> SUFFICES ASSUME NEW w \in Threads PROVE InTime(thread'[w])
  BY DEF WaitInv
<1>1. PICK t \in Threadset : t = thread[w]
  BY DEF IInv, TypeOK, Threadset
<1>2. InTime(t)
  BY <1>1 DEF WaitInv
<1>3. CASE ~ Paging(w)
  BY <1>1, <1>2, <1>3 DEF Tick
<1>4. CASE Paging(w) /\ t.state # "querying"
  <2>1. Running(w) = {}
    BY <1>1, <1>4 DEF IInv, RunningIsQuerying, Running, Rowset
  <2>2. OlderThread(w).waited = t.waited
    BY <1>1, <2>1 DEF OlderThread, Threadset
  <2>3. thread'[w].waited = 0
    BY <1>2, <1>4, <2>2 DEF Tick, InTime
  <2> QED BY <2>3, Unwaited
<1>5. CASE t.state = "querying"
  <2>1. PICK u : u = thread'[w]
    OBVIOUS
  <2>2. /\ u = OlderThread(w) /\ Running(w) # {}
        /\ Queued(w) = {} \/ ~ FreeWorker(w)
        /\ \A s \in Running(w) : t.rows[s].timer < QUERY_TIMEOUT
    BY <1>1, <1>5, <2>1 DEF Tick, Paging, MayWait
  <2>3. /\ u.state = "querying" /\ u.waited = t.waited + 1
        /\ \A s \in Servers : u.rows[s] = OlderRow(t.rows[s])
    BY <1>1, <1>5, <2>2 DEF OlderThread, Threadset
  <2>4. t.waited \in Nat /\ \A s \in Servers : t.rows[s] \in Rows
    BY <1>1 DEF Threadset
  <2>5. ASSUME NEW s \in Servers
        PROVE  /\ t.rows[s].timer \in 0 .. QUERY_TIMEOUT
               /\ u.rows[s].phase = t.rows[s].phase
               /\ u.rows[s].phase \in {"status", "info"} => u.rows[s].timer = t.rows[s].timer + 1
    BY <2>3, <2>4 DEF Rows, OlderRow
  <2>6. ASSUME NEW s \in Servers, t.rows[s].phase \in {"status", "info"}
        PROVE  /\ Latest(u, s) = Latest(t, s)
               /\ Latest(t, s) \in Int
               /\ t.waited < Latest(t, s) /\ Latest(t, s) <= t.waited + 2 * QUERY_TIMEOUT
    <3>1. t.rows[s].timer < QUERY_TIMEOUT
      BY <1>1, <2>2, <2>6 DEF Running, Rowset
    <3>2. QUERY_TIMEOUT \in Nat
      BY ExporterAssumption
    <3> QED BY <2>3, <2>4, <2>5, <2>6, <3>1, <3>2 DEF Latest
  <2>7. Asked(u) = Asked(t)
    BY <2>5 DEF Asked
  <2>8. ASSUME NEW j \in Nat PROVE Over(u, j) = Over(t, j)
    BY <2>5, <2>6 DEF Over
  <2>9. PICK j \in Nat : InRound(t, j)
    BY <1>2 DEF InTime
  <2>10. Deadline(j) \in Nat
    BY NextRound
  <2>11. CASE t.waited < Deadline(j)
    <3>1. InRound(u, j)
      BY <2>3, <2>4, <2>7, <2>8, <2>9, <2>10, <2>11, SameRound
    <3> QED BY <2>1, <2>3, <3>1 DEF InTime
  <2>12. CASE t.waited = Deadline(j)
    <3>1. PICK D : D = {s \in Servers : t.rows[s].phase = "done"}
      OBVIOUS
    <3>2. PICK R : R = Running(w)
      OBVIOUS
    <3>3. /\ R = {s \in Servers : t.rows[s].phase \in {"status", "info"}} /\ R # {}
          /\ D \cap R = {} /\ D \cup R \subseteq Asked(t)
      BY <1>1, <2>2, <3>1, <3>2 DEF Running, Rowset, Asked
    <3>4. Over(t, j) = D
      BY <2>6, <2>10, <2>12, <3>1 DEF Over
    <3>5. Over(t, j + 1) = D \cup R
      <4>1. Deadline(j + 1) = t.waited + 2 * QUERY_TIMEOUT
        BY <2>12, NextRound
      <4> QED BY <2>6, <3>1, <3>3, <4>1 DEF Over
    <3>6. /\ IsFiniteSet(D) /\ IsFiniteSet(R) /\ Cardinality(D) \in Nat /\ Cardinality(R) \in Nat
          /\ IsFiniteSet(Asked(t)) /\ Cardinality(Asked(t)) \in Nat
      <4>1. R \subseteq Servers /\ D \subseteq Servers
        BY <3>1, <3>3
      <4> QED BY <4>1, ExporterAssumption, PageIsFinite, FS_Subset, FS_CardinalityType
    <3>7. Cardinality(D \cup R) = Cardinality(D) + Cardinality(R)
      <4>1. Cardinality(D \cap R) = 0
        BY <3>3, FS_EmptySet
      <4>2. Cardinality(D \cup R) = Cardinality(D) + Cardinality(R) - Cardinality(D \cap R)
        BY <3>6, FS_Union
      <4> QED BY <3>6, <4>1, <4>2
    <3>8. Cardinality(R) > 0
      BY <3>3, <3>6, FS_EmptySet
    <3>9. Cardinality(D \cup R) <= Cardinality(Asked(t))
      BY <3>3, <3>6, FS_Subset
    <3>10. Cardinality(D) >= j * POOL
      BY <2>9, <3>3, <3>4 DEF InRound
    <3>11. ((j + 1) - 1) * POOL < Cardinality(Asked(t))
      BY <3>6, <3>7, <3>8, <3>9, <3>10, NextRound
    <3>12. Over(t, j + 1) = Asked(t) \/ Cardinality(Over(t, j + 1)) >= (j + 1) * POOL
      <4>1. CASE Queued(w) = {}
        <5>1. \A s \in Servers : t.rows[s].phase \in Phases
          BY <2>4 DEF Rows
        <5>2. \A s \in Servers : t.rows[s].phase # "queued"
          BY <1>1, <4>1 DEF Queued, Rowset
        <5>3. Asked(t) \subseteq D \cup R
          BY <3>1, <3>3, <5>1, <5>2 DEF Asked, Phases
        <5> QED BY <3>3, <3>5, <5>3
      <4>2. CASE ~ FreeWorker(w)
        <5>1. Cardinality(R) >= POOL
          BY <3>2, <3>6, <4>2, NextRound DEF FreeWorker
        <5>2. POOL \in Nat /\ j * POOL \in Nat /\ (j + 1) * POOL = j * POOL + POOL
          BY NextRound
        <5>3. Cardinality(D) + Cardinality(R) >= j * POOL + POOL
          BY <3>6, <3>10, <5>1, <5>2
        <5>4. Cardinality(Over(t, j + 1)) >= (j + 1) * POOL
          BY <3>5, <3>7, <5>2, <5>3
        <5> QED BY <5>4
      <4> QED BY <2>2, <4>1, <4>2
    <3>13. u.waited <= Deadline(j + 1)
      BY <2>3, <2>12, NextRound
    <3>14. InRound(u, j + 1)
      BY <2>7, <2>8, <3>11, <3>12, <3>13 DEF InRound
    <3> QED BY <2>1, <2>3, <3>14 DEF InTime
  <2>13. t.waited < Deadline(j) \/ t.waited = Deadline(j)
    BY <2>4, <2>9, <2>10 DEF InRound
  <2> QED BY <2>11, <2>12, <2>13
<1> QED BY <1>1, <1>3, <1>4, <1>5

\* A step that replaces one thread by one that has not waited, or did nothing yet.
LEMMA FreshWait ==
  ASSUME IInv, WaitInv, NEW w \in Threads, NEW t, t.waited = 0, thread' = [thread EXCEPT ![w] = t]
  PROVE  WaitInv'
<1>1. InTime(t)
  BY Unwaited
<1>2. \A x \in Threads : thread'[x] = IF x = w THEN t ELSE thread[x]
  BY DEF IInv, TypeOK
<1> QED BY <1>1, <1>2 DEF WaitInv

\* Nobody has waited at first, and every step keeps each page in some round.
LEMMA WaitSteps == (Init => WaitInv) /\ (IInv /\ WaitInv /\ [Next]_vars => WaitInv')
<1>1. ASSUME NEW state PROVE Thread(state).waited = 0
  BY DEF Thread
<1>2. ASSUME Init PROVE WaitInv
  BY <1>1, <1>2, Unwaited DEF Init, WaitInv
<1>3. ASSUME IInv, WaitInv, [Next]_vars PROVE WaitInv'
  <2>1. ASSUME UNCHANGED thread PROVE WaitInv'
    BY <1>3, <2>1 DEF WaitInv
  <2>2. CASE Tick
    BY <1>3, <2>2, TickWait
  <2>3. ASSUME NEW w \in Threads, NEW state, thread' = [thread EXCEPT ![w] = Thread(state)]
        PROVE  WaitInv'
    BY <1>1, <1>3, <2>3, FreshWait
  <2>4. ASSUME NEW w \in Threads, Get(w) PROVE WaitInv'
    <3>1. CASE thread' = [thread EXCEPT ![w] = Thread("replying")]
      BY <2>3, <3>1
    <3>2. ASSUME NEW page, thread' = [thread EXCEPT ![w] =
                                        [Thread("looking") EXCEPT !.rows = page]]
          PROVE  WaitInv'
      <4>1. PICK t : t = [Thread("looking") EXCEPT !.rows = page]
        OBVIOUS
      <4>2. t.waited = 0
        BY <4>1 DEF Thread
      <4> QED BY <1>3, <3>2, <4>1, <4>2, FreshWait
    <3> QED BY <2>4, <3>1, <3>2 DEF Get
  <2>5. ASSUME NEW w \in Threads, LookUp(w) PROVE WaitInv'
    <3>1. PICK page : thread' = [thread EXCEPT ![w].state = "querying", ![w].rows = page]
      BY <2>5, Zenon DEF LookUp
    <3>2. PICK t : t = [thread[w] EXCEPT !.state = "querying", !.rows = page]
      OBVIOUS
    <3>3. thread[w].waited = 0 /\ thread[w] \in Threadset
      BY <1>3, <2>5 DEF LookUp, IInv, TypeOK, Threadset, WaitInv, InTime
    <3>4. t.waited = 0
      BY <3>2, <3>3 DEF Threadset
    <3>5. thread' = [thread EXCEPT ![w] = t]
      BY <3>1, <3>2, <1>3 DEF IInv, TypeOK
    <3> QED BY <1>3, <3>4, <3>5, FreshWait
  <2>6. ASSUME NEW w \in Threads, NEW s \in Servers, StartQuery(w, s) PROVE WaitInv'
    <3>1. thread[w].rows[s].phase = "queued"
      BY <2>6 DEF StartQuery, Queued, Rowset
    <3> QED BY <1>3, <2>6, <3>1, RowWait DEF StartQuery
  <2>7. ASSUME NEW w \in Threads, NEW s \in Servers, Answered(w, s) PROVE WaitInv'
    <3>1. thread[w].rows[s].phase \in {"status", "info"}
      BY <2>7 DEF Answered, Running, Rowset
    <3>2. thread[w].state = "querying"
      BY <1>3, <2>7 DEF Answered, IInv, RunningIsQuerying
    <3>3. CASE thread[w].rows[s].phase = "status"
      <4>1. thread' = [thread EXCEPT ![w].rows[s] = Row("info")]
        BY <2>7, <3>3 DEF Answered
      <4> QED BY <1>3, <3>2, <3>3, <4>1, RowWait
    <3>4. CASE thread[w].rows[s].phase = "info"
      <4>1. thread' = [thread EXCEPT ![w].rows[s] = Row("done")]
        BY <2>7, <3>4 DEF Answered
      <4> QED BY <1>3, <3>2, <3>4, <4>1, RowWait
    <3> QED BY <3>1, <3>3, <3>4
  <2>8. CASE Acquire \/ DispatchFails \/ UNCHANGED vars
    BY <2>1, <2>8 DEF Acquire, DispatchFails, vars
  <2>9. ASSUME NEW w \in Threads, Dispatch(w) \/ Close(w) \/ PoolFails(w) \/ Reply(w) \/ Store(w)
        PROVE  WaitInv'
    BY <2>3, <2>9 DEF Dispatch, Close, PoolFails, Reply, Store
  <2> QED BY <1>3, <2>2, <2>4, <2>5, <2>6, <2>7, <2>8, <2>9 DEF Next, Handle
<1> QED BY <1>2, <1>3

\* A page in some round has not waited beyond the rounds its rows need.
LEMMA RoundsBound ==
  ASSUME NEW t, t.waited \in Nat, InTime(t)
  PROVE  t.waited <= 2 * QUERY_TIMEOUT * Rounds(Cardinality(Asked(t)))
<1>1. PICK j \in Nat : InRound(t, j)
  BY DEF InTime
<1>2. PICK n \in Nat : n = Cardinality(Asked(t))
  BY PageIsFinite
<1>3. /\ POOL \in Nat \ {0} /\ QUERY_TIMEOUT \in Nat \ {0}
      /\ t.waited <= Deadline(j) /\ (j - 1) * POOL < n
  BY <1>1, <1>2, NextRound DEF InRound
<1>4. Rounds(n) \in Nat /\ j <= Rounds(n)
  <2>1. j * POOL <= n + POOL - 1
    BY <1>3
  <2>2. PICK m \in Nat : m = n + POOL - 1
    BY <1>3
  <2>3. m \div POOL \in Nat /\ m < (m \div POOL + 1) * POOL
    BY <1>3
  <2>4. j * POOL < (m \div POOL + 1) * POOL
    BY <1>3, <2>1, <2>2, <2>3
  <2>5. j < m \div POOL + 1
    BY <1>3, <2>3, <2>4
  <2> QED BY <2>2, <2>3, <2>5 DEF Rounds
<1>5. Deadline(j) <= 2 * QUERY_TIMEOUT * Rounds(n)
  BY <1>3, <1>4 DEF Deadline
<1>6. Deadline(j) \in Nat /\ 2 * QUERY_TIMEOUT * Rounds(n) \in Nat
  BY <1>3, <1>4, NextRound
<1> QED BY <1>2, <1>3, <1>5, <1>6

\* However its game servers answer, and whatever other pages do, a page waits at
\* most two timeouts for every round its rows take in its pool (and may wait that
\* long, although one timeout is promised: see PageWait).
THEOREM PagesWaitBounded == Spec => []PageWait
<1>1. IInv /\ WaitInv => PageWait
  <2> SUFFICES ASSUME IInv, WaitInv, NEW w \in Threads
               PROVE  thread[w].waited <=
                        2 * QUERY_TIMEOUT *
                          Rounds(Cardinality(Servers \ Rowset(w, {"absent", "cached"})))
    BY DEF PageWait
  <2>1. Asked(thread[w]) = Servers \ Rowset(w, {"absent", "cached"})
    BY DEF Asked, Rowset
  <2>2. thread[w].waited \in Nat /\ InTime(thread[w])
    BY DEF IInv, TypeOK, WaitInv
  <2> QED BY <2>1, <2>2, RoundsBound
<1>2. Init => WaitInv
  BY WaitSteps
<1>3. IInv /\ WaitInv /\ [Next]_vars => WaitInv'
  BY WaitSteps
<1> QED BY <1>1, <1>2, <1>3, Invariance, PTL DEF Spec
=============================================================================
