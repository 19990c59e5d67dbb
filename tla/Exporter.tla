------------------------------ MODULE Exporter ------------------------------
(***************************************************************************)
(* The status page of src/contrib/systemd/dpmaster-exporter.py: the worker *)
(* slots of its HTTP server, and the pages that handler threads build out  *)
(* of a shared cache and a pool of queries to the listed game servers.     *)
(*                                                                         *)
(* Time is kept as ages, in ticks.  It passes while pages wait for game    *)
(* servers, each for QUERY_TIMEOUT at most, and between the reading of the *)
(* clock and the look-up in the cache, MaxDelay at most; the other steps   *)
(* take none.  The verdict of the rate limiter, the list read from the     *)
(* state file and the answers are any.                                     *)
(***************************************************************************)
EXTENDS Integers, FiniteSets, FiniteSetsExt

CONSTANTS
  Servers,              \* game servers that may be listed
  Threads,              \* handler threads that may exist
  MAX_WORKERS,
  POOL,                 \* workers of the pool of a page, 8 in the code
  QUERY_TIMEOUT,
  QUERY_CACHE_TTL,
  MAX_CACHE,            \* servers the cache may hold, 10000 in the code
  MaxDelay              \* bound: ticks a thread may be held up before its look-up

ASSUME ExporterAssumption ==
  /\ {MAX_WORKERS, POOL, QUERY_TIMEOUT, QUERY_CACHE_TTL, MAX_CACHE, MaxDelay} \subseteq Nat \ {0}
  /\ IsFiniteSet(Servers) /\ IsFiniteSet(Threads) /\ Cardinality(Threads) >= MAX_WORKERS

VARIABLES
  worker_slots,         \* value of the semaphore
  dispatching,          \* the accepting thread holds a slot for a new handler
  thread,               \* the handler threads
  STATUS_CACHE

vars == <<worker_slots, dispatching, thread, STATUS_CACHE>>

\* Every look-up takes results of age MaxAge and more for stale.
MaxAge == QUERY_CACHE_TTL + MaxDelay

\* A row of a page: the server is not listed, its details come from the cache,
\* or the pool queries them, getstatus first, then getinfo.  "before" tells how
\* long before the page details from the cache may have been queried.
Rounds(n) == (n + POOL - 1) \div POOL
Phases    == {"absent", "cached", "queued", "status", "info", "done"}
Rows      == [phase : Phases, timer : 0 .. QUERY_TIMEOUT, before : 0 .. MaxAge]
Row(phase) == [phase |-> phase, timer |-> 0, before |-> 0]

\* A handler thread: what it does, the age of the "now" of its page, the ticks
\* the page has waited for the network, and the rows of the page.
States == {"none", "reading", "looking", "querying", "replying"}
Blank  == [s \in Servers |-> Row("absent")]
Thread(state) == [state |-> state, now |-> 0, waited |-> 0, rows |-> Blank]

\* A cached result carries the age of its stamp, and for the properties the age
\* of the page that queried it.
NotCached == [stamp |-> -1, asked |-> -1]
Entries   == [stamp : 0 .. MaxAge, asked : 0 .. MaxAge]

Live            == {w \in Threads : thread[w].state # "none"}
Rowset(w, phases) == {s \in Servers : thread[w].rows[s].phase \in phases}
Running(w)      == Rowset(w, {"status", "info"})
Queued(w)       == Rowset(w, {"queued"})

\* Mutant: a worker of the pool is not given back when its query is done.
Mutant_FreeWorker(w) == Cardinality(Running(w) \cup Rowset(w, {"done"})) < POOL
\* The pool of a page has a worker for another query.
FreeWorker(w) == Cardinality(Running(w)) < POOL

\* Mutant: a connection that fails keeps its slot.
Mutant_Released == worker_slots
\* process_request_thread and process_request release the slot in any case.
Released == worker_slots + 1

----------------------------------------------------------------------------
(* BoundedHTTPServer.                                                      *)

\* process_request: a connection that finds no slot is closed at once.
Acquire ==
  /\ ~ dispatching
  /\ worker_slots > 0
  /\ worker_slots' = worker_slots - 1
  /\ dispatching' = TRUE
  /\ UNCHANGED <<thread, STATUS_CACHE>>

Dispatch(w) ==
  /\ dispatching
  /\ thread[w].state = "none"
  /\ thread' = [thread EXCEPT ![w] = Thread("reading")]
  /\ dispatching' = FALSE
  /\ UNCHANGED <<worker_slots, STATUS_CACHE>>

\* The thread cannot be started.
DispatchFails ==
  /\ dispatching
  /\ worker_slots' = Released
  /\ dispatching' = FALSE
  /\ UNCHANGED <<thread, STATUS_CACHE>>

\* A handler ends: the client is idle for too long, hangs up or is over its
\* rate; or its reply cannot be written.
Close(w) ==
  /\ thread[w].state \in {"reading", "replying"}
  /\ thread' = [thread EXCEPT ![w] = Thread("none")]
  /\ worker_slots' = Released
  /\ UNCHANGED <<dispatching, STATUS_CACHE>>

----------------------------------------------------------------------------
(* Handler.                                                                *)

\* _get: a route that needs the list of servers, or one that does not.  The
\* time master_up takes, on /healthz and after the list, is part of "replying".
Get(w) ==
  /\ thread[w].state = "reading"
  /\ \/ \E listed \in SUBSET Servers :
          thread' = [thread EXCEPT ![w] =
            [Thread("looking") EXCEPT
               !.rows = [s \in Servers |-> IF s \in listed THEN Row("queued") ELSE Row("absent")]]]
     \/ thread' = [thread EXCEPT ![w] = Thread("replying")]
  /\ UNCHANGED <<worker_slots, dispatching, STATUS_CACHE>>

\* Mutant: an entry is still used when it is as old as the limit.
Mutant_Usable(entry, now) == entry.stamp >= 0 /\ entry.stamp - now <= QUERY_CACHE_TTL
\* What enrich_servers takes from the cache; "now" was read before the lock.
Usable(entry, now) == entry.stamp >= 0 /\ entry.stamp - now < QUERY_CACHE_TTL

LookUp(w) ==
  /\ thread[w].state = "looking"
  /\ thread' = [thread EXCEPT
       ![w].state = "querying",
       ![w].rows = [s \in Servers |->
          IF s \in Queued(w) /\ Usable(STATUS_CACHE[s], thread[w].now)
            THEN [Row("cached") EXCEPT !.before = Max({0, STATUS_CACHE[s].asked - thread[w].now})]
            ELSE thread[w].rows[s]]]
  /\ UNCHANGED <<worker_slots, dispatching, STATUS_CACHE>>

\* A worker of the pool calls query_server.
StartQuery(w, s) ==
  /\ thread[w].state = "querying"
  /\ s \in Queued(w)
  /\ FreeWorker(w)
  /\ thread' = [thread EXCEPT ![w].rows[s] = Row("status")]
  /\ UNCHANGED <<worker_slots, dispatching, STATUS_CACHE>>

\* udp_query returns, with an answer or after its timeout.
Answered(w, s) ==
  /\ s \in Running(w)
  /\ thread' = [thread EXCEPT ![w].rows[s] =
       Row(IF @.phase = "status" THEN "info" ELSE "done")]
  /\ UNCHANGED <<worker_slots, dispatching, STATUS_CACHE>>

\* An exception, because no thread can be started for the pool or from one of
\* the queries, ends the handler once the queries it has begun are over.
PoolFails(w) ==
  /\ thread[w].state = "querying"
  /\ Running(w) = {}
  /\ Queued(w) \cup Rowset(w, {"done"}) # {}
  /\ thread' = [thread EXCEPT ![w] = Thread("none")]
  /\ worker_slots' = Released
  /\ UNCHANGED <<dispatching, STATUS_CACHE>>

\* Mutant: results are stamped when they are stored.
Mutant_Stamp(w) == 0
\* The results of a page carry the time before they were queried.
Stamp(w) == thread[w].now

Cached(cache) == {s \in Servers : cache[s].stamp >= 0}

Store(w) ==
  LET done   == Rowset(w, {"done"})
      stored == [s \in Servers |->
                   IF s \in done
                     THEN [stamp |-> Min({MaxAge, Stamp(w)}), asked |-> Min({MaxAge, thread[w].now})]
                     ELSE STATUS_CACHE[s]]
  IN  /\ thread[w].state = "querying"
      /\ Running(w) \cup Queued(w) = {}
      /\ STATUS_CACHE' = IF done # {} /\ Cardinality(Cached(stored)) > MAX_CACHE
                           THEN [s \in Servers |-> NotCached]
                           ELSE stored
      /\ thread' = [thread EXCEPT ![w] = Thread("replying")]
      /\ UNCHANGED <<worker_slots, dispatching>>

\* The connection is kept alive for the next request.
Reply(w) ==
  /\ thread[w].state = "replying"
  /\ thread' = [thread EXCEPT ![w] = Thread("reading")]
  /\ UNCHANGED <<worker_slots, dispatching, STATUS_CACHE>>

----------------------------------------------------------------------------
(* Time.                                                                   *)

\* Mutant: a query waits a tick too long.
Mutant_MayWait(row) == row.timer <= QUERY_TIMEOUT
\* settimeout bounds the wait for an answer.
MayWait(row) == row.timer < QUERY_TIMEOUT

Older(age) == IF age < MaxAge THEN age + 1 ELSE age

OlderRow(row) ==
  [row EXCEPT !.timer = IF row.phase \in {"status", "info"} THEN @ + 1 ELSE @]

OlderThread(w) ==
  [thread[w] EXCEPT
     !.now = @ + 1,
     !.waited = IF Running(w) # {} THEN @ + 1 ELSE @,
     !.rows = [s \in Servers |-> OlderRow(@[s])]]

Paging(w) == thread[w].state \in {"looking", "querying"}

Tick ==
  /\ \A w \in Threads :
       /\ thread[w].state = "looking" => thread[w].now < MaxDelay
       /\ thread[w].state = "querying" =>
            /\ Running(w) # {}
            /\ Queued(w) = {} \/ ~ FreeWorker(w)
       /\ \A s \in Running(w) : MayWait(thread[w].rows[s])
  /\ thread' = [w \in Threads |-> IF Paging(w) THEN OlderThread(w) ELSE thread[w]]
  /\ STATUS_CACHE' = [s \in Servers |->
       IF STATUS_CACHE[s].stamp < 0
         THEN NotCached
         ELSE [stamp |-> Older(STATUS_CACHE[s].stamp), asked |-> Older(STATUS_CACHE[s].asked)]]
  /\ UNCHANGED <<worker_slots, dispatching>>

----------------------------------------------------------------------------
Init ==
  /\ worker_slots = MAX_WORKERS
  /\ dispatching = FALSE
  /\ thread = [w \in Threads |-> Thread("none")]
  /\ STATUS_CACHE = [s \in Servers |-> NotCached]

\* The steps a handler takes on its own once it has a request.
Handle(w) ==
  \/ LookUp(w) \/ Store(w) \/ Reply(w)
  \/ \E s \in Servers : StartQuery(w, s) \/ Answered(w, s)

Next ==
  \/ Acquire \/ DispatchFails \/ Tick
  \/ \E w \in Threads :
       Dispatch(w) \/ Close(w) \/ Get(w) \/ PoolFails(w) \/ Handle(w)

Spec == Init /\ [][Next]_vars /\ \A w \in Threads : WF_vars(Handle(w))

----------------------------------------------------------------------------
(* Properties.                                                             *)

\* The variables have their types.
TypeOK ==
  /\ worker_slots \in 0 .. MAX_WORKERS
  /\ dispatching \in BOOLEAN
  /\ thread \in [Threads -> [state : States, now : Nat, waited : Nat, rows : [Servers -> Rows]]]
  /\ STATUS_CACHE \in [Servers -> Entries \cup {NotCached}]

\* Every slot is free, held by one live handler, or about to be given to one,
\* whichever way the handlers before ended: at most MAX_WORKERS requests are
\* served at once, and no connection uses a slot up for good.
SlotsAccounted ==
  worker_slots + Cardinality(Live) + (IF dispatching THEN 1 ELSE 0) = MAX_WORKERS

\* The cache is bounded by QUERY_CACHE_TTL: no page shows details that were
\* queried longer than that before the page was asked for, although a slow page
\* may store its results over newer ones.
ServedIsFresh ==
  \A w \in Threads :
    \A s \in Rowset(w, {"cached"}) : thread[w].rows[s].before < QUERY_CACHE_TTL

\* A page waits for its game servers at most two timeouts for every round of its
\* pool: query_server asks each with getstatus and then getinfo.  This is more than
\* contrib/systemd/README.md:113-115 promises, that a silent server "never blocks
\* the page beyond the configured timeout": a single one blocks it for two.
PageWait ==
  \A w \in Threads :
    thread[w].state = "querying" =>
      thread[w].waited <=
        2 * QUERY_TIMEOUT * Rounds(Cardinality(Servers \ Rowset(w, {"absent", "cached"})))

\* A handler with a request always comes to an end with it, however its game
\* servers (do not) answer.
EveryRequestEnds ==
  \A w \in Threads : thread[w].state \notin {"none", "reading"} ~>
                        thread[w].state \in {"none", "reading"}
=============================================================================
