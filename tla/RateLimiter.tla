---------------------------- MODULE RateLimiter ----------------------------
(***************************************************************************)
(* Class RateLimiter of src/contrib/systemd/dpmaster-exporter.py: a token  *)
(* bucket for each HTTP client, in an ordered dictionary that forgets the  *)
(* least recently used one when it is full.  The handler threads share it; *)
(* each reads the clock before it takes the lock.                          *)
(*                                                                         *)
(* A tick refills RATE whole tokens.  A bucket keeps the ticks since its   *)
(* "seen", up to the age where every look-up finds it full.                *)
(***************************************************************************)
EXTENDS Integers, SequencesExt

CONSTANTS
  Addresses,
  NoAddress,
  Handlers,             \* handler threads
  RATE, BURST,
  max_clients,
  MaxDelay              \* bound: ticks between a thread's clock and its lock

ASSUME RateAssumption ==
  /\ {RATE, BURST, max_clients} \subseteq Nat \ {0}
  /\ MaxDelay \in Nat
ASSUME AddressAssumption == NoAddress \notin Addresses

VARIABLES
  buckets,              \* self.clients, the least recently used one first
  waiting,              \* the requests of the threads that wait for the lock
  used,                 \* history: allowed requests of each address, less RATE per tick
  verdict               \* history: the latest request that got the lock

limiterVars == <<buckets, waiting, used, verdict>>

NoWait    == [address |-> NoAddress, delay |-> 0]
Waits     == [address : Addresses, delay : 0 .. MaxDelay]
NoVerdict == [address |-> NoAddress, allowed |-> TRUE, delay |-> 0]

Buckets   == [address : Addresses, tokens : - RATE * MaxDelay .. BURST, age : Nat]

Bucket(a, tokens, age) == [address |-> a, tokens |-> tokens, age |-> age]
BucketOf(a) == {i \in DOMAIN buckets : buckets[i].address = a}

\* Mutant: a negative interval counts as none, although "seen" is set back.
Mutant_Refilled(bucket, delay) ==
  LET tokens == bucket.tokens + (IF bucket.age > delay THEN bucket.age - delay ELSE 0) * RATE
  IN  IF tokens < BURST THEN tokens ELSE BURST

\* The tokens at the thread's clock, which may be older than "seen".
Refilled(bucket, delay) ==
  LET tokens == bucket.tokens + (bucket.age - delay) * RATE
  IN  IF tokens < BURST THEN tokens ELSE BURST

\* Mutant: a request that is refused costs a token all the same.
Mutant_Left(tokens) == tokens - 1
Left(tokens) == IF tokens >= 1 THEN tokens - 1 ELSE tokens

\* allow: time.monotonic(), before the lock is taken.
ReadClock(w, a) ==
  /\ waiting[w] = NoWait
  /\ waiting' = [waiting EXCEPT ![w] = [address |-> a, delay |-> 0]]
  /\ verdict' = NoVerdict
  /\ UNCHANGED <<buckets, used>>

\* allow: what it does under the lock.
Allow(w) ==
  LET a      == waiting[w].address
      delay  == waiting[w].delay
      found  == BucketOf(a)
      i      == CHOOSE j \in found : TRUE
      \* popped, or new and full
      old    == IF found = {} THEN Bucket(a, BURST, delay) ELSE buckets[i]
      others == IF found = {} THEN buckets ELSE RemoveAt(buckets, i)
      \* put back as the most recently used one
      tokens == Refilled(old, delay)
      stored == Append(others, Bucket(a, Left(tokens), delay))
      full   == Len(stored) > max_clients
  IN  /\ waiting[w] # NoWait
      /\ waiting' = [waiting EXCEPT ![w] = NoWait]
      /\ buckets' = IF full THEN Tail(stored) ELSE stored
      /\ used' = [x \in Addresses |->
           IF full /\ x = stored[1].address THEN 0
           ELSE IF x = a /\ tokens >= 1 THEN used[a] + 1
           ELSE used[x]]
      /\ verdict' = [address |-> a, allowed |-> tokens >= 1, delay |-> delay]

\* Nothing tells older buckets from a full one.
OlderBucket(b) ==
  IF b.tokens + (b.age - MaxDelay) * RATE >= BURST THEN b ELSE [b EXCEPT !.age = @ + 1]

LimiterTick ==
  /\ \A w \in Handlers : waiting[w].delay < MaxDelay
  /\ buckets' = [i \in DOMAIN buckets |-> OlderBucket(buckets[i])]
  /\ waiting' = [w \in Handlers |->
       IF waiting[w] = NoWait THEN NoWait ELSE [waiting[w] EXCEPT !.delay = @ + 1]]
  /\ used' = [a \in Addresses |-> IF used[a] > RATE THEN used[a] - RATE ELSE 0]
  /\ verdict' = NoVerdict

LimiterInit ==
  /\ buckets = <<>>
  /\ waiting = [w \in Handlers |-> NoWait]
  /\ used = [a \in Addresses |-> 0]
  /\ verdict = NoVerdict

LimiterNext ==
  \/ \E w \in Handlers : Allow(w) \/ \E a \in Addresses : ReadClock(w, a)
  \/ LimiterTick

LimiterSpec == LimiterInit /\ [][LimiterNext]_limiterVars

----------------------------------------------------------------------------
(* Properties.                                                             *)

OneBucketEach(bs) == \A i, j \in DOMAIN bs : bs[i].address = bs[j].address => i = j

\* The variables have their types; no client has two buckets.
LimiterTypeOK ==
  /\ buckets \in Seq(Buckets)
  /\ Len(buckets) <= max_clients
  /\ OneBucketEach(buckets)
  /\ waiting \in [Handlers -> Waits \cup {NoWait}]
  /\ used \in [Addresses -> Nat]
  /\ verdict \in [address : Addresses, allowed : BOOLEAN, delay : 0 .. MaxDelay] \cup {NoVerdict}

\* "limits each source IP to a burst of 20 requests followed by 5 requests/second"
\* (contrib/systemd/README.md:130), up to the refill of the time for which a
\* thread may hold its clock before the lock: threads that overtake each other
\* do not make up tokens.  A client whose bucket was forgotten starts again.
LimiterShare == \A a \in Addresses : used[a] <= BURST + RATE * MaxDelay

\* A request is refused only to a client that has used up its burst at the time
\* its thread read the clock: being refused costs nothing, and the requests of
\* others cost this client nothing.
RefusedOnlyIfSpent ==
  ~ verdict.allowed => used[verdict.address] + RATE * verdict.delay >= BURST
=============================================================================
