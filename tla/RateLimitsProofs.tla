-------------------------- MODULE RateLimitsProofs --------------------------
(***************************************************************************)
(* Proofs of the invariants of FloodProtection, HeartbeatLimit and         *)
(* RateLimiter, for every number of hosts, endpoints, records, clients and *)
(* threads and every limit, and of the whole of RateLimits.                *)
(*                                                                         *)
(* A limiter can only bound what a peer gets through the record it keeps   *)
(* of it, so that each inductive invariant ties the record to the history: *)
(* a flood record that counts c requests and is t seconds old vouches for  *)
(* c decay times less t seconds of bandwidth, a host without a record has  *)
(* used none, and no host has two; the record of an endpoint counts        *)
(* heartbeats that are no older than its window, and those let through     *)
(* before them are older; the tokens of a bucket, with those its age is    *)
(* worth, make up for the requests that were allowed.                      *)
(***************************************************************************)
EXTENDS RateLimits, SequenceTheorems, TLAPS

----------------------------------------------------------------------------
(* Flood protection.                                                       *)

\* What a record of c requests, t seconds old, vouches for.
Vouches(spent, c, t) == spent = 0 \/ spent + t <= c * fp_decay_time

RecordsVouch ==
  \A i \in Slots : Used(i) =>
    /\ Vouches(load[clients[i].host], clients[i].count, clients[i].age)
    /\ silent[clients[i].host] = clients[i].age

OthersAreIdle == \A h \in Hosts : RecordOf(h) = {} => load[h] = 0

OneRecordEach ==
  \A i, j \in Slots :
    Used(i) /\ Used(j) /\ clients[i].host = clients[j].host => i = j

IInv == TypeOK /\ RecordsVouch /\ OthersAreIdle /\ OneRecordEach

----------------------------------------------------------------------------
(* Arithmetic.                                                             *)

\* Division by a positive number.
LEMMA Division ==
  ASSUME NEW a \in Nat, NEW d \in Nat \ {0}
  PROVE  /\ a \div d \in Nat
         /\ (a \div d) * d <= a
         /\ a < (a \div d) * d + d
BY SMT

\* Multiplication by a natural number is monotone.
LEMMA Monotone ==
  ASSUME NEW a \in Int, NEW b \in Int, NEW d \in Nat, a <= b
  PROVE  a * d <= b * d
BY SMT

\* Products of sums and differences.
LEMMA Distributive ==
  ASSUME NEW a \in Int, NEW b \in Int, NEW d \in Int
  PROVE  /\ (a + b) * d = a * d + b * d
         /\ (a - b) * d = a * d - b * d
         /\ 1 * d = d /\ 0 * d = 0
         /\ a * d \in Int
BY SMT

\* The slots of a ring, once around.
LEMMA Remainder ==
  ASSUME NEW i \in Nat, NEW n \in Nat, i < n
  PROVE  i % n = i /\ (i + n) % n = i
BY SMT

\* The parameters are natural numbers, and so are their products.
LEMMA Parameters ==
  /\ fp_throttle \in Nat /\ fp_throttle >= 2
  /\ fp_decay_time \in Nat \ {0}
  /\ max_nb_clients \in Nat \ {0}
  /\ MaxAge \in Nat
  /\ (fp_throttle - 1) * fp_decay_time \in Nat
  /\ (fp_throttle - 1) * fp_decay_time + fp_decay_time = MaxAge
<1>1. /\ fp_throttle \in Nat /\ fp_throttle >= 2
      /\ fp_decay_time \in Nat \ {0}
      /\ max_nb_clients \in Nat \ {0}
  BY LimitAssumption
<1>2. /\ (fp_throttle - 1) * fp_decay_time = fp_throttle * fp_decay_time - 1 * fp_decay_time
      /\ 1 * fp_decay_time = fp_decay_time
      /\ fp_throttle * fp_decay_time \in Int
  BY <1>1, Distributive
<1>3. 1 * fp_decay_time <= (fp_throttle - 1) * fp_decay_time
  BY <1>1, Monotone
<1>4. QED
  BY <1>1, <1>2, <1>3 DEF MaxAge

----------------------------------------------------------------------------
(* Records and what they vouch for.                                        *)

\* The decayed count of a record (Cl_QueryThrottleDecay) is at most its count,
\* and what the record vouches for is at most that many decay times.
LEMMA DecayVouches ==
  ASSUME NEW client \in Records, NEW spent \in Nat,
         Vouches(spent, client.count, client.age)
  PROVE  /\ Cl_QueryThrottleDecay(client) \in 0 .. fp_throttle - 1
         /\ spent <= Cl_QueryThrottleDecay(client) * fp_decay_time
<1> DEFINE d == fp_decay_time
           q == client.age \div d
           Q == Cl_QueryThrottleDecay(client)
<1>1. d \in Nat \ {0} /\ client.age \in Nat /\ client.count \in Nat
      /\ client.count <= fp_throttle - 1 /\ fp_throttle \in Nat
  BY Parameters DEF Records, Ages
<1>2. q \in Nat /\ q * d <= client.age
  BY <1>1, Division
<1>3. /\ (client.count - q) * d = client.count * d - q * d
      /\ client.count * d \in Int /\ q * d \in Int
  BY <1>1, <1>2, Distributive
<1>4. Q = IF client.count - q < 0 THEN 0 ELSE client.count - q
  BY DEF Cl_QueryThrottleDecay
<1>5. Q \in 0 .. fp_throttle - 1
  <2> HIDE DEF q, Q
  <2> QED BY <1>1, <1>2, <1>4
<1>6. 0 * d <= Q * d /\ 0 * d = 0 /\ Q * d \in Int
  <2> HIDE DEF Q
  <2> QED BY <1>1, <1>5, Monotone, Distributive, Parameters
<1>7. spent <= Q * d
  <2>1. CASE spent = 0
    BY <1>6, <2>1
  <2>2. CASE spent + client.age <= client.count * d
    <3>1. spent <= (client.count - q) * d
      <4> HIDE DEF q
      <4> QED BY <1>1, <1>2, <1>3, <2>2
    <3>2. (client.count - q) * d <= Q * d
      <4> HIDE DEF q, Q
      <4>1. client.count - q \in Int /\ Q \in Int /\ client.count - q <= Q
        BY <1>1, <1>2, <1>4
      <4>2. QED
        BY <1>1, <4>1, Monotone
    <3>3. (client.count - q) * d \in Int
      BY <1>3
    <3>4. QED
      <4> HIDE DEF q, Q
      <4> QED BY <3>1, <3>2, <3>3, <1>6
  <2>3. QED
    BY <2>1, <2>2 DEF Vouches
<1>8. QED
  BY <1>5, <1>7

\* A client is only blocked within a decay time of its last answer: its count
\* has not faded at all.
LEMMA BlockedIsRecent ==
  ASSUME NEW client \in Records, IsBlocked(Cl_QueryThrottleDecay(client) + 1)
  PROVE  client.age < fp_decay_time
<1> DEFINE d == fp_decay_time
           q == client.age \div d
<1>1. d \in Nat \ {0} /\ client.age \in Nat /\ client.count \in Nat
      /\ client.count <= fp_throttle - 1 /\ fp_throttle \in Nat /\ fp_throttle >= 2
  BY Parameters DEF Records, Ages
<1>2. q \in Nat /\ client.age < q * d + d
  BY <1>1, Division
<1>3. (IF client.count - q < 0 THEN 0 ELSE client.count - q) + 1 >= fp_throttle
  BY DEF IsBlocked, Cl_QueryThrottleDecay
<1>4. q = 0
  <2> HIDE DEF q
  <2> QED BY <1>1, <1>2, <1>3
<1>5. 0 * d = 0
  BY <1>1, Distributive
<1>6. QED
  <2> HIDE DEF q
  <2> QED BY <1>1, <1>2, <1>4, <1>5

\* A record whose count has not faded was used within that many decay times.
LEMMA CountingIsRecent ==
  ASSUME NEW client \in Records, Cl_QueryThrottleDecay(client) # 0
  PROVE  client.age < client.count * fp_decay_time
<1> DEFINE d == fp_decay_time
           q == client.age \div d
<1>1. d \in Nat \ {0} /\ client.age \in Nat /\ client.count \in Nat
  BY Parameters DEF Records, Ages
<1>2. q \in Nat /\ client.age < q * d + d
  BY <1>1, Division
<1>3. q + 1 <= client.count
  <2>1. (IF client.count - q < 0 THEN 0 ELSE client.count - q) # 0
    BY DEF Cl_QueryThrottleDecay
  <2> HIDE DEF q
  <2> QED BY <1>1, <1>2, <2>1
<1>4. (q + 1) * d = q * d + 1 * d /\ 1 * d = d /\ (q + 1) * d <= client.count * d
      /\ q * d \in Int /\ client.count * d \in Int
  <2> HIDE DEF q
  <2> QED BY <1>1, <1>2, <1>3, Monotone, Distributive
<1>5. QED
  <2> HIDE DEF q
  <2> QED BY <1>1, <1>2, <1>4

\* The search of Cl_AddClient visits every slot.
LEMMA SearchedEverywhere ==
  ASSUME TypeOK, NEW i \in Slots
  PROVE  \E n \in 0 .. max_nb_clients - 1 : Searched(n) = i
<1>1. /\ max_nb_clients \in Nat \ {0} /\ i \in Nat /\ i < max_nb_clients
      /\ last_used_slot \in Int /\ -1 <= last_used_slot /\ last_used_slot < max_nb_clients
  BY Parameters DEF TypeOK, Slots
<1>2. i % max_nb_clients = i /\ (i + max_nb_clients) % max_nb_clients = i
  BY <1>1, Remainder
<1>3. CASE last_used_slot < i
  <2>1. i - last_used_slot - 1 \in 0 .. max_nb_clients - 1
        /\ last_used_slot + 1 + (i - last_used_slot - 1) = i
    BY <1>1, <1>3
  <2>2. QED
    BY <1>2, <2>1 DEF Searched
<1>4. CASE last_used_slot >= i
  <2>1. i + max_nb_clients - last_used_slot - 1 \in 0 .. max_nb_clients - 1
        /\ last_used_slot + 1 + (i + max_nb_clients - last_used_slot - 1) = i + max_nb_clients
    BY <1>1, <1>4
  <2>2. QED
    BY <1>2, <2>1 DEF Searched
<1>5. QED
  BY <1>1, <1>3, <1>4

----------------------------------------------------------------------------
(* The invariant.                                                          *)

\* Init: nobody has a record, and nobody has used anything.
LEMMA InitIInv == Init => IInv
<1> SUFFICES ASSUME Init PROVE IInv
  OBVIOUS
<1>1. TypeOK
  BY Parameters DEF Init, TypeOK, Ages, NoRequest
<1>2. \A i \in Slots : ~ Used(i)
  BY DEF Init, Used
<1>3. \A h \in Hosts : load[h] = 0
  BY DEF Init
<1>4. QED
  BY <1>1, <1>2, <1>3 DEF IInv, RecordsVouch, OthersAreIdle, OneRecordEach

\* What a used slot holds.
LEMMA UsedRecord ==
  ASSUME TypeOK, NEW i \in Slots, Used(i)
  PROVE  clients[i] \in Records /\ clients[i].host \in Hosts
BY DEF TypeOK, Used, Records

\* A request that is ignored leaves the records and the ledger alone.
LEMMA IgnoredStep ==
  ASSUME IInv, NEW h \in Hosts, NEW v \in Verdicts,
         Ignored(h, v), UNCHANGED <<clients, last_used_slot>>
  PROVE  IInv'
<1>1. UNCHANGED <<clients, last_used_slot, load, silent>>
  BY DEF Ignored
<1>2. TypeOK'
  BY <1>1 DEF IInv, TypeOK, Ignored
<1>3. RecordsVouch' /\ OthersAreIdle' /\ OneRecordEach'
  BY <1>1 DEF IInv, RecordsVouch, OthersAreIdle, OneRecordEach, Used, RecordOf
<1>4. QED
  BY <1>2, <1>3 DEF IInv

\* An answer writes a record of count c for its host h into slot i, where no
\* other slot holds one and the host it takes the slot from, if any, has used
\* nothing.
LEMMA AnsweredStep ==
  ASSUME IInv, NEW h \in Hosts, NEW i \in Slots, NEW c \in 1 .. fp_throttle - 1,
         \A j \in Slots \ {i} : Used(j) => clients[j].host # h,
         Used(i) /\ clients[i].host # h => load[clients[i].host] = 0,
         load[h] + fp_decay_time <= c * fp_decay_time,
         Answered(h), last_used_slot' \in -1 .. max_nb_clients - 1,
         clients' = [clients EXCEPT ![i] = [host |-> h, count |-> c, age |-> 0]]
  PROVE  IInv'
<1> DEFINE r == [host |-> h, count |-> c, age |-> 0]
<1>0. TypeOK /\ RecordsVouch /\ OthersAreIdle /\ OneRecordEach
  BY DEF IInv
<1>1. r \in Records /\ r # NoClient
  BY Parameters, HostAssumption DEF Records, Ages
<1>2. clients'[i] = r /\ \A j \in Slots \ {i} : clients'[j] = clients[j]
  BY <1>0 DEF TypeOK
<1>3. \A g \in Hosts : /\ load'[g] = IF g = h THEN load[g] + fp_decay_time ELSE load[g]
                      /\ silent'[g] = IF g = h THEN 0 ELSE silent[g]
  BY <1>0 DEF TypeOK, Answered
<1>4. TypeOK'
  <2>1. clients' \in [Slots -> Records \cup {NoClient}]
    BY <1>0, <1>1 DEF TypeOK
  <2>2. load[h] + fp_decay_time \in 0 .. MaxAge
    <3>1. c * fp_decay_time <= (fp_throttle - 1) * fp_decay_time
      BY Parameters, Monotone
    <3>2. load[h] \in Nat /\ c * fp_decay_time \in Int
      BY <1>0, Parameters, Distributive DEF TypeOK
    <3>3. QED
      BY <3>1, <3>2, Parameters
  <2>3. load' \in [Hosts -> 0 .. MaxAge]
    BY <1>0, <2>2 DEF TypeOK, Answered
  <2>4. silent' \in [Hosts -> Ages]
    BY <1>0, Parameters DEF TypeOK, Answered, Ages
  <2>5. last' \in [host : Hosts, verdict : Verdicts] /\ last_used_slot' \in -1 .. max_nb_clients - 1
    BY Parameters DEF Answered, Verdicts, Slots
  <2>6. QED
    BY <2>1, <2>3, <2>4, <2>5 DEF TypeOK
<1>5. \A j \in Slots : Used(j)' <=> j = i \/ Used(j)
  BY <1>1, <1>2 DEF Used
<1>6. RecordsVouch'
  <2> SUFFICES ASSUME NEW j \in Slots, Used(j)'
               PROVE  /\ Vouches(load'[clients'[j].host], clients'[j].count, clients'[j].age)
                      /\ silent'[clients'[j].host] = clients'[j].age
    BY DEF RecordsVouch
  <2>1. CASE j = i
    <3>1. load[h] \in Nat /\ fp_decay_time \in Nat /\ c * fp_decay_time \in Int
      BY <1>0, Parameters, Distributive DEF TypeOK
    <3>2. load'[h] + 0 <= c * fp_decay_time /\ silent'[h] = 0
      BY <1>3, <3>1
    <3>3. QED
      BY <1>2, <2>1, <3>2 DEF Vouches
  <2>2. CASE j # i
    <3>1. Used(j) /\ clients'[j] = clients[j] /\ clients[j].host # h
      BY <1>2, <1>5, <2>2
    <3>2. clients[j].host \in Hosts
      BY <1>0, <3>1, UsedRecord
    <3>3. QED
      BY <1>0, <1>3, <3>1, <3>2 DEF RecordsVouch
  <2>3. QED
    BY <2>1, <2>2
<1>7. OthersAreIdle'
  <2> SUFFICES ASSUME NEW g \in Hosts, \A j \in Slots : ~ (Used(j)' /\ clients'[j].host = g)
               PROVE  load'[g] = 0
    BY DEF OthersAreIdle, RecordOf
  <2>1. g # h
    BY <1>2, <1>5
  <2>2. \A j \in Slots \ {i} : ~ (Used(j) /\ clients[j].host = g)
    BY <1>2, <1>5
  <2>3. CASE Used(i) /\ clients[i].host = g
    BY <1>3, <2>1, <2>3
  <2>4. CASE ~ (Used(i) /\ clients[i].host = g)
    <3>1. RecordOf(g) = {}
      BY <2>2, <2>4 DEF RecordOf
    <3>2. QED
      BY <1>0, <1>3, <2>1, <3>1 DEF OthersAreIdle
  <2>5. QED
    BY <2>3, <2>4
<1>8. OneRecordEach'
  BY <1>0, <1>2, <1>5 DEF OneRecordEach
<1>9. QED
  BY <1>4, <1>6, <1>7, <1>8 DEF IInv

\* Cl_BlockedByThrottle lets a request pass: it costs the host one decay time,
\* and the record vouches for one more.
LEMMA NotThrottledStep ==
  ASSUME IInv, NEW h \in Hosts, NotThrottled(h)
  PROVE  IInv'
<1>0. TypeOK /\ RecordsVouch /\ OneRecordEach
  BY DEF IInv
<1>1. PICK i \in RecordOf(h) :
        /\ ~ IsBlocked(Cl_QueryThrottleDecay(clients[i]) + 1)
        /\ clients' = [clients EXCEPT
             ![i] = [host |-> h, count |-> Cl_QueryThrottleDecay(clients[i]) + 1, age |-> 0]]
        /\ Answered(h)
        /\ UNCHANGED last_used_slot
  BY Zenon DEF NotThrottled
<1> DEFINE Q == Cl_QueryThrottleDecay(clients[i])
<1>2. i \in Slots /\ Used(i) /\ clients[i].host = h /\ clients[i] \in Records
  BY <1>0, <1>1, UsedRecord DEF RecordOf
<1>3. load[h] \in Nat /\ Vouches(load[h], clients[i].count, clients[i].age)
  BY <1>0, <1>2, Parameters DEF TypeOK, RecordsVouch
<1>4. Q \in 0 .. fp_throttle - 1 /\ load[h] <= Q * fp_decay_time
  BY <1>2, <1>3, DecayVouches
<1>5. Q + 1 \in 1 .. fp_throttle - 1
  <2> HIDE DEF Q
  <2>1. ~ (Q + 1 >= fp_throttle)
    BY <1>1 DEF IsBlocked, Q
  <2>2. QED
    BY <1>4, <2>1, Parameters
<1>6. load[h] + fp_decay_time <= (Q + 1) * fp_decay_time
  <2> HIDE DEF Q
  <2>1. /\ (Q + 1) * fp_decay_time = Q * fp_decay_time + 1 * fp_decay_time
        /\ 1 * fp_decay_time = fp_decay_time /\ Q * fp_decay_time \in Int
    BY <1>4, Parameters, Distributive
  <2>2. QED
    BY <1>3, <1>4, <2>1, Parameters
<1>7. clients' = [clients EXCEPT ![i] = [host |-> h, count |-> Q + 1, age |-> 0]]
  BY <1>1
<1>8. \A j \in Slots \ {i} : Used(j) => clients[j].host # h
  BY <1>0, <1>2 DEF OneRecordEach
<1>9. last_used_slot' \in -1 .. max_nb_clients - 1
  BY <1>0, <1>1 DEF TypeOK
<1>10. QED
  <2> HIDE DEF Q
  <2> QED BY <1>1, <1>2, <1>5, <1>6, <1>7, <1>8, <1>9, AnsweredStep

\* Cl_AddClient finds a slot: the host it takes it from, if any, has used
\* nothing, for its record has faded.
LEMMA AddedStep ==
  ASSUME IInv, NEW h \in Hosts, Added(h)
  PROVE  IInv'
<1>0. TypeOK /\ RecordsVouch /\ OthersAreIdle
  BY DEF IInv
<1>1. PICK n \in Candidates :
        /\ clients' = [clients EXCEPT ![Searched(n)] = [host |-> h, count |-> 1, age |-> 0]]
        /\ last_used_slot' = Searched(n)
  BY DEF Added
<1> DEFINE i == Searched(n)
<1>2. i \in Slots /\ Retired(i) /\ RecordOf(h) = {} /\ Answered(h)
  BY <1>1 DEF Candidates, Added
<1>3. \A j \in Slots \ {i} : Used(j) => clients[j].host # h
  BY <1>2 DEF RecordOf
<1>4. ASSUME Used(i)
      PROVE  load[clients[i].host] = 0
  <2> HIDE DEF i
  <2>1. clients[i] \in Records /\ clients[i].host \in Hosts
    BY <1>0, <1>2, <1>4, UsedRecord
  <2>2. load[clients[i].host] \in Nat
    BY <1>0, <2>1, Parameters DEF TypeOK
  <2>3. Vouches(load[clients[i].host], clients[i].count, clients[i].age)
    BY <1>0, <1>2, <1>4 DEF RecordsVouch
  <2>4. load[clients[i].host] <= Cl_QueryThrottleDecay(clients[i]) * fp_decay_time
    BY <2>1, <2>2, <2>3, DecayVouches
  <2>5. Cl_QueryThrottleDecay(clients[i]) = 0 /\ 0 * fp_decay_time = 0
    BY <1>2, <1>4, Parameters, Distributive DEF Retired
  <2>6. QED
    BY <2>2, <2>4, <2>5
<1>5. load[h] + fp_decay_time <= 1 * fp_decay_time
  <2>1. load[h] = 0 /\ 1 * fp_decay_time = fp_decay_time
    BY <1>0, <1>2, Parameters, Distributive DEF OthersAreIdle
  <2>2. QED
    BY <2>1, Parameters
<1>6. 1 \in 1 .. fp_throttle - 1 /\ last_used_slot' \in -1 .. max_nb_clients - 1
  BY <1>1, <1>2, Parameters DEF Slots
<1>7. QED
  <2> HIDE DEF i
  <2> QED BY <1>1, <1>2, <1>3, <1>4, <1>5, <1>6, AnsweredStep DEF i

\* A second passes: what a host has used and what its record vouches for shrink
\* together, and a record too old to age any more vouches for nothing.
LEMMA TickStep ==
  ASSUME IInv, Tick
  PROVE  IInv'
<1>0. TypeOK /\ RecordsVouch /\ OthersAreIdle /\ OneRecordEach
  BY DEF IInv
<1>1. \A t \in Ages : Older(t) \in Ages /\ (t < MaxAge => Older(t) = t + 1)
                     /\ (t >= MaxAge => Older(t) = t)
  BY Parameters DEF Ages, Older
<1>2. \A i \in Slots : clients'[i] = IF Used(i) THEN [clients[i] EXCEPT !.age = Older(@)]
                                              ELSE NoClient
  BY DEF Tick
<1>3. ASSUME NEW i \in Slots, Used(i)
      PROVE  /\ clients'[i] \in Records
             /\ clients'[i] # NoClient
             /\ clients'[i].host = clients[i].host
             /\ clients'[i].count = clients[i].count
             /\ clients'[i].age = Older(clients[i].age)
  <2>1. clients[i] \in Records
    BY <1>0, <1>3, UsedRecord
  <2>2. clients'[i] = [clients[i] EXCEPT !.age = Older(clients[i].age)]
    BY <1>2, <1>3
  <2>3. Older(clients[i].age) \in Ages
    BY <1>1, <2>1 DEF Records
  <2>4. clients'[i] \in Records
    BY <2>1, <2>2, <2>3 DEF Records
  <2>5. clients'[i] # NoClient
    BY <2>4, HostAssumption, Parameters DEF Records, Ages
  <2>6. QED
    BY <2>1, <2>2, <2>4, <2>5 DEF Records
<1>4. \A i \in Slots : Used(i)' <=> Used(i)
  <2> TAKE i \in Slots
  <2>1. CASE Used(i)
    BY <1>3, <2>1 DEF Used
  <2>2. CASE ~ Used(i)
    BY <1>2, <2>2 DEF Used
  <2>3. QED
    BY <2>1, <2>2
<1>5. \A i \in Slots : Used(i) => clients'[i].host = clients[i].host
  BY <1>3
<1>6. \A g \in Hosts : /\ load'[g] = IF load[g] > 0 THEN load[g] - 1 ELSE 0
                      /\ silent'[g] = Older(silent[g])
  BY DEF Tick
<1>7. TypeOK'
  <2>1. clients' \in [Slots -> Records \cup {NoClient}]
    <3>1. \A i \in Slots : clients'[i] \in Records \cup {NoClient}
      <4> TAKE i \in Slots
      <4>1. CASE Used(i)
        BY <1>3, <4>1
      <4>2. CASE ~ Used(i)
        BY <1>2, <4>2
      <4>3. QED
        BY <4>1, <4>2
    <3>2. clients' = [i \in Slots |-> clients'[i]]
      BY DEF Tick
    <3>3. QED
      BY <3>1, <3>2
  <2>2. load' \in [Hosts -> 0 .. MaxAge]
    BY <1>0, Parameters DEF TypeOK, Tick
  <2>3. silent' \in [Hosts -> Ages]
    <3>1. \A g \in Hosts : Older(silent[g]) \in Ages
      BY <1>0, <1>1 DEF TypeOK
    <3>2. QED
      BY <3>1 DEF Tick
  <2>4. last' = NoRequest /\ last_used_slot' \in -1 .. max_nb_clients - 1
    BY <1>0 DEF TypeOK, Tick
  <2>5. QED
    BY <2>1, <2>2, <2>3, <2>4 DEF TypeOK
<1>8. RecordsVouch'
  <2> SUFFICES ASSUME NEW i \in Slots, Used(i)
               PROVE  /\ Vouches(load'[clients[i].host], clients[i].count, Older(clients[i].age))
                      /\ silent'[clients[i].host] = Older(clients[i].age)
    BY <1>3, <1>4 DEF RecordsVouch
  <2>1. clients[i] \in Records /\ clients[i].host \in Hosts
    BY <1>0, UsedRecord
  <2>2. silent'[clients[i].host] = Older(clients[i].age)
    BY <1>0, <1>6, <2>1 DEF RecordsVouch
  <2>3. Vouches(load[clients[i].host], clients[i].count, clients[i].age)
    BY <1>0 DEF RecordsVouch
  <2>4. load[clients[i].host] \in Nat /\ clients[i].age \in Nat /\ clients[i].age \in Ages
    BY <1>0, <2>1, Parameters DEF TypeOK, Records, Ages
  <2>5. clients[i].count * fp_decay_time \in Int
    BY <2>1, Parameters, Distributive DEF Records
  <2>6. Older(clients[i].age) \in Nat /\ Older(clients[i].age) <= clients[i].age + 1
    BY <2>4, Parameters DEF Older
  <2>7. Vouches(load'[clients[i].host], clients[i].count, Older(clients[i].age))
    BY <1>6, <2>1, <2>3, <2>4, <2>5, <2>6 DEF Vouches
  <2>8. QED
    BY <2>2, <2>7
<1>9. OthersAreIdle'
  <2> SUFFICES ASSUME NEW g \in Hosts, RecordOf(g)' = {}
               PROVE  load'[g] = 0
    BY DEF OthersAreIdle
  <2>1. RecordOf(g) = {}
    BY <1>4, <1>5 DEF RecordOf
  <2>2. QED
    BY <1>0, <1>6, <2>1 DEF OthersAreIdle
<1>10. OneRecordEach'
  BY <1>0, <1>4, <1>5 DEF OneRecordEach
<1>11. QED
  BY <1>7, <1>8, <1>9, <1>10 DEF IInv

\* Every step keeps the invariant.
LEMMA NextIInv == IInv /\ [Next]_vars => IInv'
<1> SUFFICES ASSUME IInv, [Next]_vars PROVE IInv'
  OBVIOUS
<1>1. ASSUME NEW h \in Hosts, Throttled(h) PROVE IInv'
  <2>1. Ignored(h, "throttled") /\ UNCHANGED <<clients, last_used_slot>>
    BY <1>1 DEF Throttled
  <2>2. QED
    BY <2>1, IgnoredStep DEF Verdicts
<1>2. ASSUME NEW h \in Hosts, NotThrottled(h) PROVE IInv'
  BY <1>2, NotThrottledStep
<1>3. ASSUME NEW h \in Hosts, Added(h) PROVE IInv'
  BY <1>3, AddedStep
<1>4. ASSUME NEW h \in Hosts, NotAdded(h) PROVE IInv'
  <2>1. Ignored(h, "no room") /\ UNCHANGED <<clients, last_used_slot>>
    BY <1>4 DEF NotAdded
  <2>2. QED
    BY <2>1, IgnoredStep DEF Verdicts
<1>5. CASE Tick
  BY <1>5, TickStep
<1>6. CASE UNCHANGED vars
  <2>1. UNCHANGED <<clients, last_used_slot, last, load, silent>>
    BY <1>6 DEF vars
  <2>2. QED
    BY <2>1 DEF IInv, TypeOK, RecordsVouch, OthersAreIdle, OneRecordEach, Used, RecordOf
<1>7. QED
  BY <1>1, <1>2, <1>3, <1>4, <1>5, <1>6 DEF Next, Request

\* The inductive invariant holds in every behaviour of the specification.
LEMMA Invariance == Spec => []IInv
BY InitIInv, NextIInv, PTL DEF Spec

----------------------------------------------------------------------------
(* Theorems.                                                               *)

\* The variables of clients.c have their types: in particular, no stored count
\* is 0 or reaches the throttle limit.
THEOREM TypeCorrect == Spec => []TypeOK
<1>1. IInv => TypeOK
  BY DEF IInv
<1>2. QED
  BY <1>1, Invariance, PTL

\* No host gets more than throttle - 1 answers at once and one per decay time,
\* however the hosts compete for the records.
THEOREM BandwidthBounded == Spec => []NoHostGetsMore
<1>1. IInv => NoHostGetsMore
  <2> SUFFICES ASSUME IInv, NEW h \in Hosts
               PROVE  load[h] <= (fp_throttle - 1) * fp_decay_time
    BY DEF NoHostGetsMore
  <2>1. CASE RecordOf(h) = {}
    BY <2>1, Parameters DEF IInv, OthersAreIdle
  <2>2. CASE RecordOf(h) # {}
    <3>1. PICK i \in Slots : Used(i) /\ clients[i].host = h
      BY <2>2 DEF RecordOf
    <3>2. clients[i] \in Records /\ load[h] \in Nat
      BY <3>1, UsedRecord, Parameters DEF IInv, TypeOK
    <3>3. Vouches(load[h], clients[i].count, clients[i].age)
      BY <3>1 DEF IInv, RecordsVouch
    <3>4. clients[i].count \in Nat /\ clients[i].age \in Nat /\ clients[i].count <= fp_throttle - 1
      BY <3>2, Parameters DEF Records, Ages
    <3>5. /\ clients[i].count * fp_decay_time <= (fp_throttle - 1) * fp_decay_time
          /\ clients[i].count * fp_decay_time \in Int
      BY <3>4, Parameters, Monotone, Distributive
    <3>6. QED
      BY <3>2, <3>3, <3>4, <3>5, Parameters DEF Vouches
  <2>3. QED
    BY <2>1, <2>2
<1>2. QED
  BY <1>1, Invariance, PTL

\* A client is only throttled within a decay time of its last answer.
THEOREM ThrottlingIsBrief == Spec => []ThrottledBriefly
<1>1. Init => ThrottledBriefly
  BY DEF Init, NoRequest, ThrottledBriefly
<1>2. ThrottledBriefly /\ IInv /\ [Next]_vars => ThrottledBriefly'
  <2> SUFFICES ASSUME ThrottledBriefly, IInv, [Next]_vars, last'.verdict = "throttled"
               PROVE  silent'[last'.host] < fp_decay_time
    BY DEF ThrottledBriefly
  <2>1. ASSUME NEW h \in Hosts, Throttled(h)
        PROVE  silent'[last'.host] < fp_decay_time
    <3>1. PICK i \in RecordOf(h) : IsBlocked(Cl_QueryThrottleDecay(clients[i]) + 1)
      BY <2>1 DEF Throttled
    <3>2. last'.host = h /\ silent' = silent
      BY <2>1 DEF Throttled, Ignored
    <3>3. i \in Slots /\ Used(i) /\ clients[i].host = h /\ TypeOK
      BY <3>1 DEF RecordOf, IInv
    <3>4. clients[i] \in Records
      BY <3>3, UsedRecord
    <3>5. clients[i].age < fp_decay_time
      BY <3>1, <3>4, BlockedIsRecent
    <3>6. silent[h] = clients[i].age
      BY <3>3 DEF IInv, RecordsVouch
    <3>7. QED
      BY <3>2, <3>5, <3>6
  <2>2. ASSUME NEW h \in Hosts, NotThrottled(h) \/ Added(h) \/ NotAdded(h)
        PROVE  FALSE
    <3>1. CASE NotThrottled(h)
      BY <3>1 DEF NotThrottled, Answered
    <3>2. CASE Added(h)
      BY <3>2 DEF Added, Answered
    <3>3. CASE NotAdded(h)
      BY <3>3 DEF NotAdded, Ignored
    <3>4. QED
      BY <2>2, <3>1, <3>2, <3>3
  <2>3. CASE Tick
    BY <2>3 DEF Tick, NoRequest
  <2>4. CASE UNCHANGED vars
    BY <2>4 DEF vars, ThrottledBriefly
  <2>5. QED
    BY <2>1, <2>2, <2>3, <2>4 DEF Next, Request
<1>3. QED
  BY <1>1, <1>2, Invariance, PTL DEF Spec

\* A newcomer is only ignored while every record belongs to another host that
\* was answered within the decay times of its count.
THEOREM RefusalIsJustified == Spec => []RefusedOnlyWhenBusy
<1>1. Init => RefusedOnlyWhenBusy
  BY DEF Init, NoRequest, RefusedOnlyWhenBusy
<1>2. RefusedOnlyWhenBusy /\ IInv /\ [Next]_vars => RefusedOnlyWhenBusy'
  <2> DEFINE Busy == \A i \in Slots :
               /\ Used(i)
               /\ silent[clients[i].host] < clients[i].count * fp_decay_time
               /\ \A j \in Slots \ {i} : clients[j].host # clients[i].host
  <2> SUFFICES ASSUME RefusedOnlyWhenBusy, IInv, [Next]_vars, last'.verdict = "no room"
               PROVE  Busy'
    BY DEF RefusedOnlyWhenBusy
  <2>1. ASSUME NEW h \in Hosts, NotAdded(h)
        PROVE  Busy'
    <3>1. UNCHANGED <<clients, silent>> /\ Candidates = {}
      BY <2>1 DEF NotAdded, Ignored
    <3>2. \A i \in Slots : ~ Retired(i)
      <4> TAKE i \in Slots
      <4>1. PICK n \in 0 .. max_nb_clients - 1 : Searched(n) = i
        BY SearchedEverywhere DEF IInv
      <4>2. QED
        BY <3>1, <4>1 DEF Candidates
    <3>3. ASSUME NEW i \in Slots
          PROVE  /\ Used(i)
                 /\ silent[clients[i].host] < clients[i].count * fp_decay_time
                 /\ \A j \in Slots \ {i} : clients[j].host # clients[i].host
      <4>1. Used(i) /\ Cl_QueryThrottleDecay(clients[i]) # 0
        BY <3>2 DEF Retired
      <4>2. clients[i] \in Records
        BY <4>1, UsedRecord DEF IInv
      <4>3. clients[i].age < clients[i].count * fp_decay_time
        BY <4>1, <4>2, CountingIsRecent
      <4>4. silent[clients[i].host] = clients[i].age
        BY <4>1 DEF IInv, RecordsVouch
      <4>5. \A j \in Slots : Used(j)
        BY <3>2 DEF Retired
      <4>6. QED
        BY <4>1, <4>3, <4>4, <4>5 DEF IInv, OneRecordEach
    <3>4. Busy
      BY <3>3
    <3>5. QED
      BY <3>1, <3>4 DEF Used
  <2>2. ASSUME NEW h \in Hosts, Throttled(h) \/ NotThrottled(h) \/ Added(h)
        PROVE  FALSE
    <3>1. CASE Throttled(h)
      BY <3>1 DEF Throttled, Ignored
    <3>2. CASE NotThrottled(h)
      BY <3>2 DEF NotThrottled, Answered
    <3>3. CASE Added(h)
      BY <3>3 DEF Added, Answered
    <3>4. QED
      BY <2>2, <3>1, <3>2, <3>3
  <2>3. CASE Tick
    BY <2>3 DEF Tick, NoRequest
  <2>4. CASE UNCHANGED vars
    BY <2>4 DEF vars, RefusedOnlyWhenBusy, Used
  <2>5. QED
    BY <2>1, <2>2, <2>3, <2>4 DEF Next, Request
<1>3. QED
  BY <1>1, <1>2, Invariance, PTL DEF Spec

----------------------------------------------------------------------------
(* Heartbeats.                                                             *)

\* The ages of an endpoint's latest heartbeats, the newest first.
NewestFirst(ages) == \A m, n \in DOMAIN ages : m <= n => ages[m] <= ages[n]

HistoriesInOrder ==
  \A e \in Endpoints : NewestFirst(sent[e]) /\ NewestFirst(passed[e])

\* Heartbeats of this window that were let through.
LetThrough(record) ==
  IF record.count < HEARTBEAT_LIMIT_BURST THEN record.count ELSE HEARTBEAT_LIMIT_BURST

\* Those it counts were sent within the window; those let through before it are
\* older, and those before the last burst are as old as the loss of a record.
CountsItsWindow(record, e) ==
  /\ record.count >= 1
  /\ sent[e][record.count] <= record.age
  /\ passed[e][LetThrough(record) + 1] >= record.age
  /\ passed[e][LetThrough(record) + TooMany] >= overwritten[e]

LimitsCount ==
  \A i \in LimitSlots :
    heartbeat_limits[i].address \in Endpoints =>
      CountsItsWindow(heartbeat_limits[i], heartbeat_limits[i].address)

\* Nothing was let through since the record of an endpoint was lost.
UnknownAreSilent ==
  \A e \in Endpoints : LimitOf(e) = {} => passed[e][1] >= overwritten[e]

OneLimitEach ==
  \A i, j \in LimitSlots :
    /\ heartbeat_limits[i].address = heartbeat_limits[j].address
    /\ heartbeat_limits[i].address \in Endpoints
    => i = j

HeartbeatInv ==
  /\ HeartbeatTypeOK
  /\ HistoriesInOrder
  /\ LimitsCount
  /\ UnknownAreSilent
  /\ OneLimitEach

\* The parameters of the limit, as the arithmetic needs them.
LEMMA HeartbeatParameters ==
  /\ HEARTBEAT_LIMIT_SLOTS \in Nat \ {0}
  /\ HEARTBEAT_LIMIT_WINDOW \in Nat \ {0}
  /\ HEARTBEAT_LIMIT_BURST \in Nat \ {0}
  /\ TooMany \in Nat /\ TooMany = HEARTBEAT_LIMIT_BURST + 1
  /\ 2 * HEARTBEAT_LIMIT_BURST + 1 \in Nat
BY HeartbeatAssumption DEF TooMany

\* A new heartbeat shifts the ages by one.
LEMMA NewestShifts ==
  ASSUME NEW N \in Nat, NEW ages \in Latest(N), NewestFirst(ages)
  PROVE  /\ WithNewest(ages) \in Latest(N)
         /\ NewestFirst(WithNewest(ages))
         /\ N >= 1 => WithNewest(ages)[1] = 0
         /\ \A n \in 2 .. N : WithNewest(ages)[n] = ages[n - 1]
         /\ \A n \in 1 .. N : WithNewest(ages)[n] <= ages[n]
<1>1. DOMAIN ages = 1 .. N /\ \A n \in 1 .. N : ages[n] \in Nat /\ ages[n] \in WindowAges
  BY HeartbeatParameters DEF Latest, WindowAges
<1>2. DOMAIN WithNewest(ages) = 1 .. N
      /\ \A n \in 1 .. N : WithNewest(ages)[n] = IF n = 1 THEN 0 ELSE ages[n - 1]
  BY <1>1 DEF WithNewest
<1>3. 0 \in WindowAges
  BY HeartbeatParameters DEF WindowAges
<1>4. \A n \in 1 .. N : n # 1 => n - 1 \in 1 .. N
  OBVIOUS
<1>5. WithNewest(ages) \in Latest(N)
  BY <1>1, <1>3, <1>4 DEF WithNewest, Latest
<1>6. NewestFirst(WithNewest(ages))
  <2> SUFFICES ASSUME NEW m \in 1 .. N, NEW n \in 1 .. N, m <= n
               PROVE  WithNewest(ages)[m] <= WithNewest(ages)[n]
    BY <1>2 DEF NewestFirst
  <2>1. CASE m = 1
    BY <1>1, <1>2, <1>4, <2>1
  <2>2. CASE m # 1
    <3>1. m - 1 \in 1 .. N /\ n - 1 \in 1 .. N /\ m - 1 <= n - 1 /\ n # 1
      BY <2>2
    <3>2. ages[m - 1] <= ages[n - 1]
      BY <1>1, <3>1 DEF NewestFirst
    <3>3. QED
      BY <1>2, <2>2, <3>1, <3>2
  <2>3. QED
    BY <2>1, <2>2
<1>7. \A n \in 1 .. N : WithNewest(ages)[n] <= ages[n]
  <2> TAKE n \in 1 .. N
  <2>1. CASE n = 1
    BY <1>1, <1>2, <2>1
  <2>2. CASE n # 1
    <3>1. n - 1 \in 1 .. N /\ n - 1 <= n
      BY <2>2
    <3>2. QED
      BY <1>1, <1>2, <2>2, <3>1 DEF NewestFirst
  <2>3. QED
    BY <2>1, <2>2
<1>8. QED
  BY <1>2, <1>5, <1>6, <1>7

\* A second later, the ages are in the same order and none is smaller.
LEMMA WindowAgeing ==
  ASSUME NEW a \in WindowAges
  PROVE  /\ OlderWindow(a) \in WindowAges
         /\ a <= OlderWindow(a)
         /\ \A b \in WindowAges : a <= b => OlderWindow(a) <= OlderWindow(b)
BY HeartbeatParameters DEF WindowAges, OlderWindow

\* All ages of a history at once.
LEMMA HistoryAges ==
  ASSUME NEW N \in Nat, NEW history \in [Endpoints -> Latest(N)], NEW e \in Endpoints,
         NewestFirst(history[e])
  PROVE  /\ Aged(history)[e] \in Latest(N)
         /\ NewestFirst(Aged(history)[e])
         /\ \A n \in 1 .. N : Aged(history)[e][n] = OlderWindow(history[e][n])
<1>1. DOMAIN history[e] = 1 .. N /\ \A n \in 1 .. N : history[e][n] \in WindowAges
  BY DEF Latest
<1>2. Aged(history)[e] = [n \in 1 .. N |-> OlderWindow(history[e][n])]
  BY <1>1 DEF Aged
<1>3. QED
  BY <1>1, <1>2, WindowAgeing DEF Latest, NewestFirst

\* Counting a heartbeat: the record it leaves and what it stood for before.
LEMMA CountedRecord ==
  ASSUME NEW record \in LimitRecords
  PROVE  /\ Counted(record) \in LimitRecords
         /\ Counted(record).address = record.address
         /\ \/ /\ record.age = HEARTBEAT_LIMIT_WINDOW
               /\ Counted(record).age = 0 /\ Counted(record).count = 1
            \/ /\ record.age < HEARTBEAT_LIMIT_WINDOW
               /\ Counted(record).age = record.age
               /\ Counted(record).count = OneMore(record.count)
<1>1. /\ record.age \in WindowAges /\ record.count \in 0 .. TooMany
      /\ 0 \in WindowAges /\ 1 \in 0 .. TooMany /\ OneMore(record.count) \in 0 .. TooMany
  BY HeartbeatParameters DEF LimitRecords, WindowAges, OneMore
<1>2. CASE WindowOver(record)
  <2>1. Counted(record) = [record EXCEPT !.age = 0, !.count = 1]
    BY <1>2 DEF Counted
  <2>2. record.age = HEARTBEAT_LIMIT_WINDOW
    BY <1>1, <1>2, HeartbeatParameters DEF WindowOver, WindowAges
  <2>3. QED
    BY <1>1, <2>1, <2>2 DEF LimitRecords
<1>3. CASE ~ WindowOver(record)
  <2>1. Counted(record) = [record EXCEPT !.count = OneMore(record.count)]
    BY <1>3 DEF Counted
  <2>2. record.age < HEARTBEAT_LIMIT_WINDOW
    BY <1>1, <1>3, HeartbeatParameters DEF WindowOver, WindowAges
  <2>3. QED
    BY <1>1, <2>1, <2>2 DEF LimitRecords
<1>4. QED
  BY <1>2, <1>3

\* The static variables of messages.c satisfy the invariant.
LEMMA HeartbeatInitially == HeartbeatInit => HeartbeatInv
<1> SUFFICES ASSUME HeartbeatInit
             PROVE  HeartbeatInv
  OBVIOUS
<1> USE HeartbeatParameters
<1>1. EmptyRecord \in LimitRecords
  BY DEF EmptyRecord, LimitRecords, WindowAges
<1>2. \A N \in Nat : NoneYet(N) \in [Endpoints -> Latest(N)]
  BY DEF NoneYet, Latest, WindowAges
<1>3. HeartbeatTypeOK
  BY <1>1, <1>2 DEF HeartbeatInit, HeartbeatTypeOK, LimitSlots, WindowAges
<1>4. HistoriesInOrder
  BY DEF HeartbeatInit, HistoriesInOrder, NewestFirst, NoneYet
<1>5. LimitsCount /\ OneLimitEach
  BY EndpointAssumption DEF HeartbeatInit, LimitsCount, OneLimitEach, EmptyRecord
<1>6. UnknownAreSilent
  BY DEF HeartbeatInit, UnknownAreSilent, NoneYet
<1>7. QED
  BY <1>3, <1>4, <1>5, <1>6 DEF HeartbeatInv

\* What the type invariant and the order of the histories say of one endpoint.
LEMMA EndpointHistory ==
  ASSUME HeartbeatInv, NEW e \in Endpoints
  PROVE  /\ sent[e] \in Latest(TooMany) /\ NewestFirst(sent[e])
         /\ passed[e] \in Latest(2 * HEARTBEAT_LIMIT_BURST + 1) /\ NewestFirst(passed[e])
         /\ \A n \in 1 .. TooMany : sent[e][n] \in Nat
         /\ \A n \in 1 .. 2 * HEARTBEAT_LIMIT_BURST + 1 : passed[e][n] \in Nat
         /\ overwritten[e] \in Nat
<1>1. /\ sent[e] \in Latest(TooMany) /\ NewestFirst(sent[e])
      /\ passed[e] \in Latest(2 * HEARTBEAT_LIMIT_BURST + 1) /\ NewestFirst(passed[e])
      /\ overwritten[e] \in WindowAges
  BY DEF HeartbeatInv, HeartbeatTypeOK, HistoriesInOrder
<1>2. WindowAges \subseteq Nat
  BY HeartbeatParameters DEF WindowAges
<1>3. QED
  BY <1>1, <1>2 DEF Latest

\* A heartbeat leaves the histories of an endpoint well-typed and in order.
LEMMA SentHistories ==
  ASSUME HeartbeatInv, NEW e \in Endpoints, IsSent(e), IsPassed(e) \/ IsRefused(e)
  PROVE  /\ sent' \in [Endpoints -> Latest(TooMany)]
         /\ passed' \in [Endpoints -> Latest(2 * HEARTBEAT_LIMIT_BURST + 1)]
         /\ HistoriesInOrder'
         /\ \A x \in Endpoints \ {e} : sent'[x] = sent[x] /\ passed'[x] = passed[x]
         /\ sent'[e] = WithNewest(sent[e])
         /\ IsPassed(e) => passed'[e] = WithNewest(passed[e])
         /\ refused' \in {e, NoEndpoint}
<1>1. /\ sent \in [Endpoints -> Latest(TooMany)]
      /\ passed \in [Endpoints -> Latest(2 * HEARTBEAT_LIMIT_BURST + 1)]
  BY DEF HeartbeatInv, HeartbeatTypeOK
<1>2. sent' = [sent EXCEPT ![e] = WithNewest(sent[e])]
  BY DEF IsSent
<1>3. \/ passed' = [passed EXCEPT ![e] = WithNewest(passed[e])]
      \/ ~ IsPassed(e) /\ passed' = passed
  BY DEF IsPassed, IsRefused
<1>4. /\ WithNewest(sent[e]) \in Latest(TooMany) /\ NewestFirst(WithNewest(sent[e]))
      /\ WithNewest(passed[e]) \in Latest(2 * HEARTBEAT_LIMIT_BURST + 1)
      /\ NewestFirst(WithNewest(passed[e]))
  BY EndpointHistory, NewestShifts, HeartbeatParameters
<1>5. \A x \in Endpoints : NewestFirst(sent[x]) /\ NewestFirst(passed[x])
  BY EndpointHistory
<1>6. /\ sent' \in [Endpoints -> Latest(TooMany)]
      /\ passed' \in [Endpoints -> Latest(2 * HEARTBEAT_LIMIT_BURST + 1)]
      /\ \A x \in Endpoints \ {e} : sent'[x] = sent[x] /\ passed'[x] = passed[x]
      /\ sent'[e] = WithNewest(sent[e])
      /\ IsPassed(e) => passed'[e] = WithNewest(passed[e])
      /\ passed'[e] \in {passed[e], WithNewest(passed[e])}
  BY <1>1, <1>2, <1>3, <1>4
<1>7. \A x \in Endpoints : NewestFirst(sent'[x]) /\ NewestFirst(passed'[x])
  BY <1>4, <1>5, <1>6
<1>8. HistoriesInOrder'
  BY <1>7 DEF HistoriesInOrder, NewestFirst
<1>9. refused' \in {e, NoEndpoint}
  BY DEF IsPassed, IsRefused
<1>10. QED
  BY <1>6, <1>8, <1>9

\* A heartbeat of an endpoint that has a record.
LEMMA KnownKeeps ==
  ASSUME HeartbeatInv, NEW e \in Endpoints, HeartbeatKnown(e)
  PROVE  HeartbeatInv' /\ RefusedOnlyIfTooMany'
<1> USE HeartbeatParameters
<1> DEFINE B == HEARTBEAT_LIMIT_BURST
           N == 2 * HEARTBEAT_LIMIT_BURST + 1
<1>1. PICK i \in LimitOf(e) :
        LET record == Counted(heartbeat_limits[i])
        IN  /\ heartbeat_limits' = [heartbeat_limits EXCEPT ![i] = record]
            /\ IF record.count > B THEN IsRefused(e) ELSE IsPassed(e)
  BY DEF HeartbeatKnown
<1> DEFINE old == heartbeat_limits[i]
           new == Counted(old)
<1>2. /\ heartbeat_limits' = [heartbeat_limits EXCEPT ![i] = new]
      /\ IF new.count > B THEN IsRefused(e) ELSE IsPassed(e)
      /\ UNCHANGED <<heartbeat_limit_next, overwritten>>
      /\ IsSent(e)
  BY <1>1 DEF HeartbeatKnown
<1>3. i \in LimitSlots /\ old.address = e /\ old \in LimitRecords
  BY <1>1 DEF LimitOf, HeartbeatInv, HeartbeatTypeOK
<1>4. /\ new \in LimitRecords /\ new.address = e
      /\ \/ /\ old.age = HEARTBEAT_LIMIT_WINDOW /\ new.age = 0 /\ new.count = 1
         \/ /\ old.age < HEARTBEAT_LIMIT_WINDOW
            /\ new.age = old.age /\ new.count = OneMore(old.count)
  BY <1>3, CountedRecord
<1>5. /\ old.count \in 0 .. TooMany /\ new.count \in 0 .. TooMany
      /\ old.age \in Nat /\ new.age \in Nat
      /\ old.age <= HEARTBEAT_LIMIT_WINDOW /\ new.age <= HEARTBEAT_LIMIT_WINDOW
  BY <1>3, <1>4 DEF LimitRecords, WindowAges
<1>6. /\ old.count >= 1
      /\ sent[e][old.count] <= old.age
      /\ passed[e][LetThrough(old) + 1] >= old.age
      /\ passed[e][LetThrough(old) + TooMany] >= overwritten[e]
  BY <1>3 DEF HeartbeatInv, LimitsCount, CountsItsWindow
<1>7. /\ sent' \in [Endpoints -> Latest(TooMany)]
      /\ passed' \in [Endpoints -> Latest(N)]
      /\ HistoriesInOrder'
      /\ \A x \in Endpoints \ {e} : sent'[x] = sent[x] /\ passed'[x] = passed[x]
      /\ sent'[e] = WithNewest(sent[e])
      /\ IsPassed(e) => passed'[e] = WithNewest(passed[e])
      /\ refused' \in {e, NoEndpoint}
  BY <1>2, SentHistories
<1>8. /\ \A k \in 2 .. TooMany : sent'[e][k] = sent[e][k - 1]
      /\ \A k \in 1 .. TooMany : sent'[e][k] <= sent[e][k] /\ sent'[e][k] \in Nat
      /\ sent'[e][1] = 0
      /\ \A k \in 2 .. N : WithNewest(passed[e])[k] = passed[e][k - 1]
      /\ \A k, m \in 1 .. N : k <= m => passed[e][k] <= passed[e][m]
      /\ \A k \in 1 .. TooMany : sent[e][k] \in Nat
      /\ \A k \in 1 .. N : passed[e][k] \in Nat
      /\ overwritten[e] \in Nat
  <2>1. /\ sent[e] \in Latest(TooMany) /\ NewestFirst(sent[e])
        /\ passed[e] \in Latest(N) /\ NewestFirst(passed[e])
    BY EndpointHistory
  <2>2. \A k \in 1 .. TooMany : sent'[e][k] \in Nat
    BY <1>7 DEF Latest, WindowAges
  <2>3. \A k, m \in 1 .. N : k <= m => passed[e][k] <= passed[e][m]
    BY <2>1 DEF Latest, NewestFirst
  <2>4. QED
    BY <1>7, <2>1, <2>2, <2>3, NewestShifts, EndpointHistory
<1>9. new.count >= 1 /\ sent'[e][new.count] <= new.age
  <2>1. CASE old.age = HEARTBEAT_LIMIT_WINDOW /\ new.age = 0 /\ new.count = 1
    BY <1>8, <2>1
  <2>2. CASE new.age = old.age /\ new.count = OneMore(old.count)
    <3>1. CASE old.count < TooMany
      <4>1. new.count = old.count + 1 /\ new.count \in 2 .. TooMany
        BY <1>5, <1>6, <2>2, <3>1 DEF OneMore
      <4>2. sent'[e][new.count] = sent[e][old.count]
        BY <1>5, <1>8, <4>1
      <4>3. QED
        BY <1>6, <2>2, <4>1, <4>2
    <3>2. CASE old.count = TooMany
      BY <1>5, <1>6, <1>8, <2>2, <3>2 DEF OneMore
    <3>3. QED
      BY <1>5, <3>1, <3>2
  <2>3. QED
    BY <1>4, <2>1, <2>2
<1>10. /\ passed'[e][LetThrough(new) + 1] >= new.age
       /\ passed'[e][LetThrough(new) + TooMany] >= overwritten'[e]
  <2>1. PICK k \in 1 .. B : /\ k = LetThrough(old)
                             /\ k = IF old.count < B THEN old.count ELSE B
    BY <1>5, <1>6 DEF LetThrough
  <2>2. overwritten'[e] = overwritten[e] /\ overwritten[e] <= HEARTBEAT_LIMIT_WINDOW
    BY <1>2 DEF HeartbeatInv, HeartbeatTypeOK, WindowAges
  <2>3. CASE old.age = HEARTBEAT_LIMIT_WINDOW /\ new.age = 0 /\ new.count = 1
    <3>1. passed'[e] = WithNewest(passed[e])
      BY <1>2, <1>7, <2>3
    <3>2. LetThrough(new) = 1
      BY <2>3 DEF LetThrough
    <3>3. passed'[e][2] = passed[e][1] /\ passed'[e][1 + TooMany] = passed[e][TooMany]
      BY <1>8, <3>1
    <3>4. passed[e][k + 1] <= passed[e][TooMany]
      BY <1>8, <2>1
    <3>5. passed[e][TooMany] >= overwritten[e] /\ passed[e][1] >= 0
      <4>1. passed[e][k + 1] >= HEARTBEAT_LIMIT_WINDOW
        BY <1>6, <2>1, <2>3
      <4>2. passed[e][k + 1] \in Nat /\ passed[e][TooMany] \in Nat /\ passed[e][1] \in Nat
        BY <1>8, <2>1
      <4>3. QED
        BY <1>8, <2>2, <3>4, <4>1, <4>2
    <3>6. QED
      BY <2>2, <2>3, <3>2, <3>3, <3>5
  <2>4. CASE new.age = old.age /\ new.count = OneMore(old.count)
    <3>1. CASE new.count > B
      <4>1. passed' = passed
        BY <1>2, <3>1 DEF IsRefused
      <4>2. LetThrough(new) = k
        BY <1>5, <1>6, <2>1, <2>4, <3>1 DEF LetThrough, OneMore
      <4>3. QED
        BY <1>6, <2>1, <2>2, <2>4, <4>1, <4>2
    <3>2. CASE ~ (new.count > B)
      <4>1. passed'[e] = WithNewest(passed[e])
        BY <1>2, <1>7, <3>2
      <4>2. LetThrough(new) = k + 1 /\ k + 1 <= B
        BY <1>5, <1>6, <2>1, <2>4, <3>2 DEF LetThrough, OneMore
      <4>3. /\ passed'[e][k + 1 + 1] = passed[e][k + 1]
            /\ passed'[e][k + 1 + TooMany] = passed[e][k + TooMany]
        <5>1. k + 1 + 1 \in 2 .. N /\ k + 1 + TooMany \in 2 .. N
          BY <2>1, <4>2
        <5>2. k + 1 + 1 - 1 = k + 1 /\ k + 1 + TooMany - 1 = k + TooMany
          BY <2>1
        <5>3. /\ WithNewest(passed[e])[k + 1 + 1] = passed[e][k + 1 + 1 - 1]
              /\ WithNewest(passed[e])[k + 1 + TooMany] = passed[e][k + 1 + TooMany - 1]
          BY <1>8, <5>1
        <5>4. QED
          BY <4>1, <5>2, <5>3
      <4>4. QED
        BY <1>6, <2>1, <2>2, <2>4, <4>2, <4>3
    <3>3. QED
      BY <3>1, <3>2
  <2>5. QED
    BY <1>4, <2>3, <2>4
<1>11. /\ heartbeat_limits'[i] = new
       /\ \A j \in LimitSlots \ {i} : heartbeat_limits'[j] = heartbeat_limits[j]
       /\ \A j \in LimitSlots : heartbeat_limits'[j].address = heartbeat_limits[j].address
  <2>1. heartbeat_limits \in [LimitSlots -> LimitRecords] /\ new.address = heartbeat_limits[i].address
    BY <1>3, <1>4 DEF HeartbeatInv, HeartbeatTypeOK
  <2> HIDE DEF new
  <2>2. /\ heartbeat_limits'[i] = new
        /\ \A j \in LimitSlots \ {i} : heartbeat_limits'[j] = heartbeat_limits[j]
    BY <1>2, <1>3, <2>1
  <2>3. QED
    BY <2>1, <2>2
<1>12. HeartbeatTypeOK'
  <2>1. heartbeat_limits' \in [LimitSlots -> LimitRecords]
    <3> HIDE DEF new
    <3> QED BY <1>2, <1>3, <1>4 DEF HeartbeatInv, HeartbeatTypeOK
  <2>2. /\ heartbeat_limit_next' \in LimitSlots
        /\ overwritten' \in [Endpoints -> WindowAges]
    BY <1>2 DEF HeartbeatInv, HeartbeatTypeOK
  <2>3. QED
    BY <1>7, <2>1, <2>2 DEF HeartbeatTypeOK
<1>13. LimitsCount'
  <2> SUFFICES ASSUME NEW j \in LimitSlots, heartbeat_limits'[j].address \in Endpoints
               PROVE  CountsItsWindow(heartbeat_limits[j], heartbeat_limits[j].address)'
    BY DEF LimitsCount
  <2>1. CASE j = i
    <3>1. heartbeat_limits'[j] = new /\ heartbeat_limits'[j].address = e
      BY <1>4, <1>11, <2>1
    <3> HIDE DEF new
    <3>2. QED
      BY <1>9, <1>10, <3>1 DEF CountsItsWindow, LetThrough
  <2>2. CASE j # i
    <3> DEFINE x == heartbeat_limits[j].address
    <3>1. heartbeat_limits'[j] = heartbeat_limits[j] /\ x \in Endpoints
      BY <1>11, <2>2
    <3>2. x # e
      BY <1>3, <2>2, <3>1 DEF HeartbeatInv, OneLimitEach
    <3>3. sent'[x] = sent[x] /\ passed'[x] = passed[x] /\ overwritten'[x] = overwritten[x]
      BY <1>2, <1>7, <3>1, <3>2
    <3>4. CountsItsWindow(heartbeat_limits[j], x)
      BY <3>1 DEF HeartbeatInv, LimitsCount
    <3>5. QED
      BY <3>1, <3>3, <3>4 DEF CountsItsWindow, LetThrough
  <2>3. QED
    BY <2>1, <2>2
<1>14. UnknownAreSilent'
  <2> SUFFICES ASSUME NEW x \in Endpoints, LimitOf(x)' = {}
               PROVE  passed'[x][1] >= overwritten'[x]
    BY DEF UnknownAreSilent
  <2>1. LimitOf(x) = {}
    BY <1>11 DEF LimitOf
  <2>2. x # e
    BY <1>1, <2>1
  <2>3. QED
    BY <1>2, <1>7, <2>1, <2>2 DEF HeartbeatInv, UnknownAreSilent
<1>15. OneLimitEach'
  BY <1>11 DEF HeartbeatInv, OneLimitEach
<1>16. RefusedOnlyIfTooMany'
  <2> SUFFICES ASSUME refused' # NoEndpoint
               PROVE  sent'[refused'][TooMany] < HEARTBEAT_LIMIT_WINDOW
    BY DEF RefusedOnlyIfTooMany
  <2>1. refused' = e
    BY <1>7
  <2>2. new.count > B
    <3>1. CASE IsPassed(e)
      BY <3>1 DEF IsPassed
    <3>2. QED
      BY <1>2, <3>1
  <2>3. new.count = TooMany /\ new.age < HEARTBEAT_LIMIT_WINDOW
    BY <1>4, <1>5, <2>2
  <2>4. QED
    BY <1>5, <1>8, <1>9, <2>1, <2>3
<1>17. QED
  BY <1>7, <1>12, <1>13, <1>14, <1>15, <1>16 DEF HeartbeatInv

\* A heartbeat of an endpoint without a record takes the next slot of the ring.
LEMMA NewKeeps ==
  ASSUME HeartbeatInv, NEW e \in Endpoints, HeartbeatNew(e)
  PROVE  HeartbeatInv' /\ RefusedOnlyIfTooMany'
<1> USE HeartbeatParameters
<1> DEFINE N     == 2 * HEARTBEAT_LIMIT_BURST + 1
           i     == heartbeat_limit_next
           owner == heartbeat_limits[i].address
           new   == [address |-> e, age |-> 0, count |-> 1]
<1>1. /\ IsSent(e) /\ IsPassed(e)
      /\ LimitOf(e) = {}
      /\ heartbeat_limits' = [heartbeat_limits EXCEPT ![i] = new]
      /\ overwritten' = [x \in Endpoints |-> IF x = owner THEN 0 ELSE overwritten[x]]
      /\ heartbeat_limit_next' = NextSlot(i)
      /\ refused' = NoEndpoint
  BY DEF HeartbeatNew, IsPassed
<1>2. /\ i \in LimitSlots
      /\ heartbeat_limits \in [LimitSlots -> LimitRecords]
      /\ overwritten \in [Endpoints -> WindowAges]
  BY DEF HeartbeatInv, HeartbeatTypeOK
<1>3. new \in LimitRecords
  BY DEF LimitRecords, WindowAges, TooMany
<1>4. /\ sent' \in [Endpoints -> Latest(TooMany)]
      /\ passed' \in [Endpoints -> Latest(N)]
      /\ HistoriesInOrder'
      /\ \A x \in Endpoints \ {e} : sent'[x] = sent[x] /\ passed'[x] = passed[x]
      /\ sent'[e] = WithNewest(sent[e])
      /\ passed'[e] = WithNewest(passed[e])
  BY <1>1, SentHistories
<1>5. /\ heartbeat_limits' \in [LimitSlots -> LimitRecords]
      /\ heartbeat_limits'[i] = new
      /\ \A j \in LimitSlots \ {i} : heartbeat_limits'[j] = heartbeat_limits[j]
  <2> HIDE DEF new
  <2> QED BY <1>1, <1>2, <1>3
<1>6. NextSlot(i) \in LimitSlots
  BY <1>2 DEF LimitSlots, NextSlot
<1>7. /\ owner # e
      /\ \A j \in LimitSlots : heartbeat_limits[j].address # e
  BY <1>1, <1>2 DEF LimitOf
<1>8. /\ overwritten' \in [Endpoints -> WindowAges]
      /\ overwritten'[e] = overwritten[e]
      /\ \A x \in Endpoints : overwritten'[x] = IF x = owner THEN 0 ELSE overwritten[x]
  BY <1>1, <1>2, <1>7 DEF WindowAges
<1>9. HeartbeatTypeOK'
  BY <1>1, <1>4, <1>5, <1>6, <1>8 DEF HeartbeatTypeOK
<1>10. LimitsCount'
  <2> SUFFICES ASSUME NEW j \in LimitSlots, heartbeat_limits'[j].address \in Endpoints
               PROVE  CountsItsWindow(heartbeat_limits[j], heartbeat_limits[j].address)'
    BY DEF LimitsCount
  <2>1. CASE j = i
    <3>1. /\ sent'[e][1] = 0
          /\ passed'[e][2] = passed[e][1]
          /\ passed'[e][1 + TooMany] = passed[e][TooMany]
      <4>1. /\ \A k \in 2 .. N : WithNewest(passed[e])[k] = passed[e][k - 1]
            /\ WithNewest(sent[e])[1] = 0
        BY EndpointHistory, NewestShifts
      <4>2. 2 \in 2 .. N /\ 1 + TooMany \in 2 .. N
        OBVIOUS
      <4>3. QED
        BY <1>4, <4>1, <4>2
    <3>2. passed[e][1] >= overwritten[e]
      BY <1>1 DEF HeartbeatInv, UnknownAreSilent
    <3>3. passed[e][1] <= passed[e][TooMany]
      <4>1. passed[e] \in Latest(N) /\ NewestFirst(passed[e])
        BY EndpointHistory
      <4>2. DOMAIN passed[e] = 1 .. N /\ 1 \in 1 .. N /\ TooMany \in 1 .. N /\ 1 <= TooMany
        BY <4>1 DEF Latest
      <4>3. QED
        BY <4>1, <4>2 DEF NewestFirst
    <3>4. passed[e][1] \in Nat /\ passed[e][TooMany] \in Nat /\ overwritten[e] \in Nat
      BY EndpointHistory
    <3>5. LetThrough(new) = 1 /\ new.count = 1 /\ new.age = 0 /\ new.address = e
      BY DEF LetThrough
    <3>6. heartbeat_limits'[j] = new
      BY <1>5, <2>1
    <3> HIDE DEF new
    <3>7. QED
      BY <1>8, <3>1, <3>2, <3>3, <3>4, <3>5, <3>6 DEF CountsItsWindow, LetThrough
  <2>2. CASE j # i
    <3> DEFINE x == heartbeat_limits[j].address
    <3>1. heartbeat_limits'[j] = heartbeat_limits[j] /\ x \in Endpoints
      BY <1>5, <2>2
    <3>2. x # e /\ x # owner
      BY <1>2, <1>7, <2>2, <3>1 DEF HeartbeatInv, OneLimitEach
    <3>3. sent'[x] = sent[x] /\ passed'[x] = passed[x] /\ overwritten'[x] = overwritten[x]
      BY <1>4, <1>8, <3>1, <3>2
    <3>4. CountsItsWindow(heartbeat_limits[j], x)
      BY <3>1 DEF HeartbeatInv, LimitsCount
    <3>5. QED
      BY <3>1, <3>3, <3>4 DEF CountsItsWindow, LetThrough
  <2>3. QED
    BY <2>1, <2>2
<1>11. UnknownAreSilent'
  <2> SUFFICES ASSUME NEW x \in Endpoints, LimitOf(x)' = {}
               PROVE  passed'[x][1] >= overwritten'[x]
    BY DEF UnknownAreSilent
  <2>1. x # e
    BY <1>2, <1>5 DEF LimitOf
  <2>2. passed'[x] = passed[x] /\ passed[x][1] \in Nat
    BY <1>4, <2>1, EndpointHistory
  <2>3. CASE x = owner
    BY <1>8, <2>2, <2>3
  <2>4. CASE x # owner
    <3>1. LimitOf(x) = {}
      <4> SUFFICES ASSUME NEW j \in LimitSlots, heartbeat_limits[j].address = x
                   PROVE  FALSE
        BY DEF LimitOf
      <4>1. heartbeat_limits'[j] = heartbeat_limits[j]
        BY <1>5, <2>4
      <4>2. QED
        BY <4>1 DEF LimitOf
    <3>2. QED
      BY <1>8, <2>2, <2>4, <3>1 DEF HeartbeatInv, UnknownAreSilent
  <2>5. QED
    BY <2>3, <2>4
<1>12. OneLimitEach'
  <2> SUFFICES ASSUME NEW j \in LimitSlots, NEW k \in LimitSlots,
                      heartbeat_limits'[j].address = heartbeat_limits'[k].address,
                      heartbeat_limits'[j].address \in Endpoints
               PROVE  j = k
    BY DEF OneLimitEach
  <2>1. heartbeat_limits'[i].address = e
    BY <1>5
  <2>2. QED
    BY <1>5, <1>7, <2>1 DEF HeartbeatInv, OneLimitEach
<1>13. RefusedOnlyIfTooMany'
  BY <1>1 DEF RefusedOnlyIfTooMany
<1>14. QED
  BY <1>4, <1>9, <1>10, <1>11, <1>12, <1>13 DEF HeartbeatInv

\* A second passes.
LEMMA HeartbeatTickKeeps ==
  ASSUME HeartbeatInv, HeartbeatTick
  PROVE  HeartbeatInv' /\ RefusedOnlyIfTooMany'
<1> USE HeartbeatParameters
<1> DEFINE N == 2 * HEARTBEAT_LIMIT_BURST + 1
<1>1. /\ heartbeat_limits' =
           [i \in LimitSlots |->
              [heartbeat_limits[i] EXCEPT !.age = OlderWindow(heartbeat_limits[i].age)]]
      /\ sent' = Aged(sent) /\ passed' = Aged(passed)
      /\ overwritten' = [e \in Endpoints |-> OlderWindow(overwritten[e])]
      /\ refused' = NoEndpoint
      /\ heartbeat_limit_next' = heartbeat_limit_next
  BY DEF HeartbeatTick
<1>2. ASSUME NEW i \in LimitSlots
      PROVE  /\ heartbeat_limits'[i] \in LimitRecords
             /\ heartbeat_limits'[i].address = heartbeat_limits[i].address
             /\ heartbeat_limits'[i].count = heartbeat_limits[i].count
             /\ heartbeat_limits'[i].age = OlderWindow(heartbeat_limits[i].age)
             /\ heartbeat_limits[i].age \in WindowAges
  <2> DEFINE old == heartbeat_limits[i]
             age == OlderWindow(old.age)
  <2>1. old \in LimitRecords /\ heartbeat_limits'[i] = [old EXCEPT !.age = age]
    BY <1>1 DEF HeartbeatInv, HeartbeatTypeOK
  <2>2. old.age \in WindowAges
    BY <2>1 DEF LimitRecords
  <2>3. age \in WindowAges
    BY <2>2, WindowAgeing
  <2> HIDE DEF old, age
  <2>4. /\ heartbeat_limits'[i] \in LimitRecords
        /\ heartbeat_limits'[i].address = old.address
        /\ heartbeat_limits'[i].count = old.count
        /\ heartbeat_limits'[i].age = age
    BY <2>1, <2>3 DEF LimitRecords
  <2>5. QED
    BY <2>2, <2>4 DEF old, age
<1>3. ASSUME NEW e \in Endpoints
      PROVE  /\ sent'[e] \in Latest(TooMany) /\ NewestFirst(sent'[e])
             /\ \A n \in 1 .. TooMany : /\ sent'[e][n] = OlderWindow(sent[e][n])
                                        /\ sent[e][n] \in WindowAges
             /\ passed'[e] \in Latest(N) /\ NewestFirst(passed'[e])
             /\ \A n \in 1 .. N : /\ passed'[e][n] = OlderWindow(passed[e][n])
                                  /\ passed[e][n] \in WindowAges
             /\ overwritten'[e] = OlderWindow(overwritten[e])
             /\ overwritten[e] \in WindowAges /\ overwritten'[e] \in WindowAges
  <2>1. /\ sent[e] \in Latest(TooMany) /\ NewestFirst(sent[e])
        /\ passed[e] \in Latest(N) /\ NewestFirst(passed[e])
        /\ sent \in [Endpoints -> Latest(TooMany)] /\ passed \in [Endpoints -> Latest(N)]
        /\ overwritten \in [Endpoints -> WindowAges]
    BY EndpointHistory DEF HeartbeatInv, HeartbeatTypeOK
  <2>2. /\ \A n \in 1 .. TooMany : sent[e][n] \in WindowAges
        /\ \A n \in 1 .. N : passed[e][n] \in WindowAges
    BY <2>1 DEF Latest
  <2>3. QED
    BY <1>1, <2>1, <2>2, HistoryAges, WindowAgeing
<1>4. HeartbeatTypeOK'
  <2>1. DOMAIN sent' = Endpoints /\ DOMAIN passed' = Endpoints /\ DOMAIN overwritten' = Endpoints
        /\ DOMAIN heartbeat_limits' = LimitSlots
    BY <1>1 DEF Aged
  <2>2. /\ heartbeat_limits' \in [LimitSlots -> LimitRecords]
        /\ sent' \in [Endpoints -> Latest(TooMany)]
        /\ passed' \in [Endpoints -> Latest(N)]
        /\ overwritten' \in [Endpoints -> WindowAges]
    BY <1>1, <1>2, <1>3, <2>1 DEF Aged
  <2>3. QED
    BY <1>1, <2>2 DEF HeartbeatInv, HeartbeatTypeOK
<1>5. HistoriesInOrder'
  BY <1>3 DEF HistoriesInOrder, NewestFirst
<1>6. LimitsCount'
  <2> SUFFICES ASSUME NEW j \in LimitSlots, heartbeat_limits'[j].address \in Endpoints
               PROVE  CountsItsWindow(heartbeat_limits[j], heartbeat_limits[j].address)'
    BY DEF LimitsCount
  <2> DEFINE record == heartbeat_limits[j]
  <2>1. PICK e \in Endpoints : e = record.address
    BY <1>2
  <2>2. CountsItsWindow(record, e)
    BY <2>1 DEF HeartbeatInv, LimitsCount
  <2>3. PICK c \in 1 .. TooMany : c = record.count
    BY <2>2 DEF HeartbeatInv, HeartbeatTypeOK, LimitRecords, CountsItsWindow
  <2>4. PICK k \in 1 .. HEARTBEAT_LIMIT_BURST :
          k = LetThrough(record) /\ k = IF c < HEARTBEAT_LIMIT_BURST THEN c
                                        ELSE HEARTBEAT_LIMIT_BURST
    BY <2>3 DEF LetThrough
  <2>5. k + 1 \in 1 .. N /\ k + TooMany \in 1 .. N
    OBVIOUS
  <2>6. /\ sent[e][c] <= record.age
        /\ passed[e][k + 1] >= record.age
        /\ passed[e][k + TooMany] >= overwritten[e]
    BY <2>2, <2>3, <2>4 DEF CountsItsWindow
  <2>7. /\ sent[e][c] \in WindowAges /\ sent'[e][c] = OlderWindow(sent[e][c])
        /\ passed[e][k + 1] \in WindowAges
        /\ passed'[e][k + 1] = OlderWindow(passed[e][k + 1])
        /\ passed[e][k + TooMany] \in WindowAges
        /\ passed'[e][k + TooMany] = OlderWindow(passed[e][k + TooMany])
        /\ overwritten[e] \in WindowAges /\ overwritten'[e] = OlderWindow(overwritten[e])
        /\ record.age \in WindowAges /\ WindowAges \subseteq Nat
    BY <1>2, <1>3, <2>5 DEF WindowAges
  <2>8. /\ sent'[e][c] <= OlderWindow(record.age)
        /\ passed'[e][k + 1] >= OlderWindow(record.age)
        /\ passed'[e][k + TooMany] >= overwritten'[e]
    <3> HIDE DEF record
    <3> QED BY <2>6, <2>7, WindowAgeing
  <2>9. /\ heartbeat_limits'[j].address = e /\ heartbeat_limits'[j].count = c
        /\ heartbeat_limits'[j].age = OlderWindow(record.age)
    BY <1>2, <2>1, <2>3
  <2>10. QED
    BY <2>4, <2>8, <2>9 DEF CountsItsWindow, LetThrough
<1>7. UnknownAreSilent'
  <2> SUFFICES ASSUME NEW x \in Endpoints, LimitOf(x)' = {}
               PROVE  passed'[x][1] >= overwritten'[x]
    BY DEF UnknownAreSilent
  <2>1. LimitOf(x) = {}
    BY <1>2 DEF LimitOf
  <2>2. passed[x][1] >= overwritten[x]
    BY <2>1 DEF HeartbeatInv, UnknownAreSilent
  <2>3. WindowAges \subseteq Nat /\ 1 \in 1 .. N
    BY DEF WindowAges
  <2>4. QED
    BY <1>3, <2>2, <2>3, WindowAgeing
<1>8. OneLimitEach'
  BY <1>2 DEF HeartbeatInv, OneLimitEach
<1>9. RefusedOnlyIfTooMany'
  BY <1>1 DEF RefusedOnlyIfTooMany
<1>10. QED
  BY <1>4, <1>5, <1>6, <1>7, <1>8, <1>9 DEF HeartbeatInv

\* A step that changes nothing keeps the invariant.
LEMMA HeartbeatStutters ==
  ASSUME HeartbeatInv, RefusedOnlyIfTooMany, UNCHANGED heartbeatVars
  PROVE  HeartbeatInv' /\ RefusedOnlyIfTooMany'
BY DEF heartbeatVars, HeartbeatInv, HeartbeatTypeOK, HistoriesInOrder, NewestFirst, LimitsCount,
       CountsItsWindow, LetThrough, UnknownAreSilent, LimitOf, OneLimitEach, RefusedOnlyIfTooMany

\* The records of the heartbeat limit tell the truth about the histories.
THEOREM HeartbeatInvariance == HeartbeatSpec => [](HeartbeatInv /\ RefusedOnlyIfTooMany)
<1>1. HeartbeatInit => HeartbeatInv /\ RefusedOnlyIfTooMany
  BY HeartbeatInitially DEF HeartbeatInit, RefusedOnlyIfTooMany
<1>2. HeartbeatInv /\ RefusedOnlyIfTooMany /\ [HeartbeatNext]_heartbeatVars
        => HeartbeatInv' /\ RefusedOnlyIfTooMany'
  BY KnownKeeps, NewKeeps, HeartbeatTickKeeps, HeartbeatStutters DEF HeartbeatNext
<1>3. QED
  BY <1>1, <1>2, PTL DEF HeartbeatSpec

\* An endpoint that keeps its record gets at most the burst of this window and
\* that of the one before.
LEMMA TwoWindows == HeartbeatInv => AtMostTwoBursts
<1> SUFFICES ASSUME HeartbeatInv, NEW e \in Endpoints, overwritten[e] = HEARTBEAT_LIMIT_WINDOW
             PROVE  passed[e][2 * HEARTBEAT_LIMIT_BURST + 1] >= HEARTBEAT_LIMIT_WINDOW
  BY DEF AtMostTwoBursts
<1> DEFINE N == 2 * HEARTBEAT_LIMIT_BURST + 1
<1>1. /\ N \in Nat
      /\ \A n \in 1 .. N : passed[e][n] \in Nat
      /\ \A m, n \in 1 .. N : m <= n => passed[e][m] <= passed[e][n]
  BY EndpointHistory, HeartbeatParameters DEF Latest, NewestFirst
<1>2. PICK n \in 1 .. N : passed[e][n] >= overwritten[e]
  <2>1. CASE LimitOf(e) = {}
    BY <2>1, HeartbeatParameters DEF HeartbeatInv, UnknownAreSilent
  <2>2. CASE LimitOf(e) # {}
    <3>1. PICK i \in LimitSlots : heartbeat_limits[i].address = e
      BY <2>2 DEF LimitOf
    <3>2. CountsItsWindow(heartbeat_limits[i], e) /\ heartbeat_limits[i].count \in Nat
      BY <3>1, HeartbeatParameters
      DEF HeartbeatInv, HeartbeatTypeOK, LimitRecords, LimitsCount
    <3>3. LetThrough(heartbeat_limits[i]) + TooMany \in 1 .. N
      BY <3>2, HeartbeatParameters DEF CountsItsWindow, LetThrough
    <3>4. QED
      BY <3>2, <3>3 DEF CountsItsWindow
  <2>3. QED
    BY <2>1, <2>2
<1>3. passed[e][n] <= passed[e][N] /\ N \in 1 .. N
  BY <1>1, HeartbeatParameters
<1>4. QED
  BY <1>1, <1>2, <1>3, HeartbeatParameters

----------------------------------------------------------------------------
(* HTTP requests.                                                          *)

\* What the history of an address and its bucket add up to.
Credit(bucket) == used[bucket.address] + bucket.tokens + bucket.age * RATE

BucketsVouch ==
  \A i \in DOMAIN buckets :
    /\ Credit(buckets[i]) >= BURST
    /\ used[buckets[i].address] = 0 \/ Credit(buckets[i]) <= BURST + RATE * MaxDelay
    /\ buckets[i].tokens + buckets[i].age * RATE >= 0

ForgottenAreIdle == \A a \in Addresses : BucketOf(a) = {} => used[a] = 0

LimiterInv ==
  /\ LimiterTypeOK
  /\ BucketsVouch
  /\ ForgottenAreIdle

\* The parameters of the limiter.
LEMMA LimiterParameters ==
  /\ RATE \in Nat \ {0} /\ BURST \in Nat \ {0} /\ max_clients \in Nat \ {0}
  /\ MaxDelay \in Nat
  /\ RATE * MaxDelay \in Nat
<1>1. RATE \in Nat \ {0} /\ BURST \in Nat \ {0} /\ max_clients \in Nat \ {0} /\ MaxDelay \in Nat
  BY RateAssumption
<1>2. RATE * MaxDelay \in Nat
  BY <1>1, SMT
<1>3. QED
  BY <1>1, <1>2

\* What removing the i-th element of a sequence leaves.
LEMMA Removal ==
  ASSUME NEW S, NEW seq \in Seq(S), NEW i \in 1 .. Len(seq)
  PROVE  /\ RemoveAt(seq, i) \in Seq(S)
         /\ Len(RemoveAt(seq, i)) = Len(seq) - 1
         /\ \A k \in 1 .. Len(seq) - 1 :
              RemoveAt(seq, i)[k] = seq[IF k < i THEN k ELSE k + 1]
<1> DEFINE n == Len(seq)
           s1 == SubSeq(seq, 1, i - 1)
           s2 == SubSeq(seq, i + 1, n)
<1>1. n \in Nat /\ i \in Int /\ \A k \in 1 .. n : seq[k] \in S
  BY LenProperties, ElementOfSeq
<1>2. /\ s1 \in Seq(S) /\ Len(s1) = i - 1
      /\ \A k \in 1 .. i - 1 : s1[k] = seq[k]
  <2>1. 1 \in Int /\ i - 1 \in Int /\ \A k \in 1 .. i - 1 : seq[k] \in S
    BY <1>1
  <2>2. /\ s1 \in Seq(S) /\ Len(s1) = IF 1 <= i - 1 THEN i - 1 - 1 + 1 ELSE 0
        /\ \A k \in 1 .. i - 1 - 1 + 1 : s1[k] = seq[1 + k - 1]
    BY <2>1, SubSeqProperties
  <2> HIDE DEF s1
  <2>3. QED
    BY <1>1, <2>2
<1>3. /\ s2 \in Seq(S) /\ Len(s2) = n - i
      /\ \A k \in 1 .. n - i : s2[k] = seq[k + i]
  <2>1. i + 1 \in Int /\ n \in Int /\ \A k \in i + 1 .. n : seq[k] \in S
    BY <1>1
  <2>2. /\ s2 \in Seq(S) /\ Len(s2) = IF i + 1 <= n THEN n - (i + 1) + 1 ELSE 0
        /\ \A k \in 1 .. n - (i + 1) + 1 : s2[k] = seq[i + 1 + k - 1]
    BY <2>1, SubSeqProperties
  <2>3. \A k \in 1 .. n - i : i + 1 + k - 1 = k + i
    BY <1>1
  <2> HIDE DEF s2
  <2>4. QED
    BY <1>1, <2>2, <2>3
<1>4. RemoveAt(seq, i) = s1 \o s2
  BY DEF RemoveAt
<1> HIDE DEF s1, s2
<1>5. /\ s1 \o s2 \in Seq(S)
      /\ Len(s1 \o s2) = i - 1 + (n - i)
      /\ \A k \in 1 .. i - 1 + (n - i) :
           (s1 \o s2)[k] = IF k <= i - 1 THEN s1[k] ELSE s2[k - (i - 1)]
  <2>1. /\ s1 \o s2 \in Seq(S)
        /\ Len(s1 \o s2) = Len(s1) + Len(s2)
        /\ \A k \in 1 .. Len(s1) + Len(s2) :
             (s1 \o s2)[k] = IF k <= Len(s1) THEN s1[k] ELSE s2[k - Len(s1)]
    BY <1>2, <1>3, ConcatProperties, Zenon
  <2>2. Len(s1) = i - 1 /\ Len(s2) = n - i
    BY <1>2, <1>3
  <2>3. QED
    BY <2>1, <2>2, Zenon
<1>6. ASSUME NEW k \in 1 .. n - 1
      PROVE  (s1 \o s2)[k] = seq[IF k < i THEN k ELSE k + 1]
  <2>1. CASE k < i
    BY <1>1, <1>2, <1>5, <2>1
  <2>2. CASE ~ (k < i)
    <3>1. (s1 \o s2)[k] = s2[k - (i - 1)] /\ k - (i - 1) \in 1 .. n - i
      BY <1>1, <1>5, <2>2
    <3>2. s2[k - (i - 1)] = seq[k - (i - 1) + i] /\ k - (i - 1) + i = k + 1
      BY <1>1, <1>3, <3>1
    <3>3. QED
      BY <2>2, <3>1, <3>2
  <2>3. QED
    BY <2>1, <2>2
<1>7. QED
  BY <1>1, <1>4, <1>5, <1>6

\* What an allowed or refused request does to the credit of its bucket, whenever
\* the thread read its clock.
LEMMA CreditOfRequest ==
  ASSUME NEW old \in Buckets, NEW d \in 0 .. MaxDelay, NEW u \in Nat,
         old.tokens + old.age * RATE >= 0,
         u + old.tokens + old.age * RATE >= BURST,
         u = 0 \/ u + old.tokens + old.age * RATE <= BURST + RATE * MaxDelay,
         NEW T, T = Refilled(old, d),
         NEW v, v = IF T >= 1 THEN u + 1 ELSE u
  PROVE  /\ T \in Int /\ v \in Nat
         /\ Left(T) \in - RATE * MaxDelay .. BURST
         /\ v + Left(T) + d * RATE >= BURST
         /\ v = 0 \/ v + Left(T) + d * RATE <= BURST + RATE * MaxDelay
         /\ Left(T) + d * RATE >= 0
         /\ ~ (T >= 1) => v + RATE * d >= BURST
<1>1. PICK t \in Int, g \in Nat : t = old.tokens /\ g = old.age
  <2>1. - RATE * MaxDelay .. BURST \subseteq Int
    OBVIOUS
  <2>2. QED
    BY <2>1 DEF Buckets
<1>2. PICK worth \in Nat : worth = g * RATE
  BY LimiterParameters, SMT
<1>3. PICK late \in Nat : late = d * RATE /\ late = RATE * d /\ late <= RATE * MaxDelay
  <2>1. d \in Nat /\ d <= MaxDelay /\ MaxDelay \in Nat /\ RATE \in Nat
    BY LimiterParameters
  <2>2. d * RATE \in Nat /\ d * RATE = RATE * d
    BY <2>1, SMT
  <2>3. d * RATE <= MaxDelay * RATE
    BY <2>1, Monotone
  <2>4. MaxDelay * RATE = RATE * MaxDelay
    BY <2>1, SMT
  <2>5. QED
    BY <2>2, <2>3, <2>4
<1>4. PICK M \in Nat : M = RATE * MaxDelay /\ - M = - RATE * MaxDelay
  BY LimiterParameters, SMT
<1>5. (g - d) * RATE = worth - late
  <2>1. g \in Int /\ d \in Int /\ RATE \in Int
    BY LimiterParameters
  <2>2. QED
    BY <1>2, <1>3, <2>1, Distributive
<1>6. T = IF t + (worth - late) < BURST THEN t + (worth - late) ELSE BURST
  BY <1>1, <1>5 DEF Refilled
<1>7. Left(T) = IF T >= 1 THEN T - 1 ELSE T
  BY DEF Left
<1>8. /\ t + worth >= 0 /\ u + t + worth >= BURST
      /\ u = 0 \/ u + t + worth <= BURST + M
      /\ late <= M
  BY <1>1, <1>2, <1>3, <1>4
<1>9. /\ T \in Int /\ v \in Nat
      /\ - M <= Left(T) /\ Left(T) <= BURST /\ Left(T) \in Int
      /\ v + Left(T) + late >= BURST
      /\ v = 0 \/ v + Left(T) + late <= BURST + M
      /\ Left(T) + late >= 0
      /\ ~ (T >= 1) => v + late >= BURST
  BY <1>6, <1>7, <1>8, LimiterParameters
<1>10. QED
  BY <1>3, <1>4, <1>9

\* The buckets that "pop" leaves.
Others(a) ==
  IF BucketOf(a) = {} THEN buckets
  ELSE RemoveAt(buckets, CHOOSE j \in BucketOf(a) : TRUE)

\* They are those of the other clients, once each.
LEMMA PopLeavesOthers ==
  ASSUME LimiterTypeOK, NEW a \in Addresses
  PROVE  /\ Others(a) \in Seq(Buckets)
         /\ Len(Others(a)) <= max_clients
         /\ OneBucketEach(Others(a))
         /\ \A k \in DOMAIN Others(a) :
              /\ Others(a)[k].address # a
              /\ \E m \in DOMAIN buckets : Others(a)[k] = buckets[m]
         /\ \A m \in DOMAIN buckets :
              buckets[m].address # a => \E k \in DOMAIN Others(a) : Others(a)[k] = buckets[m]
<1>1. /\ buckets \in Seq(Buckets) /\ Len(buckets) <= max_clients /\ Len(buckets) \in Nat
      /\ DOMAIN buckets = 1 .. Len(buckets)
      /\ OneBucketEach(buckets)
  BY LenProperties DEF LimiterTypeOK
<1>2. CASE BucketOf(a) = {}
  BY <1>1, <1>2 DEF Others, BucketOf
<1>3. CASE BucketOf(a) # {}
  <2> DEFINE n == Len(buckets)
             rest == Others(a)
  <2>1. PICK i \in 1 .. n : i \in BucketOf(a) /\ rest = RemoveAt(buckets, i)
    BY <1>1, <1>3 DEF Others, BucketOf
  <2>2. /\ rest \in Seq(Buckets) /\ Len(rest) = n - 1
        /\ \A k \in 1 .. n - 1 : rest[k] = buckets[IF k < i THEN k ELSE k + 1]
    BY <1>1, <2>1, Removal
  <2>3. DOMAIN rest = 1 .. n - 1
    BY <2>2, LenProperties
  <2>4. buckets[i].address = a /\ \A m \in 1 .. n : buckets[m].address = a => m = i
    BY <1>1, <2>1 DEF BucketOf, OneBucketEach
  <2> HIDE DEF rest
  <2>5. OneBucketEach(rest)
    <3> SUFFICES ASSUME NEW j \in 1 .. n - 1, NEW k \in 1 .. n - 1,
                        rest[j].address = rest[k].address
                 PROVE  j = k
      BY <2>3 DEF OneBucketEach
    <3>1. PICK jj \in 1 .. n : jj = (IF j < i THEN j ELSE j + 1) /\ rest[j] = buckets[jj]
      BY <1>1, <2>2
    <3>2. PICK kk \in 1 .. n : kk = (IF k < i THEN k ELSE k + 1) /\ rest[k] = buckets[kk]
      BY <1>1, <2>2
    <3>3. jj = kk
      BY <1>1, <3>1, <3>2 DEF OneBucketEach
    <3>4. QED
      BY <1>1, <3>1, <3>2, <3>3
  <2>6. ASSUME NEW k \in 1 .. n - 1
        PROVE  rest[k].address # a /\ \E m \in 1 .. n : rest[k] = buckets[m]
    <3>1. PICK kk \in 1 .. n : kk # i /\ rest[k] = buckets[kk]
      BY <1>1, <2>2
    <3>2. QED
      BY <2>4, <3>1
  <2>7. ASSUME NEW m \in 1 .. n, buckets[m].address # a
        PROVE  \E k \in 1 .. n - 1 : rest[k] = buckets[m]
    <3>1. m # i
      BY <2>4, <2>7
    <3>2. CASE m < i
      <4>1. m \in 1 .. n - 1
        BY <1>1, <3>2
      <4>2. QED
        BY <2>2, <3>2, <4>1
    <3>3. CASE m > i
      <4>1. m - 1 \in 1 .. n - 1 /\ ~ (m - 1 < i) /\ m - 1 + 1 = m
        BY <1>1, <3>3
      <4>2. QED
        BY <2>2, <4>1
    <3>4. QED
      BY <1>1, <3>1, <3>2, <3>3
  <2>8. /\ rest \in Seq(Buckets) /\ Len(rest) <= max_clients
        /\ OneBucketEach(rest)
    BY <1>1, <2>2, <2>5, LimiterParameters
  <2>9. QED
    BY <1>1, <2>3, <2>6, <2>7, <2>8, Zenon DEF rest
<1>4. QED
  BY <1>2, <1>3

\* What is kept of the buckets: the least recently used one makes room.
Kept(stored) == IF Len(stored) > max_clients THEN Tail(stored) ELSE stored

\* The new bucket is among those that are kept, and each of the others is, except
\* the first when there are too many.
KeepsBuckets(others, new, stored, kept) ==
  /\ kept \in Seq(Buckets) /\ Len(kept) <= max_clients
  /\ OneBucketEach(kept)
  /\ \A k \in DOMAIN kept : kept[k] = new \/ \E j \in DOMAIN others : kept[k] = others[j]
  /\ \E k \in DOMAIN kept : kept[k] = new
  /\ \A j \in DOMAIN others :
       \/ Len(stored) > max_clients /\ others[j].address = stored[1].address
       \/ \E k \in DOMAIN kept : kept[k] = others[j]
  /\ Len(stored) > max_clients =>
       /\ stored[1].address # new.address
       /\ \A k \in DOMAIN kept : kept[k].address # stored[1].address

\* Putting a bucket back loses no other client's bucket but the first.
LEMMA PutBack ==
  ASSUME NEW others \in Seq(Buckets), Len(others) <= max_clients, OneBucketEach(others),
         NEW new \in Buckets,
         \A k \in DOMAIN others : others[k].address # new.address
  PROVE  KeepsBuckets(others, new, Append(others, new), Kept(Append(others, new)))
<1>1. PICK stored : stored = Append(others, new)
  OBVIOUS
<1>2. PICK kept : kept = Kept(stored)
  OBVIOUS
<1> SUFFICES KeepsBuckets(others, new, stored, kept)
  BY <1>1, <1>2
<1>3. PICK n \in Nat : n = Len(others) /\ DOMAIN others = 1 .. n
  BY LenProperties
<1>4. /\ stored \in Seq(Buckets) /\ stored # <<>> /\ Len(stored) = n + 1
      /\ \A i \in 1 .. n : stored[i] = others[i]
      /\ stored[n + 1] = new
  BY <1>1, <1>3, AppendProperties
<1>5. DOMAIN stored = 1 .. n + 1
  BY <1>4, LenProperties
<1>6. OneBucketEach(stored)
  <2> SUFFICES ASSUME NEW i \in 1 .. n + 1, NEW j \in 1 .. n + 1,
                      stored[i].address = stored[j].address
               PROVE  i = j
    BY <1>5 DEF OneBucketEach
  <2>1. CASE i = n + 1 \/ j = n + 1
    BY <1>3, <1>4, <2>1
  <2>2. CASE i # n + 1 /\ j # n + 1
    <3>1. i \in 1 .. n /\ j \in 1 .. n
      BY <1>3, <2>2
    <3>2. QED
      BY <1>3, <1>4, <3>1 DEF OneBucketEach
  <2>3. QED
    BY <2>1, <2>2
<1>7. ASSUME NEW k \in 1 .. n + 1
      PROVE  stored[k] = new \/ \E j \in 1 .. n : stored[k] = others[j]
  BY <1>3, <1>4
<1>8. CASE ~ (Len(stored) > max_clients)
  <2>1. kept = stored /\ Len(stored) <= max_clients
    BY <1>3, <1>4, <1>8, <1>2, LimiterParameters DEF Kept
  <2>2. n + 1 \in DOMAIN stored /\ \A j \in 1 .. n : j \in DOMAIN stored
    BY <1>3, <1>5
  <2>3. QED
    BY <1>3, <1>4, <1>5, <1>6, <1>7, <1>8, <2>1, <2>2 DEF KeepsBuckets
<1>9. CASE Len(stored) > max_clients
  <2>1. n >= 1 /\ n <= max_clients /\ n + 1 > max_clients /\ kept = Tail(stored)
    BY <1>3, <1>4, <1>9, <1>2, LimiterParameters DEF Kept
  <2>2. /\ kept \in Seq(Buckets) /\ Len(kept) = n + 1 - 1
        /\ \A i \in 1 .. Len(kept) : kept[i] = stored[i + 1]
    BY <1>4, <2>1, HeadTailProperties
  <2>3. Len(kept) = n /\ \A i \in 1 .. n : kept[i] = stored[i + 1]
    BY <1>3, <2>2
  <2>4. DOMAIN kept = 1 .. n
    BY <2>2, <2>3, LenProperties
  <2>5. \A i \in 1 .. n : i + 1 \in 1 .. n + 1 /\ i + 1 # 1
    BY <1>3
  <2>6. OneBucketEach(kept)
    <3> SUFFICES ASSUME NEW i \in 1 .. n, NEW j \in 1 .. n, kept[i].address = kept[j].address
                 PROVE  i = j
      BY <2>4 DEF OneBucketEach
    <3>1. stored[i + 1].address = stored[j + 1].address
      BY <2>3
    <3>2. i + 1 = j + 1
      BY <1>5, <1>6, <2>5, <3>1 DEF OneBucketEach
    <3>3. QED
      BY <1>3, <3>2
  <2>7. \A k \in 1 .. n : kept[k] = new \/ \E j \in 1 .. n : kept[k] = others[j]
    BY <1>7, <2>3, <2>5
  <2>8. n \in 1 .. n /\ kept[n] = new
    BY <1>3, <1>4, <2>1, <2>3
  <2>9. 1 \in 1 .. n /\ stored[1] = others[1]
    BY <1>3, <1>4, <2>1
  <2>10. ASSUME NEW j \in 1 .. n
        PROVE  others[j].address = stored[1].address \/ \E k \in 1 .. n : kept[k] = others[j]
    <3>1. CASE j = 1
      BY <2>9, <3>1
    <3>2. CASE j # 1
      <4>1. j - 1 \in 1 .. n /\ j - 1 + 1 = j
        BY <1>3, <3>2
      <4>2. kept[j - 1] = stored[j] /\ stored[j] = others[j]
        BY <1>4, <2>3, <4>1
      <4>3. QED
        BY <4>1, <4>2
    <3>3. QED
      BY <3>1, <3>2
  <2>11. ASSUME NEW k \in 1 .. n
         PROVE  kept[k].address # stored[1].address
    <3>1. kept[k] = stored[k + 1] /\ k + 1 \in DOMAIN stored /\ 1 \in DOMAIN stored /\ k + 1 # 1
      BY <1>3, <1>5, <2>3, <2>5
    <3>2. QED
      BY <1>6, <3>1 DEF OneBucketEach
  <2>12. stored[1].address # new.address
    BY <1>3, <2>9
  <2>13. Len(kept) <= max_clients
    BY <2>1, <2>3
  <2>14. /\ \A j \in DOMAIN others :
              others[j].address = stored[1].address \/ \E k \in DOMAIN kept : kept[k] = others[j]
         /\ \A k \in DOMAIN kept : kept[k] = new \/ \E j \in DOMAIN others : kept[k] = others[j]
    BY <1>3, <2>4, <2>7, <2>10
  <2>15. /\ \E k \in DOMAIN kept : kept[k] = new
         /\ \A k \in DOMAIN kept : kept[k].address # stored[1].address
    BY <2>4, <2>8, <2>11
  <2>16. QED
    BY <1>9, <2>2, <2>6, <2>12, <2>13, <2>14, <2>15 DEF KeepsBuckets
<1>10. QED
  BY <1>8, <1>9

\* A request gets the lock: the credit of its bucket pays for it, whatever the
\* age of the thread's clock, and the bucket that is forgotten takes its history
\* with it.
LEMMA AllowKeeps ==
  ASSUME LimiterInv, NEW w \in Handlers, Allow(w)
  PROVE  LimiterInv' /\ RefusedOnlyIfSpent'
<1> USE LimiterParameters
<1>1. PICK a \in Addresses, d \in 0 .. MaxDelay :
        a = waiting[w].address /\ d = waiting[w].delay
  BY DEF Allow, LimiterInv, LimiterTypeOK, Waits
<1>2. PICK old : old = IF BucketOf(a) = {} THEN Bucket(a, BURST, d)
                       ELSE buckets[CHOOSE j \in BucketOf(a) : TRUE]
  OBVIOUS
<1>3. PICK T : T = Refilled(old, d)
  OBVIOUS
<1>4. PICK new : new = Bucket(a, Left(T), d)
  OBVIOUS
<1>5. PICK stored : stored = Append(Others(a), new)
  OBVIOUS
<1>6. /\ waiting' = [waiting EXCEPT ![w] = NoWait]
      /\ buckets' = IF Len(stored) > max_clients THEN Tail(stored) ELSE stored
      /\ used' = [x \in Addresses |->
                    IF Len(stored) > max_clients /\ x = stored[1].address THEN 0
                    ELSE IF x = a /\ T >= 1 THEN used[a] + 1
                    ELSE used[x]]
      /\ verdict' = [address |-> a, allowed |-> T >= 1, delay |-> d]
  BY <1>1, <1>2, <1>3, <1>4, <1>5 DEF Allow, Others
<1>7. /\ buckets \in Seq(Buckets) /\ DOMAIN buckets = 1 .. Len(buckets)
      /\ used \in [Addresses -> Nat]
      /\ OneBucketEach(buckets) /\ LimiterTypeOK
      /\ waiting \in [Handlers -> Waits \cup {NoWait}]
  BY LenProperties DEF LimiterInv, LimiterTypeOK
<1>8. /\ old \in Buckets /\ old.address = a
      /\ old.tokens + old.age * RATE >= 0
      /\ used[a] + old.tokens + old.age * RATE >= BURST
      /\ used[a] = 0 \/ used[a] + old.tokens + old.age * RATE <= BURST + RATE * MaxDelay
  <2>1. CASE BucketOf(a) = {}
    <3>1. old = [address |-> a, tokens |-> BURST, age |-> d] /\ used[a] = 0
      BY <1>2, <2>1 DEF Bucket, LimiterInv, ForgottenAreIdle
    <3>2. BURST \in - RATE * MaxDelay .. BURST /\ d \in Nat
      <4>1. - RATE * MaxDelay = - (RATE * MaxDelay)
        BY SMT
      <4>2. QED
        BY <4>1
    <3>3. d * RATE \in Nat
      BY <3>2, SMT
    <3>4. QED
      BY <3>1, <3>2, <3>3 DEF Buckets
  <2>2. CASE BucketOf(a) # {}
    <3>1. PICK i \in DOMAIN buckets : old = buckets[i] /\ buckets[i].address = a
      BY <1>2, <2>2 DEF BucketOf
    <3>2. old \in Buckets
      BY <1>7, <3>1, ElementOfSeq
    <3>3. QED
      BY <3>1, <3>2 DEF LimiterInv, BucketsVouch, Credit
  <2>3. QED
    BY <2>1, <2>2
<1>9. PICK v : v = IF T >= 1 THEN used[a] + 1 ELSE used[a]
  OBVIOUS
<1>10. /\ T \in Int /\ v \in Nat
       /\ Left(T) \in - RATE * MaxDelay .. BURST
       /\ v + Left(T) + d * RATE >= BURST
       /\ v = 0 \/ v + Left(T) + d * RATE <= BURST + RATE * MaxDelay
       /\ Left(T) + d * RATE >= 0
       /\ ~ (T >= 1) => v + RATE * d >= BURST
  <2>1. used[a] \in Nat
    BY <1>7
  <2>2. QED
    BY <1>3, <1>8, <1>9, <2>1, CreditOfRequest
<1>11. /\ new \in Buckets /\ new.address = a /\ new.tokens = Left(T) /\ new.age = d
  <2>1. d \in Nat
    OBVIOUS
  <2>2. new = [address |-> a, tokens |-> Left(T), age |-> d]
    BY <1>4 DEF Bucket
  <2>3. QED
    BY <1>10, <2>1, <2>2 DEF Buckets
<1>12. PICK others : others = Others(a)
  OBVIOUS
<1>13. /\ others \in Seq(Buckets) /\ Len(others) <= max_clients /\ OneBucketEach(others)
       /\ \A k \in DOMAIN others :
            others[k].address # a /\ \E m \in DOMAIN buckets : others[k] = buckets[m]
       /\ \A m \in DOMAIN buckets :
            buckets[m].address # a => \E k \in DOMAIN others : others[k] = buckets[m]
  BY <1>7, <1>12, PopLeavesOthers
<1>14. PICK kept : kept = Kept(stored)
  OBVIOUS
<1>15. KeepsBuckets(others, new, stored, kept)
  <2>1. stored = Append(others, new)
    BY <1>5, <1>12
  <2>2. \A k \in DOMAIN others : others[k].address # new.address
    BY <1>11, <1>13
  <2>3. QED
    BY <1>11, <1>13, <1>14, <2>1, <2>2, PutBack
<1>16. stored[1].address # a \/ ~ (Len(stored) > max_clients)
  BY <1>11, <1>15 DEF KeepsBuckets
<1>17. buckets' = kept
  BY <1>6, <1>14 DEF Kept
<1>18. /\ used' \in [Addresses -> Nat]
       /\ used'[a] = v
       /\ \A x \in Addresses \ {a} :
            used'[x] = IF Len(stored) > max_clients /\ x = stored[1].address THEN 0 ELSE used[x]
  BY <1>6, <1>7, <1>9, <1>10, <1>16
<1>19. LimiterTypeOK'
  <2>1. waiting' \in [Handlers -> Waits \cup {NoWait}]
    BY <1>6, <1>7
  <2>2. verdict' \in [address : Addresses, allowed : BOOLEAN, delay : 0 .. MaxDelay]
    BY <1>6
  <2>3. QED
    BY <1>15, <1>17, <1>18, <2>1, <2>2 DEF KeepsBuckets, LimiterTypeOK, OneBucketEach
<1>20. BucketsVouch'
  <2> SUFFICES ASSUME NEW k \in DOMAIN kept
               PROVE  /\ used'[kept[k].address] + kept[k].tokens + kept[k].age * RATE >= BURST
                      /\ \/ used'[kept[k].address] = 0
                         \/ used'[kept[k].address] + kept[k].tokens + kept[k].age * RATE
                              <= BURST + RATE * MaxDelay
                      /\ kept[k].tokens + kept[k].age * RATE >= 0
    BY <1>17 DEF BucketsVouch, Credit
  <2>1. CASE kept[k] = new
    BY <1>10, <1>11, <1>18, <2>1
  <2>2. CASE kept[k] # new
    <3>1. PICK m \in DOMAIN buckets : kept[k] = buckets[m] /\ buckets[m].address # a
      <4>1. PICK j \in DOMAIN others : kept[k] = others[j]
        BY <1>15, <2>2 DEF KeepsBuckets
      <4>2. QED
        BY <1>13, <4>1, Zenon
    <3>2. buckets[m].address \in Addresses
      <4>1. buckets[m] \in Buckets
        BY <1>7, <3>1, ElementOfSeq
      <4>2. QED
        BY <4>1 DEF Buckets
    <3>3. used'[buckets[m].address] = used[buckets[m].address]
      <4>1. Len(stored) > max_clients => kept[k].address # stored[1].address
        BY <1>15 DEF KeepsBuckets
      <4>2. QED
        BY <1>18, <3>1, <3>2, <4>1
    <3>4. QED
      BY <3>1, <3>3 DEF LimiterInv, BucketsVouch, Credit
  <2>3. QED
    BY <2>1, <2>2
<1>21. ForgottenAreIdle'
  <2> SUFFICES ASSUME NEW x \in Addresses, \A k \in DOMAIN kept : kept[k].address # x
               PROVE  used'[x] = 0
    BY <1>17 DEF ForgottenAreIdle, BucketOf
  <2>1. x # a
    BY <1>11, <1>15 DEF KeepsBuckets
  <2>2. CASE BucketOf(x) = {}
    BY <1>18, <2>1, <2>2 DEF LimiterInv, ForgottenAreIdle
  <2>3. CASE BucketOf(x) # {}
    <3>1. PICK m \in DOMAIN buckets : buckets[m].address = x
      BY <2>3 DEF BucketOf
    <3>2. PICK j \in DOMAIN others : others[j] = buckets[m]
      BY <1>13, <2>1, <3>1
    <3>3. Len(stored) > max_clients /\ others[j].address = stored[1].address
      BY <1>15, <3>1, <3>2 DEF KeepsBuckets
    <3>4. QED
      BY <1>18, <2>1, <3>1, <3>2, <3>3
  <2>4. QED
    BY <2>2, <2>3
<1>22. RefusedOnlyIfSpent'
  <2>1. verdict'.address = a /\ verdict'.delay = d /\ verdict'.allowed = (T >= 1)
    BY <1>6
  <2>2. QED
    BY <1>10, <1>18, <2>1 DEF RefusedOnlyIfSpent
<1>23. QED
  BY <1>19, <1>20, <1>21, <1>22 DEF LimiterInv

\* What a second does to a bucket and to the history of its client.
LEMMA CreditOfTick ==
  ASSUME NEW b \in Buckets, NEW u \in Nat,
         b.tokens + b.age * RATE >= 0,
         u + b.tokens + b.age * RATE >= BURST,
         u = 0 \/ u + b.tokens + b.age * RATE <= BURST + RATE * MaxDelay,
         NEW v, v = IF u > RATE THEN u - RATE ELSE 0,
         NEW c, c = OlderBucket(b)
  PROVE  /\ c \in Buckets /\ c.address = b.address
         /\ c.tokens + c.age * RATE >= 0
         /\ v + c.tokens + c.age * RATE >= BURST
         /\ v = 0 \/ v + c.tokens + c.age * RATE <= BURST + RATE * MaxDelay
<1> USE LimiterParameters
<1>1. PICK t \in Int, g \in Nat : t = b.tokens /\ g = b.age
  <2>1. - RATE * MaxDelay .. BURST \subseteq Int
    OBVIOUS
  <2>2. QED
    BY <2>1 DEF Buckets
<1>2. PICK worth \in Nat : worth = g * RATE
  BY SMT
<1>3. PICK M \in Nat : M = RATE * MaxDelay /\ M = MaxDelay * RATE
  BY SMT
<1>4. /\ t + worth >= 0 /\ u + t + worth >= BURST
      /\ u = 0 \/ u + t + worth <= BURST + M
  BY <1>1, <1>2, <1>3
<1>5. CASE t + (g - MaxDelay) * RATE >= BURST
  <2>1. c = b
    BY <1>1, <1>5 DEF OlderBucket
  <2>2. (g - MaxDelay) * RATE = worth - M
    <3>1. g \in Int /\ MaxDelay \in Int /\ RATE \in Int
      OBVIOUS
    <3>2. QED
      BY <1>2, <1>3, <3>1, Distributive
  <2>3. t + (worth - M) >= BURST
    BY <1>5, <2>2
  <2>4. v + t + worth >= BURST /\ (v = 0 \/ v + t + worth <= BURST + M)
    BY <1>4, <2>3
  <2>5. QED
    BY <1>1, <1>2, <1>3, <1>4, <2>1, <2>4
<1>6. CASE ~ (t + (g - MaxDelay) * RATE >= BURST)
  <2>1. c = [b EXCEPT !.age = b.age + 1]
    BY <1>1, <1>6 DEF OlderBucket
  <2>2. b.age \in Nat
    BY DEF Buckets
  <2>3. /\ c \in Buckets /\ c.address = b.address
        /\ c.tokens = t /\ c.age = g + 1
    <3>1. c \in Buckets /\ c.address = b.address /\ c.tokens = b.tokens /\ c.age = b.age + 1
      BY <2>1, <2>2 DEF Buckets
    <3>2. QED
      BY <1>1, <3>1
  <2>4. (g + 1) * RATE = worth + RATE
    <3>1. g \in Int /\ 1 \in Int /\ RATE \in Int
      OBVIOUS
    <3>2. QED
      BY <1>2, <3>1, Distributive
  <2>5. /\ t + (worth + RATE) >= 0
        /\ v + t + (worth + RATE) >= BURST
        /\ v = 0 \/ v + t + (worth + RATE) <= BURST + M
    BY <1>4
  <2>6. QED
    BY <1>3, <2>3, <2>4, <2>5
<1>7. QED
  BY <1>5, <1>6

\* A second passes.
LEMMA LimiterTickKeeps ==
  ASSUME LimiterInv, LimiterTick
  PROVE  LimiterInv' /\ RefusedOnlyIfSpent'
<1> USE LimiterParameters
<1>1. /\ buckets \in Seq(Buckets) /\ Len(buckets) \in Nat /\ Len(buckets) <= max_clients
      /\ DOMAIN buckets = 1 .. Len(buckets)
      /\ OneBucketEach(buckets)
      /\ used \in [Addresses -> Nat]
      /\ waiting \in [Handlers -> Waits \cup {NoWait}]
  BY LenProperties DEF LimiterInv, LimiterTypeOK
<1>2. /\ \A w \in Handlers : waiting[w].delay < MaxDelay
      /\ buckets' = [i \in DOMAIN buckets |-> OlderBucket(buckets[i])]
      /\ waiting' = [w \in Handlers |->
           IF waiting[w] = NoWait THEN NoWait
           ELSE [waiting[w] EXCEPT !.delay = waiting[w].delay + 1]]
      /\ used' = [a \in Addresses |-> IF used[a] > RATE THEN used[a] - RATE ELSE 0]
      /\ verdict' = NoVerdict
  BY DEF LimiterTick
<1>3. used' \in [Addresses -> Nat]
  BY <1>1, <1>2
<1>4. ASSUME NEW i \in DOMAIN buckets
      PROVE  /\ buckets'[i] \in Buckets /\ buckets'[i].address = buckets[i].address
             /\ buckets'[i].tokens + buckets'[i].age * RATE >= 0
             /\ used'[buckets[i].address] + buckets'[i].tokens + buckets'[i].age * RATE >= BURST
             /\ \/ used'[buckets[i].address] = 0
                \/ used'[buckets[i].address] + buckets'[i].tokens + buckets'[i].age * RATE
                     <= BURST + RATE * MaxDelay
  <2>1. PICK b \in Buckets : b = buckets[i]
    BY <1>1, ElementOfSeq
  <2>2. PICK a \in Addresses : a = b.address
    BY DEF Buckets
  <2>3. PICK u \in Nat : u = used[a]
    BY <1>1
  <2>4. PICK c : c = OlderBucket(b)
    OBVIOUS
  <2>5. PICK v : v = IF u > RATE THEN u - RATE ELSE 0
    OBVIOUS
  <2>6. buckets'[i] = c /\ used'[a] = v
    BY <1>2, <2>1, <2>3, <2>4, <2>5
  <2>7. /\ b.tokens + b.age * RATE >= 0
        /\ u + b.tokens + b.age * RATE >= BURST
        /\ u = 0 \/ u + b.tokens + b.age * RATE <= BURST + RATE * MaxDelay
    BY <2>1, <2>2, <2>3 DEF LimiterInv, BucketsVouch, Credit
  <2>8. /\ c \in Buckets /\ c.address = b.address
        /\ c.tokens + c.age * RATE >= 0
        /\ v + c.tokens + c.age * RATE >= BURST
        /\ v = 0 \/ v + c.tokens + c.age * RATE <= BURST + RATE * MaxDelay
    BY <2>4, <2>5, <2>7, CreditOfTick
  <2>9. QED
    BY <2>1, <2>2, <2>6, <2>8
<1>5. /\ buckets' \in Seq(Buckets) /\ Len(buckets') = Len(buckets)
      /\ DOMAIN buckets' = DOMAIN buckets
  <2>1. PICK n \in Nat : n = Len(buckets) /\ DOMAIN buckets = 1 .. n
    BY <1>1
  <2>2. buckets' \in [1 .. n -> Buckets]
    BY <1>2, <1>4, <2>1
  <2>3. buckets' \in Seq(Buckets)
    BY <2>2, SeqDef
  <2>4. DOMAIN buckets' = 1 .. n /\ DOMAIN buckets' = 1 .. Len(buckets') /\ Len(buckets') \in Nat
    BY <2>2, <2>3, LenProperties
  <2>5. Len(buckets') = n
    BY <2>4
  <2>6. QED
    BY <2>1, <2>3, <2>4, <2>5
<1>6. LimiterTypeOK'
  <2>1. waiting' \in [Handlers -> Waits \cup {NoWait}]
    <3>1. ASSUME NEW w \in Handlers
          PROVE  waiting'[w] \in Waits \cup {NoWait}
      <4>1. CASE waiting[w] = NoWait
        BY <1>2, <4>1
      <4>2. CASE waiting[w] # NoWait
        <5>1. /\ waiting[w] \in Waits /\ waiting[w].delay < MaxDelay
              /\ waiting'[w] = [waiting[w] EXCEPT !.delay = waiting[w].delay + 1]
          BY <1>1, <1>2, <4>2
        <5>2. QED
          BY <5>1 DEF Waits
      <4>3. QED
        BY <4>1, <4>2
    <3>2. QED
      BY <1>2, <3>1
  <2>2. OneBucketEach(buckets)'
    BY <1>1, <1>4, <1>5 DEF OneBucketEach
  <2>3. QED
    BY <1>1, <1>2, <1>3, <1>5, <2>1, <2>2 DEF LimiterTypeOK
<1>7. BucketsVouch'
  BY <1>4, <1>5 DEF BucketsVouch, Credit
<1>8. ForgottenAreIdle'
  <2> SUFFICES ASSUME NEW a \in Addresses, BucketOf(a)' = {}
               PROVE  used'[a] = 0
    BY DEF ForgottenAreIdle
  <2>1. BucketOf(a) = {}
    BY <1>4, <1>5 DEF BucketOf
  <2>2. used[a] = 0
    BY <2>1 DEF LimiterInv, ForgottenAreIdle
  <2>3. QED
    BY <1>2, <2>2
<1>9. RefusedOnlyIfSpent'
  BY <1>2 DEF RefusedOnlyIfSpent, NoVerdict
<1>10. QED
  BY <1>6, <1>7, <1>8, <1>9 DEF LimiterInv

\* Reading the clock takes no lock and changes no bucket.
LEMMA ReadClockKeeps ==
  ASSUME LimiterInv, NEW w \in Handlers, NEW a \in Addresses, ReadClock(w, a)
  PROVE  LimiterInv' /\ RefusedOnlyIfSpent'
<1>1. /\ UNCHANGED <<buckets, used>> /\ verdict' = NoVerdict
      /\ waiting' = [waiting EXCEPT ![w] = [address |-> a, delay |-> 0]]
  BY DEF ReadClock
<1>2. [address |-> a, delay |-> 0] \in Waits
  BY LimiterParameters DEF Waits
<1>3. LimiterTypeOK'
  <2>1. waiting' \in [Handlers -> Waits \cup {NoWait}]
    BY <1>1, <1>2 DEF LimiterInv, LimiterTypeOK
  <2>2. QED
    BY <1>1, <2>1 DEF LimiterInv, LimiterTypeOK, OneBucketEach
<1>4. BucketsVouch' /\ ForgottenAreIdle'
  BY <1>1 DEF LimiterInv, BucketsVouch, Credit, ForgottenAreIdle, BucketOf
<1>5. RefusedOnlyIfSpent'
  BY <1>1 DEF RefusedOnlyIfSpent, NoVerdict
<1>6. QED
  BY <1>3, <1>4, <1>5 DEF LimiterInv

\* Nobody has a bucket at the start.
LEMMA LimiterInitially == LimiterInit => LimiterInv /\ RefusedOnlyIfSpent
<1> SUFFICES ASSUME LimiterInit
             PROVE  LimiterInv /\ RefusedOnlyIfSpent
  OBVIOUS
<1>1. /\ buckets = <<>> /\ verdict = NoVerdict
      /\ waiting = [w \in Handlers |-> NoWait] /\ used = [a \in Addresses |-> 0]
  BY DEF LimiterInit
<1>2. buckets \in Seq(Buckets) /\ Len(buckets) = 0 /\ DOMAIN buckets = {}
  BY <1>1, EmptySeq, LenProperties
<1>3. LimiterTypeOK
  BY <1>1, <1>2, LimiterParameters DEF LimiterTypeOK, OneBucketEach
<1>4. BucketsVouch /\ ForgottenAreIdle
  BY <1>1, <1>2 DEF BucketsVouch, ForgottenAreIdle
<1>5. QED
  BY <1>1, <1>3, <1>4 DEF LimiterInv, RefusedOnlyIfSpent, NoVerdict

\* The buckets of the exporter tell the truth about the history of their clients.
THEOREM LimiterInvariance == LimiterSpec => [](LimiterInv /\ RefusedOnlyIfSpent)
<1>1. LimiterInv /\ RefusedOnlyIfSpent /\ UNCHANGED limiterVars
        => LimiterInv' /\ RefusedOnlyIfSpent'
  BY DEF limiterVars, LimiterInv, LimiterTypeOK, OneBucketEach, BucketsVouch, Credit,
         ForgottenAreIdle, BucketOf, RefusedOnlyIfSpent
<1>2. LimiterInv /\ RefusedOnlyIfSpent /\ [LimiterNext]_limiterVars
        => LimiterInv' /\ RefusedOnlyIfSpent'
  BY <1>1, AllowKeeps, ReadClockKeeps, LimiterTickKeeps DEF LimiterNext
<1>3. QED
  BY <1>2, LimiterInitially, PTL DEF LimiterSpec

\* What a client has used up is bounded by the credit of its bucket.
LEMMA CreditBoundsUse == LimiterInv => LimiterShare
<1> SUFFICES ASSUME LimiterInv, NEW a \in Addresses
             PROVE  used[a] <= BURST + RATE * MaxDelay
  BY DEF LimiterShare
<1>1. used[a] \in Nat
  BY DEF LimiterInv, LimiterTypeOK
<1>2. CASE used[a] = 0
  BY <1>2, LimiterParameters
<1>3. CASE used[a] # 0
  <2>1. PICK i \in DOMAIN buckets : buckets[i].address = a
    BY <1>3 DEF LimiterInv, ForgottenAreIdle, BucketOf
  <2>2. PICK b \in Buckets : b = buckets[i]
    BY <2>1, LenProperties, ElementOfSeq DEF LimiterInv, LimiterTypeOK
  <2>3. PICK t \in Int, g \in Nat : t = b.tokens /\ g = b.age
    <3>1. - RATE * MaxDelay .. BURST \subseteq Int
      BY LimiterParameters
    <3>2. QED
      BY <3>1 DEF Buckets
  <2>4. PICK worth \in Int : worth = g * RATE
    BY LimiterParameters, SMT
  <2>5. t + worth >= 0 /\ used[a] + t + worth <= BURST + RATE * MaxDelay
    BY <1>3, <2>1, <2>2, <2>3, <2>4 DEF LimiterInv, BucketsVouch, Credit
  <2>6. QED
    BY <1>1, <2>3, <2>4, <2>5, LimiterParameters
<1>4. QED
  BY <1>2, <1>3

----------------------------------------------------------------------------
(* The three limits together.                                              *)

\* Each behaviour of the three limits is one of each of them: a step of one is a
\* stutter of the others.
THEOREM EachLimitByItself == LimitsSpec => Spec /\ HeartbeatSpec /\ LimiterSpec
<1>1. LimitsInit => Init /\ HeartbeatInit /\ LimiterInit
  BY DEF LimitsInit
<1>2. [LimitsNext]_limitsVars
        => [Next]_vars /\ [HeartbeatNext]_heartbeatVars /\ [LimiterNext]_limiterVars
  BY DEF LimitsNext, limitsVars
<1>3. QED
  BY <1>1, <1>2, PTL DEF LimitsSpec, Spec, HeartbeatSpec, LimiterSpec

\* The records of all three limits keep their types.
THEOREM LimitsTypeCorrect == LimitsSpec => []LimitsTypeOK
<1>1. IInv => TypeOK
  BY DEF IInv
<1>2. HeartbeatInv => HeartbeatTypeOK
  BY DEF HeartbeatInv
<1>3. LimiterInv => LimiterTypeOK
  BY DEF LimiterInv
<1>4. TypeOK /\ HeartbeatTypeOK /\ LimiterTypeOK => LimitsTypeOK
  BY DEF LimitsTypeOK
<1>5. QED
  BY <1>1, <1>2, <1>3, <1>4, EachLimitByItself, Invariance, HeartbeatInvariance,
     LimiterInvariance, PTL

\* A heartbeat is only refused to an endpoint that has sent more than the burst
\* in one window, for every number of endpoints that fight for the ring.
THEOREM HeartbeatsRefusedFairly == LimitsSpec => []RefusedOnlyIfTooMany
BY EachLimitByItself, HeartbeatInvariance, PTL

\* An endpoint that keeps its record gets two bursts at most in a window's time.
THEOREM HeartbeatsBounded == LimitsSpec => []AtMostTwoBursts
BY EachLimitByItself, HeartbeatInvariance, TwoWindows, PTL

\* No client of the exporter gets more than its share, for every number of
\* threads that overtake each other between the clock and the lock.
THEOREM HttpShareBounded == LimitsSpec => []LimiterShare
BY EachLimitByItself, LimiterInvariance, CreditBoundsUse, PTL

\* A client is only refused what it has used up itself.
THEOREM HttpRefusedFairly == LimitsSpec => []RefusedOnlyIfSpent
BY EachLimitByItself, LimiterInvariance, PTL

\* The flood protection's guarantees hold in the composition too.
THEOREM FloodProtectionComposed ==
  LimitsSpec => [](NoHostGetsMore /\ ThrottledBriefly /\ RefusedOnlyWhenBusy)
BY EachLimitByItself, BandwidthBounded, ThrottlingIsBrief, RefusalIsJustified, PTL
=============================================================================
