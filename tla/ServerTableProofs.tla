------------------------- MODULE ServerTableProofs -------------------------
(***************************************************************************)
(* Proofs about ServerTable, for every number of slots, set of endpoints,  *)
(* hash and quota: its invariants and action properties, that it           *)
(* implements Registry, and that the loops of ServerTableLoops do what it  *)
(* defines.                                                                *)
(***************************************************************************)
EXTENDS ServerTableLoops, FiniteSetTheorems, TLAPS

\* Min and Max of the sets the cursors are computed from.
LEMMA MinOfNaturals ==
  ASSUME NEW S, S \subseteq Nat, S # {}
  PROVE  /\ Min(S) \in S
         /\ \A y \in S : Min(S) <= y
<1> DEFINE Less == {ss \in Nat \X Nat : ss[1] < ss[2]}
<1>1. IsWellFoundedOn(Less, Nat)
  BY NatLessThanWellFounded, Zenon DEF OpToRel
<1>2. PICK x \in S : \A y \in S : ~ (<<y, x>> \in Less)
  <2> HIDE DEF Less
  <2> QED BY <1>1, WFMin
<1>3. \A y \in S : x <= y
  <2> TAKE y \in S
  <2>1. ~ (<<y, x>> \in Less)
    BY <1>2
  <2>2. x \in Nat /\ y \in Nat
    OBVIOUS
  <2>3. y < x => <<y, x>> \in Less
    BY <2>2
  <2>4. QED
    BY <2>1, <2>2, <2>3
<1>4. QED
  BY <1>3 DEF Min

\* A bounded set of integers has a largest one.
LEMMA MaxOfBounded ==
  ASSUME NEW S, S \subseteq Int, S # {}, NEW n \in Int, \A x \in S : x <= n
  PROVE  /\ Max(S) \in S
         /\ \A y \in S : Max(S) >= y
<1> DEFINE T == {n - x : x \in S}
<1>1. T \subseteq Nat /\ T # {}
  <2>1. PICK x \in S : TRUE
    OBVIOUS
  <2>2. n - x \in T
    OBVIOUS
  <2>3. T \subseteq Nat
    OBVIOUS
  <2>4. QED
    BY <2>2, <2>3
<1>2. Min(T) \in T /\ \A y \in T : Min(T) <= y
  BY <1>1, MinOfNaturals
<1>3. PICK m \in S : Min(T) = n - m
  BY <1>2
<1>4. \A y \in S : m >= y
  <2> TAKE y \in S
  <2>1. n - y \in T
    OBVIOUS
  <2>2. n - m <= n - y
    BY <1>2, <1>3, <2>1
  <2>3. m \in Int /\ y \in Int
    OBVIOUS
  <2>4. QED
    BY <2>2, <2>3
<1>5. QED
  BY <1>4 DEF Max

----------------------------------------------------------------------------
(* The inductive invariant.  Everything the runs check of the table is a    *)
(* part of it; FullListIsSwept follows from Sheltered.                     *)

TableInv(t) ==
  /\ t \in Tables
  /\ Accounted(t)
  /\ Sheltered(t)
  /\ Linked(t)
  /\ Ordered(t)
  /\ Unique(t)
  /\ WithinQuota(t)

IInv ==
  /\ TableInv(table)
  /\ crt_time \in Clock
  /\ up \in BOOLEAN
  /\ listed \in SUBSET Addresses

\* Sets of slots are finite.
LEMMA SlotsFinite ==
  ASSUME NEW S, S \subseteq Slots
  PROVE  /\ IsFiniteSet(S)
         /\ Cardinality(S) \in Nat
         /\ S \subseteq Nat
<1>1. max_nb_servers - 1 \in Int
  BY SizeAssumption
<1>2. IsFiniteSet(Slots)
  BY <1>1, FS_Interval DEF Slots
<1>3. IsFiniteSet(S)
  BY <1>2, FS_Subset
<1>4. Cardinality(S) \in Nat
  BY <1>3, FS_CardinalityType
<1>5. QED
  BY <1>3, <1>4, SizeAssumption DEF Slots

\* Counting the slots of a part and of the rest.
LEMMA SubsetCardinality ==
  ASSUME NEW S, S \subseteq Slots, NEW T, T \subseteq S
  PROVE  /\ Cardinality(T) <= Cardinality(S)
         /\ Cardinality(S \ T) = Cardinality(S) - Cardinality(T)
         /\ Cardinality(S) = Cardinality(T) => S = T
<1>1. IsFiniteSet(S)
  BY SlotsFinite
<1>2. S \cap T = T
  OBVIOUS
<1>3. T \in SUBSET S
  OBVIOUS
<1>4. /\ Cardinality(T) <= Cardinality(S)
      /\ Cardinality(S) = Cardinality(T) => S = T
  BY <1>1, <1>3, FS_Subset
<1>5. Cardinality(S \ T) = Cardinality(S) - Cardinality(S \cap T)
  BY <1>1, FS_Difference
<1>6. QED
  BY <1>2, <1>4, <1>5

\* There are as many slots as the configuration asks for.
LEMMA AllSlots ==
  Cardinality(Slots) = max_nb_servers
<1>1. 0 \in Int /\ max_nb_servers - 1 \in Int
  BY SizeAssumption
<1>2. Cardinality(0 .. max_nb_servers - 1)
        = IF 0 > max_nb_servers - 1 THEN 0 ELSE max_nb_servers - 1 - 0 + 1
  BY <1>1, FS_Interval
<1>3. QED
  BY <1>2, SizeAssumption DEF Slots

\* A table counts as full exactly when it has no free slot.
LEMMA FullMeansFull ==
  ASSUME NEW t \in Tables, Accounted(t)
  PROVE  /\ t.nb_servers = max_nb_servers <=> UsedSlots(t) = Slots
         /\ t.nb_servers = max_nb_servers <=> t.first_free_slot = -1
<1>1. UsedSlots(t) \subseteq Slots
  BY DEF UsedSlots
<1>2. t.nb_servers = max_nb_servers <=> UsedSlots(t) = Slots
  BY <1>1, SubsetCardinality, AllSlots DEF Accounted
<1>3. t.first_free_slot = -1 <=> UsedSlots(t) = Slots
  BY SizeAssumption DEF Accounted, Tables, Slots
<1>4. QED
  BY <1>2, <1>3

----------------------------------------------------------------------------
(* Removing a set of used slots preserves every part of the invariant.     *)

\* What is left after the removal: the same servers, less the removed ones.
LEMMA RemoveAllServers ==
  ASSUME NEW t \in Tables, Accounted(t), NEW S, S \subseteq UsedSlots(t)
  PROVE  LET r == Sv_RemoveAll(t, S)
         IN  /\ UsedSlots(r) = UsedSlots(t) \ S
             /\ \A i \in UsedSlots(r) : r.servers[i] = t.servers[i]
             /\ r.servers \in [Slots -> Servers]
             /\ r.nb_servers = Cardinality(UsedSlots(r))
             /\ r.nb_servers \in Int
<1> DEFINE r == Sv_RemoveAll(t, S)
<1>1. r.servers = [i \in Slots |-> IF i \in S THEN FreeSlot ELSE t.servers[i]]
  BY DEF Sv_RemoveAll
<1>2. FreeSlot.state = "unused" /\ FreeSlot \in Servers
  BY DEF FreeSlot, Servers
<1>3. r.servers \in [Slots -> Servers]
  BY <1>1, <1>2 DEF Tables
<1>4. UsedSlots(r) = UsedSlots(t) \ S
  BY <1>1, <1>2 DEF UsedSlots
<1>5. \A i \in UsedSlots(r) : r.servers[i] = t.servers[i]
  BY <1>1, <1>4 DEF UsedSlots
<1>6. r.nb_servers = t.nb_servers - Cardinality(S)
  BY DEF Sv_RemoveAll
<1>7. UsedSlots(t) \subseteq Slots
  BY DEF UsedSlots
<1>8. Cardinality(UsedSlots(t) \ S) = Cardinality(UsedSlots(t)) - Cardinality(S)
  BY <1>7, SubsetCardinality
<1>9. Cardinality(UsedSlots(t) \ S) \in Nat
  BY <1>7, SlotsFinite
<1>10. QED
  BY <1>3, <1>4, <1>5, <1>6, <1>8, <1>9 DEF Accounted

\* first_free_slot stays the lowest free slot.
LEMMA RemoveAllFirstFree ==
  ASSUME NEW t \in Tables, Accounted(t), NEW S, S \subseteq UsedSlots(t)
  PROVE  LET r == Sv_RemoveAll(t, S)
         IN  /\ r.first_free_slot \in Slots \cup {-1}
             /\ \A i \in Slots : i < r.first_free_slot => i \in UsedSlots(r)
             /\ r.first_free_slot \notin UsedSlots(r)
             /\ r.first_free_slot = -1 => UsedSlots(r) = Slots
<1> DEFINE r == Sv_RemoveAll(t, S)
           C == S \cup ({t.first_free_slot} \ {-1})
<1>1. UsedSlots(r) = UsedSlots(t) \ S
  BY RemoveAllServers
<1>2. t.first_free_slot \in Slots \cup {-1} /\ S \subseteq Slots
  BY DEF Tables, UsedSlots
<1>3. CASE S = {}
  <2>1. r.first_free_slot = t.first_free_slot
    BY <1>3 DEF Sv_RemoveAll
  <2>2. QED
    BY <1>1, <1>2, <1>3, <2>1 DEF Accounted
<1>4. CASE S # {}
  <2>1. r.first_free_slot = Min(C)
    BY <1>4 DEF Sv_RemoveAll
  <2>2. C \subseteq Nat /\ C # {} /\ C \subseteq Slots
    BY <1>2, <1>4, SlotsFinite
  <2>3. Min(C) \in C /\ \A y \in C : Min(C) <= y
    BY <2>2, MinOfNaturals
  <2>4. Min(C) \notin UsedSlots(t) \ S
    BY <2>3 DEF Accounted
  <2>5. ASSUME NEW i \in Slots, i < Min(C) PROVE i \in UsedSlots(t) \ S
    <3>1. i \in Nat /\ Min(C) \in Nat
      BY <2>2, <2>3, SlotsFinite
    <3>2. i \notin C
      BY <2>3, <2>5, <3>1
    <3>3. CASE t.first_free_slot = -1
      BY <3>2, <3>3 DEF Accounted
    <3>4. CASE t.first_free_slot # -1
      <4>1. t.first_free_slot \in C
        BY <3>4
      <4>2. i < t.first_free_slot
        BY <2>2, <2>3, <2>5, <3>1, <4>1
      <4>3. QED
        BY <3>2, <4>2 DEF Accounted
    <3>5. QED
      BY <3>3, <3>4
  <2>6. Min(C) # -1
    BY <2>2, <2>3
  <2>7. QED
    BY <1>1, <2>1, <2>2, <2>3, <2>4, <2>5, <2>6
<1>5. QED
  BY <1>3, <1>4

\* last_used_slot stays -1 or a used slot, and the servers above it sheltered.
LEMMA RemoveAllLastUsed ==
  ASSUME NEW t \in Tables, Accounted(t), Sheltered(t), NEW S, S \subseteq UsedSlots(t)
  PROVE  LET r == Sv_RemoveAll(t, S)
         IN  /\ r.last_used_slot \in Slots \cup {-1}
             /\ r.last_used_slot # -1 => r.last_used_slot \in UsedSlots(r)
             /\ Sheltered(r)
<1> DEFINE r == Sv_RemoveAll(t, S)
           B == {-1} \cup {i \in UsedSlots(t) \ S : i < t.last_used_slot}
<1>1. UsedSlots(r) = UsedSlots(t) \ S /\ UsedSlots(t) \subseteq Slots
  BY RemoveAllServers DEF UsedSlots
<1>2. t.last_used_slot \in Slots \cup {-1} /\ Slots \subseteq Nat
  BY SlotsFinite DEF Tables
<1>3. CASE t.last_used_slot \notin S
  <2>1. r.last_used_slot = t.last_used_slot
    BY <1>3 DEF Sv_RemoveAll
  <2>2. Sheltered(r)
    BY <1>1, <2>1 DEF Sheltered
  <2>3. QED
    BY <1>1, <1>2, <1>3, <2>1, <2>2 DEF Accounted
<1>4. CASE t.last_used_slot \in S
  <2>1. r.last_used_slot = Max(B)
    BY <1>4 DEF Sv_RemoveAll
  <2>2. /\ t.last_used_slot \in Nat
        /\ UsedSlots(t) \subseteq Nat
        /\ B \subseteq Int
        /\ -1 \in B
    <3>1. t.last_used_slot \in Nat /\ UsedSlots(t) \subseteq Nat
      BY <1>1, <1>2, <1>4
    <3>2. {i \in UsedSlots(t) \ S : i < t.last_used_slot} \subseteq Nat
      BY <3>1
    <3>3. QED
      BY <3>1, <3>2
  <2>3. \A x \in B : x <= t.last_used_slot
    <3> TAKE x \in B
    <3>1. x = -1 \/ x < t.last_used_slot
      OBVIOUS
    <3>2. x \in Int
      BY <2>2
    <3>3. QED
      BY <2>2, <3>1, <3>2
  <2>4. Max(B) \in B /\ \A y \in B : Max(B) >= y
    BY <2>2, <2>3, MaxOfBounded
  <2>5. ASSUME NEW i \in UsedSlots(r), i > r.last_used_slot
        PROVE  \E j \in Slots \ UsedSlots(r) : j > i
    <3>1. i \in Nat /\ i \in UsedSlots(t) \ S
      BY <1>1, <1>2
    <3>2. ~ (i < t.last_used_slot)
      BY <2>1, <2>2, <2>4, <2>5, <3>1
    <3>3. i > t.last_used_slot
      BY <1>4, <2>2, <3>1, <3>2
    <3>4. QED
      BY <1>1, <3>1, <3>3 DEF Sheltered
  <2>6. QED
    BY <1>1, <1>2, <2>1, <2>4, <2>5 DEF Sheltered
<1>5. QED
  BY <1>3, <1>4

\* The chains lose the removed slots and nothing else.
LEMMA RemoveAllChains ==
  ASSUME NEW t \in Tables, Accounted(t), Linked(t), Ordered(t),
         NEW S, S \subseteq UsedSlots(t)
  PROVE  LET r == Sv_RemoveAll(t, S)
         IN  /\ r.chain \in [Buckets -> SUBSET Slots]
             /\ r.ahead \in SUBSET (Slots \X Slots)
             /\ Linked(r)
             /\ Ordered(r)
<1> DEFINE r == Sv_RemoveAll(t, S)
<1>1. /\ UsedSlots(r) = UsedSlots(t) \ S
      /\ \A i \in UsedSlots(r) : r.servers[i] = t.servers[i]
  BY RemoveAllServers
<1>2. r.chain = [b \in Buckets |-> t.chain[b] \ S]
  BY DEF Sv_RemoveAll
<1>3. r.ahead = t.ahead \cap ((Slots \ S) \X (Slots \ S))
  BY DEF Sv_RemoveAll
<1>4. Linked(r)
  <2>1. \A b \in Buckets : r.chain[b] = {i \in UsedSlots(r) : BucketOfSlot(r, i) = b}
    BY <1>1, <1>2 DEF Linked, BucketOfSlot
  <2>2. r.ahead \subseteq UsedSlots(r) \X UsedSlots(r)
    BY <1>1, <1>3 DEF Linked
  <2>3. QED
    BY <2>1, <2>2 DEF Linked
<1>5. Ordered(r)
  <2>1. UsedSlots(r) \subseteq UsedSlots(t) /\ UsedSlots(r) \subseteq Slots \ S
    BY <1>1 DEF UsedSlots
  <2>2. \A i, j \in UsedSlots(r) : <<i, j>> \in r.ahead <=> <<i, j>> \in t.ahead
    BY <1>3, <2>1
  <2>3. \A i \in UsedSlots(r) : BucketOfSlot(r, i) = BucketOfSlot(t, i)
    BY <1>1 DEF BucketOfSlot
  <2>4. QED
    BY <2>1, <2>2, <2>3 DEF Ordered, Compared, Transitive
<1>6. r.chain \in [Buckets -> SUBSET Slots] /\ r.ahead \in SUBSET (Slots \X Slots)
  BY <1>2, <1>3 DEF Tables
<1>7. QED
  BY <1>4, <1>5, <1>6

\* Any table whose servers are among those of t keeps its uniqueness and quota.
LEMMA FewerServers ==
  ASSUME NEW t, NEW r, Unique(t), WithinQuota(t),
         UsedSlots(r) \subseteq UsedSlots(t),
         \A i \in UsedSlots(r) : r.servers[i].address = t.servers[i].address
  PROVE  Unique(r) /\ WithinQuota(r)
<1>1. Unique(r)
  BY DEF Unique
<1>2. ASSUME NEW a \in Addresses, max_per_address # 0
      PROVE  Cardinality(SlotsOfHost(r, a)) <= max_per_address
  <2>1. SlotsOfHost(r, a) \subseteq SlotsOfHost(t, a) /\ SlotsOfHost(t, a) \subseteq Slots
    BY DEF SlotsOfHost, UsedSlots
  <2>2. /\ Cardinality(SlotsOfHost(r, a)) <= Cardinality(SlotsOfHost(t, a))
        /\ Cardinality(SlotsOfHost(r, a)) \in Nat
        /\ Cardinality(SlotsOfHost(t, a)) \in Nat
    BY <2>1, SubsetCardinality, SlotsFinite
  <2>3. Cardinality(SlotsOfHost(t, a)) <= max_per_address
    BY <1>2 DEF WithinQuota
  <2>4. QED
    BY <2>2, <2>3, SizeAssumption
<1>3. QED
  BY <1>1, <1>2 DEF WithinQuota

\* Sv_Remove, for the entries a handler meets: the table stays consistent, and
\* exactly these entries are gone.
LEMMA RemoveAllInv ==
  ASSUME NEW t, TableInv(t), NEW S, S \subseteq UsedSlots(t)
  PROVE  LET r == Sv_RemoveAll(t, S)
         IN  /\ TableInv(r)
             /\ UsedSlots(r) = UsedSlots(t) \ S
             /\ \A i \in UsedSlots(r) : r.servers[i] = t.servers[i]
<1> DEFINE r == Sv_RemoveAll(t, S)
<1>1. t \in Tables /\ Accounted(t) /\ Sheltered(t) /\ Linked(t) /\ Ordered(t)
  BY DEF TableInv
<1>2. /\ UsedSlots(r) = UsedSlots(t) \ S
      /\ \A i \in UsedSlots(r) : r.servers[i] = t.servers[i]
      /\ r.servers \in [Slots -> Servers]
      /\ r.nb_servers = Cardinality(UsedSlots(r))
      /\ r.nb_servers \in Int
  BY <1>1, RemoveAllServers
<1>3. /\ r.first_free_slot \in Slots \cup {-1}
      /\ \A i \in Slots : i < r.first_free_slot => i \in UsedSlots(r)
      /\ r.first_free_slot \notin UsedSlots(r)
      /\ r.first_free_slot = -1 => UsedSlots(r) = Slots
  BY <1>1, RemoveAllFirstFree
<1>4. /\ r.last_used_slot \in Slots \cup {-1}
      /\ r.last_used_slot # -1 => r.last_used_slot \in UsedSlots(r)
      /\ Sheltered(r)
  BY <1>1, RemoveAllLastUsed
<1>5. /\ r.chain \in [Buckets -> SUBSET Slots]
      /\ r.ahead \in SUBSET (Slots \X Slots)
      /\ Linked(r)
      /\ Ordered(r)
  BY <1>1, RemoveAllChains
<1>6. Unique(r) /\ WithinQuota(r)
  <2> HIDE DEF r
  <2> QED BY <1>2, FewerServers DEF TableInv
<1>7. r \in Tables
  BY <1>2, <1>3, <1>4, <1>5 DEF Tables, Sv_RemoveAll
<1>8. Accounted(r)
  BY <1>2, <1>3, <1>4 DEF Accounted
<1>9. QED
  BY <1>2, <1>4, <1>5, <1>6, <1>7, <1>8 DEF TableInv

----------------------------------------------------------------------------
(* Sv_GetByAddr_Internal.                                                  *)

\* Moving an entry to the top of its chain changes the order of the chain only.
LEMMA MoveToTopInv ==
  ASSUME NEW t, TableInv(t), NEW b \in Buckets, NEW i \in t.chain[b]
  PROVE  LET r == MoveToTop(t, i, b)
         IN  /\ TableInv(r)
             /\ r.servers = t.servers
             /\ UsedSlots(r) = UsedSlots(t)
<1> DEFINE r == MoveToTop(t, i, b)
           kept == t.ahead \cap ((Slots \ {i}) \X (Slots \ {i}))
<1>1. t \in Tables /\ Accounted(t) /\ Sheltered(t) /\ Linked(t) /\ Ordered(t)
  BY DEF TableInv
<1>2. /\ r.servers = t.servers
      /\ r.nb_servers = t.nb_servers
      /\ r.last_used_slot = t.last_used_slot
      /\ r.first_free_slot = t.first_free_slot
  BY <1>1 DEF MoveToTop, LinkFirst, Tables
<1>3. i \in Slots /\ i \in UsedSlots(t) /\ BucketOfSlot(t, i) = b
  BY <1>1 DEF Linked, UsedSlots
<1>4. r.chain = t.chain
  <2>1. r.chain = [t.chain EXCEPT ![b] = (@ \ {i}) \cup {i}]
    BY <1>1 DEF MoveToTop, LinkFirst, Tables
  <2>2. (t.chain[b] \ {i}) \cup {i} = t.chain[b]
    OBVIOUS
  <2>3. QED
    BY <1>1, <2>1, <2>2 DEF Tables
<1>5. r.ahead = kept \cup ({i} \X (t.chain[b] \ {i}))
  BY <1>1 DEF MoveToTop, LinkFirst, Tables
<1>6. r \in Tables
  BY <1>1, <1>2, <1>3, <1>4, <1>5 DEF MoveToTop, LinkFirst, Tables
<1>7. UsedSlots(r) = UsedSlots(t)
  BY <1>2 DEF UsedSlots
<1>8. Accounted(r) /\ Sheltered(r)
  BY <1>1, <1>2, <1>7 DEF Accounted, Sheltered
<1>9. Linked(r)
  <2>1. r.ahead \subseteq UsedSlots(r) \X UsedSlots(r)
    BY <1>1, <1>3, <1>5, <1>7 DEF Linked
  <2>2. QED
    BY <1>1, <1>2, <1>4, <1>7, <2>1 DEF Linked, BucketOfSlot
<1>14. \A x \in UsedSlots(t) : BucketOfSlot(r, x) = BucketOfSlot(t, x)
  BY <1>2 DEF BucketOfSlot
<1>10. Compared(r)
  <2> HIDE DEF r, kept
  <2>1. SUFFICES ASSUME NEW x \in UsedSlots(t), NEW y \in UsedSlots(t)
        PROVE  /\ <<x, y>> \in r.ahead => <<y, x>> \notin r.ahead
                                         /\ BucketOfSlot(t, x) = BucketOfSlot(t, y)
               /\ x # y /\ BucketOfSlot(t, x) = BucketOfSlot(t, y)
                    => <<x, y>> \in r.ahead \/ <<y, x>> \in r.ahead
    BY <1>7, <1>14 DEF Compared
  <2>2. x \in Slots /\ y \in Slots
    BY DEF UsedSlots
  <2>3. /\ <<x, y>> \in r.ahead <=>
             \/ <<x, y>> \in t.ahead /\ x # i /\ y # i
             \/ x = i /\ y \in t.chain[b] /\ y # i
        /\ <<y, x>> \in r.ahead <=>
             \/ <<y, x>> \in t.ahead /\ x # i /\ y # i
             \/ y = i /\ x \in t.chain[b] /\ x # i
    BY <1>5, <2>2 DEF kept
  <2>4. /\ y \in t.chain[b] <=> BucketOfSlot(t, y) = b
        /\ x \in t.chain[b] <=> BucketOfSlot(t, x) = b
    BY <1>1 DEF Linked
  <2>5. /\ <<x, y>> \in t.ahead => <<y, x>> \notin t.ahead
                                  /\ BucketOfSlot(t, x) = BucketOfSlot(t, y)
        /\ x # y /\ BucketOfSlot(t, x) = BucketOfSlot(t, y)
             => <<x, y>> \in t.ahead \/ <<y, x>> \in t.ahead
    BY <1>1 DEF Ordered, Compared
  <2>6. QED
    BY <1>3, <2>3, <2>4, <2>5
<1>13. Transitive(r)
  <2>1. SUFFICES ASSUME NEW x \in UsedSlots(t), NEW y \in UsedSlots(t), NEW z \in UsedSlots(t),
                        <<x, y>> \in r.ahead, <<y, z>> \in r.ahead
                 PROVE  <<x, z>> \in r.ahead
    BY <1>7 DEF Transitive
  <2>2. x \in Slots /\ y \in Slots /\ z \in Slots
    BY DEF UsedSlots
  <2>3. <<y, z>> \in t.ahead /\ BucketOfSlot(t, y) = BucketOfSlot(t, z) /\ y # i /\ z # i
    <3>1. <<y, z>> \in t.ahead /\ y # i /\ z # i
      BY <1>5, <2>1, <2>2
    <3>2. QED
      BY <1>1, <3>1 DEF Ordered, Compared
  <2>4. CASE <<x, y>> \in t.ahead /\ x # i
    <3>1. <<x, z>> \in t.ahead
      BY <1>1, <2>3, <2>4 DEF Ordered, Transitive
    <3>2. QED
      BY <1>5, <2>2, <2>3, <2>4, <3>1
  <2>5. CASE x = i /\ y \in t.chain[b]
    <3>1. z \in t.chain[b]
      BY <1>1, <2>3, <2>5 DEF Linked
    <3>2. QED
      BY <1>5, <2>3, <2>5, <3>1
  <2>6. QED
    BY <1>5, <2>1, <2>2, <2>4, <2>5
<1>11. Unique(r) /\ WithinQuota(r)
  <2> HIDE DEF r
  <2> QED BY <1>2, <1>7, FewerServers DEF TableInv
<1>12. QED
  BY <1>2, <1>6, <1>7, <1>8, <1>9, <1>10, <1>11, <1>13 DEF TableInv, Ordered

\* A lookup removes expired servers only, and finds a's entry if it has one.
LEMMA LookupInv ==
  ASSUME NEW t, TableInv(t), NEW a \in Addresses, NEW now \in Int
  PROVE  LET r == Sv_GetByAddr_Internal(t, a, now)
         IN  /\ TableInv(r)
             /\ UsedSlots(r) \subseteq UsedSlots(t)
             /\ \A i \in UsedSlots(t) \ UsedSlots(r) : Expired(t, i, now)
             /\ \A i \in UsedSlots(r) : r.servers[i] = t.servers[i]
             /\ Matches(t, a, now) # {} =>
                  /\ FoundSlot(t, a, now) \in UsedSlots(r)
                  /\ t.servers[FoundSlot(t, a, now)].address = a
                  /\ Active(t, FoundSlot(t, a, now), now)
<1> DEFINE dead == {i \in Walked(t, a, now) : Expired(t, i, now)}
           left == Sv_RemoveAll(t, dead)
           r    == Sv_GetByAddr_Internal(t, a, now)
           f    == FoundSlot(t, a, now)
           b    == BucketOf[a]
<1>1. b \in Buckets /\ t.servers \in [Slots -> Servers] /\ Linked(t) /\ Unique(t)
  BY DEF Buckets, TableInv, Tables
<1>2. dead \subseteq UsedSlots(t)
  BY DEF Expired
<1>3. /\ TableInv(left)
      /\ UsedSlots(left) = UsedSlots(t) \ dead
      /\ \A i \in UsedSlots(left) : left.servers[i] = t.servers[i]
  BY <1>2, RemoveAllInv
<1>4. \A i \in UsedSlots(t) \ UsedSlots(left) : Expired(t, i, now)
  BY <1>3
<1>5. CASE Matches(t, a, now) = {}
  <2>1. r = left
    BY <1>5 DEF Sv_GetByAddr_Internal
  <2>2. QED
    BY <1>3, <1>4, <1>5, <2>1
<1>6. CASE Matches(t, a, now) # {}
  <2>1. \A i, j \in Matches(t, a, now) : i = j
    BY <1>1 DEF Matches, Active, Unique
  <2>2. f \in Matches(t, a, now)
    BY <1>6, <2>1 DEF FoundSlot
  <2>3. f \in t.chain[b] /\ Active(t, f, now) /\ t.servers[f].address = a
    BY <2>2 DEF Matches
  <2>4. t.servers[f].timeout \in Int
    BY <1>1, <2>3, TimeAssumption DEF Active, UsedSlots, Servers, FreeSlot, Deadlines
  <2>5. f \in UsedSlots(left)
    BY <1>3, <2>3, <2>4 DEF Active, Expired
  <2>6. f \in left.chain[b]
    BY <1>1, <1>3, <2>3, <2>5 DEF TableInv, Linked, BucketOfSlot
  <2>7. r = MoveToTop(left, f, b)
    BY <1>6 DEF Sv_GetByAddr_Internal
  <2>8. TableInv(r) /\ r.servers = left.servers /\ UsedSlots(r) = UsedSlots(left)
    <3> HIDE DEF left, r, f, b
    <3> QED BY <1>1, <1>3, <2>6, <2>7, MoveToTopInv
  <2>9. QED
    BY <1>3, <1>4, <2>3, <2>5, <2>8
<1>7. QED
  BY <1>5, <1>6

\* A lookup that finds nothing has walked the whole chain: no entry of a is
\* left, and nb_same_address counts exactly the entries of a's host.
LEMMA LookupMiss ==
  ASSUME NEW t, TableInv(t), NEW a \in Addresses, NEW now \in Int,
         Matches(t, a, now) = {}
  PROVE  LET r == Sv_GetByAddr_Internal(t, a, now)
         IN  /\ \A i \in UsedSlots(r) : r.servers[i].address # a
             /\ Cardinality(SlotsOfHost(r, a)) = SameAddressFound(t, a, now)
<1> DEFINE r == Sv_GetByAddr_Internal(t, a, now)
           b == BucketOf[a]
           dead == {i \in t.chain[b] : Expired(t, i, now)}
<1>1. Walked(t, a, now) = t.chain[b]
  BY DEF Walked
<1>2. r = Sv_RemoveAll(t, dead)
  BY <1>1 DEF Sv_GetByAddr_Internal
<1>3. dead \subseteq UsedSlots(t)
  BY DEF Expired
<1>4. /\ UsedSlots(r) = UsedSlots(t) \ dead
      /\ \A i \in UsedSlots(r) : r.servers[i] = t.servers[i]
  BY <1>2, <1>3, RemoveAllInv
<1>5. \A i \in UsedSlots(t) :
        /\ t.servers[i].address \in Addresses
        /\ t.servers[i].timeout \in Int
  BY TimeAssumption DEF TableInv, Tables, UsedSlots, Servers, FreeSlot, Deadlines
<1>6. b \in Buckets
  BY DEF Buckets
<1>7. t.chain[b] = {i \in UsedSlots(t) : BucketOfSlot(t, i) = b}
  BY <1>6 DEF TableInv, Linked
<1>8. \A i \in t.chain[b] : i \in UsedSlots(r) <=> Active(t, i, now)
  BY <1>4, <1>5, <1>7 DEF Active, Expired
<1>9. \A i \in UsedSlots(r) : r.servers[i].address # a
  BY <1>4, <1>7, <1>8 DEF Matches, BucketOfSlot
<1>10. SlotsOfHost(r, a) = {i \in t.chain[b] :
                             /\ Active(t, i, now)
                             /\ PublicOf[t.servers[i].address] = PublicOf[a]}
  <2>1. \A i \in SlotsOfHost(r, a) : i \in t.chain[b]
    BY <1>4, <1>5, <1>7, HashAssumption DEF SlotsOfHost, BucketOfSlot
  <2>2. \A i \in SlotsOfHost(r, a) :
          i \in UsedSlots(r) /\ PublicOf[t.servers[i].address] = PublicOf[a]
    BY <1>4 DEF SlotsOfHost
  <2>3. \A i \in UsedSlots(r) :
          PublicOf[t.servers[i].address] = PublicOf[a] => i \in SlotsOfHost(r, a)
    BY <1>4 DEF SlotsOfHost
  <2> HIDE DEF r
  <2>4. QED
    BY <1>8, <2>1, <2>2, <2>3
<1>11. QED
  BY <1>9, <1>10 DEF SameAddressFound

----------------------------------------------------------------------------
(* Sv_TakeFreeSlot.                                                        *)

\* The entry the look-up for the next free slot removes: at most one.
ScanRemoves(t, now) ==
  LET free == NextFree(t, t.first_free_slot, now)
  IN  IF free = {} THEN {} ELSE {Min(free)} \cap UsedSlots(t)

\* What the look-up stops at, and the slots it went past.
LEMMA ScanFinds ==
  ASSUME NEW t, TableInv(t), NEW now \in Int, t.nb_servers # max_nb_servers
  PROVE  LET new  == t.first_free_slot
             free == NextFree(t, new, now)
             dead == ScanRemoves(t, now)
         IN  /\ new \in Slots /\ new \notin UsedSlots(t)
             /\ free # {} => /\ Min(free) \in Slots
                             /\ Min(free) > new
                             /\ Min(free) \notin UsedSlots(t) \ dead
                             /\ \A i \in Slots : i < Min(free) /\ i # new => i \in UsedSlots(t) \ dead
             /\ free = {} => \A i \in Slots : i # new => i \in UsedSlots(t) \ dead
             /\ dead \subseteq UsedSlots(t)
             /\ \A i \in dead : Expired(t, i, now) /\ i > new /\ free # {} /\ i = Min(free)
<1> DEFINE new  == t.first_free_slot
           free == NextFree(t, new, now)
           dead == ScanRemoves(t, now)
<1>1. t \in Tables /\ Accounted(t)
  BY DEF TableInv
<1>2. new \in Slots /\ new \notin UsedSlots(t)
  BY <1>1, FullMeansFull DEF Accounted, Tables
<1>3. Slots \subseteq Nat /\ UsedSlots(t) \subseteq Slots
  BY SlotsFinite DEF UsedSlots
<1>4. \A i \in Slots : i < new => i \in UsedSlots(t)
  BY <1>1 DEF Accounted
<1>5. \A i \in Slots : i > new /\ i \notin free => i \in UsedSlots(t)
  BY DEF NextFree, Active
<1>6. free # {} => Min(free) \in free /\ \A y \in free : Min(free) <= y
  BY <1>3, MinOfNaturals DEF NextFree
<1>7. free \subseteq Slots /\ \A i \in free : i > new
  BY DEF NextFree
<1>8. dead = IF free = {} THEN {} ELSE {Min(free)} \cap UsedSlots(t)
  BY DEF ScanRemoves
<1>9. ASSUME NEW i \in dead PROVE Expired(t, i, now) /\ i > new /\ free # {} /\ i = Min(free)
  <2>1. free # {} /\ i = Min(free) /\ i \in free /\ i \in UsedSlots(t)
    BY <1>6, <1>8, <1>9
  <2>2. t.servers[i].timeout \in Int
    BY <1>1, <2>1, TimeAssumption DEF Tables, UsedSlots, Servers, FreeSlot, Deadlines
  <2>3. ~ Active(t, i, now)
    BY <2>1 DEF NextFree
  <2>4. Expired(t, i, now)
    BY <2>1, <2>2, <2>3 DEF Active, Expired
  <2>5. QED
    BY <1>7, <2>1, <2>4
<1> HIDE DEF free, dead, new
<1>10. ASSUME free # {}
       PROVE  /\ Min(free) \in Slots
              /\ Min(free) > new
              /\ Min(free) \notin UsedSlots(t) \ dead
              /\ \A i \in Slots : i < Min(free) /\ i # new => i \in UsedSlots(t) \ dead
  <2>1. Min(free) \in Slots /\ Min(free) > new
    BY <1>6, <1>7, <1>10
  <2>2. Min(free) \notin UsedSlots(t) \ dead
    BY <1>8, <1>10
  <2>3. ASSUME NEW i \in Slots, i < Min(free), i # new
        PROVE  i \in UsedSlots(t) \ dead
    <3>1. i \in Nat /\ new \in Nat /\ Min(free) \in Nat
      BY <1>2, <1>3, <2>1
    <3>2. i \notin free
      BY <1>6, <1>10, <2>3, <3>1
    <3>3. i \notin dead
      BY <1>9, <2>3, <3>1
    <3>4. i < new \/ i > new
      BY <2>3, <3>1
    <3>5. QED
      BY <1>4, <1>5, <3>2, <3>3, <3>4
  <2>4. QED
    BY <2>1, <2>2, <2>3
<1>11. ASSUME free = {}, NEW i \in Slots, i # new
       PROVE  i \in UsedSlots(t) \ dead
  <2>1. i < new \/ i > new
    BY <1>2, <1>3, <1>11
  <2>2. QED
    BY <1>4, <1>5, <1>8, <1>11, <2>1
<1>12. dead \subseteq UsedSlots(t)
  BY <1>8
<1>13. QED
  BY <1>2, <1>9, <1>10, <1>11, <1>12 DEF free, dead, new

\* A table is made of its fields.
LEMMA TableFields ==
  ASSUME NEW t \in Tables
  PROVE  t = [servers |-> t.servers, nb_servers |-> t.nb_servers,
              last_used_slot |-> t.last_used_slot,
              first_free_slot |-> t.first_free_slot,
              chain |-> t.chain, ahead |-> t.ahead]
  BY DEF Tables

\* The table Sv_TakeFreeSlot leaves, field by field: the one the removal of
\* the scanned entry leaves, with the new server and the moved cursors.
TakenFrom(t, a, now, r) ==
  LET new  == t.first_free_slot
      free == NextFree(t, new, now)
      dead == ScanRemoves(t, now)
      u    == Sv_RemoveAll(t, dead)
      top  == IF t.last_used_slot < new THEN new ELSE t.last_used_slot
  IN  /\ r.servers = [u.servers EXCEPT
                        ![new] = [state |-> "uninitialized", address |-> a,
                                  timeout |-> now + TIMEOUT_HEARTBEAT]]
      /\ r.nb_servers = u.nb_servers + 1
      /\ r.chain = [u.chain EXCEPT ![BucketOf[a]] = @ \cup {new}]
      /\ r.ahead = u.ahead \cup ({new} \X u.chain[BucketOf[a]])
      /\ r.first_free_slot = IF free = {} THEN -1 ELSE Min(free)
      /\ r.last_used_slot =
           IF top \in dead
             THEN Max({-1} \cup {i \in UsedSlots(t) \ dead : i < top})
             ELSE top
      /\ r = [servers |-> r.servers, nb_servers |-> r.nb_servers,
              last_used_slot |-> r.last_used_slot,
              first_free_slot |-> r.first_free_slot,
              chain |-> r.chain, ahead |-> r.ahead]

\* Taking a free slot adds one entry, there.
LEMMA TakeFreeSlotFields ==
  ASSUME NEW t, TableInv(t), NEW a \in Addresses, NEW now \in Int,
         t.nb_servers # max_nb_servers
  PROVE  TakenFrom(t, a, now, Sv_TakeFreeSlot(t, a, now))
<1> DEFINE new  == t.first_free_slot
           free == NextFree(t, new, now)
           dead == ScanRemoves(t, now)
           u    == Sv_RemoveAll(t, dead)
           r    == Sv_TakeFreeSlot(t, a, now)
           top  == IF t.last_used_slot < new THEN new ELSE t.last_used_slot
           claimed == [t EXCEPT !.last_used_slot = top, !.first_free_slot = -1]
           scanned == IF free = {}
                        THEN claimed
                        ELSE [Sv_RemoveAll(claimed, {Min(free)} \cap UsedSlots(t))
                                EXCEPT !.first_free_slot = Min(free)]
           server == [state |-> "uninitialized", address |-> a,
                      timeout |-> now + TIMEOUT_HEARTBEAT]
<1>1. t \in Tables /\ Accounted(t)
  BY DEF TableInv
<1>2. r = LinkFirst([scanned EXCEPT !.servers[new] = server, !.nb_servers = @ + 1],
                    new, BucketOf[a])
  BY <1>1 DEF Sv_TakeFreeSlot, Tables
<1>3. claimed = [servers |-> t.servers, nb_servers |-> t.nb_servers,
                 last_used_slot |-> top, first_free_slot |-> -1,
                 chain |-> t.chain, ahead |-> t.ahead]
  <2>1. top \in Slots \cup {-1}
    BY <1>1, ScanFinds DEF Tables
  <2> HIDE DEF top
  <2>2. claimed \in Tables
    BY <1>1, <2>1 DEF Tables
  <2>3. /\ claimed.servers = t.servers /\ claimed.nb_servers = t.nb_servers
        /\ claimed.last_used_slot = top /\ claimed.first_free_slot = -1
        /\ claimed.chain = t.chain /\ claimed.ahead = t.ahead
    BY <1>1 DEF Tables
  <2> HIDE DEF claimed
  <2>4. QED
    BY <2>2, <2>3, TableFields
<1>4. UsedSlots(claimed) = UsedSlots(t)
  BY <1>3 DEF UsedSlots
<1>5. dead = IF free = {} THEN {} ELSE {Min(free)} \cap UsedSlots(t)
  BY DEF ScanRemoves
<1>6. scanned = [servers |-> u.servers, nb_servers |-> u.nb_servers,
                 last_used_slot |->
                   IF top \in dead
                     THEN Max({-1} \cup {i \in UsedSlots(t) \ dead : i < top})
                     ELSE top,
                 first_free_slot |-> IF free = {} THEN -1 ELSE Min(free),
                 chain |-> u.chain, ahead |-> u.ahead]
  <2>1. CASE free = {}
    <3>1. dead = {}
      BY <1>5, <2>1
    <3>2. u.servers = t.servers
      BY <1>1, <3>1 DEF Sv_RemoveAll, Tables
    <3>3. u.nb_servers = t.nb_servers
      BY <1>1, <3>1, FS_EmptySet DEF Sv_RemoveAll, Tables
    <3>4. u.chain = t.chain
      BY <1>1, <3>1 DEF Sv_RemoveAll, Tables
    <3>5. u.ahead = t.ahead
      BY <1>1, <3>1 DEF Sv_RemoveAll, Tables
    <3>6. scanned = claimed
      BY <2>1
    <3> HIDE DEF u, dead, scanned, claimed, free, top
    <3>7. QED
      BY <1>3, <2>1, <3>1, <3>2, <3>3, <3>4, <3>5, <3>6
  <2>2. CASE free # {}
    <3>1. dead = {Min(free)} \cap UsedSlots(t)
      BY <1>5, <2>2
    <3>2. scanned = [Sv_RemoveAll(claimed, dead) EXCEPT !.first_free_slot = Min(free)]
      BY <2>2, <3>1
    <3> HIDE DEF dead, scanned, free, top, claimed
    <3>3. /\ claimed.servers = t.servers
          /\ claimed.nb_servers = t.nb_servers
          /\ claimed.last_used_slot = top
          /\ claimed.chain = t.chain
          /\ claimed.ahead = t.ahead
      BY <1>3
    <3>4. QED
      BY <1>4, <2>2, <3>2, <3>3 DEF Sv_RemoveAll, u
  <2>3. QED
    BY <2>1, <2>2
<1>7. /\ u.servers \in [Slots -> Servers]
      /\ u.chain \in [Buckets -> SUBSET Slots]
      /\ BucketOf[a] \in Buckets
  <2>1. dead \subseteq UsedSlots(t)
    BY <1>5
  <2>2. TableInv(u)
    BY <2>1, RemoveAllInv
  <2>3. QED
    BY <2>2 DEF TableInv, Tables, Buckets
<1> HIDE DEF u, dead, scanned, free, top, new, server
<1>8. r = [servers |-> [u.servers EXCEPT ![new] = server],
           nb_servers |-> u.nb_servers + 1,
           last_used_slot |-> scanned.last_used_slot,
           first_free_slot |-> scanned.first_free_slot,
           chain |-> [u.chain EXCEPT ![BucketOf[a]] = @ \cup {new}],
           ahead |-> u.ahead \cup ({new} \X u.chain[BucketOf[a]])]
  BY <1>2, <1>6 DEF LinkFirst
<1> HIDE DEF r
<1>9. QED
  BY <1>6, <1>8 DEF u, dead, free, top, new, server, r, TakenFrom

\* Every entry of t that has not timed out is in r, unchanged.
Kept(t, r, now) ==
  \A i \in UsedSlots(t) :
    Expired(t, i, now) \/ (i \in UsedSlots(r) /\ r.servers[i] = t.servers[i])

\* Adding a server: the quota and the uniqueness of its address are the
\* caller's to establish, the cursors and the chains are preserved.
LEMMA TakeFreeSlotInv ==
  ASSUME NEW t, TableInv(t), NEW a \in Addresses, NEW now \in Clock,
         t.nb_servers # max_nb_servers,
         \A i \in UsedSlots(t) : t.servers[i].address # a,
         max_per_address # 0 => Cardinality(SlotsOfHost(t, a)) < max_per_address
  PROVE  LET r == Sv_TakeFreeSlot(t, a, now)
         IN  TableInv(r) /\ Kept(t, r, now)
<1> DEFINE new  == t.first_free_slot
           free == NextFree(t, new, now)
           dead == ScanRemoves(t, now)
           u    == Sv_RemoveAll(t, dead)
           r    == Sv_TakeFreeSlot(t, a, now)
           top  == IF t.last_used_slot < new THEN new ELSE t.last_used_slot
           b    == BucketOf[a]
           server == [state |-> "uninitialized", address |-> a,
                      timeout |-> now + TIMEOUT_HEARTBEAT]
<1>1. now \in Int /\ b \in Buckets /\ server \in Servers /\ server.state # "unused"
  BY TimeAssumption DEF Clock, Buckets, Servers, Deadlines
<1>2. /\ new \in Slots /\ new \notin UsedSlots(t)
      /\ free # {} => /\ Min(free) \in Slots
                      /\ Min(free) > new
                      /\ Min(free) \notin UsedSlots(t) \ dead
                      /\ \A i \in Slots : i < Min(free) /\ i # new => i \in UsedSlots(t) \ dead
      /\ free = {} => \A i \in Slots : i # new => i \in UsedSlots(t) \ dead
      /\ dead \subseteq UsedSlots(t)
      /\ \A i \in dead : Expired(t, i, now) /\ i > new /\ free # {} /\ i = Min(free)
  BY <1>1, ScanFinds
<1>3. /\ TableInv(u)
      /\ UsedSlots(u) = UsedSlots(t) \ dead
      /\ \A i \in UsedSlots(u) : u.servers[i] = t.servers[i]
  BY <1>2, RemoveAllInv
<1>4. /\ r.servers = [u.servers EXCEPT ![new] = server]
      /\ r.nb_servers = u.nb_servers + 1
      /\ r.chain = [u.chain EXCEPT ![b] = @ \cup {new}]
      /\ r.ahead = u.ahead \cup ({new} \X u.chain[b])
      /\ r.first_free_slot = IF free = {} THEN -1 ELSE Min(free)
      /\ r.last_used_slot =
           IF top \in dead
             THEN Max({-1} \cup {i \in UsedSlots(t) \ dead : i < top})
             ELSE top
      /\ r = [servers |-> r.servers, nb_servers |-> r.nb_servers,
              last_used_slot |-> r.last_used_slot,
              first_free_slot |-> r.first_free_slot,
              chain |-> r.chain, ahead |-> r.ahead]
  <2>1. TakenFrom(t, a, now, r)
    BY <1>1, TakeFreeSlotFields
  <2> HIDE DEF r
  <2>2. QED
    BY <2>1 DEF TakenFrom
<1>5. /\ t.last_used_slot \in Slots \cup {-1}
      /\ t.last_used_slot # -1 => t.last_used_slot \in UsedSlots(t)
      /\ Sheltered(t)
      /\ Slots \subseteq Nat
      /\ UsedSlots(t) \subseteq Slots
  BY SlotsFinite DEF TableInv, Tables, Accounted, UsedSlots
<1> HIDE DEF new, free, dead, u, r, b, server
<1>6. /\ u.servers \in [Slots -> Servers] /\ u.nb_servers \in Int
      /\ u.chain \in [Buckets -> SUBSET Slots]
      /\ u.ahead \in SUBSET (Slots \X Slots)
      /\ u.nb_servers = Cardinality(UsedSlots(u))
      /\ Linked(u) /\ Ordered(u) /\ Unique(u) /\ WithinQuota(u)
  BY <1>3 DEF TableInv, Tables, Accounted
<1>7. UsedSlots(r) = UsedSlots(u) \cup {new}
  BY <1>1, <1>2, <1>4, <1>6 DEF UsedSlots
<1>8. /\ r.servers[new] = server
      /\ \A i \in UsedSlots(u) : r.servers[i] = t.servers[i]
      /\ new \notin UsedSlots(u)
      /\ server.address = a
  BY <1>2, <1>3, <1>4, <1>6 DEF UsedSlots, server
<1>9. Kept(t, r, now)
  BY <1>2, <1>3, <1>7, <1>8 DEF Kept
<1>10. /\ r.first_free_slot \in Slots \cup {-1}
       /\ \A i \in Slots : i < r.first_free_slot => i \in UsedSlots(r)
       /\ r.first_free_slot \notin UsedSlots(r)
       /\ r.first_free_slot = -1 => UsedSlots(r) = Slots
  <2>1. CASE free = {}
    <3>1. r.first_free_slot = -1 /\ UsedSlots(r) = Slots
      BY <1>2, <1>3, <1>4, <1>5, <1>7, <2>1
    <3>2. QED
      BY <1>5, <3>1
  <2>2. CASE free # {}
    <3>1. r.first_free_slot = Min(free)
      BY <1>4, <2>2
    <3>2. Min(free) \in Nat /\ new \in Nat
      BY <1>2, <1>5, <2>2
    <3>3. Min(free) # new /\ Min(free) # -1
      BY <1>2, <2>2, <3>2
    <3>4. QED
      BY <1>2, <1>3, <1>7, <2>2, <3>1, <3>2, <3>3
  <2>3. QED
    BY <2>1, <2>2
<1>11. new \in Nat /\ top \in Nat /\ top >= new /\ top >= t.last_used_slot
  <2>1. new \in Nat
    BY <1>2, <1>5
  <2>2. t.last_used_slot = -1 \/ t.last_used_slot \in Nat
    BY <1>5
  <2>3. QED
    BY <2>1, <2>2
<1>12. /\ r.last_used_slot \in Slots \cup {-1}
       /\ r.last_used_slot # -1 => r.last_used_slot \in UsedSlots(r)
       /\ Sheltered(r)
  <2>1. CASE top \notin dead
    <3>1. r.last_used_slot = top
      BY <1>4, <2>1
    <3>2. top \in UsedSlots(r) /\ top \in Slots
      BY <1>2, <1>3, <1>5, <1>7, <1>11, <2>1
    <3>3. ASSUME NEW i \in UsedSlots(r), i > top
          PROVE  \E j \in Slots \ UsedSlots(r) : j > i
      <4>1. i \in UsedSlots(t) /\ i > t.last_used_slot /\ i \in Nat /\ i > new
        <5>1. i \in UsedSlots(t) \/ i = new
          BY <1>3, <1>7
        <5>2. i \in Nat
          BY <1>2, <1>5, <5>1
        <5>3. t.last_used_slot = -1 \/ t.last_used_slot \in Nat
          BY <1>5
        <5> HIDE DEF top
        <5>4. i > t.last_used_slot /\ i > new
          BY <1>11, <3>3, <5>2, <5>3
        <5>5. QED
          BY <1>11, <5>1, <5>2, <5>4
      <4>2. PICK j \in Slots \ UsedSlots(t) : j > i
        BY <1>5, <4>1 DEF Sheltered
      <4>3. j \in Nat /\ j # new
        BY <1>5, <1>11, <4>1, <4>2
      <4>4. QED
        BY <1>3, <1>7, <4>2, <4>3
    <3>4. QED
      BY <3>1, <3>2, <3>3 DEF Sheltered
  <2>2. CASE top \in dead
    <3> DEFINE B == {-1} \cup {i \in UsedSlots(t) \ dead : i < top}
    <3>1. r.last_used_slot = Max(B)
      BY <1>4, <2>2
    <3>2. top = t.last_used_slot /\ top > new /\ top \in Slots /\ top \notin UsedSlots(r)
      BY <1>2, <1>3, <1>5, <1>7, <1>11, <2>2
    <3>3. Max(B) \in B /\ \A y \in B : Max(B) >= y
      <4>1. {i \in UsedSlots(t) \ dead : i < top} \subseteq Nat
        BY <1>5
      <4>2. B \subseteq Int /\ -1 \in B
        BY <4>1
      <4>3. \A x \in B : x <= top
        <5> TAKE x \in B
        <5>1. x = -1 \/ x < top
          OBVIOUS
        <5>2. QED
          BY <1>11, <4>2, <5>1
      <4>4. QED
        BY <1>11, <4>2, <4>3, MaxOfBounded
    <3>4. ASSUME NEW i \in UsedSlots(r), i > Max(B)
          PROVE  \E j \in Slots \ UsedSlots(r) : j > i
      <4>1. CASE i = new
        BY <3>2, <4>1
      <4>2. CASE i # new
        <5>1. i \in UsedSlots(t) \ dead /\ i \in Nat
          BY <1>3, <1>5, <1>7, <4>2
        <5>2. i \notin B
          <6>1. CASE Max(B) = -1
            BY <3>3, <3>4, <5>1, <6>1
          <6>2. CASE Max(B) # -1
            <7>1. Max(B) \in Nat
              BY <1>5, <3>3, <6>2
            <7>2. QED
              BY <3>3, <3>4, <5>1, <7>1
          <6>3. QED
            BY <6>1, <6>2
        <5>3. i > top
          BY <1>11, <2>2, <5>1, <5>2
        <5>4. PICK j \in Slots \ UsedSlots(t) : j > i
          BY <1>5, <3>2, <5>1, <5>3 DEF Sheltered
        <5>5. j # new
          BY <1>5, <1>11, <5>1, <5>3, <5>4
        <5>6. QED
          BY <1>3, <1>7, <5>4, <5>5
      <4>3. QED
        BY <4>1, <4>2
    <3>5. Max(B) \in Slots \cup {-1} /\ (Max(B) # -1 => Max(B) \in UsedSlots(r))
      BY <1>3, <1>5, <1>7, <3>3
    <3>6. QED
      BY <3>1, <3>4, <3>5 DEF Sheltered
  <2>3. QED
    BY <2>1, <2>2
<1>13. r \in Tables
  <2>1. r.servers \in [Slots -> Servers]
    BY <1>1, <1>4, <1>6
  <2>2. r.nb_servers \in Int
    BY <1>4, <1>6
  <2>3. r.chain \in [Buckets -> SUBSET Slots]
    BY <1>1, <1>2, <1>4, <1>6
  <2>4. r.ahead \in SUBSET (Slots \X Slots)
    BY <1>1, <1>2, <1>4, <1>6
  <2>5. QED
    BY <1>4, <1>10, <1>12, <2>1, <2>2, <2>3, <2>4 DEF Tables
<1>14. Accounted(r)
  <2>1. IsFiniteSet(UsedSlots(u))
    BY SlotsFinite DEF UsedSlots
  <2>2. Cardinality(UsedSlots(u) \cup {new}) = Cardinality(UsedSlots(u)) + 1
    BY <1>8, <2>1, FS_AddElement
  <2>3. QED
    BY <1>4, <1>6, <1>7, <1>10, <1>12, <2>2 DEF Accounted
<1>15. Linked(r)
  <2>1. ASSUME NEW c \in Buckets
        PROVE  r.chain[c] = {i \in UsedSlots(r) : BucketOfSlot(r, i) = c}
    <3>1. u.chain[c] = {i \in UsedSlots(u) : BucketOfSlot(u, i) = c}
      BY <1>6 DEF Linked
    <3>2. \A i \in UsedSlots(u) : BucketOfSlot(r, i) = BucketOfSlot(u, i)
      BY <1>3, <1>8 DEF BucketOfSlot
    <3>3. BucketOfSlot(r, new) = b
      BY <1>8 DEF BucketOfSlot, b
    <3>4. r.chain[c] = IF c = b THEN u.chain[c] \cup {new} ELSE u.chain[c]
      BY <1>1, <1>4, <1>6
    <3>5. QED
      BY <1>7, <3>1, <3>2, <3>3, <3>4
  <2>2. u.chain[b] \subseteq UsedSlots(u) /\ u.ahead \subseteq UsedSlots(u) \X UsedSlots(u)
    BY <1>1, <1>6 DEF Linked
  <2>3. r.ahead \subseteq UsedSlots(r) \X UsedSlots(r)
    BY <1>4, <1>7, <2>2
  <2>4. QED
    BY <2>1, <2>3 DEF Linked
<1>16. Compared(r)
  <2>1. SUFFICES ASSUME NEW x \in UsedSlots(r), NEW y \in UsedSlots(r)
        PROVE  /\ <<x, y>> \in r.ahead => <<y, x>> \notin r.ahead
                                         /\ BucketOfSlot(r, x) = BucketOfSlot(r, y)
               /\ x # y /\ BucketOfSlot(r, x) = BucketOfSlot(r, y)
                    => <<x, y>> \in r.ahead \/ <<y, x>> \in r.ahead
    BY DEF Compared
  <2>2. \A i \in UsedSlots(u) : BucketOfSlot(r, i) = BucketOfSlot(u, i)
    BY <1>3, <1>8 DEF BucketOfSlot
  <2>3. BucketOfSlot(r, new) = b
    BY <1>8 DEF BucketOfSlot, b
  <2>4. u.chain[b] = {i \in UsedSlots(u) : BucketOfSlot(u, i) = b}
    BY <1>1, <1>6 DEF Linked
  <2>5. /\ <<x, y>> \in r.ahead <=> <<x, y>> \in u.ahead \/ (x = new /\ y \in u.chain[b])
        /\ <<y, x>> \in r.ahead <=> <<y, x>> \in u.ahead \/ (y = new /\ x \in u.chain[b])
    BY <1>4
  <2>6. \A i : <<new, i>> \notin u.ahead /\ <<i, new>> \notin u.ahead
    BY <1>6, <1>8 DEF Linked
  <2>7. CASE x = new \/ y = new
    BY <1>5, <1>7, <1>8, <2>2, <2>3, <2>4, <2>5, <2>6, <2>7 DEF UsedSlots
  <2>8. CASE x # new /\ y # new
    <3>1. x \in UsedSlots(u) /\ y \in UsedSlots(u)
      BY <1>7, <2>8
    <3>2. QED
      BY <1>6, <2>2, <2>5, <2>8, <3>1 DEF Ordered, Compared
  <2>9. QED
    BY <2>7, <2>8
<1>20. Transitive(r)
  <2> HIDE DEF r
  <2>1. SUFFICES ASSUME NEW x, NEW y, NEW z, <<x, y>> \in r.ahead, <<y, z>> \in r.ahead
                 PROVE  <<x, z>> \in r.ahead
    BY DEF Transitive
  <2>2. u.chain[b] = {i \in UsedSlots(u) : BucketOfSlot(u, i) = b}
    BY <1>1, <1>6 DEF Linked
  <2>3. \A i : <<new, i>> \notin u.ahead /\ <<i, new>> \notin u.ahead
    BY <1>6, <1>8 DEF Linked
  <2>4. \A i, j : <<i, j>> \in r.ahead <=> <<i, j>> \in u.ahead \/ (i = new /\ j \in u.chain[b])
    BY <1>4
  <2>5. y # new
    BY <1>8, <2>1, <2>2, <2>3, <2>4
  <2>6. <<y, z>> \in u.ahead /\ y \in UsedSlots(u) /\ z \in UsedSlots(u)
    BY <1>6, <2>1, <2>4, <2>5 DEF Linked
  <2>7. CASE x = new
    <3>1. y \in u.chain[b]
      BY <2>1, <2>3, <2>4, <2>7
    <3>2. z \in u.chain[b]
      <4>1. BucketOfSlot(u, y) = BucketOfSlot(u, z)
        BY <1>6, <2>6 DEF Ordered, Compared
      <4>2. QED
        BY <2>2, <2>6, <3>1, <4>1
    <3>3. QED
      BY <2>4, <2>7, <3>2
  <2>8. CASE x # new
    <3>1. <<x, y>> \in u.ahead /\ x \in UsedSlots(u)
      BY <1>6, <2>1, <2>4, <2>8 DEF Linked
    <3>2. <<x, z>> \in u.ahead
      BY <1>6, <2>6, <3>1 DEF Ordered, Transitive
    <3>3. QED
      BY <2>4, <3>2
  <2>9. QED
    BY <2>7, <2>8
<1>17. Unique(r)
  <2>1. \A i \in UsedSlots(u) : r.servers[i].address # a /\ r.servers[i] = u.servers[i]
    BY <1>3, <1>8
  <2>2. QED
    BY <1>6, <1>7, <1>8, <2>1 DEF Unique
<1>18. WithinQuota(r)
  <2>1. SUFFICES ASSUME max_per_address # 0, NEW h \in Addresses
        PROVE  Cardinality(SlotsOfHost(r, h)) <= max_per_address
    BY DEF WithinQuota
  <2>2. SlotsOfHost(u, h) \subseteq SlotsOfHost(t, h)
    BY <1>3 DEF SlotsOfHost
  <2>3. SlotsOfHost(r, h) = IF PublicOf[a] = PublicOf[h]
                              THEN SlotsOfHost(u, h) \cup {new}
                              ELSE SlotsOfHost(u, h)
    BY <1>3, <1>7, <1>8 DEF SlotsOfHost
  <2>4. SlotsOfHost(u, h) \subseteq Slots /\ SlotsOfHost(t, h) \subseteq Slots
    BY DEF SlotsOfHost, UsedSlots
  <2>5. /\ IsFiniteSet(SlotsOfHost(u, h))
        /\ Cardinality(SlotsOfHost(u, h)) \in Nat /\ Cardinality(SlotsOfHost(t, h)) \in Nat
        /\ Cardinality(SlotsOfHost(u, h)) <= Cardinality(SlotsOfHost(t, h))
    BY <2>2, <2>4, SlotsFinite, SubsetCardinality
  <2>6. CASE PublicOf[a] = PublicOf[h]
    <3>1. SlotsOfHost(t, h) = SlotsOfHost(t, a)
      BY <2>6 DEF SlotsOfHost
    <3>2. Cardinality(SlotsOfHost(u, h) \cup {new}) <= Cardinality(SlotsOfHost(u, h)) + 1
      BY <2>5, FS_AddElement
    <3>3. Cardinality(SlotsOfHost(t, h)) < max_per_address
      BY <2>1, <3>1
    <3>4. IsFiniteSet(SlotsOfHost(u, h) \cup {new})
      BY <2>5, FS_AddElement
    <3>5. Cardinality(SlotsOfHost(u, h) \cup {new}) \in Nat
      BY <3>4, FS_CardinalityType
    <3>6. QED
      BY <2>3, <2>5, <2>6, <3>2, <3>3, <3>5, SizeAssumption
  <2>7. CASE PublicOf[a] # PublicOf[h]
    BY <1>6, <2>1, <2>3, <2>7 DEF WithinQuota
  <2>8. QED
    BY <2>6, <2>7
<1>19. QED
  BY <1>9, <1>12, <1>13, <1>14, <1>15, <1>16, <1>17, <1>18, <1>20 DEF TableInv, Ordered, r

----------------------------------------------------------------------------
(* The other table operations of the handlers.                             *)

\* Sv_CheckTimeouts, or a walk that meets some of the expired entries.
LEMMA SweepInv ==
  ASSUME NEW t, TableInv(t), NEW now \in Int,
         NEW S, S \subseteq {i \in UsedSlots(t) : Expired(t, i, now)}
  PROVE  LET r == Sv_RemoveAll(t, S)
         IN  /\ TableInv(r)
             /\ Kept(t, r, now)
             /\ UsedSlots(r) \subseteq UsedSlots(t)
             /\ \A i \in UsedSlots(r) : r.servers[i] = t.servers[i]
  BY RemoveAllInv DEF Kept

\* The sweep of Sv_GetByAddr when the list is full.
LEMMA MakeRoomInv ==
  ASSUME NEW t, TableInv(t), NEW now \in Int
  PROVE  LET r == MakeRoom(t, now)
         IN  /\ TableInv(r)
             /\ Kept(t, r, now)
             /\ UsedSlots(r) \subseteq UsedSlots(t)
             /\ \A i \in UsedSlots(r) : r.servers[i] = t.servers[i]
<1> DEFINE S == {i \in 0 .. t.last_used_slot : Expired(t, i, now)}
<1>1. S \subseteq {i \in UsedSlots(t) : Expired(t, i, now)}
  BY DEF Expired
<1>2. CASE t.nb_servers = max_nb_servers
  BY <1>1, <1>2, SweepInv DEF MakeRoom, Sv_CheckTimeouts
<1>3. CASE t.nb_servers # max_nb_servers
  BY <1>3 DEF MakeRoom, Kept
<1>4. QED
  BY <1>2, <1>3

\* Sv_Init.
LEMMA EmptyTableInv ==
  TableInv(EmptyTable)
<1> DEFINE t == EmptyTable
<1>1. UsedSlots(t) = {}
  BY DEF UsedSlots, EmptyTable, FreeSlot
<1>2. t \in Tables
  BY SizeAssumption DEF EmptyTable, Tables, Servers, Slots
<1>3. Accounted(t)
  <2>1. t.nb_servers = 0 /\ t.first_free_slot = 0 /\ t.last_used_slot = -1
    BY DEF EmptyTable
  <2>2. Cardinality({}) = 0
    BY FS_EmptySet
  <2>3. \A i \in Slots : ~ (i < 0)
    BY SizeAssumption DEF Slots
  <2> HIDE DEF t
  <2>4. QED
    BY <1>1, <2>1, <2>2, <2>3 DEF Accounted
<1>4. Sheltered(t) /\ Ordered(t) /\ Unique(t)
  BY <1>1 DEF Sheltered, Ordered, Compared, Transitive, Unique
<1>5. Linked(t)
  <2>1. \A b \in Buckets : t.chain[b] = {}
    BY DEF EmptyTable
  <2>2. t.ahead = {}
    BY DEF EmptyTable
  <2> HIDE DEF t
  <2>3. QED
    BY <1>1, <2>1, <2>2 DEF Linked
<1>6. WithinQuota(t)
  <2>1. \A a \in Addresses : SlotsOfHost(t, a) = {}
    BY <1>1 DEF SlotsOfHost
  <2>2. QED
    BY <2>1, FS_EmptySet, SizeAssumption DEF WithinQuota
<1>7. QED
  BY <1>2, <1>3, <1>4, <1>5, <1>6 DEF TableInv

\* Refreshing an entry moves its state and its deadline only.
LEMMA RefreshInv ==
  ASSUME NEW t, TableInv(t), NEW i \in UsedSlots(t), NEW now \in Clock
  PROVE  LET r == [t EXCEPT !.servers[i] =
                     [@ EXCEPT !.state = "validated",
                               !.timeout = now + TIMEOUT_INFORESPONSE]]
         IN  /\ TableInv(r)
             /\ UsedSlots(r) = UsedSlots(t)
             /\ \A j \in UsedSlots(t) : r.servers[j].address = t.servers[j].address
             /\ \A j \in UsedSlots(t) \ {i} : r.servers[j] = t.servers[j]
<1> DEFINE server == [t.servers[i] EXCEPT !.state = "validated",
                                          !.timeout = now + TIMEOUT_INFORESPONSE]
           r == [t EXCEPT !.servers[i] = server]
<1>1. t \in Tables /\ i \in Slots /\ t.servers[i] \in Servers /\ t.servers[i] # FreeSlot
  BY DEF TableInv, Tables, UsedSlots, FreeSlot
<1>2. /\ server \in Servers
      /\ server.state = "validated"
      /\ server.address = t.servers[i].address
  <2> DEFINE old == t.servers[i]
  <2>1. old \in [state : {"uninitialized", "validated"}, address : Addresses,
                 timeout : Deadlines]
    BY <1>1 DEF Servers
  <2>2. now + TIMEOUT_INFORESPONSE \in Deadlines
    BY TimeAssumption DEF Deadlines, Clock
  <2>3. server = [old EXCEPT !.state = "validated", !.timeout = now + TIMEOUT_INFORESPONSE]
    OBVIOUS
  <2> HIDE DEF old, server
  <2>4. server \in [state : {"uninitialized", "validated"}, address : Addresses,
                    timeout : Deadlines]
    BY <2>1, <2>2, <2>3
  <2>5. server.state = "validated" /\ server.address = old.address
    BY <2>1, <2>3
  <2>6. QED
    BY <2>4, <2>5 DEF Servers, old
<1> HIDE DEF server
<1>3. /\ r.servers = [t.servers EXCEPT ![i] = server]
      /\ r.nb_servers = t.nb_servers
      /\ r.last_used_slot = t.last_used_slot
      /\ r.first_free_slot = t.first_free_slot
      /\ r.chain = t.chain
      /\ r.ahead = t.ahead
  BY <1>1 DEF Tables
<1>4. r \in Tables
  BY <1>1, <1>2 DEF Tables
<1> HIDE DEF r
<1>5. UsedSlots(r) = UsedSlots(t)
  BY <1>1, <1>2, <1>3 DEF UsedSlots, Tables
<1>6. /\ \A j \in UsedSlots(t) : r.servers[j].address = t.servers[j].address
      /\ \A j \in UsedSlots(t) \ {i} : r.servers[j] = t.servers[j]
  BY <1>1, <1>2, <1>3 DEF Tables
<1>7. Accounted(r) /\ Sheltered(r)
  BY <1>3, <1>5 DEF TableInv, Accounted, Sheltered
<1>8. \A j \in UsedSlots(t) : BucketOfSlot(r, j) = BucketOfSlot(t, j)
  BY <1>6 DEF BucketOfSlot
<1>9. Linked(r) /\ Ordered(r)
  <2>1. Linked(t) /\ Ordered(t)
    BY DEF TableInv
  <2>2. Linked(r)
    BY <1>3, <1>5, <1>8, <2>1 DEF Linked
  <2>3. Ordered(r)
    BY <1>3, <1>5, <1>8, <2>1 DEF Ordered, Compared, Transitive
  <2>4. QED
    BY <2>2, <2>3
<1>10. Unique(r) /\ WithinQuota(r)
  BY <1>5, <1>6, FewerServers DEF TableInv
<1>11. TableInv(r)
  BY <1>4, <1>7, <1>9, <1>10 DEF TableInv
<1>12. QED
  BY <1>5, <1>6, <1>11 DEF r, server

\* What an iteration offers are endpoints.
LEMMA BrowsedAddresses ==
  ASSUME NEW t \in Tables, NEW k, NEW now
  PROVE  Browsed(t, k, now) \in SUBSET Addresses
  BY DEF Browsed, Active, UsedSlots, Tables, Servers, FreeSlot

----------------------------------------------------------------------------
(* The invariant is inductive, and no step drops or ages a live entry.     *)

\* What a step may do to the entries of the list.
Respected ==
  \A i \in UsedSlots(table) :
    \/ Expired(table, i, crt_time)
    \/ /\ i \in UsedSlots(table')
       /\ table'.servers[i].address = table.servers[i].address
       /\ \/ table'.servers[i].timeout = table.servers[i].timeout
          \/ InfoResponseAccepted(table.servers[i].address)

\* What the lookup and the sweep of a full list leave to a newcomer: fewer
\* entries, none of its own, and less of its host than the quota.
LEMMA RoomMade ==
  ASSUME IInv, NEW a \in Addresses, Matches(table, a, crt_time) = {}, ~ OverQuota(a)
  PROVE  LET t == MakeRoom(Sv_GetByAddr_Internal(table, a, crt_time), crt_time)
         IN  /\ TableInv(t)
             /\ Kept(table, t, crt_time)
             /\ UsedSlots(t) \subseteq UsedSlots(table)
             /\ \A i \in UsedSlots(t) : t.servers[i] = table.servers[i]
             /\ \A i \in UsedSlots(t) : t.servers[i].address # a
             /\ max_per_address # 0 => Cardinality(SlotsOfHost(t, a)) < max_per_address
<1> DEFINE t1 == Sv_GetByAddr_Internal(table, a, crt_time)
           t2 == MakeRoom(t1, crt_time)
<1>1. crt_time \in Clock /\ crt_time \in Int /\ TableInv(table)
  BY DEF IInv, Clock
<1>2. /\ TableInv(t1)
      /\ \A i \in UsedSlots(table) \ UsedSlots(t1) : Expired(table, i, crt_time)
      /\ \A i \in UsedSlots(t1) : t1.servers[i] = table.servers[i]
      /\ UsedSlots(t1) \subseteq UsedSlots(table)
  BY <1>1, LookupInv
<1>3. /\ \A i \in UsedSlots(t1) : t1.servers[i].address # a
      /\ Cardinality(SlotsOfHost(t1, a)) = SameAddressFound(table, a, crt_time)
  BY <1>1, LookupMiss
<1> HIDE DEF t1
<1>4. /\ TableInv(t2)
      /\ Kept(t1, t2, crt_time)
      /\ UsedSlots(t2) \subseteq UsedSlots(t1)
      /\ \A i \in UsedSlots(t2) : t2.servers[i] = t1.servers[i]
  BY <1>1, <1>2, MakeRoomInv
<1> HIDE DEF t2
<1>5. Kept(table, t2, crt_time)
  BY <1>2, <1>4 DEF Kept, Expired
<1>6. \A i \in UsedSlots(t2) : t2.servers[i].address # a
  BY <1>3, <1>4
<1>7. max_per_address # 0 => Cardinality(SlotsOfHost(t2, a)) < max_per_address
  <2>1. SlotsOfHost(t2, a) \subseteq SlotsOfHost(t1, a) /\ SlotsOfHost(t1, a) \subseteq Slots
    BY <1>4 DEF SlotsOfHost, UsedSlots
  <2>2. /\ Cardinality(SlotsOfHost(t2, a)) <= Cardinality(SlotsOfHost(t1, a))
        /\ Cardinality(SlotsOfHost(t2, a)) \in Nat /\ Cardinality(SlotsOfHost(t1, a)) \in Nat
    BY <2>1, SlotsFinite, SubsetCardinality
  <2>3. QED
    BY <1>3, <2>2, SizeAssumption DEF OverQuota
<1>8. QED
  BY <1>2, <1>4, <1>5, <1>6, <1>7 DEF t1, t2

\* A heartbeat from a new endpoint: the lookup, the sweep of a full list and
\* the addition.
LEMMA HeartbeatNewInv ==
  ASSUME IInv, NEW a \in Addresses, HeartbeatNew(a)
  PROVE  TableInv(table') /\ Kept(table, table', crt_time)
<1> DEFINE t == MakeRoom(Sv_GetByAddr_Internal(table, a, crt_time), crt_time)
<1>1. crt_time \in Clock
  BY DEF IInv
<1>2. Matches(table, a, crt_time) = {} /\ ~ OverQuota(a)
  BY DEF HeartbeatNew
<1>3. /\ TableInv(t)
      /\ Kept(table, t, crt_time)
      /\ UsedSlots(t) \subseteq UsedSlots(table)
      /\ \A i \in UsedSlots(t) : t.servers[i] = table.servers[i]
      /\ \A i \in UsedSlots(t) : t.servers[i].address # a
      /\ max_per_address # 0 => Cardinality(SlotsOfHost(t, a)) < max_per_address
  BY <1>2, RoomMade
<1> HIDE DEF t
<1>4. CASE t.nb_servers = max_nb_servers /\ table' = t
  BY <1>3, <1>4
<1>5. CASE t.nb_servers # max_nb_servers /\ table' = Sv_TakeFreeSlot(t, a, crt_time)
  <2>1. TableInv(table') /\ Kept(t, table', crt_time)
    BY <1>1, <1>3, <1>5, TakeFreeSlotInv
  <2>2. Kept(table, table', crt_time)
    BY <1>3, <2>1 DEF Kept, Expired
  <2>3. QED
    BY <2>1, <2>2
<1>6. QED
  BY <1>4, <1>5 DEF HeartbeatNew, t

\* Every step preserves the invariant; only a restart drops live entries.
LEMMA StepInv ==
  ASSUME IInv, [Next]_vars
  PROVE  IInv' /\ (Respected \/ Restart)
<1>1. crt_time \in Clock /\ crt_time \in Int /\ TableInv(table)
  BY DEF IInv, Clock
<1>2. Kept(table, table', crt_time) => Respected
  BY DEF Kept, Respected
<1>3. ASSUME NEW a \in Addresses, listed' = {}, UNCHANGED <<crt_time, up>>,
             table' = Sv_GetByAddr_Internal(table, a, crt_time)
      PROVE  IInv' /\ Respected
  <2>1. TableInv(table') /\ Kept(table, table', crt_time)
    BY <1>1, <1>3, LookupInv DEF Kept
  <2>2. QED
    BY <1>2, <1>3, <2>1 DEF IInv
<1>4. ASSUME NEW a \in Addresses,
             HeartbeatKnown(a) \/ HeartbeatRefused(a) \/ InfoResponseRefused(a)
      PROVE  IInv' /\ Respected
  BY <1>3, <1>4 DEF HeartbeatKnown, HeartbeatRefused, InfoResponseRefused
<1>5. ASSUME NEW a \in Addresses, HeartbeatNew(a)
      PROVE  IInv' /\ Respected
  <2>1. TableInv(table') /\ Kept(table, table', crt_time)
    BY <1>5, HeartbeatNewInv
  <2>2. listed' = {} /\ UNCHANGED <<crt_time, up>>
    BY <1>5 DEF HeartbeatNew
  <2>3. QED
    BY <1>2, <2>1, <2>2 DEF IInv
<1>6. ASSUME NEW a \in Addresses, InfoResponseAccepted(a)
      PROVE  IInv' /\ Respected
  <2> DEFINE t == Sv_GetByAddr_Internal(table, a, crt_time)
             f == FoundSlot(table, a, crt_time)
             r == [t EXCEPT !.servers[f] =
                     [@ EXCEPT !.state = "validated",
                               !.timeout = crt_time + TIMEOUT_INFORESPONSE]]
  <2>1. table' = r /\ listed' = {} /\ UNCHANGED <<crt_time, up>>
    BY <1>6 DEF InfoResponseAccepted
  <2>2. /\ TableInv(t)
        /\ \A i \in UsedSlots(table) \ UsedSlots(t) : Expired(table, i, crt_time)
        /\ \A i \in UsedSlots(t) : t.servers[i] = table.servers[i]
        /\ f \in UsedSlots(t)
        /\ table.servers[f].address = a
    BY <1>1, <1>6, LookupInv DEF InfoResponseAccepted
  <2> HIDE DEF t, f
  <2>3. /\ TableInv(r)
        /\ UsedSlots(r) = UsedSlots(t)
        /\ \A j \in UsedSlots(t) : r.servers[j].address = t.servers[j].address
        /\ \A j \in UsedSlots(t) \ {f} : r.servers[j] = t.servers[j]
    BY <1>1, <2>2, RefreshInv
  <2> HIDE DEF r
  <2>4. Respected
    <3>1. SUFFICES ASSUME NEW i \in UsedSlots(table), ~ Expired(table, i, crt_time)
          PROVE  /\ i \in UsedSlots(table')
                 /\ table'.servers[i].address = table.servers[i].address
                 /\ \/ table'.servers[i].timeout = table.servers[i].timeout
                    \/ InfoResponseAccepted(table.servers[i].address)
      BY DEF Respected
    <3>2. i \in UsedSlots(t)
      BY <2>2, <3>1
    <3>3. i \in UsedSlots(table') /\ table'.servers[i].address = table.servers[i].address
      BY <2>1, <2>2, <2>3, <3>2
    <3>4. CASE i = f
      BY <1>6, <2>2, <3>3, <3>4
    <3>5. CASE i # f
      BY <2>1, <2>2, <2>3, <3>2, <3>3, <3>5
    <3>6. QED
      BY <3>4, <3>5
  <2>5. QED
    BY <2>1, <2>3, <2>4 DEF IInv
<1>7. ASSUME NEW k \in Slots, GetServers(k)
      PROVE  IInv' /\ Respected
  <2> DEFINE S == {i \in Visited(table, k, crt_time) : Expired(table, i, crt_time)}
  <2>1. /\ table' = Sv_RemoveAll(table, S)
        /\ listed' = Browsed(table, k, crt_time)
        /\ UNCHANGED <<crt_time, up>>
    BY <1>7 DEF GetServers, Sv_Browse
  <2>2. S \subseteq {i \in UsedSlots(table) : Expired(table, i, crt_time)}
    BY DEF Expired
  <2> HIDE DEF S
  <2>3. TableInv(table') /\ Kept(table, table', crt_time)
    BY <1>1, <2>1, <2>2, SweepInv
  <2>4. listed' \in SUBSET Addresses
    BY <1>1, <2>1, BrowsedAddresses DEF TableInv
  <2>5. QED
    BY <1>2, <2>1, <2>3, <2>4 DEF IInv
<1>8. CASE PrintServerList
  <2> DEFINE S == {i \in 0 .. table.last_used_slot : Expired(table, i, crt_time)}
  <2>1. /\ table' = Sv_RemoveAll(table, S)
        /\ listed' = {}
        /\ UNCHANGED <<crt_time, up>>
    BY <1>8 DEF PrintServerList, Sv_CheckTimeouts
  <2>2. S \subseteq {i \in UsedSlots(table) : Expired(table, i, crt_time)}
    BY DEF Expired
  <2> HIDE DEF S
  <2>3. TableInv(table') /\ Kept(table, table', crt_time)
    BY <1>1, <2>1, <2>2, SweepInv
  <2>4. QED
    BY <1>2, <2>1, <2>3 DEF IInv
<1>9. ASSUME UNCHANGED table, crt_time' \in Clock, up' \in BOOLEAN,
             listed' \in SUBSET Addresses
      PROVE  IInv' /\ Respected
  BY <1>1, <1>9 DEF IInv, Respected
<1>10. CASE GetServersTraps \/ Tick \/ UNCHANGED vars
  <2>1. /\ UNCHANGED table
        /\ crt_time' \in Clock
        /\ up' \in BOOLEAN
        /\ listed' \in SUBSET Addresses
    <3>1. CASE GetServersTraps
      BY <1>1, <3>1 DEF GetServersTraps
    <3>2. CASE Tick
      <4>1. UNCHANGED <<table, up>> /\ listed' = {} /\ crt_time' = crt_time + 1
            /\ crt_time < MaxTime
        BY <3>2 DEF Tick
      <4>2. crt_time' \in Clock
        BY <1>1, <4>1, TimeAssumption DEF Clock
      <4>3. QED
        BY <4>1, <4>2 DEF IInv
    <3>3. CASE UNCHANGED vars
      BY <1>1, <3>3 DEF vars, IInv
    <3>4. QED
      BY <1>10, <3>1, <3>2, <3>3
  <2>2. QED
    BY <1>9, <2>1
<1>11. CASE Restart
  <2>1. IInv'
    BY <1>11, EmptyTableInv DEF Restart, IInv
  <2>2. QED
    BY <1>11, <2>1
<1>12. QED
  BY <1>4, <1>5, <1>6, <1>7, <1>8, <1>10, <1>11 DEF Next

----------------------------------------------------------------------------
(* The theorems.                                                           *)

\* The invariant holds in every reachable state.
LEMMA InductiveInvariant ==
  Spec => []IInv
<1>1. Init => IInv
  BY EmptyTableInv, TimeAssumption DEF Init, IInv, Clock
<1>2. IInv /\ [Next]_vars => IInv'
  BY StepInv
<1>3. QED
  BY <1>1, <1>2, PTL DEF Spec

\* The variables of the master keep their types; in particular both cursors
\* stay within the array or at -1.
THEOREM TypeCorrect ==
  Spec => []TypeOK
<1>1. IInv => TypeOK
  BY DEF IInv, TypeOK, TableInv
<1>2. QED
  BY <1>1, InductiveInvariant, PTL

\* The counter, the cursors and the slots always agree, whatever expires in
\* the middle of a lookup, of a sweep or of an addition.
THEOREM SlotsAccounted ==
  Spec => []SlotAccounting
<1>1. IInv => SlotAccounting
  BY DEF IInv, SlotAccounting, TableInv
<1>2. QED
  BY <1>1, InductiveInvariant, PTL

\* A server that last_used_slot was pulled below has a free slot above it.
THEOREM StrandedSheltered ==
  Spec => []StrandedAreSheltered
<1>1. IInv => StrandedAreSheltered
  BY DEF IInv, StrandedAreSheltered, TableInv
<1>2. QED
  BY <1>1, InductiveInvariant, PTL

\* In a full list no free slot can shelter a stranded server.
LEMMA FullListReached ==
  ASSUME NEW t, TableInv(t), t.nb_servers = max_nb_servers
  PROVE  UsedSlots(t) = Slots /\ t.last_used_slot = max_nb_servers - 1
<1>1. t \in Tables /\ Accounted(t) /\ Sheltered(t)
  BY DEF TableInv
<1>2. UsedSlots(t) = Slots
  BY <1>1, FullMeansFull
<1>3. max_nb_servers - 1 \in Slots
  BY SizeAssumption DEF Slots
<1>4. t.last_used_slot \in Slots \cup {-1}
  BY <1>1 DEF Tables
<1>5. ~ (max_nb_servers - 1 > t.last_used_slot)
  BY <1>1, <1>2, <1>3 DEF Sheltered
<1>6. QED
  BY <1>2, <1>4, <1>5, SizeAssumption DEF Slots

\* Although last_used_slot may fall below a used slot, it points at the last
\* slot whenever the list is full: the sweep that makes room misses no slot.
THEOREM FullListSwept ==
  Spec => []FullListIsSwept
<1>1. IInv => FullListIsSwept
  BY FullListReached DEF IInv, FullListIsSwept
<1>2. QED
  BY <1>1, InductiveInvariant, PTL

\* A newcomer within its quota is only turned away by a list full of live
\* servers: the sweep reaches the last slot, so an expired entry anywhere would
\* have made room.
THEOREM RefusalMeansFull ==
  Spec => []RefusedOnlyIfFull
<1>1. ASSUME NEW t, TableInv(t), MakeRoom(t, crt_time).nb_servers = max_nb_servers,
             crt_time \in Int
      PROVE  \A i \in Slots : Active(MakeRoom(t, crt_time), i, crt_time)
  <2> DEFINE r == MakeRoom(t, crt_time)
             S == {i \in 0 .. t.last_used_slot : Expired(t, i, crt_time)}
  <2>1. t.nb_servers = max_nb_servers
    BY <1>1 DEF MakeRoom
  <2>2. UsedSlots(t) = Slots /\ t.last_used_slot = max_nb_servers - 1
    BY <1>1, <2>1, FullListReached
  <2>3. S \subseteq UsedSlots(t) /\ S = {i \in Slots : Expired(t, i, crt_time)}
    BY <2>2 DEF Expired, Slots
  <2>4. r = Sv_RemoveAll(t, S)
    BY <2>1 DEF MakeRoom, Sv_CheckTimeouts
  <2> HIDE DEF r, S
  <2>5. /\ TableInv(r)
        /\ UsedSlots(r) = UsedSlots(t) \ S
        /\ \A i \in UsedSlots(r) : r.servers[i] = t.servers[i]
    BY <1>1, <2>3, <2>4, RemoveAllInv
  <2>6. r.nb_servers = max_nb_servers
    BY <1>1 DEF r
  <2>7. UsedSlots(r) = Slots
    BY <2>5, <2>6, FullListReached
  <2>8. SUFFICES ASSUME NEW i \in Slots
        PROVE  Active(r, i, crt_time)
    BY DEF r
  <2>9. i \in UsedSlots(r) /\ ~ Expired(t, i, crt_time) /\ r.servers[i] = t.servers[i]
    BY <2>2, <2>3, <2>5, <2>7
  <2>10. t.servers[i].timeout \in Int
    BY <1>1 DEF TableInv, Tables, Servers, FreeSlot, Deadlines
  <2>11. t.servers[i].timeout >= crt_time
    BY <1>1, <2>2, <2>9, <2>10 DEF Expired
  <2>12. QED
    BY <2>9, <2>11 DEF Active
<1>2. IInv => RefusedOnlyIfFull
  <2>1. SUFFICES ASSUME IInv, NEW a \in Addresses,
                        MakeRoom(Sv_GetByAddr_Internal(table, a, crt_time), crt_time).nb_servers
                          = max_nb_servers
        PROVE  \A i \in Slots :
                 Active(MakeRoom(Sv_GetByAddr_Internal(table, a, crt_time), crt_time), i, crt_time)
    BY DEF RefusedOnlyIfFull
  <2>2. crt_time \in Int /\ TableInv(table)
    BY <2>1 DEF IInv, Clock
  <2>3. TableInv(Sv_GetByAddr_Internal(table, a, crt_time))
    BY <2>2, LookupInv
  <2>4. QED
    BY <1>1, <2>1, <2>2, <2>3
<1>3. QED
  BY <1>2, InductiveInvariant, PTL

\* Every server is linked in the chain of its address, and in no other.
THEOREM ChainsAreExact ==
  Spec => []ChainsExact
<1>1. IInv => ChainsExact
  BY DEF IInv, ChainsExact, TableInv
<1>2. QED
  BY <1>1, InductiveInvariant, PTL

\* No endpoint has two entries, although an expired one may still be linked
\* when its endpoint registers again.
THEOREM AddressesUnique ==
  Spec => []OneEntryPerAddress
<1>1. IInv => OneEntryPerAddress
  BY DEF IInv, OneEntryPerAddress, TableInv
<1>2. QED
  BY <1>1, InductiveInvariant, PTL

\* The quota of a public address holds at all times: the walk that counts
\* the entries of the address sees all of them.
THEOREM QuotaHolds ==
  Spec => []QuotaRespected
<1>1. IInv => QuotaRespected
  BY DEF IInv, QuotaRespected, TableInv
<1>2. QED
  BY <1>1, InductiveInvariant, PTL

\* No handler ever drops, moves or overwrites an entry that has not expired.
THEOREM LiveEntriesStay ==
  Spec => OnlyExpiredLeave
<1> DEFINE Stays ==
      up /\ up' =>
        \A i \in UsedSlots(table) :
          \/ table.servers[i].timeout < crt_time
          \/ /\ table'.servers[i].address = table.servers[i].address
             /\ table'.servers[i].state # "unused"
<1>1. IInv /\ [Next]_vars => Stays
  BY StepInv DEF Respected, Restart, Expired, UsedSlots
<1> HIDE DEF Stays
<1>2. IInv /\ [Next]_vars => [Stays]_vars
  BY <1>1
<1>3. Spec => [][Stays]_vars
  BY <1>2, InductiveInvariant, PTL DEF Spec
<1>4. QED
  BY <1>3 DEF OnlyExpiredLeave, Stays

\* Nothing but its own infoResponse moves the deadline of a live entry.
THEOREM DeadlinesStay ==
  Spec => OnlyInfoResponseProlongs
<1> DEFINE Stays ==
      \A i \in UsedSlots(table) :
        (/\ table'.servers[i].address = table.servers[i].address
         /\ table'.servers[i].timeout # table.servers[i].timeout
         /\ table.servers[i].timeout >= crt_time)
        => InfoResponseAccepted(table.servers[i].address)
<1>1. ASSUME IInv, [Next]_vars, NEW i \in UsedSlots(table),
             table'.servers[i].address = table.servers[i].address,
             table'.servers[i].timeout # table.servers[i].timeout,
             table.servers[i].timeout >= crt_time
      PROVE  InfoResponseAccepted(table.servers[i].address)
  <2>1. table.servers[i] \in Servers /\ table.servers[i] # FreeSlot /\ crt_time \in Int
        /\ i \in Slots
    BY <1>1 DEF IInv, TableInv, Tables, UsedSlots, FreeSlot, Clock
  <2>2. table.servers[i].address \in Addresses /\ table.servers[i].timeout \in Int
    BY <2>1 DEF Servers, Deadlines
  <2>3. ~ Expired(table, i, crt_time)
    BY <1>1, <2>1, <2>2 DEF Expired
  <2>4. CASE Restart
    <3>1. table'.servers[i].address = NoAddress
      BY <2>1, <2>4 DEF Restart, EmptyTable, FreeSlot
    <3>2. QED
      BY <1>1, <2>2, <3>1, HashAssumption
  <2>5. CASE Respected
    BY <1>1, <2>3, <2>5 DEF Respected
  <2>6. QED
    BY <1>1, <2>4, <2>5, StepInv
<1>2. IInv /\ [Next]_vars => Stays
  BY <1>1
<1> HIDE DEF Stays
<1>3. IInv /\ [Next]_vars => [Stays]_vars
  BY <1>2
<1>4. Spec => [][Stays]_vars
  BY <1>3, InductiveInvariant, PTL DEF Spec
<1>5. QED
  BY <1>4 DEF OnlyInfoResponseProlongs, Stays

----------------------------------------------------------------------------
(* ServerTable implements Registry: each handler, read as a change to the  *)
(* set of entries, is a step Registry allows.                              *)

\* The refinement mapping: the used slots, as a set of entries.
Entries(t) == {t.servers[i] : i \in UsedSlots(t)}

\* Nothing happened to the entries of t but that expired ones went.
OnlyForgot(t, r, now) ==
  /\ UsedSlots(r) \subseteq UsedSlots(t)
  /\ \A i \in UsedSlots(r) : r.servers[i] = t.servers[i]
  /\ \A i \in UsedSlots(t) \ UsedSlots(r) : Expired(t, i, now)

\* What Registry may keep and offer, in terms of the slots.
LEMMA MappingIsEntries ==
  /\ R!Left = {left \in SUBSET Entries(table) :
                 \A e \in Entries(table) \ left : e.timeout < crt_time}
  /\ R!Offered = {e.address : e \in {x \in Entries(table) :
                                       x.state = "validated" /\ x.timeout >= crt_time}}
  BY DEF R!Left, R!Offered, Entries

\* Both modules count alike.
LEMMA SameCardinality ==
  ASSUME NEW S
  PROVE  R!Cardinality(S) = Cardinality(S)
  BY Zenon DEF R!Cardinality, Cardinality

\* What is left of the slots is left of the entries.
LEMMA ForgotIsLeft ==
  ASSUME NEW r, OnlyForgot(table, r, crt_time)
  PROVE  Entries(r) \in R!Left
<1>1. Entries(r) \in SUBSET Entries(table)
  BY DEF OnlyForgot, Entries
<1>2. \A e \in Entries(table) \ Entries(r) : e.timeout < crt_time
  <2> SUFFICES ASSUME NEW i \in UsedSlots(table), table.servers[i] \notin Entries(r)
      PROVE  table.servers[i].timeout < crt_time
    BY DEF Entries
  <2>1. i \notin UsedSlots(r)
    BY DEF OnlyForgot, Entries
  <2>2. QED
    BY <2>1 DEF OnlyForgot, Expired
<1>3. QED
  BY <1>1, <1>2, MappingIsEntries

\* An endpoint has one slot, so different slots hold different entries, and
\* there are no more entries than slots.
LEMMA EntriesOfSlots ==
  ASSUME NEW t, NEW S, S \subseteq Slots
  PROVE  /\ Cardinality({t.servers[i] : i \in S}) <= Cardinality(S)
         /\ Cardinality({t.servers[i] : i \in S}) \in Nat
<1> DEFINE T == {t.servers[i] : i \in S}
           f == [i \in S |-> t.servers[i]]
<1>1. f \in Surjection(S, T)
  BY DEF Surjection
<1>2. IsFiniteSet(S)
  BY SlotsFinite
<1> HIDE DEF T, f
<1>3. IsFiniteSet(T) /\ Cardinality(T) <= Cardinality(S)
  BY <1>1, <1>2, FS_Surjection
<1>4. Cardinality(T) \in Nat
  BY <1>3, FS_CardinalityType
<1>5. QED
  BY <1>3, <1>4 DEF T

----------------------------------------------------------------------------
(* One lemma per kind of step.                                             *)

\* A handler that only removes expired entries on its way.
LEMMA ForgetStep ==
  ASSUME up, UNCHANGED <<crt_time, up>>, OnlyForgot(table, table', crt_time),
         listed' \in SUBSET R!Offered
  PROVE  R!Forget
<1>1. Entries(table') \in R!Left
  BY ForgotIsLeft
<1>2. Entries(table') = {table.servers[i] : i \in UsedSlots(table)}'
  BY DEF Entries
<1>3. QED
  BY <1>1, <1>2 DEF R!Forget

\* A lookup only forgets, whether it finds an entry or not.
LEMMA LookupForgets ==
  ASSUME IInv, NEW a \in Addresses
  PROVE  OnlyForgot(table, Sv_GetByAddr_Internal(table, a, crt_time), crt_time)
<1>1. crt_time \in Int /\ TableInv(table)
  BY DEF IInv, Clock
<1>2. QED
  BY <1>1, LookupInv DEF OnlyForgot

\* So does a sweep of any of the slots.
LEMMA SweepForgets ==
  ASSUME IInv, NEW S, S \subseteq {i \in UsedSlots(table) : Expired(table, i, crt_time)}
  PROVE  OnlyForgot(table, Sv_RemoveAll(table, S), crt_time)
<1>1. TableInv(table)
  BY DEF IInv
<1>2. QED
  BY <1>1, RemoveAllInv DEF OnlyForgot

\* The entries after an addition: those that are left, and the new one.
LEMMA TakenEntries ==
  ASSUME NEW t, TableInv(t), NEW a \in Addresses, NEW now \in Int,
         t.nb_servers # max_nb_servers
  PROVE  LET u == Sv_RemoveAll(t, ScanRemoves(t, now))
         IN  /\ OnlyForgot(t, u, now)
             /\ Entries(Sv_TakeFreeSlot(t, a, now)) =
                  Entries(u) \cup {[state |-> "uninitialized", address |-> a,
                                    timeout |-> now + TIMEOUT_HEARTBEAT]}
<1> DEFINE new    == t.first_free_slot
           dead   == ScanRemoves(t, now)
           u      == Sv_RemoveAll(t, dead)
           r      == Sv_TakeFreeSlot(t, a, now)
           server == [state |-> "uninitialized", address |-> a,
                      timeout |-> now + TIMEOUT_HEARTBEAT]
<1>1. /\ new \in Slots /\ new \notin UsedSlots(t)
      /\ dead \subseteq UsedSlots(t)
      /\ \A i \in dead : Expired(t, i, now)
  BY ScanFinds
<1>2. /\ TableInv(u)
      /\ UsedSlots(u) = UsedSlots(t) \ dead
      /\ \A i \in UsedSlots(u) : u.servers[i] = t.servers[i]
  BY <1>1, RemoveAllInv
<1>3. r.servers = [u.servers EXCEPT ![new] = server]
  <2>1. TakenFrom(t, a, now, r)
    BY TakeFreeSlotFields
  <2> HIDE DEF r
  <2>2. QED
    BY <2>1 DEF TakenFrom
<1>4. server.state # "unused"
  OBVIOUS
<1> HIDE DEF new, dead, u, r, server
<1>5. OnlyForgot(t, u, now)
  BY <1>1, <1>2 DEF OnlyForgot
<1>6. u.servers \in [Slots -> Servers]
  BY <1>2 DEF TableInv, Tables
<1>7. /\ UsedSlots(r) = UsedSlots(u) \cup {new}
      /\ r.servers[new] = server
      /\ \A i \in UsedSlots(u) : r.servers[i] = u.servers[i]
  BY <1>1, <1>2, <1>3, <1>4, <1>6 DEF UsedSlots
<1>8. Entries(r) = Entries(u) \cup {server}
  BY <1>7 DEF Entries
<1>9. QED
  BY <1>5, <1>8 DEF dead, u, r, server

\* A table with a free slot has room for a new entry of a host within its quota.
LEMMA RoomForNewcomer ==
  ASSUME NEW t, TableInv(t), NEW a \in Addresses, t.nb_servers # max_nb_servers,
         \A i \in UsedSlots(t) : t.servers[i].address # a,
         max_per_address # 0 => Cardinality(SlotsOfHost(t, a)) < max_per_address,
         NEW u, OnlyForgot(t, u, crt_time)
  PROVE  R!RoomFor(Entries(u), a)
<1>1. /\ UsedSlots(u) \subseteq UsedSlots(t)
      /\ \A i \in UsedSlots(u) : u.servers[i] = t.servers[i]
      /\ UsedSlots(t) \subseteq Slots
  BY DEF OnlyForgot, UsedSlots
<1>2. \A e \in Entries(u) : e.address # a
  BY <1>1 DEF Entries
<1>3. Cardinality(Entries(u)) < max_nb_servers
  <2>1. Cardinality(UsedSlots(t)) <= max_nb_servers
    BY <1>1, SubsetCardinality, AllSlots
  <2>2. Cardinality(UsedSlots(t)) = t.nb_servers /\ Cardinality(UsedSlots(t)) \in Nat
    BY <1>1, SlotsFinite DEF TableInv, Accounted
  <2>3. Cardinality(UsedSlots(u)) <= Cardinality(UsedSlots(t))
    BY <1>1, SubsetCardinality
  <2>4. UsedSlots(u) \subseteq Slots
    BY <1>1
  <2>5. Cardinality(UsedSlots(u)) \in Nat
    BY <2>4, SlotsFinite
  <2>6. /\ Cardinality(Entries(u)) <= Cardinality(UsedSlots(u))
        /\ Cardinality(Entries(u)) \in Nat
    BY <2>4, EntriesOfSlots DEF Entries
  <2>7. QED
    BY <2>1, <2>2, <2>3, <2>5, <2>6, SizeAssumption
<1>4. ASSUME max_per_address # 0
      PROVE  Cardinality(R!OfHost(Entries(u), a)) < max_per_address
  <2> DEFINE S == SlotsOfHost(u, a)
  <2>1. R!OfHost(Entries(u), a) = {u.servers[i] : i \in S}
    BY DEF R!OfHost, Entries, SlotsOfHost
  <2>2. S \subseteq SlotsOfHost(t, a) /\ SlotsOfHost(t, a) \subseteq Slots
    BY <1>1 DEF SlotsOfHost
  <2> HIDE DEF S
  <2>3. /\ Cardinality(S) <= Cardinality(SlotsOfHost(t, a))
        /\ Cardinality(S) \in Nat /\ Cardinality(SlotsOfHost(t, a)) \in Nat
    BY <2>2, SlotsFinite, SubsetCardinality
  <2>4. S \subseteq Slots
    BY <2>2
  <2>5. /\ Cardinality({u.servers[i] : i \in S}) <= Cardinality(S)
        /\ Cardinality({u.servers[i] : i \in S}) \in Nat
    BY <2>4, EntriesOfSlots
  <2>6. Cardinality(R!OfHost(Entries(u), a)) <= Cardinality(SlotsOfHost(t, a))
    BY <2>1, <2>3, <2>5
  <2>7. QED
    BY <1>4, <2>1, <2>3, <2>5, <2>6, SizeAssumption
<1>5. QED
  BY <1>2, <1>3, <1>4, SameCardinality DEF R!RoomFor

\* What was left of a table that only forgot is left of the one before it.
LEMMA ForgotTwice ==
  ASSUME NEW t, NEW u, OnlyForgot(table, t, crt_time), OnlyForgot(t, u, crt_time)
  PROVE  OnlyForgot(table, u, crt_time)
<1>1. ASSUME NEW i \in UsedSlots(table) \ UsedSlots(u)
      PROVE  Expired(table, i, crt_time)
  <2>1. CASE i \in UsedSlots(t)
    BY <1>1, <2>1 DEF OnlyForgot, Expired
  <2>2. CASE i \notin UsedSlots(t)
    BY <1>1, <2>2 DEF OnlyForgot
  <2>3. QED
    BY <2>1, <2>2
<1>2. QED
  BY <1>1 DEF OnlyForgot

\* A heartbeat of a newcomer forgets, or registers it.
LEMMA HeartbeatNewStep ==
  ASSUME IInv, NEW a \in Addresses, HeartbeatNew(a)
  PROVE  R!Forget \/ R!Register(a)
<1> DEFINE t == MakeRoom(Sv_GetByAddr_Internal(table, a, crt_time), crt_time)
           u == Sv_RemoveAll(t, ScanRemoves(t, crt_time))
<1>1. /\ Matches(table, a, crt_time) = {} /\ ~ OverQuota(a)
      /\ up /\ a \notin Unmapped /\ listed' = {} /\ UNCHANGED <<crt_time, up>>
  BY DEF HeartbeatNew
<1>2. crt_time \in Int
  BY DEF IInv, Clock
<1>3. /\ TableInv(t)
      /\ Kept(table, t, crt_time)
      /\ UsedSlots(t) \subseteq UsedSlots(table)
      /\ \A i \in UsedSlots(t) : t.servers[i] = table.servers[i]
      /\ \A i \in UsedSlots(t) : t.servers[i].address # a
      /\ max_per_address # 0 => Cardinality(SlotsOfHost(t, a)) < max_per_address
  BY <1>1, RoomMade
<1> HIDE DEF t
<1>4. OnlyForgot(table, t, crt_time)
  BY <1>3 DEF Kept, OnlyForgot
<1>5. CASE t.nb_servers = max_nb_servers /\ table' = t
  <2>1. OnlyForgot(table, table', crt_time)
    BY <1>4, <1>5
  <2>2. QED
    BY <1>1, <2>1, ForgetStep
<1>6. CASE t.nb_servers # max_nb_servers /\ table' = Sv_TakeFreeSlot(t, a, crt_time)
  <2>1. /\ OnlyForgot(t, u, crt_time)
        /\ Entries(table') =
             Entries(u) \cup {[state |-> "uninitialized", address |-> a,
                               timeout |-> crt_time + TIMEOUT_HEARTBEAT]}
    BY <1>2, <1>3, <1>6, TakenEntries
  <2> HIDE DEF u
  <2>2. R!RoomFor(Entries(u), a)
    BY <1>3, <1>6, <2>1, RoomForNewcomer
  <2>3. Entries(u) \in R!Left
    BY <1>4, <2>1, ForgotTwice, ForgotIsLeft
  <2>4. Entries(table') = {table.servers[i] : i \in UsedSlots(table)}'
    BY DEF Entries
  <2>5. QED
    BY <1>1, <2>1, <2>2, <2>3, <2>4 DEF R!Register
<1>7. QED
  BY <1>5, <1>6 DEF HeartbeatNew, t

\* An accepted infoResponse validates the live entry of its sender.
LEMMA InfoResponseStep ==
  ASSUME IInv, NEW a \in Addresses, InfoResponseAccepted(a)
  PROVE  \E e \in Entries(table) : R!Validate(e)
<1> DEFINE t == Sv_GetByAddr_Internal(table, a, crt_time)
           f == FoundSlot(table, a, crt_time)
           r == [t EXCEPT !.servers[f] =
                   [@ EXCEPT !.state = "validated",
                             !.timeout = crt_time + TIMEOUT_INFORESPONSE]]
           e == table.servers[f]
           server == [state |-> "validated", address |-> e.address,
                      timeout |-> crt_time + TIMEOUT_INFORESPONSE]
<1>1. /\ up /\ Matches(table, a, crt_time) # {} /\ table' = r
      /\ listed' = {} /\ UNCHANGED <<crt_time, up>>
  BY DEF InfoResponseAccepted
<1>2. crt_time \in Clock /\ crt_time \in Int /\ TableInv(table)
  BY DEF IInv, Clock
<1>3. /\ TableInv(t)
      /\ f \in UsedSlots(t)
      /\ Active(table, f, crt_time)
  BY <1>1, <1>2, LookupInv
<1>4. OnlyForgot(table, t, crt_time)
  BY LookupForgets
<1> HIDE DEF t, f
<1>5. f \in UsedSlots(table) /\ t.servers[f] = e
  BY <1>3, <1>4 DEF OnlyForgot
<1>6. /\ UsedSlots(r) = UsedSlots(t)
      /\ \A j \in UsedSlots(t) \ {f} : r.servers[j] = t.servers[j]
  BY <1>2, <1>3, RefreshInv
<1>7. r.servers[f] = server
  <2>1. /\ t \in Tables /\ f \in Slots /\ t.servers[f] \in Servers
        /\ t.servers[f] # FreeSlot
    BY <1>3 DEF TableInv, Tables, UsedSlots, FreeSlot
  <2>2. e \in [state : {"uninitialized", "validated"}, address : Addresses,
               timeout : Deadlines]
    BY <1>5, <2>1 DEF Servers
  <2>3. r.servers[f] = [t.servers[f] EXCEPT !.state = "validated",
                                            !.timeout = crt_time + TIMEOUT_INFORESPONSE]
    BY <2>1 DEF Tables
  <2> HIDE DEF e, r
  <2>4. QED
    BY <1>5, <2>2, <2>3
<1>8. \A j \in UsedSlots(t) \ {f} : t.servers[j] # e
  BY <1>3, <1>5 DEF TableInv, Unique
<1> HIDE DEF r, server, e
<1>9. Entries(r) = (Entries(t) \ {e}) \cup {server}
  BY <1>3, <1>5, <1>6, <1>7, <1>8 DEF Entries
<1>10. e \in Entries(table) /\ e.timeout >= crt_time
  BY <1>3, <1>5 DEF Entries, Active, e
<1>11. Entries(t) \in R!Left
  BY <1>4, ForgotIsLeft
<1>12. Entries(table') = {table.servers[i] : i \in UsedSlots(table)}'
  BY DEF Entries
<1>13. PICK x \in Entries(table) : x = e
  BY <1>10
<1>14. R!Validate(x)
  BY <1>1, <1>9, <1>10, <1>11, <1>12, <1>13 DEF R!Validate, server
<1>15. QED
  BY <1>14

\* A getservers reply offers live and validated entries.
LEMMA BrowsedIsOffered ==
  ASSUME NEW k
  PROVE  Browsed(table, k, crt_time) \in SUBSET R!Offered
<1>1. ASSUME NEW i \in Visited(table, k, crt_time), Active(table, i, crt_time),
             table.servers[i].state = "validated"
      PROVE  table.servers[i].address \in R!Offered
  <2>1. table.servers[i] \in {x \in Entries(table) :
                                x.state = "validated" /\ x.timeout >= crt_time}
    BY <1>1 DEF Active, Entries
  <2>2. QED
    BY <2>1, MappingIsEntries
<1>2. QED
  BY <1>1 DEF Browsed

----------------------------------------------------------------------------
(* The step simulation and the theorem.                                    *)

\* Every step of the table is a step of Registry, or changes nothing there.
LEMMA StepRefines ==
  ASSUME IInv, [Next]_vars
  PROVE  [R!Next]_R!vars
<1>1. ASSUME NEW a \in Addresses,
             HeartbeatKnown(a) \/ HeartbeatRefused(a) \/ InfoResponseRefused(a)
      PROVE  R!Forget
  <2>1. /\ up /\ listed' = {} /\ UNCHANGED <<crt_time, up>>
        /\ table' = Sv_GetByAddr_Internal(table, a, crt_time)
    BY <1>1 DEF HeartbeatKnown, HeartbeatRefused, InfoResponseRefused
  <2>2. QED
    BY <2>1, LookupForgets, ForgetStep
<1>2. ASSUME NEW k \in Slots, GetServers(k)
      PROVE  R!Forget
  <2> DEFINE S == {i \in Visited(table, k, crt_time) : Expired(table, i, crt_time)}
  <2>1. /\ up /\ listed' = Browsed(table, k, crt_time) /\ UNCHANGED <<crt_time, up>>
        /\ table' = Sv_RemoveAll(table, S)
    BY <1>2 DEF GetServers, Sv_Browse
  <2>2. S \subseteq {i \in UsedSlots(table) : Expired(table, i, crt_time)}
    BY DEF Expired
  <2> HIDE DEF S
  <2>3. QED
    BY <2>1, <2>2, SweepForgets, BrowsedIsOffered, ForgetStep
<1>3. CASE PrintServerList
  <2> DEFINE S == {i \in 0 .. table.last_used_slot : Expired(table, i, crt_time)}
  <2>1. /\ up /\ listed' = {} /\ UNCHANGED <<crt_time, up>>
        /\ table' = Sv_RemoveAll(table, S)
    BY <1>3 DEF PrintServerList, Sv_CheckTimeouts
  <2>2. S \subseteq {i \in UsedSlots(table) : Expired(table, i, crt_time)}
    BY DEF Expired
  <2> HIDE DEF S
  <2>3. R!Forget
    BY <2>1, <2>2, SweepForgets, ForgetStep
  <2>4. QED
    BY <2>3 DEF R!Next
<1>4. CASE GetServersTraps
  BY <1>4 DEF GetServersTraps, R!Stop, R!Next
<1>5. CASE Tick
  BY <1>5 DEF Tick, R!Tick, R!Next
<1>6. CASE Restart
  <2>1. {table.servers[i] : i \in UsedSlots(table)}' = {}
    BY <1>6 DEF Restart, EmptyTable, UsedSlots, FreeSlot
  <2>2. QED
    BY <1>6, <2>1 DEF Restart, R!Start, R!Next
<1>7. CASE UNCHANGED vars
  BY <1>7 DEF vars, R!vars
<1>8. ASSUME NEW a \in Addresses, HeartbeatNew(a)
      PROVE  R!Next
  BY <1>8, HeartbeatNewStep DEF R!Next
<1>9. ASSUME NEW a \in Addresses, InfoResponseAccepted(a)
      PROVE  R!Next
  BY <1>9, InfoResponseStep DEF R!Next, Entries
<1>10. R!Forget => R!Next
  BY DEF R!Next
<1>11. QED
  BY <1>1, <1>2, <1>3, <1>4, <1>5, <1>6, <1>7, <1>8, <1>9, <1>10 DEF Next

\* The array of slots with its cursors, chains, lazy expiry and sweeps is, for
\* whoever only sees the set of entries, the bounded registry of Registry: an
\* entry stays until its deadline, a newcomer gets in only within the limits,
\* and a reply offers live and validated servers only.
THEOREM TableRefinesRegistry ==
  Spec => ImplementsRegistry
<1>1. Init => R!Init
  BY DEF Init, R!Init, EmptyTable, UsedSlots, FreeSlot
<1>2. IInv /\ [Next]_vars => [R!Next]_R!vars
  BY StepRefines
<1>3. QED
  BY <1>1, <1>2, InductiveInvariant, PTL DEF Spec, ImplementsRegistry, R!Spec

----------------------------------------------------------------------------
(* The loops of servers.c, turn by turn.  Each is compared with a closed    *)
(* form of its state after n turns, which gives the table as the removal    *)
(* of the expired entries the loop has passed.                              *)

\* What holds at the start and carries over from one turn to the next holds
\* after every turn.
LEMMA EveryTurn ==
  ASSUME NEW n \in Nat, NEW holds, 0 \in holds,
         \A i \in 1 .. n : i - 1 \in holds => i \in holds
  PROVE  0 .. n \subseteq holds
<1> SUFFICES ASSUME ~ (0 .. n \subseteq holds) PROVE FALSE
  OBVIOUS
<1> DEFINE fails == {i \in 0 .. n : i \notin holds}
<1>1. fails \subseteq Nat /\ fails # {}
  OBVIOUS
<1>2. PICK i \in fails : \A j \in fails : i <= j
  <2> HIDE DEF fails
  <2> QED
    BY <1>1, MinOfNaturals
<1>3. i \in 1 .. n /\ i - 1 \in 0 .. n /\ i - 1 \notin fails
  BY <1>2
<1> QED
  BY <1>2, <1>3

\* The largest element is the one above the others.
LEMMA MaxIs ==
  ASSUME NEW S, S \subseteq Int, NEW m \in S, \A x \in S : x <= m
  PROVE  Max(S) = m
<1>1. Max(S) \in S /\ Max(S) >= m
  BY MaxOfBounded
<1>2. Max(S) \in Int /\ m \in Int /\ Max(S) <= m
  BY <1>1
<1> QED
  BY <1>1, <1>2

\* The least element is the one below the others.
LEMMA MinIs ==
  ASSUME NEW S, S \subseteq Nat, NEW m \in S, \A x \in S : m <= x
  PROVE  Min(S) = m
<1>1. Min(S) \in S /\ Min(S) <= m
  BY MinOfNaturals
<1>2. Min(S) \in Nat /\ m \in Nat /\ m <= Min(S)
  BY <1>1
<1> QED
  BY <1>1, <1>2

\* The used slots below a slot, and -1.
Below(S, i) == {-1} \cup {j \in S : j < i}

\* They are bounded integers.
LEMMA BelowBounded ==
  ASSUME NEW S, S \subseteq Nat, NEW i \in Int, i >= 0
  PROVE  /\ Below(S, i) \subseteq Int
         /\ -1 \in Below(S, i)
         /\ \A x \in Below(S, i) : x <= i /\ x < i /\ -1 <= x /\ x \in S \cup {-1}
         /\ \A x \in S : x < i => x \in Below(S, i)
<1>1. \A x \in Below(S, i) : x \in Int
  BY DEF Below
<1>2. Below(S, i) \subseteq Int
  BY <1>1
<1>3. -1 \in Below(S, i)
  BY DEF Below
<1>4. \A x \in Below(S, i) : x <= i /\ x < i /\ -1 <= x
  BY DEF Below
<1>5. \A x \in Below(S, i) : x \in S \cup {-1}
  BY DEF Below
<1>6. \A x \in S : x < i => x \in Below(S, i)
  BY DEF Below
<1> QED
  BY <1>2, <1>3, <1>4, <1>5, <1>6

\* They have a largest one, which is -1 or one of them.
LEMMA LargestBelow ==
  ASSUME NEW S, S \subseteq Slots, NEW i \in Int, i >= 0
  PROVE  LET m == Max(Below(S, i))
         IN  /\ m \in Below(S, i)
             /\ m \in S \cup {-1}
             /\ m \in Int /\ -1 <= m /\ m < i
             /\ \A j \in S : j < i => j <= m
<1> DEFINE B == Below(S, i)
<1>1. S \subseteq Nat
  BY SlotsFinite
<1> HIDE DEF B
<1>2. /\ B \subseteq Int
      /\ -1 \in B
      /\ \A x \in B : x <= i /\ x < i /\ -1 <= x /\ x \in S \cup {-1}
      /\ \A x \in S : x < i => x \in B
  BY <1>1, BelowBounded DEF B
<1>3. Max(B) \in B /\ \A y \in B : Max(B) >= y
  BY <1>2, MaxOfBounded
<1>4. Max(B) \in Int
  BY <1>2, <1>3
<1>5. \A j \in S : j < i => j <= Max(B)
  BY <1>1, <1>2, <1>3, <1>4
<1> QED
  BY <1>2, <1>3, <1>4, <1>5 DEF B

\* The equation of the do-while of Sv_Remove.
ComesBefore(f, t) ==
  f = [i \in -1 .. max_nb_servers - 1 |->
         IF i >= 0 /\ t.servers[i].state = "unused" THEN f[i - 1] ELSE i]

\* The do-while of Sv_Remove stops at the used slot closest below.
LEMMA PreviousUsedIs ==
  ASSUME NEW t, NEW i \in Slots
  PROVE  PreviousUsed(t, i - 1) = Max(Below(UsedSlots(t), i))
<1> DEFINE U == UsedSlots(t)
           e == [j \in -1 .. max_nb_servers - 1 |-> Max(Below(U, j + 1))]
           f == CHOOSE f : ComesBefore(f, t)
<1>1. max_nb_servers \in Nat /\ Slots \subseteq Nat /\ U \subseteq Slots
  BY SizeAssumption, SlotsFinite DEF UsedSlots
<1>2. Slots = 0 .. max_nb_servers - 1
  BY DEF Slots
<1>15. U \subseteq Nat
  BY <1>1
<1>3. e[-1] = -1
  <2>1. Below(U, 0) \subseteq Int /\ -1 \in Below(U, 0) /\ \A x \in Below(U, 0) : x < 0
    <3> HIDE DEF U
    <3>1. 0 \in Int /\ 0 >= 0
      OBVIOUS
    <3> QED
      BY <1>15, <3>1, BelowBounded
  <2>2. \A x \in Below(U, 0) : x <= -1
    BY <2>1
  <2>3. Max(Below(U, 0)) = -1
    BY <2>1, <2>2, MaxIs
  <2> QED
    BY <1>1, <2>3
<1>4. ASSUME NEW j \in Slots, j \in U
      PROVE  e[j] = j
  <2>1. j + 1 \in Int /\ j + 1 >= 0 /\ j < j + 1
    BY <1>1
  <2>2. Below(U, j + 1) \subseteq Int /\ j \in Below(U, j + 1) /\ \A x \in Below(U, j + 1) : x < j + 1
    <3> HIDE DEF U
    <3> QED
      BY <1>4, <1>15, <2>1, BelowBounded
  <2>3. \A x \in Below(U, j + 1) : x <= j
    BY <1>1, <2>2
  <2>4. Max(Below(U, j + 1)) = j
    BY <2>2, <2>3, MaxIs
  <2> QED
    BY <1>1, <1>2, <2>4
<1>5. ASSUME NEW j \in Slots, j \notin U
      PROVE  e[j] = e[j - 1]
  <2>1. Below(U, j + 1) = Below(U, j)
    <3> HIDE DEF U
    <3>1. \A x \in U : x < j + 1 <=> x < j
      BY <1>1, <1>5
    <3> QED
      BY <3>1 DEF Below
  <2>2. j - 1 + 1 = j /\ j - 1 \in -1 .. max_nb_servers - 1 /\ j \in -1 .. max_nb_servers - 1
    BY <1>1, <1>2
  <2> QED
    BY <2>1, <2>2
<1>6. \A j \in Slots : t.servers[j].state = "unused" <=> j \notin U
  BY DEF UsedSlots
<1> HIDE DEF U
<1>7. ComesBefore(e, t)
  <2>1. ASSUME NEW j \in -1 .. max_nb_servers - 1
        PROVE  e[j] = IF j >= 0 /\ t.servers[j].state = "unused" THEN e[j - 1] ELSE j
    <3> HIDE DEF e
    <3>1. CASE j = -1
      BY <1>3, <3>1
    <3>2. CASE j \in Slots
      BY <1>1, <1>4, <1>5, <1>6, <3>2
    <3> QED
      BY <1>1, <1>2, <3>1, <3>2
  <2> QED
    BY <2>1 DEF ComesBefore
<1>8. ComesBefore(f, t)
  BY <1>7
<1> HIDE DEF e
<1>9. PreviousUsed(t, i - 1) = f[i - 1]
  BY DEF PreviousUsed, ComesBefore
<1> HIDE DEF f
<1>10. f[-1] = -1 /\ \A j \in Slots : f[j] = IF j \in U THEN j ELSE f[j - 1]
  BY <1>1, <1>2, <1>6, <1>8 DEF ComesBefore
<1> DEFINE holds == {n \in 0 .. max_nb_servers : f[n - 1] = e[n - 1]}
<1>11. 0 \in holds
  BY <1>1, <1>3, <1>10
<1>12. ASSUME NEW n \in 1 .. max_nb_servers, n - 1 \in holds
       PROVE  n \in holds
  <2>1. n - 1 \in Slots /\ f[n - 1 - 1] = e[n - 1 - 1]
    BY <1>1, <1>2, <1>12
  <2> QED
    BY <1>4, <1>5, <1>10, <2>1
<1>13. i \in holds
  <2> HIDE DEF holds
  <2>1. i \in 0 .. max_nb_servers
    BY <1>1, <1>2
  <2> QED
    BY <1>1, <1>11, <1>12, <2>1, EveryTurn
<1>14. e[i - 1] = Max(Below(U, i))
  BY <1>1, <1>2 DEF e
<1> QED
  BY <1>9, <1>13, <1>14 DEF U

\* The cursors are slots, or -1; with the slots themselves, they are integers.
LEMMA CursorTypes ==
  ASSUME NEW t \in Tables
  PROVE  /\ t.last_used_slot \in Slots \cup {-1} /\ t.last_used_slot \in Int
         /\ t.first_free_slot \in Slots \cup {-1} /\ t.first_free_slot \in Int
         /\ t.nb_servers \in Int
         /\ UsedSlots(t) \subseteq Slots
         /\ Slots \subseteq Nat
<1>1. Slots \subseteq Nat
  BY SlotsFinite
<1>2. t.last_used_slot \in Slots \cup {-1} /\ t.first_free_slot \in Slots \cup {-1}
  BY DEF Tables
<1>3. \A i \in Slots \cup {-1} : i \in Int
  BY <1>1
<1>4. t.nb_servers \in Int
  BY DEF Tables
<1>5. UsedSlots(t) \subseteq Slots
  BY DEF UsedSlots
<1> QED
  BY <1>1, <1>2, <1>3, <1>4, <1>5

\* What the removal of used slots leaves is a table, whatever its counters.
LEMMA RemoveAllTable ==
  ASSUME NEW t \in Tables, NEW S, S \subseteq UsedSlots(t)
  PROVE  LET r == Sv_RemoveAll(t, S)
         IN  /\ r \in Tables
             /\ UsedSlots(r) = UsedSlots(t) \ S
             /\ \A i \in Slots \ S : r.servers[i] = t.servers[i]
             /\ \A i \in S : r.servers[i] = FreeSlot
             /\ r.last_used_slot = IF t.last_used_slot \in S
                                     THEN Max(Below(UsedSlots(t) \ S, t.last_used_slot))
                                     ELSE t.last_used_slot
             /\ r.last_used_slot <= t.last_used_slot
<1> DEFINE r == Sv_RemoveAll(t, S)
           U == UsedSlots(t) \ S
           F == S \cup ({t.first_free_slot} \ {-1})
<1>1. S \subseteq Slots /\ UsedSlots(t) \subseteq Slots /\ Slots \subseteq Nat
  BY SlotsFinite DEF UsedSlots
<1>2. r.servers = [i \in Slots |-> IF i \in S THEN FreeSlot ELSE t.servers[i]]
  BY DEF Sv_RemoveAll
<1>3. FreeSlot.state = "unused" /\ FreeSlot \in Servers
  BY DEF FreeSlot, Servers
<1>4. r.servers \in [Slots -> Servers]
  BY <1>2, <1>3 DEF Tables
<1>5. UsedSlots(r) = U
  BY <1>2, <1>3 DEF UsedSlots
<1>6. /\ r.last_used_slot = IF t.last_used_slot \in S
                              THEN Max(Below(U, t.last_used_slot))
                              ELSE t.last_used_slot
      /\ r.nb_servers = t.nb_servers - Cardinality(S)
      /\ r.first_free_slot = IF S = {} THEN t.first_free_slot ELSE Min(F)
      /\ r.chain = [b \in Buckets |-> t.chain[b] \ S]
      /\ r.ahead = t.ahead \cap ((Slots \ S) \X (Slots \ S))
  BY DEF Sv_RemoveAll, Below
<1>7. t.last_used_slot \in Slots \cup {-1} /\ t.last_used_slot \in Int
  BY CursorTypes
<1>8. r.last_used_slot \in Slots \cup {-1} /\ r.last_used_slot <= t.last_used_slot
  <2> HIDE DEF r
  <2>1. CASE t.last_used_slot \in S
    <3>0. U \subseteq Slots
      BY <1>1
    <3> HIDE DEF U
    <3>3. t.last_used_slot \in Nat
      BY <1>1, <2>1
    <3>1. U \subseteq Slots /\ t.last_used_slot >= 0
      BY <3>0, <3>3
    <3>2. LET m == Max(Below(U, t.last_used_slot))
          IN  m \in U \cup {-1} /\ m \in Int /\ m < t.last_used_slot
      BY <1>7, <3>1, LargestBelow
    <3> QED
      BY <1>6, <1>7, <2>1, <3>1, <3>2
  <2>2. CASE t.last_used_slot \notin S
    BY <1>6, <1>7, <2>2
  <2> QED
    BY <2>1, <2>2
<1>9. r.first_free_slot \in Slots \cup {-1}
  <2> HIDE DEF r
  <2>1. CASE S = {}
    BY <1>6, <2>1 DEF Tables
  <2>2. CASE S # {}
    <3>1. F \subseteq Slots /\ F # {}
      BY <1>1, <2>2 DEF Tables
    <3> HIDE DEF F
    <3>2. Min(F) \in F
      BY <1>1, <3>1, MinOfNaturals
    <3> QED
      BY <1>6, <2>2, <3>1, <3>2
  <2> QED
    BY <2>1, <2>2
<1>10. r.nb_servers \in Int
  <2>1. t.nb_servers \in Int /\ Cardinality(S) \in Nat
    BY <1>1, SlotsFinite, CursorTypes
  <2> QED
    BY <1>6, <2>1
<1>11. r.chain \in [Buckets -> SUBSET Slots] /\ r.ahead \in SUBSET (Slots \X Slots)
  BY <1>6 DEF Tables
<1>12. r \in Tables
  <2>1. r = [servers |-> r.servers, nb_servers |-> r.nb_servers,
             last_used_slot |-> r.last_used_slot, first_free_slot |-> r.first_free_slot,
             chain |-> r.chain, ahead |-> r.ahead]
    BY DEF Sv_RemoveAll
  <2> HIDE DEF r
  <2> QED
    BY <1>4, <1>8, <1>9, <1>10, <1>11, <2>1 DEF Tables
<1>13. (\A i \in Slots \ S : r.servers[i] = t.servers[i]) /\ (\A i \in S : r.servers[i] = FreeSlot)
  BY <1>1, <1>2
<1> QED
  BY <1>5, <1>6, <1>8, <1>12, <1>13

\* Removing nothing changes nothing.
LEMMA RemoveNone ==
  ASSUME NEW t \in Tables
  PROVE  Sv_RemoveAll(t, {}) = t
<1> DEFINE r == Sv_RemoveAll(t, {})
<1>1. r.servers = t.servers
  BY DEF Sv_RemoveAll, Tables
<1>2. r.nb_servers = t.nb_servers
  BY FS_EmptySet DEF Sv_RemoveAll, Tables
<1>3. r.chain = t.chain
  BY DEF Sv_RemoveAll, Tables
<1>4. r.ahead = t.ahead
  BY DEF Sv_RemoveAll, Tables
<1>5. r.last_used_slot = t.last_used_slot /\ r.first_free_slot = t.first_free_slot
  BY DEF Sv_RemoveAll
<1>6. r = [servers |-> r.servers, nb_servers |-> r.nb_servers,
           last_used_slot |-> r.last_used_slot, first_free_slot |-> r.first_free_slot,
           chain |-> r.chain, ahead |-> r.ahead]
  BY DEF Sv_RemoveAll
<1>7. t = [servers |-> t.servers, nb_servers |-> t.nb_servers,
           last_used_slot |-> t.last_used_slot, first_free_slot |-> t.first_free_slot,
           chain |-> t.chain, ahead |-> t.ahead]
  BY TableFields
<1> HIDE DEF r
<1>8. r = t
  BY <1>1, <1>2, <1>3, <1>4, <1>5, <1>6, <1>7
<1> QED
  BY <1>8 DEF r

\* Removing one more slot is removing it with the others.
LEMMA RemoveMore ==
  ASSUME NEW t \in Tables, NEW S, S \subseteq UsedSlots(t), NEW i \in UsedSlots(t) \ S
  PROVE  Sv_RemoveAll(Sv_RemoveAll(t, S), {i}) = Sv_RemoveAll(t, S \cup {i})
<1> DEFINE r == Sv_RemoveAll(t, S)
           q == Sv_RemoveAll(r, {i})
           p == Sv_RemoveAll(t, S \cup {i})
           U == UsedSlots(t)
           L == t.last_used_slot
           F == {t.first_free_slot} \ {-1}
<1>1. S \subseteq Slots /\ U \subseteq Slots /\ Slots \subseteq Nat /\ i \in Slots
  BY SlotsFinite DEF UsedSlots
<1>2. /\ r \in Tables
      /\ UsedSlots(r) = U \ S
      /\ r.last_used_slot = IF L \in S THEN Max(Below(U \ S, L)) ELSE L
  BY RemoveAllTable
<1>3. L \in Slots \cup {-1} /\ L \in Int
  BY CursorTypes
<1>4. q.servers = p.servers
  BY DEF Sv_RemoveAll
<1>5. q.nb_servers = p.nb_servers
  <2>1. Cardinality(S \cup {i}) = Cardinality(S) + 1
    <3>1. IsFiniteSet(S)
      BY <1>1, SlotsFinite
    <3> QED
      BY <3>1, FS_AddElement
  <2>2. Cardinality({i}) = 1
    BY FS_Singleton
  <2>3. q.nb_servers = t.nb_servers - Cardinality(S) - 1
    BY <2>2 DEF Sv_RemoveAll
  <2>4. p.nb_servers = t.nb_servers - (Cardinality(S) + 1)
    BY <2>1 DEF Sv_RemoveAll
  <2>5. t.nb_servers \in Int /\ Cardinality(S) \in Nat
    BY <1>1, SlotsFinite DEF Tables
  <2> HIDE DEF q, p
  <2> QED
    BY <2>3, <2>4, <2>5
<1>6. q.chain = p.chain
  BY DEF Sv_RemoveAll
<1>7. q.ahead = p.ahead
  BY DEF Sv_RemoveAll
<1>8. q.last_used_slot = p.last_used_slot
  <2>1. q.last_used_slot = IF r.last_used_slot = i
                             THEN Max(Below((U \ S) \ {i}, i))
                             ELSE r.last_used_slot
    <3>1. {i} \subseteq UsedSlots(r)
      BY <1>2
    <3>2. q.last_used_slot = IF r.last_used_slot \in {i}
                               THEN Max(Below(UsedSlots(r) \ {i}, r.last_used_slot))
                               ELSE r.last_used_slot
      BY <1>2, <3>1, RemoveAllTable
    <3> HIDE DEF q, r
    <3> QED
      BY <1>2, <3>2
  <2>2. p.last_used_slot = IF L \in S \cup {i} THEN Max(Below(U \ (S \cup {i}), L)) ELSE L
    <3>1. S \cup {i} \subseteq UsedSlots(t)
      OBVIOUS
    <3> QED
      BY <3>1, RemoveAllTable
  <2>3. (U \ S) \ {i} = U \ (S \cup {i})
    OBVIOUS
  <2> HIDE DEF q, r, p
  <2>4. CASE L \notin S
    BY <1>2, <2>1, <2>2, <2>3, <2>4
  <2>5. CASE L \in S
    <3> DEFINE m == Max(Below(U \ S, L))
               V == U \ (S \cup {i})
    <3>0. L \in Nat /\ i \in Nat
      BY <1>1, <2>5
    <3>1. L >= 0 /\ U \ S \subseteq Slots /\ V \subseteq Slots /\ i \in Int /\ i >= 0
      BY <1>1, <3>0
    <3>2. m \in (U \ S) \cup {-1} /\ m \in Int /\ -1 <= m /\ m < L /\ \A j \in U \ S : j < L => j <= m
      BY <1>3, <3>1, LargestBelow
    <3> HIDE DEF m
    <3>3. CASE m = i
      <4>1. \A j \in V : j < L <=> j < i
        <5> TAKE j \in V
        <5>1. j \in Nat /\ j \in U \ S /\ j # i
          BY <1>1
        <5> QED
          BY <1>3, <3>1, <3>2, <3>3, <5>1
      <4>2. Below(V, L) = Below(V, i)
        BY <4>1 DEF Below
      <4> QED
        BY <1>2, <2>1, <2>2, <2>3, <2>5, <3>3, <4>2 DEF m
    <3>4. CASE m # i
      <4>1. /\ Below(V, L) \subseteq Int
            /\ -1 \in Below(V, L)
            /\ \A x \in Below(V, L) : x < L /\ -1 <= x /\ x \in V \cup {-1}
            /\ \A x \in V : x < L => x \in Below(V, L)
        <5>1. V \subseteq Nat
          BY <1>1, <3>1
        <5> HIDE DEF V
        <5> QED
          BY <1>3, <3>1, <5>1, BelowBounded
      <4>2. m \in Below(V, L)
        BY <3>2, <3>4, <4>1
      <4>3. \A x \in Below(V, L) : x <= m
        <5> TAKE x \in Below(V, L)
        <5>1. x \in Int /\ x < L /\ x \in V \cup {-1}
          BY <4>1
        <5> QED
          BY <3>2, <5>1
      <4>4. Max(Below(V, L)) = m
        BY <4>1, <4>2, <4>3, MaxIs
      <4> QED
        BY <1>2, <2>1, <2>2, <2>3, <2>5, <3>4, <4>4 DEF m
    <3> QED
      BY <3>3, <3>4
  <2> QED
    BY <2>4, <2>5
<1>9. q.first_free_slot = p.first_free_slot
  <2>1. q.first_free_slot = Min({i} \cup ({r.first_free_slot} \ {-1}))
    BY DEF Sv_RemoveAll
  <2>2. p.first_free_slot = Min(S \cup {i} \cup F)
    BY DEF Sv_RemoveAll
  <2>3. r.first_free_slot = IF S = {} THEN t.first_free_slot ELSE Min(S \cup F)
    BY DEF Sv_RemoveAll
  <2>4. F \subseteq Nat
    BY <1>1 DEF Tables
  <2> HIDE DEF q, p, r
  <2>5. CASE S = {}
    BY <2>1, <2>2, <2>3, <2>5
  <2>6. CASE S # {}
    <3> DEFINE m == Min(S \cup F)
               n == Min({i, m})
    <3> HIDE DEF F
    <3>1. m \in S \cup F /\ \A y \in S \cup F : m <= y
      BY <1>1, <2>4, <2>6, MinOfNaturals
    <3>2. m \in Nat /\ i \in Nat /\ {i, m} \subseteq Nat
      BY <1>1, <2>4, <3>1
    <3> HIDE DEF m
    <3>3. n \in {i, m} /\ n <= i /\ n <= m
      BY <3>2, MinOfNaturals
    <3> HIDE DEF n
    <3>4. S \cup {i} \cup F \subseteq Nat /\ n \in S \cup {i} \cup F
      BY <1>1, <2>4, <3>1, <3>3
    <3>5. \A y \in S \cup {i} \cup F : n <= y
      <4> TAKE y \in S \cup {i} \cup F
      <4>1. y \in Nat /\ n \in Nat
        BY <3>4
      <4>2. CASE y = i
        BY <3>3, <4>2
      <4>3. CASE y \in S \cup F
        BY <3>1, <3>2, <3>3, <4>1, <4>3
      <4> QED
        BY <4>2, <4>3
    <3>6. Min(S \cup {i} \cup F) = n
      BY <3>4, <3>5, MinIs
    <3>7. {i} \cup ({m} \ {-1}) = {i, m}
      BY <3>2
    <3> QED
      BY <2>1, <2>2, <2>3, <2>6, <3>6, <3>7 DEF m, n
  <2> QED
    BY <2>5, <2>6
<1>10. /\ q = [servers |-> q.servers, nb_servers |-> q.nb_servers,
               last_used_slot |-> q.last_used_slot, first_free_slot |-> q.first_free_slot,
               chain |-> q.chain, ahead |-> q.ahead]
       /\ p = [servers |-> p.servers, nb_servers |-> p.nb_servers,
               last_used_slot |-> p.last_used_slot, first_free_slot |-> p.first_free_slot,
               chain |-> p.chain, ahead |-> p.ahead]
  BY DEF Sv_RemoveAll
<1> HIDE DEF q, p
<1>11. q = p
  BY <1>4, <1>5, <1>6, <1>7, <1>8, <1>9, <1>10
<1> QED
  BY <1>11 DEF q, r, p

\* A cursor that does not point past the last used slot.
Within(ind, t) == IF ind > t.last_used_slot THEN t.last_used_slot ELSE ind

\* Sv_Remove takes its entry out and keeps both iteration cursors within the
\* list.
LEMMA RemoveOne ==
  ASSUME NEW t \in Tables, NEW i \in UsedSlots(t), NEW crt, NEW last
  PROVE  LET r == Sv_RemoveAll(t, {i})
         IN  Sv_Remove(Cursors(t, crt, last), i) = Cursors(r, Within(crt, r), Within(last, r))
<1> DEFINE r == Sv_RemoveAll(t, {i})
           c == Cursors(t, crt, last)
           first == IF t.first_free_slot = -1 \/ i < t.first_free_slot THEN i ELSE t.first_free_slot
           freed == [t EXCEPT
                       !.servers[i] = FreeSlot,
                       !.chain = [b \in Buckets |-> @[b] \ {i}],
                       !.ahead = {p \in @ : p[1] # i /\ p[2] # i},
                       !.nb_servers = @ - 1,
                       !.first_free_slot = IF @ = -1 \/ i < @ THEN i ELSE @]
           end == IF t.last_used_slot = i THEN PreviousUsed(freed, i - 1) ELSE t.last_used_slot
           q == [freed EXCEPT !.last_used_slot = end]
<1>1. i \in Slots /\ Slots \subseteq Nat /\ UsedSlots(t) \subseteq Slots
  BY CursorTypes
<1>2. /\ r \in Tables
      /\ UsedSlots(r) = UsedSlots(t) \ {i}
      /\ r.last_used_slot = IF t.last_used_slot \in {i}
                              THEN Max(Below(UsedSlots(t) \ {i}, t.last_used_slot))
                              ELSE t.last_used_slot
  BY RemoveAllTable
<1>3. t.servers \in [Slots -> Servers] /\ t.chain \in [Buckets -> SUBSET Slots]
      /\ t.ahead \subseteq Slots \X Slots
  BY DEF Tables
<1>4. freed = [servers |-> [t.servers EXCEPT ![i] = FreeSlot],
               nb_servers |-> t.nb_servers - 1,
               last_used_slot |-> t.last_used_slot,
               first_free_slot |-> first,
               chain |-> [b \in Buckets |-> t.chain[b] \ {i}],
               ahead |-> {p \in t.ahead : p[1] # i /\ p[2] # i}]
  <2>1. /\ freed.servers = [t.servers EXCEPT ![i] = FreeSlot]
        /\ freed.nb_servers = t.nb_servers - 1
        /\ freed.last_used_slot = t.last_used_slot
        /\ freed.first_free_slot = first
        /\ freed.chain = [b \in Buckets |-> t.chain[b] \ {i}]
        /\ freed.ahead = {p \in t.ahead : p[1] # i /\ p[2] # i}
    BY DEF Tables
  <2>2. freed \in Tables
    <3>1. FreeSlot \in Servers
      BY DEF Servers
    <3>2. /\ [t.servers EXCEPT ![i] = FreeSlot] \in [Slots -> Servers]
          /\ t.nb_servers - 1 \in Int
          /\ first \in Slots \cup {-1}
          /\ [b \in Buckets |-> t.chain[b] \ {i}] \in [Buckets -> SUBSET Slots]
          /\ {p \in t.ahead : p[1] # i /\ p[2] # i} \in SUBSET (Slots \X Slots)
      BY <1>1, <1>3, <3>1, CursorTypes
    <3> QED
      BY <3>2 DEF Tables
  <2> HIDE DEF freed
  <2>3. freed = [servers |-> freed.servers, nb_servers |-> freed.nb_servers,
                 last_used_slot |-> freed.last_used_slot, first_free_slot |-> freed.first_free_slot,
                 chain |-> freed.chain, ahead |-> freed.ahead]
    BY <2>2, TableFields
  <2> QED
    BY <2>1, <2>3
<1>5. UsedSlots(freed) = UsedSlots(t) \ {i}
  <2>1. freed.servers = [t.servers EXCEPT ![i] = FreeSlot]
    BY <1>4
  <2> HIDE DEF freed
  <2> QED
    BY <1>1, <1>3, <2>1 DEF UsedSlots, FreeSlot
<1> HIDE DEF freed
<1>6. end = r.last_used_slot
  BY <1>1, <1>2, <1>5, PreviousUsedIs
<1>7. q = [servers |-> [t.servers EXCEPT ![i] = FreeSlot],
           nb_servers |-> t.nb_servers - 1,
           last_used_slot |-> end,
           first_free_slot |-> first,
           chain |-> [b \in Buckets |-> t.chain[b] \ {i}],
           ahead |-> {p \in t.ahead : p[1] # i /\ p[2] # i}]
  <2> DEFINE servers == [t.servers EXCEPT ![i] = FreeSlot]
             chain == [b \in Buckets |-> t.chain[b] \ {i}]
             ahead == {p \in t.ahead : p[1] # i /\ p[2] # i}
  <2>1. freed = [servers |-> servers, nb_servers |-> t.nb_servers - 1,
                 last_used_slot |-> t.last_used_slot, first_free_slot |-> first,
                 chain |-> chain, ahead |-> ahead]
    BY <1>4
  <2> HIDE DEF servers, chain, ahead, end, first
  <2>2. q = [servers |-> servers, nb_servers |-> t.nb_servers - 1,
             last_used_slot |-> end, first_free_slot |-> first,
             chain |-> chain, ahead |-> ahead]
    BY <2>1
  <2> QED
    BY <2>2 DEF servers, chain, ahead
<1>8. Sv_Remove(c, i) = LET Clamp(ind) == IF ind > end THEN end ELSE ind
                        IN  Cursors(q, Clamp(crt), Clamp(last))
  BY <1>4 DEF Sv_Remove, Cursors, freed
<1>9. r = [servers |-> r.servers, nb_servers |-> r.nb_servers,
           last_used_slot |-> r.last_used_slot, first_free_slot |-> r.first_free_slot,
           chain |-> r.chain, ahead |-> r.ahead]
  BY DEF Sv_RemoveAll
<1>10. r.servers = [t.servers EXCEPT ![i] = FreeSlot]
  BY <1>3 DEF Sv_RemoveAll
<1>11. r.nb_servers = t.nb_servers - 1
  BY FS_Singleton DEF Sv_RemoveAll
<1>12. r.chain = [b \in Buckets |-> t.chain[b] \ {i}]
  BY DEF Sv_RemoveAll
<1>13. r.ahead = {p \in t.ahead : p[1] # i /\ p[2] # i}
  BY <1>3 DEF Sv_RemoveAll
<1>14. r.first_free_slot = first
  <2>1. r.first_free_slot = Min({i} \cup ({t.first_free_slot} \ {-1}))
    BY DEF Sv_RemoveAll
  <2>2. t.first_free_slot \in Int /\ (t.first_free_slot = -1 \/ t.first_free_slot \in Nat)
    BY <1>1, CursorTypes
  <2> HIDE DEF r
  <2>3. CASE t.first_free_slot = -1
    <3>1. {i} \cup ({t.first_free_slot} \ {-1}) = {i}
      BY <2>3
    <3>2. Min({i}) = i
      BY <1>1, MinIs
    <3> QED
      BY <2>1, <2>3, <3>1, <3>2
  <2>4. CASE t.first_free_slot \in Nat
    <3>1. {i} \cup ({t.first_free_slot} \ {-1}) = {i, t.first_free_slot}
      BY <2>4
    <3>2. {i, t.first_free_slot} \subseteq Nat /\ first \in {i, t.first_free_slot}
      BY <1>1, <2>4
    <3>3. \A x \in {i, t.first_free_slot} : first <= x
      BY <1>1, <2>4
    <3>4. Min({i, t.first_free_slot}) = first
      <4> HIDE DEF first
      <4> QED
        BY <3>2, <3>3, MinIs
    <3> QED
      BY <2>1, <3>1, <3>4
  <2> QED
    BY <2>2, <2>3, <2>4
<1> HIDE DEF r, q, end, first
<1>15. q = r
  BY <1>6, <1>7, <1>9, <1>10, <1>11, <1>12, <1>13, <1>14
<1>16. Sv_Remove(c, i) = Cursors(r, Within(crt, r), Within(last, r))
  BY <1>6, <1>8, <1>15 DEF Within
<1> QED
  BY <1>16 DEF r

\* One look at a slot, in a table some used slots S were removed from.
LEMMA LookAt ==
  ASSUME NEW t \in Tables, NEW S, S \subseteq UsedSlots(t), NEW i \in Slots \ S,
         NEW now \in Int, NEW crt, NEW last
  PROVE  LET r == Sv_RemoveAll(t, S \cup {i})
             c == Sv_IsActive(Cursors(Sv_RemoveAll(t, S), crt, last), i, now)
         IN  /\ c = IF Expired(t, i, now)
                      THEN Cursors(r, Within(crt, r), Within(last, r))
                      ELSE Cursors(Sv_RemoveAll(t, S), crt, last)
             /\ Active(c.t, i, now) <=> Active(t, i, now)
<1> DEFINE s == Sv_RemoveAll(t, S)
           r == Sv_RemoveAll(t, S \cup {i})
           c == Sv_IsActive(Cursors(s, crt, last), i, now)
<1>1. /\ s \in Tables
      /\ UsedSlots(s) = UsedSlots(t) \ S
      /\ \A j \in Slots \ S : s.servers[j] = t.servers[j]
  BY RemoveAllTable
<1> HIDE DEF s
<1>2. Expired(s, i, now) <=> Expired(t, i, now)
  BY <1>1 DEF Expired
<1>3. Active(s, i, now) <=> Active(t, i, now)
  BY <1>1 DEF Active
<1>4. CASE Expired(t, i, now)
  <2>1. i \in UsedSlots(t) \ S
    BY <1>4 DEF Expired
  <2>2. Sv_RemoveAll(s, {i}) = r
    BY <2>1, RemoveMore DEF s
  <2>3. i \in UsedSlots(s)
    BY <1>1, <2>1
  <2> HIDE DEF r
  <2>4. Sv_Remove(Cursors(s, crt, last), i) = Cursors(r, Within(crt, r), Within(last, r))
    BY <1>1, <2>2, <2>3, RemoveOne
  <2>5. c = Cursors(r, Within(crt, r), Within(last, r))
    BY <1>2, <1>4, <2>4 DEF Sv_IsActive, Cursors
  <2>6. UsedSlots(r) = UsedSlots(t) \ (S \cup {i})
    <3>1. S \cup {i} \subseteq UsedSlots(t)
      BY <2>1
    <3> QED
      BY <3>1, RemoveAllTable DEF r
  <2>7. c.t = r
    BY <2>5 DEF Cursors
  <2> HIDE DEF c
  <2>8. ~ Active(c.t, i, now)
    BY <2>6, <2>7 DEF Active
  <2>9. t.servers[i].timeout \in Int
    BY <2>1, TimeAssumption DEF Tables, UsedSlots, Servers, FreeSlot, Deadlines
  <2>10. ~ Active(t, i, now)
    BY <1>4, <2>9 DEF Expired, Active
  <2> QED
    BY <1>4, <2>5, <2>8, <2>10 DEF c, s, r
<1>5. CASE ~ Expired(t, i, now)
  <2>1. c = Cursors(s, crt, last) /\ c.t = s
    BY <1>2, <1>5 DEF Sv_IsActive, Cursors
  <2> QED
    BY <1>3, <1>5, <2>1 DEF s
<1> QED
  BY <1>4, <1>5

\* Removals leave cursors of -1 where they are.
LEMMA StaysAlone ==
  ASSUME NEW t \in Tables
  PROVE  /\ Within(-1, t) = -1
         /\ Cursors(t, Within(-1, t), Within(-1, t)) = Alone(t)
<1>1. t.last_used_slot \in Int /\ ~ (-1 > t.last_used_slot)
  <2>1. t.last_used_slot \in Slots \cup {-1} /\ Slots \subseteq Nat /\ t.last_used_slot \in Int
    BY CursorTypes
  <2> QED
    BY <2>1
<1> QED
  BY <1>1 DEF Within, Alone

\* A look at a slot outside an iteration.
LEMMA LookAlone ==
  ASSUME NEW t \in Tables, NEW S, S \subseteq UsedSlots(t), NEW i \in Slots \ S,
         NEW now \in Int
  PROVE  LET r == Sv_RemoveAll(t, S \cup {i})
             c == Sv_IsActive(Alone(Sv_RemoveAll(t, S)), i, now)
         IN  /\ Expired(t, i, now) => c = Alone(r)
             /\ ~ Expired(t, i, now) => c = Alone(Sv_RemoveAll(t, S))
             /\ Active(c.t, i, now) <=> Active(t, i, now)
<1> DEFINE s == Sv_RemoveAll(t, S)
           r == Sv_RemoveAll(t, S \cup {i})
<1>1. PICK m : m = -1
  OBVIOUS
<1>2. LET c == Sv_IsActive(Cursors(s, m, m), i, now)
      IN  /\ c = IF Expired(t, i, now)
                   THEN Cursors(r, Within(m, r), Within(m, r))
                   ELSE Cursors(s, m, m)
          /\ Active(c.t, i, now) <=> Active(t, i, now)
  BY LookAt
<1>3. Cursors(s, m, m) = Alone(s)
  BY <1>1 DEF Alone
<1>4. Expired(t, i, now) => Cursors(r, Within(m, r), Within(m, r)) = Alone(r)
  <2>1. Expired(t, i, now) => S \cup {i} \subseteq UsedSlots(t)
    BY DEF Expired
  <2>2. Expired(t, i, now) => r \in Tables
    BY <2>1, RemoveAllTable
  <2> HIDE DEF r
  <2> QED
    BY <1>1, <2>2, StaysAlone
<1> HIDE DEF r, s
<1> QED
  BY <1>2, <1>3, <1>4 DEF r, s

----------------------------------------------------------------------------
(* The sweep.                                                              *)

\* The equation of its loop.
SweepRuns(f, c, now) ==
  f = [n \in 0 .. max_nb_servers |->
         IF n = 0 THEN c ELSE SweepTurn(f[n - 1], n - 1, now)]

\* After n turns the sweep has removed the expired entries of the first n
\* slots, as far as last_used_slot was when it started.
LEMMA SweepIs ==
  ASSUME NEW t \in Tables, NEW now \in Int
  PROVE  SweepFrom(Alone(t), now) = Alone(Sv_CheckTimeouts(t, now))
<1> DEFINE L == t.last_used_slot
           N == max_nb_servers
           dead(n) == {i \in 0 .. L : i < n /\ Expired(t, i, now)}
           left(n) == Sv_RemoveAll(t, dead(n))
           e == [n \in 0 .. N |-> Alone(left(n))]
           f == CHOOSE f : SweepRuns(f, Alone(t), now)
<1>1. N \in Nat /\ Slots = 0 .. N - 1
  BY SizeAssumption DEF Slots
<1>2. L \in Slots \cup {-1} /\ L \in Int /\ UsedSlots(t) \subseteq Slots /\ Slots \subseteq Nat
  BY CursorTypes
<1>3. \A n : dead(n) \subseteq UsedSlots(t)
  BY DEF Expired
<1>4. \A n : /\ left(n) \in Tables
             /\ left(n).last_used_slot \in Int
             /\ left(n).last_used_slot <= L
             /\ L \notin dead(n) => left(n).last_used_slot = L
  <2> TAKE n
  <2>1. dead(n) \subseteq UsedSlots(t)
    BY <1>3
  <2> HIDE DEF dead
  <2>2. /\ left(n) \in Tables
        /\ left(n).last_used_slot <= L
        /\ L \notin dead(n) => left(n).last_used_slot = L
    BY <2>1, RemoveAllTable
  <2> HIDE DEF left
  <2> QED
    BY <2>2, CursorTypes
<1>5. ASSUME NEW n \in 1 .. N
      PROVE  SweepTurn(Alone(left(n - 1)), n - 1, now) = Alone(left(n))
  <2>1. n - 1 \in Slots /\ n - 1 \in Nat /\ n \in Nat
    BY <1>1
  <2>2. \A i \in 0 .. L : i < n <=> i < n - 1 \/ i = n - 1
    BY <1>2, <2>1
  <2>3. CASE n - 1 > L
    <3>1. dead(n) = dead(n - 1)
      BY <1>2, <2>1, <2>2, <2>3
    <3>2. left(n - 1).last_used_slot < n - 1
      BY <1>2, <1>4, <2>1, <2>3
    <3> HIDE DEF left
    <3>3. SweepTurn(Alone(left(n - 1)), n - 1, now) = Alone(left(n - 1))
      BY <1>4, <2>1, <3>2 DEF SweepTurn, Alone, Cursors
    <3> QED
      BY <3>1, <3>3 DEF left
  <2>4. CASE n - 1 <= L
    <3>1. n - 1 \in 0 .. L /\ n - 1 \notin dead(n - 1) /\ L \notin dead(n - 1)
      BY <1>2, <2>1, <2>4
    <3>2. left(n - 1).last_used_slot = L
      BY <1>4, <3>1
    <3>3. dead(n) = IF Expired(t, n - 1, now) THEN dead(n - 1) \cup {n - 1} ELSE dead(n - 1)
      BY <2>2, <3>1
    <3>4. dead(n - 1) \subseteq UsedSlots(t) /\ n - 1 \in Slots \ dead(n - 1)
      BY <1>3, <2>1, <3>1
    <3>5. SweepTurn(Alone(left(n - 1)), n - 1, now) = Sv_IsActive(Alone(left(n - 1)), n - 1, now)
      <4> HIDE DEF left
      <4> QED
        BY <1>2, <2>1, <2>4, <3>2 DEF SweepTurn, Alone, Cursors
    <3> HIDE DEF dead
    <3>6. PICK S \in SUBSET UsedSlots(t), i \in Slots : S = dead(n - 1) /\ i = n - 1
      BY <2>1, <3>4
    <3>7. /\ Expired(t, i, now) => Sv_IsActive(Alone(Sv_RemoveAll(t, S)), i, now)
                                     = Alone(Sv_RemoveAll(t, S \cup {i}))
          /\ ~ Expired(t, i, now) => Sv_IsActive(Alone(Sv_RemoveAll(t, S)), i, now)
                                       = Alone(Sv_RemoveAll(t, S))
      <4>1. S \subseteq UsedSlots(t) /\ i \in Slots \ S
        BY <3>4, <3>6
      <4> QED
        BY <4>1, LookAlone
    <3> QED
      BY <3>3, <3>5, <3>6, <3>7
  <2> QED
    BY <1>2, <2>1, <2>3, <2>4
<1>6. left(0) = t
  <2>1. dead(0) = {}
    BY <1>2
  <2> HIDE DEF dead
  <2> QED
    BY <2>1, RemoveNone
<1>7. left(N) = Sv_CheckTimeouts(t, now)
  <2>1. \A i \in 0 .. L : i < N
    BY <1>1, <1>2
  <2>2. dead(N) = {i \in 0 .. L : Expired(t, i, now)}
    BY <2>1
  <2> HIDE DEF dead
  <2> QED
    BY <2>2 DEF Sv_CheckTimeouts
<1> HIDE DEF left
<1>8. e[0] = Alone(t) /\ \A n \in 1 .. N : e[n] = SweepTurn(e[n - 1], n - 1, now)
  BY <1>1, <1>5, <1>6
<1>9. e[N] = Alone(Sv_CheckTimeouts(t, now))
  BY <1>1, <1>7
<1> HIDE DEF N
<1>10. SweepRuns(e, Alone(t), now)
  <2>1. e = [n \in 0 .. N |-> e[n]]
    OBVIOUS
  <2>2. \A n \in 0 .. N : n = 0 \/ n \in 1 .. N
    BY <1>1
  <2> HIDE DEF e
  <2> QED
    BY <1>8, <2>1, <2>2 DEF SweepRuns, N
<1>11. SweepRuns(f, Alone(t), now)
  BY <1>10
<1> HIDE DEF e
<1>12. SweepFrom(Alone(t), now) = f[N]
  BY DEF SweepFrom, SweepRuns, N
<1> HIDE DEF f
<1>13. f[0] = Alone(t) /\ \A n \in 1 .. N : f[n] = SweepTurn(f[n - 1], n - 1, now)
  BY <1>1, <1>11 DEF SweepRuns, N
<1> DEFINE holds == {n \in 0 .. N : f[n] = e[n]}
<1>14. 0 \in holds
  BY <1>1, <1>8, <1>13
<1>15. \A n \in 1 .. N : n - 1 \in holds => n \in holds
  BY <1>1, <1>8, <1>13
<1>16. N \in holds
  <2> HIDE DEF holds
  <2> QED
    BY <1>1, <1>14, <1>15, EveryTurn
<1> QED
  BY <1>9, <1>12, <1>16

----------------------------------------------------------------------------
(* The look-up of the next free slot.                                      *)

\* The equation of its loop.
ScanRuns(f, c, start, now) ==
  f = [ind \in 0 .. max_nb_servers |->
         IF ind <= start THEN c ELSE ScanTurn(f[ind - 1], ind - 1, now)]

\* What the look-up leaves of the table whose first free slot was claimed.
Scanned(t, free) ==
  IF free = {}
    THEN t
    ELSE [Sv_RemoveAll(t, {Min(free)} \cap UsedSlots(t)) EXCEPT !.first_free_slot = Min(free)]

\* A turn goes past a live entry, and ends the loop at any other slot.
LEMMA ScanTurnIs ==
  ASSUME NEW t \in Tables, t.first_free_slot = -1, NEW now \in Int,
         NEW new \in Slots, NEW ind \in Slots, ind > new,
         LET free == {j \in Slots : j > new /\ ~ Active(t, j, now)}
         IN  free # {} => ind <= Min(free)
  PROVE  LET free == {j \in Slots : j > new /\ ~ Active(t, j, now)}
         IN  ScanTurn(Alone(t), ind, now) =
               IF free # {} /\ ind = Min(free) THEN Alone(Scanned(t, free)) ELSE Alone(t)
<1> DEFINE free == {j \in Slots : j > new /\ ~ Active(t, j, now)}
           c    == Sv_IsActive(Alone(t), ind, now)
<1>1. Slots \subseteq Nat /\ UsedSlots(t) \subseteq Slots
  BY CursorTypes
<1>2. free \subseteq Slots /\ free \subseteq Nat
  BY <1>1
<1>3. ind \in free <=> ~ Active(t, ind, now)
  OBVIOUS
<1>4. ind \in free <=> free # {} /\ ind = Min(free)
  <2> HIDE DEF free
  <2>1. ASSUME ind \in free
        PROVE  ind = Min(free)
    <3>1. Min(free) \in free /\ Min(free) <= ind
      BY <1>2, <2>1, MinOfNaturals
    <3>2. ind <= Min(free)
      BY <2>1 DEF free
    <3>3. Min(free) \in Nat /\ ind \in Nat
      BY <1>1, <1>2, <3>1
    <3> QED
      BY <3>1, <3>2, <3>3
  <2>2. free # {} => Min(free) \in free
    BY <1>2, MinOfNaturals
  <2> QED
    BY <2>1, <2>2
<1>5. /\ Expired(t, ind, now) => c = Alone(Sv_RemoveAll(t, {ind}))
      /\ ~ Expired(t, ind, now) => c = Alone(t)
      /\ Active(c.t, ind, now) <=> Active(t, ind, now)
  <2>1. PICK S : S = {}
    OBVIOUS
  <2>2. Sv_RemoveAll(t, S) = t /\ S \cup {ind} = {ind} /\ S \subseteq UsedSlots(t) /\ ind \in Slots \ S
    BY <2>1, RemoveNone
  <2>3. LET q == Sv_IsActive(Alone(Sv_RemoveAll(t, S)), ind, now)
        IN  /\ Expired(t, ind, now) => q = Alone(Sv_RemoveAll(t, S \cup {ind}))
            /\ ~ Expired(t, ind, now) => q = Alone(Sv_RemoveAll(t, S))
            /\ Active(q.t, ind, now) <=> Active(t, ind, now)
    BY <2>2, LookAlone
  <2> QED
    BY <2>2, <2>3
<1>6. Alone(t).t.first_free_slot = -1
  BY DEF Alone, Cursors
<1>7. CASE Active(t, ind, now)
  <2>1. ScanTurn(Alone(t), ind, now) = Alone(t)
    BY <1>5, <1>7 DEF ScanTurn
  <2> QED
    BY <1>3, <1>4, <1>7, <2>1
<1>8. CASE ~ Active(t, ind, now)
  <2> DEFINE u == Sv_RemoveAll(t, {ind} \cap UsedSlots(t))
  <2>1. ScanTurn(Alone(t), ind, now) = [c EXCEPT !.t.first_free_slot = ind]
    BY <1>5, <1>6, <1>8 DEF ScanTurn
  <2>2. c = Alone(u)
    <3>1. CASE ind \in UsedSlots(t)
      <4>1. t.servers[ind].timeout \in Int
        BY <3>1, TimeAssumption DEF Tables, UsedSlots, Servers, FreeSlot, Deadlines
      <4>2. Expired(t, ind, now)
        BY <1>8, <3>1, <4>1 DEF Active, Expired
      <4>3. {ind} \cap UsedSlots(t) = {ind}
        BY <3>1
      <4> QED
        BY <1>5, <4>2, <4>3
    <3>2. CASE ind \notin UsedSlots(t)
      <4>1. ~ Expired(t, ind, now)
        BY <3>2 DEF Expired
      <4>2. {ind} \cap UsedSlots(t) = {}
        BY <3>2
      <4> QED
        BY <1>5, <4>1, <4>2, RemoveNone
    <3> QED
      BY <3>1, <3>2
  <2>3. Alone(Scanned(t, free)) = Alone([u EXCEPT !.first_free_slot = ind])
    BY <1>3, <1>4, <1>8 DEF Scanned
  <2> HIDE DEF u, c
  <2>4. [c EXCEPT !.t.first_free_slot = ind] = Alone([u EXCEPT !.first_free_slot = ind])
    BY <2>2 DEF Alone, Cursors
  <2> QED
    BY <1>3, <1>4, <1>8, <2>1, <2>3, <2>4
<1> QED
  BY <1>7, <1>8

\* The look-up stops at the first slot above the claimed one that holds no
\* live entry.
LEMMA ScanIs ==
  ASSUME NEW t \in Tables, t.first_free_slot = -1, NEW now \in Int, NEW new \in Slots
  PROVE  LET free == {j \in Slots : j > new /\ ~ Active(t, j, now)}
         IN  ScanFrom(Alone(t), new + 1, now) = Alone(Scanned(t, free))
<1> DEFINE free == {j \in Slots : j > new /\ ~ Active(t, j, now)}
           N == max_nb_servers
           e == [ind \in 0 .. N |->
                   IF free # {} /\ Min(free) < ind THEN Alone(Scanned(t, free)) ELSE Alone(t)]
           f == CHOOSE f : ScanRuns(f, Alone(t), new + 1, now)
<1>1. N \in Nat /\ Slots = 0 .. N - 1
  BY SizeAssumption DEF Slots
<1>2. Slots \subseteq Nat
  BY CursorTypes
<1>3. free # {} => Min(free) \in Slots /\ Min(free) > new /\ Min(free) \in Nat
  <2>1. free \subseteq Nat
    BY <1>2
  <2> HIDE DEF free
  <2>2. free # {} => Min(free) \in free
    BY <2>1, MinOfNaturals
  <2> QED
    BY <1>2, <2>2 DEF free
<1>4. free # {} => Alone(Scanned(t, free)).t.first_free_slot = Min(free)
  <2> DEFINE u == Sv_RemoveAll(t, {Min(free)} \cap UsedSlots(t))
  <2>1. u \in Tables
    <3>1. {Min(free)} \cap UsedSlots(t) \subseteq UsedSlots(t)
      OBVIOUS
    <3> HIDE DEF free
    <3> QED
      BY <3>1, RemoveAllTable
  <2> HIDE DEF u
  <2>2. free # {} => Scanned(t, free) = [u EXCEPT !.first_free_slot = Min(free)]
    BY DEF Scanned, u
  <2> HIDE DEF free
  <2> QED
    BY <2>1, <2>2 DEF Alone, Cursors, Tables
<1>5. ASSUME NEW n \in 1 .. N, n > new + 1
      PROVE  e[n] = ScanTurn(e[n - 1], n - 1, now)
  <2>1. n - 1 \in Slots /\ n - 1 > new /\ n - 1 \in 0 .. N /\ n \in 0 .. N
    BY <1>1, <1>2, <1>5
  <2>2. CASE free # {} /\ Min(free) < n - 1
    <3>1. Min(free) < n /\ Min(free) # -1
      BY <1>3, <2>1, <2>2
    <3>2. e[n] = Alone(Scanned(t, free)) /\ e[n - 1] = Alone(Scanned(t, free))
      BY <2>1, <2>2, <3>1
    <3> HIDE DEF e, free
    <3> QED
      BY <1>4, <2>2, <3>1, <3>2 DEF ScanTurn
  <2>3. CASE ~ (free # {} /\ Min(free) < n - 1)
    <3>1. e[n - 1] = Alone(t)
      BY <2>1, <2>3
    <3>2. PICK ind \in Slots : ind = n - 1
      BY <2>1
    <3>3. ind > new /\ (free # {} => ind <= Min(free))
      BY <1>2, <1>3, <2>1, <2>3, <3>2
    <3>4. ScanTurn(Alone(t), ind, now) =
            IF free # {} /\ ind = Min(free) THEN Alone(Scanned(t, free)) ELSE Alone(t)
      BY <3>3, ScanTurnIs
    <3>5. free # {} => (Min(free) < n <=> ind = Min(free))
      BY <1>2, <1>3, <2>1, <2>3, <3>2
    <3>6. e[n] = IF free # {} /\ ind = Min(free) THEN Alone(Scanned(t, free)) ELSE Alone(t)
      BY <2>1, <3>5
    <3> HIDE DEF e, free
    <3> QED
      BY <3>1, <3>2, <3>4, <3>6
  <2> QED
    BY <2>2, <2>3
<1>6. ASSUME NEW n \in 0 .. N, n <= new + 1
      PROVE  e[n] = Alone(t)
  BY <1>2, <1>3, <1>6
<1>7. e[N] = Alone(Scanned(t, free))
  <2>1. N \in 0 .. N /\ (free # {} => Min(free) < N)
    BY <1>1, <1>3
  <2>2. free = {} => Scanned(t, free) = t
    BY DEF Scanned
  <2> QED
    BY <2>1, <2>2
<1> HIDE DEF free
<1>8. \A n \in 0 .. N : n <= new + 1 \/ (n \in 1 .. N /\ n > new + 1)
  <2>1. new \in Nat
    BY <1>2
  <2> QED
    BY <1>1, <2>1
<1>9. ScanRuns(e, Alone(t), new + 1, now)
  <2>1. e = [n \in 0 .. N |-> e[n]]
    OBVIOUS
  <2> HIDE DEF e
  <2>2. \A n \in 0 .. N : e[n] = IF n <= new + 1 THEN Alone(t) ELSE ScanTurn(e[n - 1], n - 1, now)
    BY <1>5, <1>6, <1>8
  <2> QED
    BY <2>1, <2>2 DEF ScanRuns
<1>10. ScanRuns(f, Alone(t), new + 1, now)
  BY <1>9
<1> HIDE DEF e
<1>11. ScanFrom(Alone(t), new + 1, now) = f[N]
  BY DEF ScanFrom, ScanRuns
<1> HIDE DEF f
<1>12. \A n \in 0 .. N : f[n] = IF n <= new + 1 THEN Alone(t) ELSE ScanTurn(f[n - 1], n - 1, now)
  BY <1>10 DEF ScanRuns
<1> HIDE DEF N
<1> DEFINE holds == {n \in 0 .. N : f[n] = e[n]}
<1>13. 0 \in holds
  <2>1. 0 \in 0 .. N /\ 0 <= new + 1
    BY <1>1, <1>2
  <2> QED
    BY <1>6, <1>12, <2>1
<1>14. \A n \in 1 .. N : n - 1 \in holds => n \in holds
  <2> TAKE n \in 1 .. N
  <2>1. n \in 0 .. N
    BY <1>1
  <2> QED
    BY <1>5, <1>6, <1>8, <1>12, <2>1
<1>15. N \in holds
  <2> HIDE DEF holds
  <2> QED
    BY <1>1, <1>13, <1>14, EveryTurn
<1> QED
  BY <1>7, <1>11, <1>15 DEF free

\* Sv_GetByAddr takes the first free slot as Sv_TakeFreeSlot does.
LEMMA TakeIs ==
  ASSUME NEW t \in Tables, t.first_free_slot # -1, NEW a \in Addresses, NEW now \in Int
  PROVE  AddServer(t, a, now) = Sv_TakeFreeSlot(t, a, now)
<1> DEFINE new == t.first_free_slot
           claimed == [t EXCEPT !.last_used_slot = IF @ < new THEN new ELSE @,
                                !.first_free_slot = -1]
           free == NextFree(t, new, now)
           left == IF free = {}
                     THEN claimed
                     ELSE [Sv_RemoveAll(claimed, {Min(free)} \cap UsedSlots(t))
                             EXCEPT !.first_free_slot = Min(free)]
<1>1. new \in Slots
  BY CursorTypes
<1>2. claimed \in Tables /\ claimed.first_free_slot = -1 /\ claimed.servers = t.servers
  BY <1>1 DEF Tables
<1>3. UsedSlots(claimed) = UsedSlots(t)
  BY <1>2 DEF UsedSlots
<1>4. free = {j \in Slots : j > new /\ ~ Active(claimed, j, now)}
  <2> HIDE DEF claimed
  <2> QED
    BY <1>2, <1>3 DEF NextFree, Active
<1>5. left = Scanned(claimed, free)
  BY <1>3 DEF Scanned
<1>6. ScanFrom(Alone(claimed), new + 1, now).t = left
  <2> HIDE DEF claimed, new, free, left
  <2>1. ScanFrom(Alone(claimed), new + 1, now) = Alone(Scanned(claimed, free))
    BY <1>1, <1>2, <1>4, ScanIs
  <2> QED
    BY <1>5, <2>1 DEF Alone, Cursors
<1> HIDE DEF claimed, free
<1>7. AddServer(t, a, now) =
        LinkFirst([left EXCEPT !.servers[new] = [state |-> "uninitialized", address |-> a,
                                                 timeout |-> now + TIMEOUT_HEARTBEAT],
                               !.nb_servers = @ + 1], new, BucketOf[a])
  <2> HIDE DEF left
  <2> QED
    BY <1>6 DEF AddServer, claimed
<1>8. Sv_TakeFreeSlot(t, a, now) =
        LinkFirst([left EXCEPT !.servers[new] = [state |-> "uninitialized", address |-> a,
                                                 timeout |-> now + TIMEOUT_HEARTBEAT],
                               !.nb_servers = @ + 1], new, BucketOf[a])
  BY DEF Sv_TakeFreeSlot, claimed, free
<1> QED
  BY <1>7, <1>8

----------------------------------------------------------------------------
(* The walk down a chain.                                                  *)

\* A chain is strictly and totally ordered.
LEMMA ChainOrder ==
  ASSUME NEW t, TableInv(t), NEW b \in Buckets
  PROVE  /\ t.chain[b] \subseteq UsedSlots(t) /\ t.chain[b] \subseteq Slots
         /\ \A i, j \in t.chain[b] :
              /\ <<i, j>> \in t.ahead => <<j, i>> \notin t.ahead
              /\ i # j => <<i, j>> \in t.ahead \/ <<j, i>> \in t.ahead
         /\ \A i, j, k \in t.chain[b] :
              <<i, j>> \in t.ahead /\ <<j, k>> \in t.ahead => <<i, k>> \in t.ahead
<1>1. Linked(t) /\ Compared(t) /\ Transitive(t)
  BY DEF TableInv, Ordered
<1>2. t.chain[b] = {i \in UsedSlots(t) : BucketOfSlot(t, i) = b}
  BY <1>1 DEF Linked
<1>3. t.chain[b] \subseteq UsedSlots(t) /\ UsedSlots(t) \subseteq Slots
  BY <1>2 DEF UsedSlots
<1>4. \A i \in t.chain[b] : BucketOfSlot(t, i) = b
  BY <1>2
<1>5. \A i, j \in t.chain[b] :
        /\ <<i, j>> \in t.ahead => <<j, i>> \notin t.ahead
        /\ i # j => <<i, j>> \in t.ahead \/ <<j, i>> \in t.ahead
  BY <1>1, <1>3, <1>4 DEF Compared
<1>6. \A i, j, k \in t.chain[b] :
        <<i, j>> \in t.ahead /\ <<j, k>> \in t.ahead => <<i, k>> \in t.ahead
  BY <1>1, <1>3 DEF Transitive
<1> QED
  BY <1>3, <1>5, <1>6

\* So some of its entries have a first one: the one with the fewest before it.
LEMMA FirstIs ==
  ASSUME NEW t, TableInv(t), NEW b \in Buckets, NEW D, D \subseteq t.chain[b], D # {}
  PROVE  /\ FirstOf(t, D) \in D
         /\ \A j \in D \ {FirstOf(t, D)} : <<FirstOf(t, D), j>> \in t.ahead
<1> DEFINE before(i) == {j \in D : <<j, i>> \in t.ahead}
           ranks == {Cardinality(before(i)) : i \in D}
<1>1. /\ D \subseteq Slots
      /\ \A i, j \in D : /\ <<i, j>> \in t.ahead => <<j, i>> \notin t.ahead
                         /\ i # j => <<i, j>> \in t.ahead \/ <<j, i>> \in t.ahead
      /\ \A i, j, k \in D : <<i, j>> \in t.ahead /\ <<j, k>> \in t.ahead => <<i, k>> \in t.ahead
  BY ChainOrder
<1>2. \A i : before(i) \subseteq Slots
  BY <1>1
<1>3. \A i : Cardinality(before(i)) \in Nat
  BY <1>2, SlotsFinite
<1>4. ranks \subseteq Nat /\ ranks # {}
  BY <1>3
<1>5. PICK i \in D : \A j \in D : Cardinality(before(i)) <= Cardinality(before(j))
  <2> HIDE DEF before
  <2>1. Min(ranks) \in ranks /\ \A y \in ranks : Min(ranks) <= y
    <3> HIDE DEF ranks
    <3> QED
      BY <1>4, MinOfNaturals
  <2>2. PICK i \in D : Min(ranks) = Cardinality(before(i))
    BY <2>1
  <2> QED
    BY <2>1, <2>2
<1>6. \A j \in D \ {i} : <<i, j>> \in t.ahead
  <2> SUFFICES ASSUME NEW j \in D \ {i}, <<j, i>> \in t.ahead
               PROVE  FALSE
    BY <1>1
  <2>1. before(j) \subseteq before(i) /\ j \in before(i) /\ j \notin before(j)
    BY <1>1
  <2> HIDE DEF before
  <2>2. Cardinality(before(j)) <= Cardinality(before(i))
    BY <1>2, <2>1, SubsetCardinality
  <2>3. Cardinality(before(i)) <= Cardinality(before(j))
    BY <1>5
  <2>4. Cardinality(before(i)) = Cardinality(before(j))
    BY <1>3, <2>2, <2>3
  <2>5. before(i) = before(j)
    BY <1>2, <2>1, <2>4, SubsetCardinality
  <2> QED
    BY <2>1, <2>5
<1> HIDE DEF before, ranks
<1> QED
  BY <1>6 DEF FirstOf

\* The entries of a chain that come before another one, and those of the host
\* of an address.
Earlier(t, b, i) == {j \in t.chain[b] : <<j, i>> \in t.ahead}

OfHost(t, a, now) ==
  {j \in t.chain[BucketOf[a]] : Active(t, j, now) /\ PublicOf[t.servers[j].address] = PublicOf[a]}

\* After n turns the walk stands at the entry with n others before it: it has
\* removed those that had expired, none of them was the one it looks for, and
\* it has counted those of the host.  At the end it has done it all.
StandsAt(t, a, now, w, n) ==
  LET b == BucketOf[a]
  IN  /\ w.sv \in t.chain[b]
      /\ Cardinality(Earlier(t, b, w.sv)) = n
      /\ w.c = Alone(Sv_RemoveAll(t, {j \in Earlier(t, b, w.sv) : Expired(t, j, now)}))
      /\ Earlier(t, b, w.sv) \cap Matches(t, a, now) = {}
      /\ w.same_address_found = Cardinality(Earlier(t, b, w.sv) \cap OfHost(t, a, now))

IsOver(t, a, now, w) ==
  /\ w.sv = -1
  /\ w.c.t = Sv_GetByAddr_Internal(t, a, now)
  /\ Matches(t, a, now) = {} => w.same_address_found = SameAddressFound(t, a, now)

\* When all entries of a chain have been passed, the walk is over.
LEMMA PassedAll ==
  ASSUME NEW t, NEW a, NEW now, NEW w, Matches(t, a, now) = {}, w.sv = -1,
         w.c = Alone(Sv_RemoveAll(t, {j \in t.chain[BucketOf[a]] : Expired(t, j, now)})),
         w.same_address_found = Cardinality(t.chain[BucketOf[a]] \cap OfHost(t, a, now))
  PROVE  IsOver(t, a, now, w)
<1>1. Walked(t, a, now) = t.chain[BucketOf[a]]
  BY DEF Walked
<1>2. w.c.t = Sv_GetByAddr_Internal(t, a, now)
  BY <1>1 DEF Sv_GetByAddr_Internal, Alone, Cursors
<1>3. t.chain[BucketOf[a]] \cap OfHost(t, a, now)
        = {i \in t.chain[BucketOf[a]] :
             /\ Active(t, i, now)
             /\ PublicOf[t.servers[i].address] = PublicOf[a]}
  BY DEF OfHost
<1>4. w.same_address_found = SameAddressFound(t, a, now)
  BY <1>3 DEF SameAddressFound
<1> QED
  BY <1>2, <1>4 DEF IsOver

\* What a turn finds at the entry it stands at.
LEMMA TurnLooks ==
  ASSUME NEW t, TableInv(t), NEW a \in Addresses, NEW now \in Int, NEW n \in Nat,
         NEW w, StandsAt(t, a, now, w, n)
  PROVE  LET b == BucketOf[a]
             i == w.sv
             H == {j \in Earlier(t, b, i) \cup {i} : Expired(t, j, now)}
             c == Sv_IsActive(w.c, i, now)
         IN  /\ c = Alone(Sv_RemoveAll(t, H))
             /\ c.t.servers[i].address = a <=> i \in Matches(t, a, now)
             /\ (Active(c.t, i, now) /\ PublicOf[c.t.servers[i].address] = PublicOf[a])
                  <=> i \in OfHost(t, a, now)
             /\ Expired(t, i, now) => i \notin Matches(t, a, now)
<1> DEFINE b == BucketOf[a]
           i == w.sv
           E == Earlier(t, b, i)
           G == {j \in E : Expired(t, j, now)}
           H == {j \in E \cup {i} : Expired(t, j, now)}
           c == Sv_IsActive(w.c, i, now)
<1>1. /\ i \in t.chain[b] /\ w.c = Alone(Sv_RemoveAll(t, G)) /\ b \in Buckets
  BY DEF StandsAt, Buckets
<1>2. t \in Tables /\ i \in UsedSlots(t) /\ i \in Slots /\ <<i, i>> \notin t.ahead
  BY <1>1, ChainOrder DEF TableInv
<1>3. G \subseteq UsedSlots(t) /\ i \in Slots \ G /\ i \notin E
  BY <1>2 DEF Expired, Earlier
<1>4. H = IF Expired(t, i, now) THEN G \cup {i} ELSE G
  OBVIOUS
<1>5. /\ c = Alone(Sv_RemoveAll(t, H))
      /\ Active(c.t, i, now) <=> Active(t, i, now)
  <2> HIDE DEF G, H, i, b
  <2>1. LET r == Sv_RemoveAll(t, G \cup {i})
            q == Sv_IsActive(Alone(Sv_RemoveAll(t, G)), i, now)
        IN  /\ Expired(t, i, now) => q = Alone(r)
            /\ ~ Expired(t, i, now) => q = Alone(Sv_RemoveAll(t, G))
            /\ Active(q.t, i, now) <=> Active(t, i, now)
    BY <1>2, <1>3, LookAlone
  <2> QED
    BY <1>1, <1>4, <2>1
<1>6. H \subseteq UsedSlots(t) /\ (i \in H <=> Expired(t, i, now))
  BY DEF Expired
<1>7. c.t = Sv_RemoveAll(t, H)
  BY <1>5 DEF Alone, Cursors
<1>8. t.servers[i].timeout \in Int
  BY <1>2, TimeAssumption DEF Tables, UsedSlots, Servers, FreeSlot, Deadlines
<1>9. Active(t, i, now) <=> ~ Expired(t, i, now)
  BY <1>2, <1>8 DEF Active, Expired
<1> HIDE DEF H, c, i, G, E
<1>10. c.t.servers[i] = IF Expired(t, i, now) THEN FreeSlot ELSE t.servers[i]
  <2>1. t \in Tables /\ H \subseteq UsedSlots(t)
    BY <1>2, <1>6
  <2>2. \A j \in Slots \ H : Sv_RemoveAll(t, H).servers[j] = t.servers[j]
    BY <2>1, RemoveAllTable
  <2>3. \A j \in H : Sv_RemoveAll(t, H).servers[j] = FreeSlot
    BY <2>1 DEF Sv_RemoveAll, UsedSlots
  <2> QED
    BY <1>2, <1>6, <1>7, <2>2, <2>3
<1>11. FreeSlot.address # a
  BY HashAssumption DEF FreeSlot
<1>12. c.t.servers[i].address = a <=> i \in Matches(t, a, now)
  BY <1>1, <1>9, <1>10, <1>11 DEF Matches
<1>13. (Active(c.t, i, now) /\ PublicOf[c.t.servers[i].address] = PublicOf[a])
         <=> i \in OfHost(t, a, now)
  BY <1>1, <1>5, <1>9, <1>10 DEF OfHost
<1>14. Expired(t, i, now) => i \notin Matches(t, a, now)
  BY <1>9 DEF Matches
<1> QED
  BY <1>5, <1>12, <1>13, <1>14 DEF c, i, H, E, b

\* The entry after it, or -1: read in the table it stands in.
LEMMA TurnNext ==
  ASSUME NEW t, TableInv(t), NEW a \in Addresses, NEW now \in Int, NEW n \in Nat,
         NEW w, StandsAt(t, a, now, w, n)
  PROVE  LET b == BucketOf[a]
             i == w.sv
             k == FirstOf(w.c.t, {j \in w.c.t.chain[b] : <<i, j>> \in w.c.t.ahead})
         IN  \/ k = -1 /\ t.chain[b] = Earlier(t, b, i) \cup {i}
             \/ k \in t.chain[b] /\ Earlier(t, b, k) = Earlier(t, b, i) \cup {i}
<1> DEFINE b == BucketOf[a]
           C == t.chain[b]
           i == w.sv
           G == {j \in Earlier(t, b, i) : Expired(t, j, now)}
           s == Sv_RemoveAll(t, G)
           D == {j \in s.chain[b] : <<i, j>> \in s.ahead}
           k == FirstOf(s, D)
<1>1. b \in Buckets /\ i \in C /\ w.c.t = s
  BY DEF StandsAt, Buckets, Alone, Cursors
<1>2. /\ C \subseteq UsedSlots(t) /\ C \subseteq Slots
      /\ \A x, y \in C : /\ <<x, y>> \in t.ahead => <<y, x>> \notin t.ahead
                         /\ x # y => <<x, y>> \in t.ahead \/ <<y, x>> \in t.ahead
      /\ \A x, y, z \in C : <<x, y>> \in t.ahead /\ <<y, z>> \in t.ahead => <<x, z>> \in t.ahead
  BY <1>1, ChainOrder
<1>3. G \subseteq UsedSlots(t)
  BY DEF Expired
<1>4. /\ s.chain[b] = C \ G
      /\ s.ahead = t.ahead \cap ((Slots \ G) \X (Slots \ G))
  BY <1>1 DEF Sv_RemoveAll
<1>5. \A j \in C : <<i, j>> \in t.ahead => j \notin G
  BY <1>1, <1>2 DEF Earlier
<1>6. i \notin G
  BY <1>1, <1>2 DEF Earlier
<1>7. TableInv(s)
  <2> HIDE DEF G
  <2> QED
    BY <1>3, RemoveAllInv
<1>10. \A j \in C : j \in Earlier(t, b, i) <=> <<j, i>> \in t.ahead
  BY DEF Earlier
<1> HIDE DEF s, G
<1>8. D = {j \in C : <<i, j>> \in t.ahead}
  <2>1. \A j \in C \ G : <<i, j>> \in s.ahead <=> <<i, j>> \in t.ahead
    BY <1>1, <1>2, <1>4, <1>6
  <2> QED
    BY <1>4, <1>5, <2>1
<1>9. D \subseteq s.chain[b]
  OBVIOUS
<1>11. CASE D = {}
  <2>1. k = -1
    BY <1>11 DEF FirstOf
  <2>2. C = Earlier(t, b, i) \cup {i}
    <3>1. \A j \in C : j = i \/ j \in Earlier(t, b, i)
      BY <1>1, <1>2, <1>8, <1>10, <1>11
    <3>2. Earlier(t, b, i) \subseteq C
      BY DEF Earlier
    <3> QED
      BY <1>1, <3>1, <3>2
  <2> QED
    BY <1>1, <2>1, <2>2
<1>12. CASE D # {}
  <2> HIDE DEF D
  <2>1. k \in D /\ \A j \in D \ {k} : <<k, j>> \in s.ahead
    BY <1>1, <1>7, <1>9, <1>12, FirstIs
  <2> HIDE DEF k
  <2>2. k \in C /\ <<i, k>> \in t.ahead
    BY <1>8, <2>1
  <2>3. \A j \in D \ {k} : <<k, j>> \in t.ahead
    BY <1>4, <2>1
  <2>4. \A j \in C : <<j, k>> \in t.ahead <=> j = i \/ <<j, i>> \in t.ahead
    <3> TAKE j \in C
    <3>1. CASE j = i
      BY <2>2, <3>1
    <3>2. CASE <<j, i>> \in t.ahead
      BY <1>1, <1>2, <2>2, <3>2
    <3>3. CASE j # i /\ <<j, i>> \notin t.ahead
      <4>1. j \in D
        BY <1>1, <1>2, <1>8, <3>3
      <4>2. <<j, k>> \notin t.ahead
        BY <1>2, <2>2, <2>3, <4>1
      <4> QED
        BY <3>3, <4>2
    <3> QED
      BY <3>1, <3>2, <3>3
  <2>5. Earlier(t, b, k) = Earlier(t, b, i) \cup {i}
    BY <1>1, <2>4 DEF Earlier
  <2> QED
    BY <1>1, <2>2, <2>5 DEF k, D
<1> QED
  BY <1>11, <1>12

\* A turn takes the walk to the next entry, or to its end.
LEMMA WalkStep ==
  ASSUME NEW t, TableInv(t), NEW a \in Addresses, NEW now \in Int, NEW n \in Nat,
         NEW w, StandsAt(t, a, now, w, n)
  PROVE  LET q == WalkTurn(w, a, now)
         IN  StandsAt(t, a, now, q, n + 1) \/ IsOver(t, a, now, q)
<1> DEFINE b == BucketOf[a]
           C == t.chain[b]
           i == w.sv
           E == Earlier(t, b, i)
           H == {j \in E \cup {i} : Expired(t, j, now)}
           c == Sv_IsActive(w.c, i, now)
           k == FirstOf(w.c.t, {j \in w.c.t.chain[b] : <<i, j>> \in w.c.t.ahead})
           same == IF Active(c.t, i, now) /\ PublicOf[c.t.servers[i].address] = PublicOf[a]
                     THEN 1 ELSE 0
           q == WalkTurn(w, a, now)
<1>1. /\ i \in C /\ b \in Buckets
      /\ Cardinality(E) = n
      /\ E \cap Matches(t, a, now) = {}
      /\ w.same_address_found = Cardinality(E \cap OfHost(t, a, now))
  BY DEF StandsAt, Buckets
<1>2. /\ C \subseteq UsedSlots(t) /\ C \subseteq Slots
      /\ \A x, y \in C : /\ <<x, y>> \in t.ahead => <<y, x>> \notin t.ahead
                         /\ x # y => <<x, y>> \in t.ahead \/ <<y, x>> \in t.ahead
  BY <1>1, ChainOrder
<1>3. /\ c = Alone(Sv_RemoveAll(t, H))
      /\ c.t.servers[i].address = a <=> i \in Matches(t, a, now)
      /\ (Active(c.t, i, now) /\ PublicOf[c.t.servers[i].address] = PublicOf[a])
           <=> i \in OfHost(t, a, now)
      /\ Expired(t, i, now) => i \notin Matches(t, a, now)
  BY TurnLooks
<1>4. \/ k = -1 /\ C = E \cup {i}
      \/ k \in C /\ Earlier(t, b, k) = E \cup {i}
  BY TurnNext
<1>5. E \subseteq C /\ i \notin E /\ E \subseteq Slots
  BY <1>1, <1>2 DEF Earlier
<1>6. i # -1
  <2>1. Slots \subseteq Nat /\ i \in Slots
    BY <1>1, <1>2, SlotsFinite
  <2> QED
    BY <2>1
<1>7. q = IF c.t.servers[i].address = a
            THEN [c |-> [c EXCEPT !.t = MoveToTop(@, i, b)], sv |-> -1,
                  same_address_found |-> w.same_address_found + same]
            ELSE [c |-> c, sv |-> k, same_address_found |-> w.same_address_found + same]
  BY <1>6 DEF WalkTurn
<1>8. same = IF i \in OfHost(t, a, now) THEN 1 ELSE 0
  BY <1>3
<1> HIDE DEF q, same, c, k, E, i
<1>9. w.same_address_found + same = Cardinality((E \cup {i}) \cap OfHost(t, a, now))
  <2> DEFINE X == E \cap OfHost(t, a, now)
  <2>1. IsFiniteSet(X) /\ Cardinality(X) \in Nat
    <3>1. X \subseteq Slots
      BY <1>5
    <3> HIDE DEF X
    <3> QED
      BY <3>1, SlotsFinite
  <2>2. (E \cup {i}) \cap OfHost(t, a, now) = IF i \in OfHost(t, a, now) THEN X \cup {i} ELSE X
    OBVIOUS
  <2>3. i \notin X
    BY <1>5
  <2>4. w.same_address_found = Cardinality(X)
    BY <1>1
  <2> HIDE DEF X
  <2>5. Cardinality(X \cup {i}) = Cardinality(X) + 1
    BY <2>1, <2>3, FS_AddElement
  <2> QED
    BY <1>8, <2>1, <2>2, <2>4, <2>5
<1>10. CASE i \in Matches(t, a, now)
  <2>1. q = [c |-> [c EXCEPT !.t = MoveToTop(@, i, b)], sv |-> -1,
             same_address_found |-> w.same_address_found + same]
    BY <1>3, <1>7, <1>10
  <2>2. q.sv = -1 /\ q.c.t = MoveToTop(Sv_RemoveAll(t, H), i, b)
    <3> HIDE DEF H
    <3> QED
      BY <1>3, <2>1 DEF Alone, Cursors
  <2>3. \A j \in Matches(t, a, now) : j = i
    BY <1>10 DEF TableInv, Unique, Matches, Active
  <2>4. FoundSlot(t, a, now) = i
    <3>1. FoundSlot(t, a, now) \in Matches(t, a, now)
      <4>1. \A j \in Matches(t, a, now) \ {i} : <<i, j>> \in t.ahead
        BY <2>3
      <4> QED
        BY <1>10, <4>1 DEF FoundSlot
    <3> QED
      BY <2>3, <3>1
  <2>5. Walked(t, a, now) = E
    BY <1>10, <2>4 DEF Walked, E, Earlier
  <2>6. H = {j \in Walked(t, a, now) : Expired(t, j, now)}
    BY <1>3, <1>10, <2>5
  <2>7. Sv_GetByAddr_Internal(t, a, now) = MoveToTop(Sv_RemoveAll(t, H), i, b)
    BY <1>10, <2>4, <2>6 DEF Sv_GetByAddr_Internal
  <2>8. IsOver(t, a, now, q)
    <3> HIDE DEF H
    <3> QED
      BY <1>10, <2>2, <2>7 DEF IsOver
  <2> QED
    BY <2>8 DEF q
<1>11. CASE i \notin Matches(t, a, now)
  <2>1. /\ q.c = c
        /\ q.sv = k
        /\ q.same_address_found = w.same_address_found + same
    BY <1>3, <1>7, <1>11
  <2>2. (E \cup {i}) \cap Matches(t, a, now) = {}
    BY <1>1, <1>11
  <2>3. CASE k = -1 /\ C = E \cup {i}
    <3>1. Matches(t, a, now) = {}
      BY <2>2, <2>3 DEF Matches
    <3>2. H = {j \in C : Expired(t, j, now)}
      BY <2>3
    <3> HIDE DEF H
    <3>3. IsOver(t, a, now, q)
      BY <1>3, <1>9, <2>1, <2>3, <3>1, <3>2, PassedAll
    <3> QED
      BY <3>3 DEF q
  <2>4. CASE k \in C /\ Earlier(t, b, k) = E \cup {i}
    <3>1. Cardinality(E \cup {i}) = n + 1
      <4>1. IsFiniteSet(E)
        BY <1>5, SlotsFinite
      <4> QED
        BY <1>1, <1>5, <4>1, FS_AddElement
    <3>2. StandsAt(t, a, now, q, n + 1)
      BY <1>3, <1>9, <2>1, <2>2, <2>4, <3>1 DEF StandsAt
    <3> QED
      BY <3>2 DEF q
  <2> QED
    BY <1>4, <2>3, <2>4
<1> QED
  BY <1>10, <1>11

\* The walk begins at the head of the chain.
LEMMA WalkStart ==
  ASSUME NEW t, TableInv(t), NEW a \in Addresses, NEW now \in Int
  PROVE  LET w == [c |-> Alone(t), sv |-> FirstOf(t, t.chain[BucketOf[a]]), same_address_found |-> 0]
         IN  StandsAt(t, a, now, w, 0) \/ IsOver(t, a, now, w)
<1> DEFINE b == BucketOf[a]
           C == t.chain[b]
           k == FirstOf(t, C)
           w == [c |-> Alone(t), sv |-> k, same_address_found |-> 0]
<1>1. b \in Buckets /\ t \in Tables
  BY DEF Buckets, TableInv
<1>2. Sv_RemoveAll(t, {}) = t
  BY <1>1, RemoveNone
<1>3. Cardinality({}) = 0
  BY FS_EmptySet
<1>4. w.c = Alone(t) /\ w.sv = k /\ w.same_address_found = 0
  OBVIOUS
<1>5. CASE C = {}
  <2>1. k = -1 /\ Matches(t, a, now) = {}
    BY <1>5 DEF FirstOf, Matches
  <2>2. {j \in C : Expired(t, j, now)} = {} /\ C \cap OfHost(t, a, now) = {}
    BY <1>5
  <2> HIDE DEF w, k
  <2>3. IsOver(t, a, now, w)
    BY <1>2, <1>3, <1>4, <2>1, <2>2, PassedAll
  <2> QED
    BY <2>3 DEF w, k
<1>6. CASE C # {}
  <2>1. k \in C /\ \A j \in C \ {k} : <<k, j>> \in t.ahead
    BY <1>1, <1>6, FirstIs
  <2> HIDE DEF w, k
  <2>2. Earlier(t, b, k) = {}
    BY <1>1, <2>1, ChainOrder DEF Earlier
  <2>3. {j \in Earlier(t, b, k) : Expired(t, j, now)} = {}
    BY <2>2
  <2>4. StandsAt(t, a, now, w, 0)
    BY <1>2, <1>3, <1>4, <2>1, <2>2, <2>3 DEF StandsAt
  <2> QED
    BY <2>4 DEF w, k
<1> QED
  BY <1>5, <1>6

\* The equation of the walk.
WalkRuns(f, c, a, now) ==
  f = [n \in 0 .. max_nb_servers |->
         IF n = 0
           THEN [c |-> c, sv |-> FirstOf(c.t, c.t.chain[BucketOf[a]]), same_address_found |-> 0]
           ELSE WalkTurn(f[n - 1], a, now)]

\* There is a function that satisfies it.
LEMMA WalkDefined ==
  ASSUME NEW c, NEW a, NEW now
  PROVE  \E f : WalkRuns(f, c, a, now)
<1> DEFINE N == max_nb_servers
           w == [c |-> c, sv |-> FirstOf(c.t, c.t.chain[BucketOf[a]]), same_address_found |-> 0]
           holds == {m \in 0 .. N :
                       \E h : h[0] = w /\ \A n \in 1 .. m : h[n] = WalkTurn(h[n - 1], a, now)}
<1>1. N \in Nat
  BY SizeAssumption
<1> HIDE DEF w
<1>2. 0 \in holds
  <2> DEFINE h == [n \in 0 .. N |-> w]
  <2>1. 0 \in 0 .. N /\ h[0] = w
    BY <1>1
  <2> HIDE DEF h
  <2> QED
    BY <1>1, <2>1
<1>3. ASSUME NEW m \in 1 .. N, m - 1 \in holds
      PROVE  m \in holds
  <2>1. PICK h : h[0] = w /\ \A n \in 1 .. m - 1 : h[n] = WalkTurn(h[n - 1], a, now)
    BY <1>3
  <2> DEFINE g == [n \in 0 .. N |-> IF n = m THEN WalkTurn(h[m - 1], a, now) ELSE h[n]]
  <2>2. \A n \in 0 .. N : n # m => g[n] = h[n]
    OBVIOUS
  <2>3. m \in 0 .. N /\ g[m] = WalkTurn(h[m - 1], a, now)
    BY <1>1
  <2> HIDE DEF g
  <2>4. g[0] = w
    BY <1>1, <2>1, <2>2
  <2>5. ASSUME NEW n \in 1 .. m
        PROVE  g[n] = WalkTurn(g[n - 1], a, now)
    <3>1. n \in 0 .. N /\ n - 1 \in 0 .. N /\ n - 1 # m /\ (n = m \/ n \in 1 .. m - 1)
      BY <1>1
    <3>2. g[n - 1] = h[n - 1]
      BY <2>2, <3>1
    <3>3. CASE n = m
      BY <2>3, <3>2, <3>3
    <3>4. CASE n # m
      BY <2>1, <2>2, <3>1, <3>2, <3>4
    <3> QED
      BY <3>3, <3>4
  <2> QED
    BY <2>3, <2>4, <2>5
<1>4. N \in holds
  <2> HIDE DEF holds
  <2> QED
    BY <1>1, <1>2, <1>3, EveryTurn
<1>5. PICK h : h[0] = w /\ \A n \in 1 .. N : h[n] = WalkTurn(h[n - 1], a, now)
  BY <1>4
<1> DEFINE f == [n \in 0 .. N |-> h[n]]
<1>6. \A n \in 0 .. N : f[n] = IF n = 0 THEN w ELSE WalkTurn(f[n - 1], a, now)
  <2> TAKE n \in 0 .. N
  <2>1. n = 0 \/ (n \in 1 .. N /\ n - 1 \in 0 .. N)
    BY <1>1
  <2> QED
    BY <1>5, <2>1
<1>7. f = [n \in 0 .. N |-> f[n]]
  OBVIOUS
<1> HIDE DEF f
<1>8. WalkRuns(f, c, a, now)
  BY <1>6, <1>7 DEF WalkRuns, w
<1> QED
  BY <1>8

\* The walk comes to an end and does what Sv_GetByAddr_Internal defines.
LEMMA WalkIs ==
  ASSUME NEW t, TableInv(t), NEW a \in Addresses, NEW now \in Int
  PROVE  IsOver(t, a, now, WalkChain(Alone(t), a, now))
<1> DEFINE N == max_nb_servers
           f == CHOOSE f : WalkRuns(f, Alone(t), a, now)
           holds == {n \in 0 .. N : StandsAt(t, a, now, f[n], n) \/ IsOver(t, a, now, f[n])}
<1>1. N \in Nat /\ Slots = 0 .. N - 1
  BY SizeAssumption DEF Slots
<1>2. WalkRuns(f, Alone(t), a, now)
  BY WalkDefined
<1>3. WalkChain(Alone(t), a, now) = f[N]
  BY DEF WalkChain, WalkRuns
<1> HIDE DEF f
<1>4. /\ f[0] = [c |-> Alone(t), sv |-> FirstOf(t, t.chain[BucketOf[a]]), same_address_found |-> 0]
      /\ \A n \in 1 .. N : f[n] = WalkTurn(f[n - 1], a, now)
  <2>1. Alone(t).t = t
    BY DEF Alone, Cursors
  <2>2. \A n \in 0 .. N :
          f[n] = IF n = 0
                   THEN [c |-> Alone(t), sv |-> FirstOf(t, t.chain[BucketOf[a]]),
                         same_address_found |-> 0]
                   ELSE WalkTurn(f[n - 1], a, now)
    BY <1>2, <2>1 DEF WalkRuns
  <2>3. 0 \in 0 .. N /\ \A n \in 1 .. N : n \in 0 .. N /\ n # 0
    BY <1>1
  <2> QED
    BY <2>2, <2>3
<1>5. 0 \in holds
  BY <1>1, <1>4, WalkStart
<1>6. ASSUME NEW n \in 1 .. N, n - 1 \in holds
      PROVE  n \in holds
  <2>1. n - 1 \in Nat /\ n \in 0 .. N /\ n - 1 + 1 = n /\ f[n] = WalkTurn(f[n - 1], a, now)
    BY <1>1, <1>4
  <2>2. CASE StandsAt(t, a, now, f[n - 1], n - 1)
    <3>1. StandsAt(t, a, now, f[n], n - 1 + 1) \/ IsOver(t, a, now, f[n])
      BY <2>1, <2>2, WalkStep
    <3> QED
      BY <2>1, <3>1
  <2>3. CASE IsOver(t, a, now, f[n - 1])
    <3>1. f[n] = f[n - 1]
      BY <2>1, <2>3 DEF IsOver, WalkTurn
    <3> QED
      BY <2>1, <2>3, <3>1
  <2> QED
    BY <1>6, <2>2, <2>3
<1>7. N \in holds
  <2> HIDE DEF holds
  <2> QED
    BY <1>1, <1>5, <1>6, EveryTurn
<1>8. ~ StandsAt(t, a, now, f[N], N)
  <2> SUFFICES ASSUME StandsAt(t, a, now, f[N], N)
               PROVE  FALSE
    OBVIOUS
  <2> DEFINE i == f[N].sv
             E == Earlier(t, BucketOf[a], i)
  <2>1. i \in t.chain[BucketOf[a]] /\ Cardinality(E) = N /\ BucketOf[a] \in Buckets
    BY DEF StandsAt, Buckets
  <2> HIDE DEF i
  <2>2. i \in Slots /\ E \subseteq Slots /\ i \notin E
    BY <2>1, ChainOrder DEF Earlier
  <2> HIDE DEF E
  <2>3. E = Slots
    BY <2>1, <2>2, AllSlots, SubsetCardinality
  <2> QED
    BY <2>2, <2>3
<1> QED
  BY <1>3, <1>7, <1>8

----------------------------------------------------------------------------
(* Sv_GetFirst and Sv_GetNext.                                             *)

\* The expired ones of some slots, and how often each slot has been returned
\* once they have been visited.
Dead(t, X, now) == {i \in X : Expired(t, i, now)}

Tally(t, X, now) == [i \in Slots |-> IF i \in X /\ Active(t, i, now) THEN 1 ELSE 0]

\* A visit to one more slot.
LEMMA VisitIs ==
  ASSUME NEW t \in Tables, NEW now \in Int, NEW X, X \subseteq Slots, NEW i \in Slots \ X,
         NEW crt, NEW last
  PROVE  LET r == Sv_RemoveAll(t, Dead(t, X \cup {i}, now))
             v == Visit(Cursors(Sv_RemoveAll(t, Dead(t, X, now)), crt, last), Tally(t, X, now), i, now)
         IN  /\ Expired(t, i, now) => v = [c        |-> Cursors(r, Within(i, r), Within(last, r)),
                                           returned |-> Tally(t, X \cup {i}, now)]
             /\ ~ Expired(t, i, now) => v = [c        |-> Cursors(r, i, last),
                                             returned |-> Tally(t, X \cup {i}, now)]
<1> DEFINE S == Dead(t, X, now)
           r == Sv_RemoveAll(t, Dead(t, X \cup {i}, now))
           s == Sv_RemoveAll(t, S)
           next == Sv_IsActive(Cursors(s, i, last), i, now)
<1>1. S \subseteq UsedSlots(t) /\ i \in Slots \ S
  BY DEF Dead, Expired
<1>2. Dead(t, X \cup {i}, now) = IF Expired(t, i, now) THEN S \cup {i} ELSE S
  BY DEF Dead
<1>3. /\ next = IF Expired(t, i, now)
                  THEN Cursors(Sv_RemoveAll(t, S \cup {i}),
                               Within(i, Sv_RemoveAll(t, S \cup {i})),
                               Within(last, Sv_RemoveAll(t, S \cup {i})))
                  ELSE Cursors(s, i, last)
      /\ Active(next.t, i, now) <=> Active(t, i, now)
  <2> HIDE DEF S
  <2> QED
    BY <1>1, LookAt
<1>4. next = IF Expired(t, i, now)
               THEN Cursors(r, Within(i, r), Within(last, r))
               ELSE Cursors(r, i, last)
  BY <1>2, <1>3
<1>5. [Cursors(s, crt, last) EXCEPT !.crt_server_ind = i] = Cursors(s, i, last)
  BY DEF Cursors
<1>6. (IF Active(next.t, i, now)
         THEN [Tally(t, X, now) EXCEPT ![i] = @ + 1]
         ELSE Tally(t, X, now)) = Tally(t, X \cup {i}, now)
  <2> HIDE DEF next
  <2> QED
    BY <1>3 DEF Tally
<1>7. Visit(Cursors(s, crt, last), Tally(t, X, now), i, now)
        = [c |-> next, returned |-> Tally(t, X \cup {i}, now)]
  <2>1. Visit(Cursors(s, crt, last), Tally(t, X, now), i, now)
          = [c |-> next,
             returned |-> IF Active(next.t, i, now)
                            THEN [Tally(t, X, now) EXCEPT ![i] = @ + 1]
                            ELSE Tally(t, X, now)]
    BY <1>5 DEF Visit
  <2> QED
    BY <1>6, <2>1
<1> HIDE DEF next, r, s, S
<1> QED
  BY <1>4, <1>7 DEF r, s, S

\* Nothing is active from the start k of the iteration to the end of the list.
Fruitless(t, k, now) == k > 0 /\ \A i \in k .. t.last_used_slot : ~ Active(t, i, now)

\* The slots visited after n calls of Sv_GetNext.
Seen(t, k, now, n) ==
  IF k + n <= t.last_used_slot
    THEN k .. k + n
    ELSE IF Fruitless(t, k, now)
      THEN k .. t.last_used_slot
      ELSE (k .. t.last_used_slot) \cup {i \in 0 .. k - 1 : i < k + n - t.last_used_slot}

LeftBy(t, X, now) == Sv_RemoveAll(t, Dead(t, X, now))

\* Where the removals leave last_used_slot: above k as long as something from
\* k on is active, and below k otherwise, once the end of the list is reached.
LEMMA LastLeft ==
  ASSUME NEW t, TableInv(t), NEW now \in Int, NEW k \in 0 .. t.last_used_slot,
         NEW X, X \subseteq Slots
  PROVE  LET L == t.last_used_slot
             r == LeftBy(t, X, now)
         IN  /\ r \in Tables
             /\ r.last_used_slot \in Int /\ -1 <= r.last_used_slot /\ r.last_used_slot <= L
             /\ L \notin X \/ ~ Expired(t, L, now) => r.last_used_slot = L
             /\ ~ Fruitless(t, k, now) /\ k > 0 => r.last_used_slot >= k
             /\ Fruitless(t, k, now) => Expired(t, L, now)
             /\ Fruitless(t, k, now) /\ X = k .. L => r.last_used_slot < k
<1> DEFINE L == t.last_used_slot
           S == Dead(t, X, now)
           U == UsedSlots(t)
           r == Sv_RemoveAll(t, S)
<1>1. t \in Tables /\ Accounted(t)
  BY DEF TableInv
<1>2. L \in Slots /\ L \in Nat /\ k \in Nat /\ k <= L /\ U \subseteq Slots /\ Slots \subseteq Nat
  <2>1. L \in Slots \cup {-1} /\ L \in Int /\ U \subseteq Slots /\ Slots \subseteq Nat
    BY <1>1, CursorTypes
  <2>2. L # -1
    BY <2>1
  <2> QED
    BY <2>1, <2>2
<1>3. L \in U
  BY <1>1, <1>2 DEF Accounted
<1>4. S \subseteq U
  BY DEF Dead, Expired
<1>5. \A i \in U : Expired(t, i, now) <=> ~ Active(t, i, now)
  <2> TAKE i \in U
  <2>1. t.servers[i].timeout \in Int
    BY <1>1, TimeAssumption DEF Tables, UsedSlots, Servers, FreeSlot, Deadlines
  <2> QED
    BY <2>1 DEF Active, Expired
<1>6. /\ r \in Tables
      /\ r.last_used_slot = IF L \in S THEN Max(Below(U \ S, L)) ELSE L
      /\ r.last_used_slot <= L
  <2> HIDE DEF S
  <2> QED
    BY <1>1, <1>4, RemoveAllTable
<1>7. r.last_used_slot \in Int /\ -1 <= r.last_used_slot
  <2> HIDE DEF r
  <2>1. r.last_used_slot \in Slots \cup {-1} /\ r.last_used_slot \in Int
    BY <1>6, CursorTypes
  <2> QED
    BY <1>2, <2>1
<1>8. L \in S => LET m == Max(Below(U \ S, L))
                 IN  /\ m \in (U \ S) \cup {-1}
                     /\ \A j \in U \ S : j < L => j <= m
                     /\ m < L
  <2> DEFINE V == U \ S
  <2>1. V \subseteq Slots /\ L \in Int /\ L >= 0
    BY <1>2
  <2> HIDE DEF V
  <2>2. LET m == Max(Below(V, L))
        IN  m \in V \cup {-1} /\ m < L /\ \A j \in V : j < L => j <= m
    BY <2>1, LargestBelow
  <2> QED
    BY <2>2 DEF V
<1>9. L \in S <=> L \in X /\ Expired(t, L, now)
  BY DEF Dead
<1>10. \A i \in S : Expired(t, i, now)
  BY DEF Dead
<1>11. \A i \in X : Expired(t, i, now) => i \in S
  BY DEF Dead
<1> HIDE DEF r, S
<1>12. ASSUME ~ Fruitless(t, k, now), k > 0
       PROVE  r.last_used_slot >= k
  <2>1. PICK j \in k .. L : Active(t, j, now)
    BY <1>12 DEF Fruitless
  <2>2. j \in U /\ j \notin S
    BY <1>5, <1>10, <2>1 DEF Active
  <2>3. CASE L \in S
    <3>1. j # L /\ j < L
      BY <1>2, <2>1, <2>2, <2>3
    <3>2. j <= r.last_used_slot
      BY <1>6, <1>8, <2>2, <2>3, <3>1
    <3> QED
      BY <1>2, <1>7, <2>1, <3>2
  <2>4. CASE L \notin S
    BY <1>2, <1>6, <2>4
  <2> QED
    BY <2>3, <2>4
<1>13. ASSUME Fruitless(t, k, now)
       PROVE  Expired(t, L, now)
  <2>1. L \in k .. L
    BY <1>2
  <2> QED
    BY <1>3, <1>5, <1>13, <2>1 DEF Fruitless
<1>14. ASSUME Fruitless(t, k, now), X = k .. L
       PROVE  r.last_used_slot < k
  <2>1. L \in S
    BY <1>2, <1>9, <1>13, <1>14
  <2> DEFINE m == r.last_used_slot
  <2>2. m \in (U \ S) \cup {-1} /\ m < L /\ m \in Int
    BY <1>6, <1>7, <1>8, <2>1
  <2> HIDE DEF m
  <2>3. CASE m \in U \ S
    <3> SUFFICES ASSUME m >= k
                 PROVE  FALSE
      BY <1>2, <2>2 DEF m
    <3>1. m \in k .. L
      BY <1>2, <2>2
    <3>2. Expired(t, m, now)
      BY <1>5, <1>14, <2>3, <3>1 DEF Fruitless
    <3> QED
      BY <1>11, <1>14, <2>3, <3>1, <3>2
  <2>4. CASE m = -1
    BY <1>2, <2>4 DEF m
  <2> QED
    BY <2>2, <2>3, <2>4
<1>15. LeftBy(t, X, now) = r
  BY DEF LeftBy, r, S
<1>16. L \notin X \/ ~ Expired(t, L, now) => r.last_used_slot = L
  BY <1>6, <1>9
<1> QED
  BY <1>6, <1>7, <1>12, <1>13, <1>14, <1>15, <1>16

\* The iteration after n calls of Sv_GetNext.  It runs up to the last used
\* slot; there both cursors meet if it began at 0 or nothing from its start on
\* was active, and else it goes on from 0 up to the slot before its start.
BrowseAfter(t, k, now, n) ==
  LET L    == t.last_used_slot
      X    == Seen(t, k, now, n)
      r    == LeftBy(t, X, now)
      ends == k = 0 \/ Fruitless(t, k, now)
      turn == k + n - L - 1
  IN  [c |-> Cursors(r,
               IF k + n < L
                 THEN k + n
                 ELSE IF k + n = L \/ ends
                   THEN r.last_used_slot
                   ELSE IF turn < k - 1 THEN turn ELSE k - 1,
               IF k + n < L
                 THEN IF k = 0 THEN L ELSE k - 1
                 ELSE IF ends THEN r.last_used_slot ELSE k - 1),
       returned |-> Tally(t, X, now)]

\* A visit on the way up to the last used slot, or to that slot.
LEMMA VisitUpwards ==
  ASSUME NEW t, TableInv(t), NEW now \in Int, NEW k \in 0 .. t.last_used_slot,
         NEW n \in Nat, k + n <= t.last_used_slot, NEW crt
  PROVE  Visit(Cursors(LeftBy(t, k .. (k + n - 1), now), crt,
                       IF k = 0 THEN t.last_used_slot ELSE k - 1),
               Tally(t, k .. (k + n - 1), now), k + n, now)
           = BrowseAfter(t, k, now, n)
<1> DEFINE L == t.last_used_slot
           X == k .. (k + n - 1)
           Y == k .. k + n
           r == LeftBy(t, Y, now)
           last == IF k = 0 THEN L ELSE k - 1
<1>1. t \in Tables
  BY DEF TableInv
<1>2. L \in Slots /\ L \in Nat /\ k \in Nat /\ k <= L /\ Slots = 0 .. max_nb_servers - 1
      /\ max_nb_servers \in Nat
  <2>1. L \in Slots \cup {-1} /\ L \in Int /\ Slots \subseteq Nat
    BY <1>1, CursorTypes
  <2>2. L # -1
    BY <2>1
  <2> QED
    BY <2>1, <2>2, SizeAssumption DEF Slots
<1>3. PICK i \in Slots : i = k + n
  BY <1>2
<1>4. X \subseteq Slots /\ Y \subseteq Slots /\ i \in Slots \ X /\ Y = X \cup {i}
  BY <1>2, <1>3
<1>5. LET v == Visit(Cursors(LeftBy(t, X, now), crt, last), Tally(t, X, now), i, now)
      IN  /\ Expired(t, i, now) => v = [c        |-> Cursors(r, Within(i, r), Within(last, r)),
                                        returned |-> Tally(t, Y, now)]
          /\ ~ Expired(t, i, now) => v = [c |-> Cursors(r, i, last), returned |-> Tally(t, Y, now)]
  <2> HIDE DEF X, Y, last
  <2>1. LET q == Sv_RemoveAll(t, Dead(t, X \cup {i}, now))
            v == Visit(Cursors(Sv_RemoveAll(t, Dead(t, X, now)), crt, last), Tally(t, X, now), i, now)
        IN  /\ Expired(t, i, now) => v = [c        |-> Cursors(q, Within(i, q), Within(last, q)),
                                          returned |-> Tally(t, X \cup {i}, now)]
            /\ ~ Expired(t, i, now) => v = [c        |-> Cursors(q, i, last),
                                            returned |-> Tally(t, X \cup {i}, now)]
    BY <1>1, <1>4, VisitIs
  <2> QED
    BY <1>4, <2>1 DEF LeftBy
<1>6. /\ r.last_used_slot \in Int /\ -1 <= r.last_used_slot /\ r.last_used_slot <= L
      /\ L \notin Y \/ ~ Expired(t, L, now) => r.last_used_slot = L
      /\ ~ Fruitless(t, k, now) /\ k > 0 => r.last_used_slot >= k
      /\ Fruitless(t, k, now) => Expired(t, L, now)
      /\ Fruitless(t, k, now) /\ Y = k .. L => r.last_used_slot < k
  <2> HIDE DEF Y
  <2> QED
    BY <1>4, LastLeft
<1>7. Seen(t, k, now, n) = Y
  BY DEF Seen
<1>8. Fruitless(t, k, now) => k > 0
  BY DEF Fruitless
<1>9. BrowseAfter(t, k, now, n) =
        [c |-> Cursors(r,
                 IF k + n < L THEN k + n ELSE r.last_used_slot,
                 IF k + n < L
                   THEN last
                   ELSE IF k = 0 \/ Fruitless(t, k, now) THEN r.last_used_slot ELSE k - 1),
         returned |-> Tally(t, Y, now)]
  <2>1. k + n < L \/ k + n = L
    BY <1>2
  <2> HIDE DEF r
  <2> QED
    BY <1>7, <2>1 DEF BrowseAfter, r
<1> HIDE DEF r, last
<1>10. CASE k + n < L
  <2>1. L \notin Y
    BY <1>2, <1>10
  <2>2. r.last_used_slot = L
    BY <1>6, <2>1
  <2>3. Within(i, r) = i /\ Within(last, r) = last
    BY <1>2, <1>3, <1>10, <2>2 DEF Within, last
  <2> HIDE DEF X, Y
  <2>4. BrowseAfter(t, k, now, n) = [c |-> Cursors(r, i, last), returned |-> Tally(t, Y, now)]
    BY <1>3, <1>9, <1>10
  <2> QED
    BY <1>3, <1>5, <2>3, <2>4 DEF X, last
<1>11. CASE k + n = L
  <2>1. i = L /\ Y = k .. L
    BY <1>3, <1>11
  <2>2. Within(i, r) = r.last_used_slot
    BY <1>2, <1>6, <2>1 DEF Within
  <2> DEFINE end == IF k = 0 \/ Fruitless(t, k, now) THEN r.last_used_slot ELSE k - 1
  <2>3. Within(last, r) = end
    <3>1. CASE k = 0
      BY <1>2, <1>6, <3>1 DEF Within, last
    <3>2. CASE Fruitless(t, k, now)
      <4>1. k > 0 /\ last = k - 1 /\ r.last_used_slot < k
        BY <1>2, <1>6, <1>8, <2>1, <3>2 DEF last
      <4> QED
        BY <1>2, <1>6, <3>2, <4>1 DEF Within
    <3>3. CASE ~ (k = 0 \/ Fruitless(t, k, now))
      <4>1. k > 0 /\ last = k - 1 /\ r.last_used_slot >= k
        BY <1>2, <1>6, <3>3 DEF last
      <4> QED
        BY <1>2, <1>6, <3>3, <4>1 DEF Within
    <3> QED
      BY <3>1, <3>2, <3>3
  <2>4. ~ Expired(t, L, now) => r.last_used_slot = L /\ ~ Fruitless(t, k, now)
    BY <1>6
  <2>5. ~ Expired(t, L, now) => last = end
    BY <2>4 DEF last
  <2>6. BrowseAfter(t, k, now, n)
          = [c |-> Cursors(r, r.last_used_slot, end), returned |-> Tally(t, Y, now)]
    BY <1>2, <1>9, <1>11
  <2> HIDE DEF X, Y, end
  <2>7. Visit(Cursors(LeftBy(t, X, now), crt, last), Tally(t, X, now), i, now)
          = [c |-> Cursors(r, r.last_used_slot, end), returned |-> Tally(t, Y, now)]
    BY <1>5, <2>1, <2>2, <2>3, <2>4, <2>5
  <2> QED
    BY <1>3, <2>6, <2>7 DEF X, last
<1> QED
  BY <1>2, <1>10, <1>11

\* The iteration begins with a visit to its start.
LEMMA BrowseStart ==
  ASSUME NEW t, TableInv(t), NEW now \in Int, NEW k \in 0 .. t.last_used_slot
  PROVE  Sv_GetFirst(t, k, now) = BrowseAfter(t, k, now, 0)
<1> DEFINE last == IF k = 0 THEN t.last_used_slot ELSE k - 1
<1>1. t \in Tables
  BY DEF TableInv
<1>2. k \in Nat /\ t.last_used_slot \in Int /\ k <= t.last_used_slot
  BY <1>1, CursorTypes
<1>3. k .. (k + 0 - 1) = {} /\ k + 0 = k /\ k + 0 <= t.last_used_slot
  BY <1>2
<1>4. LeftBy(t, {}, now) = t
  <2>1. Dead(t, {}, now) = {}
    BY DEF Dead
  <2> QED
    BY <1>1, <2>1, RemoveNone DEF LeftBy
<1>5. Tally(t, {}, now) = [i \in Slots |-> 0]
  BY DEF Tally
<1>6. PICK n \in Nat : n = 0
  OBVIOUS
<1>7. Visit(Cursors(LeftBy(t, k .. (k + n - 1), now), k, last),
            Tally(t, k .. (k + n - 1), now), k + n, now)
        = BrowseAfter(t, k, now, n)
  BY <1>3, <1>6, VisitUpwards
<1> HIDE DEF last
<1>8. Visit(Cursors(t, k, last), [i \in Slots |-> 0], k, now) = BrowseAfter(t, k, now, 0)
  BY <1>3, <1>4, <1>5, <1>6, <1>7
<1> QED
  BY <1>8 DEF Sv_GetFirst, last

\* Turning the position around at the end of the list.
LEMMA Wraps ==
  ASSUME NEW x \in Nat, NEW y \in Nat
  PROVE  /\ x < y => x % (y + 1) = x
         /\ (y + 1) % (y + 1) = 0
  OBVIOUS

\* Sv_GetNext goes on, unless the cursors have met.
LEMMA NextIs ==
  ASSUME NEW r, NEW crt, NEW last, NEW returned, NEW now
  PROVE  LET g == [c |-> Cursors(r, crt, last), returned |-> returned]
         IN  Sv_GetNext(g, now) =
               IF crt = last
                 THEN g
                 ELSE Visit(Cursors(r, crt, last), returned, (crt + 1) % (r.last_used_slot + 1), now)
  BY DEF Sv_GetNext, Cursors

\* On the way up.
LEMMA BrowseUpwards ==
  ASSUME NEW t, TableInv(t), NEW now \in Int, NEW k \in 0 .. t.last_used_slot,
         NEW n \in Nat, n >= 1, k + n <= t.last_used_slot
  PROVE  Sv_GetNext(BrowseAfter(t, k, now, n - 1), now) = BrowseAfter(t, k, now, n)
<1> DEFINE L == t.last_used_slot
           X == k .. (k + n - 1)
           r == LeftBy(t, X, now)
           last == IF k = 0 THEN L ELSE k - 1
           crt == k + (n - 1)
<1>1. t \in Tables
  BY DEF TableInv
<1>2. L \in Nat /\ k \in Nat /\ k <= L /\ Slots = 0 .. max_nb_servers - 1 /\ L \in Slots
      /\ max_nb_servers \in Nat
  <2>1. L \in Slots \cup {-1} /\ L \in Int /\ Slots \subseteq Nat
    BY <1>1, CursorTypes
  <2>2. L # -1
    BY <2>1
  <2> QED
    BY <2>1, <2>2, SizeAssumption DEF Slots
<1>3. k + (n - 1) < L /\ k + (n - 1) = k + n - 1
  BY <1>2
<1>4. Seen(t, k, now, n - 1) = X
  <2>1. k + (n - 1) <= L /\ k .. k + (n - 1) = X
    BY <1>2, <1>3
  <2> HIDE DEF X
  <2> QED
    BY <2>1 DEF Seen
<1>5. X \subseteq Slots /\ L \notin X
  BY <1>2
<1>6. r.last_used_slot = L
  <2> HIDE DEF X
  <2> QED
    BY <1>5, LastLeft
<1>7. BrowseAfter(t, k, now, n - 1) = [c |-> Cursors(r, crt, last), returned |-> Tally(t, X, now)]
  BY <1>3, <1>4 DEF BrowseAfter
<1>8. crt # last
  BY <1>2, <1>3
<1>9. (crt + 1) % (r.last_used_slot + 1) = k + n
  <2>1. crt + 1 = k + n /\ k + n \in Nat /\ k + n <= L
    BY <1>2
  <2>2. (k + n) % (L + 1) = k + n
    BY <1>2, <2>1
  <2> HIDE DEF crt, r
  <2> QED
    BY <1>6, <2>1, <2>2
<1>10. Sv_GetNext(BrowseAfter(t, k, now, n - 1), now)
         = Visit(Cursors(r, crt, last), Tally(t, X, now), k + n, now)
  <2> HIDE DEF r, crt, last, X
  <2> QED
    BY <1>7, <1>8, <1>9, NextIs
<1>11. Visit(Cursors(r, crt, last), Tally(t, X, now), k + n, now) = BrowseAfter(t, k, now, n)
  <2> HIDE DEF crt
  <2> QED
    BY VisitUpwards
<1> QED
  BY <1>10, <1>11

\* Once the cursors have met at the end of the list, the iteration is over.
LEMMA BrowseEnded ==
  ASSUME NEW t, TableInv(t), NEW now \in Int, NEW k \in 0 .. t.last_used_slot,
         NEW n \in Nat, n >= 1, k + n > t.last_used_slot, k = 0 \/ Fruitless(t, k, now)
  PROVE  Sv_GetNext(BrowseAfter(t, k, now, n - 1), now) = BrowseAfter(t, k, now, n)
<1> DEFINE L == t.last_used_slot
           X == k .. L
           r == LeftBy(t, X, now)
<1>1. L \in Int /\ k \in Nat
  BY CursorTypes DEF TableInv
<1>2. k + (n - 1) = L \/ k + (n - 1) > L
  BY <1>1
<1>3. \A m \in Nat : k + m >= L => Seen(t, k, now, m) = X
  <2> TAKE m \in Nat
  <2>1. ASSUME k + m = L
        PROVE  Seen(t, k, now, m) = X
    BY <1>1, <2>1 DEF Seen
  <2>2. ASSUME k + m > L
        PROVE  Seen(t, k, now, m) = X
    <3>1. CASE Fruitless(t, k, now)
      BY <1>1, <2>2, <3>1 DEF Seen
    <3>2. CASE k = 0 /\ ~ Fruitless(t, k, now)
      <4>1. {i \in 0 .. k - 1 : i < k + m - L} = {}
        BY <3>2
      <4>2. Seen(t, k, now, m) = X \cup {i \in 0 .. k - 1 : i < k + m - L}
        BY <1>1, <2>2, <3>2 DEF Seen
      <4> QED
        BY <4>1, <4>2
    <3> QED
      BY <3>1, <3>2
  <2> QED
    BY <1>1, <2>1, <2>2
<1>4. \A m \in Nat : k + m >= L =>
        BrowseAfter(t, k, now, m)
          = [c |-> Cursors(r, r.last_used_slot, r.last_used_slot), returned |-> Tally(t, X, now)]
  <2> TAKE m \in Nat
  <2> SUFFICES ASSUME k + m >= L
               PROVE  BrowseAfter(t, k, now, m)
                        = [c |-> Cursors(r, r.last_used_slot, r.last_used_slot),
                           returned |-> Tally(t, X, now)]
    OBVIOUS
  <2>1. Seen(t, k, now, m) = X /\ ~ (k + m < L)
    BY <1>1, <1>3
  <2> QED
    BY <2>1 DEF BrowseAfter
<1>5. n - 1 \in Nat /\ k + (n - 1) >= L /\ k + n >= L
  BY <1>1
<1>6. BrowseAfter(t, k, now, n - 1) = BrowseAfter(t, k, now, n)
  BY <1>4, <1>5
<1>7. Sv_GetNext(BrowseAfter(t, k, now, n), now) = BrowseAfter(t, k, now, n)
  <2>1. BrowseAfter(t, k, now, n)
          = [c |-> Cursors(r, r.last_used_slot, r.last_used_slot), returned |-> Tally(t, X, now)]
    BY <1>4, <1>5
  <2> HIDE DEF r, X
  <2> QED
    BY <2>1, NextIs
<1> QED
  BY <1>6, <1>7

\* Else it goes on below its start, and ends before it.
LEMMA BrowseDownBelow ==
  ASSUME NEW t, TableInv(t), NEW now \in Int, NEW k \in 0 .. t.last_used_slot,
         NEW n \in Nat, n >= 1, k + n > t.last_used_slot, k > 0, ~ Fruitless(t, k, now)
  PROVE  Sv_GetNext(BrowseAfter(t, k, now, n - 1), now) = BrowseAfter(t, k, now, n)
<1> DEFINE L == t.last_used_slot
           q == k + n - L - 1
           X == (k .. L) \cup {i \in 0 .. k - 1 : i < q}
           Y == (k .. L) \cup {i \in 0 .. k - 1 : i < q + 1}
           s == LeftBy(t, X, now)
           r == LeftBy(t, Y, now)
           crt == IF q = 0 THEN s.last_used_slot ELSE IF q - 1 < k - 1 THEN q - 1 ELSE k - 1
<1>1. t \in Tables
  BY DEF TableInv
<1>2. L \in Nat /\ k \in Nat /\ k <= L /\ Slots = 0 .. max_nb_servers - 1 /\ L \in Slots
      /\ max_nb_servers \in Nat
  <2>1. L \in Slots \cup {-1} /\ L \in Int /\ Slots \subseteq Nat
    BY <1>1, CursorTypes
  <2>2. L # -1
    BY <2>1
  <2> QED
    BY <2>1, <2>2, SizeAssumption DEF Slots
<1>3. q \in Nat /\ k + (n - 1) = L + q /\ k + n = L + q + 1
  BY <1>2
<1>4. X \subseteq Slots /\ Y \subseteq Slots
  BY <1>2
<1>5. s.last_used_slot \in Nat /\ s.last_used_slot >= k
  <2> HIDE DEF X
  <2>1. s.last_used_slot \in Int /\ s.last_used_slot >= k
    BY <1>4, LastLeft
  <2> HIDE DEF s
  <2> QED
    BY <1>2, <2>1
<1>6. r.last_used_slot \in Nat /\ r.last_used_slot >= k
  <2> HIDE DEF Y
  <2>1. r.last_used_slot \in Int /\ r.last_used_slot >= k
    BY <1>4, LastLeft
  <2> HIDE DEF r
  <2> QED
    BY <1>2, <2>1
<1>7. Seen(t, k, now, n - 1) = X
  <2>1. CASE q = 0
    <3>1. {i \in 0 .. k - 1 : i < q} = {}
      BY <2>1
    <3>2. Seen(t, k, now, n - 1) = k .. L
      BY <1>2, <1>3, <2>1 DEF Seen
    <3> QED
      BY <3>1, <3>2
  <2>2. CASE q # 0
    <3>1. ~ (k + (n - 1) <= L) /\ k + (n - 1) - L = q
      BY <1>2, <1>3, <2>2
    <3> HIDE DEF q
    <3> QED
      BY <3>1 DEF Seen
  <2> QED
    BY <2>1, <2>2
<1>8. Seen(t, k, now, n) = Y
  <2>1. ~ (k + n <= L) /\ k + n - L = q + 1
    BY <1>2, <1>3
  <2> HIDE DEF q
  <2> QED
    BY <2>1 DEF Seen
<1>9. BrowseAfter(t, k, now, n - 1)
        = [c |-> Cursors(s, crt, k - 1), returned |-> Tally(t, X, now)]
  <2>1. ~ (k + (n - 1) < L) /\ (k + (n - 1) = L <=> q = 0) /\ k + (n - 1) - L - 1 = q - 1 /\ k # 0
    BY <1>2, <1>3
  <2> HIDE DEF q, X
  <2> QED
    BY <1>7, <2>1 DEF BrowseAfter
<1>10. BrowseAfter(t, k, now, n)
         = [c |-> Cursors(r, IF q < k - 1 THEN q ELSE k - 1, k - 1), returned |-> Tally(t, Y, now)]
  <2>1. ~ (k + n < L) /\ k + n # L /\ k # 0
    BY <1>2, <1>3
  <2> HIDE DEF Y
  <2> QED
    BY <1>8, <2>1 DEF BrowseAfter
<1> HIDE DEF r, s
<1>11. CASE q < k
  <2>1. crt # k - 1
    <3>1. CASE q = 0
      <4>1. crt = s.last_used_slot
        BY <3>1
      <4> HIDE DEF crt
      <4> QED
        BY <1>2, <1>5, <4>1
    <3>2. CASE q # 0
      <4>1. q - 1 < k - 1
        BY <1>2, <1>3, <1>11
      <4>2. crt = q - 1
        BY <3>2, <4>1
      <4> HIDE DEF crt
      <4> QED
        BY <4>1, <4>2
    <3> QED
      BY <3>1, <3>2
  <2>2. (crt + 1) % (s.last_used_slot + 1) = q
    <3>1. CASE q = 0
      <4>1. crt + 1 = s.last_used_slot + 1
        BY <3>1
      <4> HIDE DEF crt
      <4> QED
        BY <1>5, <3>1, <4>1, Wraps
    <3>2. CASE q # 0
      <4>1. crt + 1 = q
        BY <1>2, <1>3, <1>11, <3>2
      <4>2. q < s.last_used_slot
        BY <1>2, <1>3, <1>5, <1>11
      <4> HIDE DEF crt, q
      <4> QED
        BY <1>3, <1>5, <4>1, <4>2, Wraps
    <3> QED
      BY <3>1, <3>2
  <2>3. PICK i \in Slots : i = q
    BY <1>2, <1>3, <1>11
  <2>4. i \in Slots \ X
    BY <1>2, <1>3, <1>11, <2>3
  <2>5. Y = X \cup {i}
    <3>1. \A j \in 0 .. k - 1 : j < q + 1 <=> j < q \/ j = q
      BY <1>2, <1>3
    <3>2. i \in 0 .. k - 1
      BY <1>2, <1>3, <1>11, <2>3
    <3> HIDE DEF q
    <3> QED
      BY <2>3, <3>1, <3>2
  <2>6. Within(i, r) = i /\ Within(k - 1, r) = k - 1
    BY <1>2, <1>3, <1>6, <1>11, <2>3 DEF Within
  <2>7. PICK last : last = k - 1
    OBVIOUS
  <2>8. LET v == Visit(Cursors(LeftBy(t, X, now), crt, last), Tally(t, X, now), i, now)
        IN  v = [c |-> Cursors(r, i, last), returned |-> Tally(t, Y, now)]
    <3>0. PICK x : x = crt
      OBVIOUS
    <3> HIDE DEF X, Y, crt, q
    <3>1. LET p == Sv_RemoveAll(t, Dead(t, X \cup {i}, now))
              v == Visit(Cursors(Sv_RemoveAll(t, Dead(t, X, now)), x, last), Tally(t, X, now), i, now)
          IN  /\ Expired(t, i, now) => v = [c        |-> Cursors(p, Within(i, p), Within(last, p)),
                                            returned |-> Tally(t, X \cup {i}, now)]
              /\ ~ Expired(t, i, now) => v = [c        |-> Cursors(p, i, last),
                                              returned |-> Tally(t, X \cup {i}, now)]
      BY <1>1, <1>4, <2>4, VisitIs
    <3> QED
      BY <2>5, <2>6, <2>7, <3>0, <3>1 DEF LeftBy, r
  <2>9. Sv_GetNext(BrowseAfter(t, k, now, n - 1), now)
          = Visit(Cursors(s, crt, k - 1), Tally(t, X, now), i, now)
    <3> HIDE DEF crt, q, X
    <3> QED
      BY <1>9, <2>1, <2>2, <2>3, NextIs
  <2>10. (IF q < k - 1 THEN q ELSE k - 1) = i
    BY <1>2, <1>3, <1>11, <2>3
  <2> HIDE DEF X, Y, crt, q
  <2> QED
    BY <1>10, <2>7, <2>8, <2>9, <2>10 DEF s
<1>12. CASE q >= k
  <2>1. crt = k - 1 /\ (IF q < k - 1 THEN q ELSE k - 1) = k - 1
    BY <1>2, <1>3, <1>12
  <2>2. \A j \in 0 .. k - 1 : j < q /\ j < q + 1
    BY <1>2, <1>3, <1>12
  <2>3. X = Y
    BY <2>2
  <2> HIDE DEF X, Y, crt, q
  <2>4. BrowseAfter(t, k, now, n - 1) = BrowseAfter(t, k, now, n)
    BY <1>9, <1>10, <2>1, <2>3 DEF r, s
  <2>5. Sv_GetNext(BrowseAfter(t, k, now, n - 1), now) = BrowseAfter(t, k, now, n - 1)
    BY <1>9, <2>1, NextIs
  <2> QED
    BY <2>4, <2>5
<1> QED
  BY <1>2, <1>3, <1>11, <1>12

\* One more call of Sv_GetNext.
LEMMA BrowseStep ==
  ASSUME NEW t, TableInv(t), NEW now \in Int, NEW k \in 0 .. t.last_used_slot,
         NEW n \in Nat, n >= 1
  PROVE  Sv_GetNext(BrowseAfter(t, k, now, n - 1), now) = BrowseAfter(t, k, now, n)
<1>1. k \in Nat /\ t.last_used_slot \in Int
  BY CursorTypes DEF TableInv
<1>2. CASE k + n <= t.last_used_slot
  BY <1>2, BrowseUpwards
<1>3. CASE k + n > t.last_used_slot /\ (k = 0 \/ Fruitless(t, k, now))
  BY <1>3, BrowseEnded
<1>4. CASE k + n > t.last_used_slot /\ k > 0 /\ ~ Fruitless(t, k, now)
  BY <1>4, BrowseDownBelow
<1> QED
  BY <1>1, <1>2, <1>3, <1>4

\* The equation of the iteration.
BrowseRuns(f, t, k, now) ==
  f = [n \in 0 .. max_nb_servers |->
         IF n = 0 THEN Sv_GetFirst(t, k, now) ELSE Sv_GetNext(f[n - 1], now)]

\* The iteration is where BrowseAfter says, after every call.
LEMMA BrowseIs ==
  ASSUME NEW t, TableInv(t), NEW now \in Int, NEW k \in 0 .. t.last_used_slot
  PROVE  Browse(t, k, now) = BrowseAfter(t, k, now, max_nb_servers)
<1> DEFINE N == max_nb_servers
           e == [n \in 0 .. N |-> BrowseAfter(t, k, now, n)]
           f == CHOOSE f : BrowseRuns(f, t, k, now)
           holds == {n \in 0 .. N : f[n] = BrowseAfter(t, k, now, n)}
<1>1. N \in Nat
  BY SizeAssumption
<1>2. BrowseRuns(e, t, k, now)
  <2>1. ASSUME NEW n \in 0 .. N
        PROVE  BrowseAfter(t, k, now, n)
                 = IF n = 0 THEN Sv_GetFirst(t, k, now) ELSE Sv_GetNext(e[n - 1], now)
    <3>1. CASE n = 0
      BY <3>1, BrowseStart
    <3>2. CASE n # 0
      <4>1. n \in Nat /\ n >= 1 /\ n - 1 \in 0 .. N
        BY <1>1, <3>2
      <4>2. e[n - 1] = BrowseAfter(t, k, now, n - 1)
        BY <4>1
      <4>3. Sv_GetNext(BrowseAfter(t, k, now, n - 1), now) = BrowseAfter(t, k, now, n)
        BY <4>1, BrowseStep
      <4> QED
        BY <3>2, <4>2, <4>3
    <3> QED
      BY <3>1, <3>2
  <2>2. e = [n \in 0 .. N |-> IF n = 0 THEN Sv_GetFirst(t, k, now) ELSE Sv_GetNext(e[n - 1], now)]
    BY <2>1
  <2> HIDE DEF e
  <2> QED
    BY <2>2 DEF BrowseRuns
<1>3. BrowseRuns(f, t, k, now)
  <2> HIDE DEF e
  <2> QED
    BY <1>2
<1>4. Browse(t, k, now) = f[N]
  BY DEF Browse, BrowseRuns
<1> HIDE DEF f
<1>5. \A n \in 0 .. N :
        f[n] = IF n = 0 THEN Sv_GetFirst(t, k, now) ELSE Sv_GetNext(f[n - 1], now)
  BY <1>3 DEF BrowseRuns
<1>6. 0 \in holds
  BY <1>1, <1>5, BrowseStart
<1>7. ASSUME NEW n \in 1 .. N, n - 1 \in holds
      PROVE  n \in holds
  <2>1. n \in Nat /\ n >= 1 /\ n \in 0 .. N /\ n # 0
    BY <1>1
  <2>2. f[n] = Sv_GetNext(f[n - 1], now)
    BY <1>5, <2>1
  <2>3. f[n - 1] = BrowseAfter(t, k, now, n - 1)
    BY <1>7
  <2>4. Sv_GetNext(BrowseAfter(t, k, now, n - 1), now) = BrowseAfter(t, k, now, n)
    BY <2>1, BrowseStep
  <2> QED
    BY <2>1, <2>2, <2>3, <2>4
<1>8. N \in holds
  <2> HIDE DEF holds
  <2> QED
    BY <1>1, <1>6, <1>7, EveryTurn
<1> QED
  BY <1>4, <1>8

\* When it has come to its end, it has met the slots Sv_Browse defines.
LEMMA BrowseEnds ==
  ASSUME NEW t, TableInv(t), NEW now \in Int, NEW k \in 0 .. t.last_used_slot
  PROVE  LET X == Visited(t, k, now)
             w == BrowseAfter(t, k, now, max_nb_servers)
         IN  /\ w.c.crt_server_ind = w.c.last_server_ind
             /\ w.c.t = Sv_Browse(t, k, now)
             /\ w.returned = Tally(t, X, now)
<1> DEFINE N == max_nb_servers
           L == t.last_used_slot
           X == Visited(t, k, now)
           r == LeftBy(t, X, now)
<1>1. L \in Nat /\ k \in Nat /\ k <= L /\ N \in Nat /\ L < N
  <2>1. L \in Slots \cup {-1} /\ L \in Int /\ Slots \subseteq Nat
    BY CursorTypes DEF TableInv
  <2>2. L # -1
    BY <2>1
  <2> QED
    BY <2>1, <2>2, SizeAssumption DEF Slots
<1>2. ~ (k + N <= L) /\ ~ (k + N < L) /\ k + N # L
  BY <1>1
<1>3. Seen(t, k, now, N) = X
  <2>1. CASE Fruitless(t, k, now)
    BY <1>2, <2>1 DEF Seen, Fruitless, Visited
  <2>2. CASE ~ Fruitless(t, k, now)
    <3>1. \A i \in 0 .. k - 1 : i < k + N - L
      BY <1>1
    <3>2. Seen(t, k, now, N) = (k .. L) \cup {i \in 0 .. k - 1 : i < k + N - L}
      BY <1>2, <2>2 DEF Seen
    <3>3. Seen(t, k, now, N) = (k .. L) \cup (0 .. k - 1)
      BY <3>1, <3>2
    <3>4. (k .. L) \cup (0 .. k - 1) = 0 .. L
      BY <1>1
    <3>5. X = 0 .. L
      BY <2>2 DEF Fruitless, Visited
    <3> QED
      BY <3>3, <3>4, <3>5
  <2> QED
    BY <2>1, <2>2
<1>4. ~ (k + N - L - 1 < k - 1)
  BY <1>1
<1> HIDE DEF X
<1>5. BrowseAfter(t, k, now, N)
        = [c |-> Cursors(r,
                   IF k = 0 \/ Fruitless(t, k, now) THEN r.last_used_slot ELSE k - 1,
                   IF k = 0 \/ Fruitless(t, k, now) THEN r.last_used_slot ELSE k - 1),
           returned |-> Tally(t, X, now)]
  BY <1>2, <1>3, <1>4 DEF BrowseAfter
<1>6. r = Sv_Browse(t, k, now)
  BY DEF LeftBy, Dead, Sv_Browse, X
<1> HIDE DEF r
<1> QED
  BY <1>5, <1>6 DEF Cursors, X

----------------------------------------------------------------------------
(* The loops do what ServerTable defines.                                  *)

\* In a table of the inductive invariant every loop returns what its
\* definition says.
LEMMA LoopsDo ==
  ASSUME IInv
  PROVE  LoopsAgree
<1>1. TableInv(table) /\ table \in Tables /\ crt_time \in Int
  BY TimeAssumption DEF IInv, TableInv, Clock
<1>2. SweepAgrees
  <2>1. SweepFrom(Alone(table), crt_time) = Alone(Sv_CheckTimeouts(table, crt_time))
    BY <1>1, SweepIs
  <2> QED
    BY <2>1 DEF SweepAgrees, Alone, Cursors
<1>3. WalkAgrees
  <2>1. \A a \in Addresses : IsOver(table, a, crt_time, WalkChain(Alone(table), a, crt_time))
    BY <1>1, WalkIs
  <2> QED
    BY <2>1 DEF WalkAgrees, IsOver
<1>4. TakeAgrees
  BY <1>1, TakeIs DEF TakeAgrees
<1>5. BrowseAgrees
  <2> SUFFICES ASSUME NEW k \in 0 .. table.last_used_slot
               PROVE  LET browse == Browse(table, k, crt_time)
                          X == Visited(table, k, crt_time)
                      IN  /\ browse.c.crt_server_ind = browse.c.last_server_ind
                          /\ browse.c.t = Sv_Browse(table, k, crt_time)
                          /\ browse.returned =
                               [i \in Slots |->
                                  IF i \in {j \in X : Active(table, j, crt_time)} THEN 1 ELSE 0]
    BY DEF BrowseAgrees
  <2>1. Browse(table, k, crt_time) = BrowseAfter(table, k, crt_time, max_nb_servers)
    BY <1>1, BrowseIs
  <2>2. Tally(table, Visited(table, k, crt_time), crt_time)
          = [i \in Slots |->
               IF i \in {j \in Visited(table, k, crt_time) : Active(table, j, crt_time)}
                 THEN 1 ELSE 0]
    BY DEF Tally
  <2> QED
    BY <1>1, <2>1, <2>2, BrowseEnds
<1> QED
  BY <1>2, <1>3, <1>4, <1>5 DEF LoopsAgree

\* The loops of servers.c remove entries of the list, and move its ends, while
\* they run through it; in every table the server list can reach they come to
\* their end and do what ServerTable defines, for every size of the list.
THEOREM LoopsDoAsDefined == Spec => []LoopsAgree
  BY InductiveInvariant, LoopsDo, PTL

\* A browse returns every active server up to last_used_slot, once, when it
\* starts at 0 or something from its start on is active; and no server at all
\* otherwise.
AllOrNone ==
  \A k \in 0 .. table.last_used_slot :
    LET returned == Browse(table, k, crt_time).returned
        active   == {i \in 0 .. table.last_used_slot : Active(table, i, crt_time)}
    IN  returned = [i \in Slots |->
                      IF i \in active /\ (k = 0 \/ \E j \in active : j >= k) THEN 1 ELSE 0]

\* How much of the list a query is offered: all of it or nothing, as its random
\* start decides (Sv_GetFirst, Sv_GetNext and the clamping of their cursors in
\* servers.c:102-108).  Only the second case keeps live servers from a client.
THEOREM BrowseReturnsAllOrNone == Spec => []AllOrNone
<1>1. ASSUME IInv, NEW k \in 0 .. table.last_used_slot
      PROVE  LET returned == Browse(table, k, crt_time).returned
                 active   == {i \in 0 .. table.last_used_slot : Active(table, i, crt_time)}
             IN  returned = [i \in Slots |->
                               IF i \in active /\ (k = 0 \/ \E j \in active : j >= k)
                                 THEN 1 ELSE 0]
  <2> DEFINE L == table.last_used_slot
             active == {i \in 0 .. L : Active(table, i, crt_time)}
             X == {i \in Visited(table, k, crt_time) : Active(table, i, crt_time)}
  <2>1. L \in Int /\ k \in Nat
    BY <1>1, CursorTypes DEF IInv, TableInv
  <2>2. Browse(table, k, crt_time).returned = [i \in Slots |-> IF i \in X THEN 1 ELSE 0]
    BY <1>1, LoopsDo DEF LoopsAgree, BrowseAgrees
  <2>3. \A i : i \in X <=> i \in active /\ (k = 0 \/ \E j \in active : j >= k)
    <3>1. CASE k > 0 /\ \A i \in k .. L : ~ Active(table, i, crt_time)
      <4>1. X = {}
        BY <3>1 DEF Visited
      <4>2. ~ \E j \in active : j >= k
        BY <2>1, <3>1
      <4> QED
        BY <3>1, <4>1, <4>2
    <3>2. CASE ~ (k > 0 /\ \A i \in k .. L : ~ Active(table, i, crt_time))
      <4>1. X = active
        BY <3>2 DEF Visited
      <4>2. k = 0 \/ \E j \in active : j >= k
        BY <2>1, <3>2
      <4> QED
        BY <4>1, <4>2
    <3> QED
      BY <3>1, <3>2
  <2> HIDE DEF X
  <2> QED
    BY <2>2, <2>3
<1>2. IInv => AllOrNone
  BY <1>1 DEF AllOrNone
<1> QED
  BY <1>2, InductiveInvariant, PTL
=============================================================================
