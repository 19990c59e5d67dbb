------------------------ MODULE GamePropertiesProofs ------------------------
(***************************************************************************)
(* Lemmas about the operators of GameProperties, for every list of options *)
(* and every set of games and protocols: what its folds over the values of *)
(* an option preserve, what its binary search finds, and what insertions   *)
(* and removals leave in the arrays.  DpmasterProofs rests on them.        *)
(***************************************************************************)
EXTENDS GameProperties, SequenceTheorems, WellFoundedInduction, TLAPS

----------------------------------------------------------------------------
(* Minima, maxima, and induction along a sequence.                         *)

\* A set of naturals has a least element.
LEMMA LeastNatural ==
  ASSUME NEW S, S \subseteq Nat, S # {}
  PROVE  \E x \in S : \A y \in S : x <= y
<1> DEFINE Less == {ss \in Nat \X Nat : ss[1] < ss[2]}
<1>1. IsWellFoundedOn(Less, Nat)
  BY NatLessThanWellFounded, Zenon DEF OpToRel
<1>2. PICK x \in S : \A y \in S : ~ (<<y, x>> \in Less)
  <2> HIDE DEF Less
  <2> QED
    BY <1>1, WFMin
<1>3. \A y \in S : x <= y
  <2> TAKE y \in S
  <2>1. ~ (<<y, x>> \in Less) /\ x \in Nat /\ y \in Nat
    BY <1>2
  <2> QED
    BY <2>1
<1> QED
  BY <1>3

\* What holds first and is passed on from each element to the next holds of all.
LEMMA Along ==
  ASSUME NEW n \in Nat, NEW holds, 0 \in holds,
         \A i \in 1 .. n : i - 1 \in holds => i \in holds
  PROVE  0 .. n \subseteq holds
<1> SUFFICES ASSUME ~ (0 .. n \subseteq holds) PROVE FALSE
  OBVIOUS
<1> DEFINE fails == {i \in 0 .. n : i \notin holds}
<1>1. fails \subseteq Nat /\ fails # {}
  OBVIOUS
<1>2. PICK i \in fails : \A j \in fails : i <= j
  <2> HIDE DEF fails
  <2> QED
    BY <1>1, LeastNatural
<1>3. i \in 1 .. n /\ i - 1 \in 0 .. n /\ i - 1 \notin fails
  BY <1>2
<1> QED
  BY <1>2, <1>3

\* The last of a set of positions.
LEMMA LastPosition ==
  ASSUME NEW n \in Nat, NEW t \in SUBSET (1 .. n), t # {}
  PROVE  /\ Max(t) \in t
         /\ \A i \in t : i <= Max(t)
<1> DEFINE S == {n - i : i \in t}
<1>1. S \subseteq Nat /\ S # {}
  OBVIOUS
<1>2. PICK x \in S : \A y \in S : x <= y
  <2> HIDE DEF S
  <2> QED
    BY <1>1, LeastNatural
<1>3. PICK m \in t : x = n - m
  BY <1>2
<1>4. \A i \in t : m >= i
  <2> TAKE i \in t
  <2>1. x <= n - i
    BY <1>2
  <2> QED
    BY <1>3, <2>1
<1>5. /\ Max(t) \in t /\ \A i \in t : Max(t) >= i
  BY <1>4 DEF Max
<1> QED
  BY <1>5

\* The first of a set of positions.
LEMMA FirstPosition ==
  ASSUME NEW n \in Nat, NEW t \in SUBSET (1 .. n), t # {}
  PROVE  /\ Min(t) \in t
         /\ \A i \in t : Min(t) <= i
<1>1. t \subseteq Nat
  OBVIOUS
<1>2. PICK m \in t : \A i \in t : m <= i
  BY <1>1, LeastNatural
<1> QED
  BY <1>2 DEF Min

\* The positions of a sequence, without the last one.
LEMMA FirstPositions ==
  ASSUME NEW n \in Nat, NEW i \in 1 .. n
  PROVE  /\ 1 .. i \in SUBSET (1 .. n) /\ 1 .. i # {}
         /\ Max(1 .. i) = i
         /\ (1 .. i) \ {i} = 1 .. (i - 1)
<1>1. 1 .. i \in SUBSET (1 .. n) /\ 1 .. i # {}
  OBVIOUS
<1>2. Max(1 .. i) = i
  <2>1. PICK t \in SUBSET (1 .. n) : t = 1 .. i
    BY <1>1
  <2>2. i \in t /\ t # {}
    BY <2>1
  <2>3. Max(t) \in t /\ \A j \in t : j <= Max(t)
    BY <2>2, LastPosition
  <2> QED
    BY <2>1, <2>2, <2>3
<1> QED
  BY <1>1, <1>2

----------------------------------------------------------------------------
(* Folds.  FoldLeft is a function defined by recursion on the positions    *)
(* not yet taken; a step that stays in a set has one such function, and    *)
(* the results of the prefixes of the sequence follow from each other.     *)

\* F[i] is the step that the element at i makes.
FoldEquation(g, n, base, F) ==
  \A t \in SUBSET (1 .. n) :
    g[t] = IF t = {} THEN base ELSE F[Max(t)][g[t \ {Max(t)}]]

\* There is such a function: one is built from that for a prefix shorter by one.
LEMMA FoldExists ==
  ASSUME NEW W, NEW base \in W, NEW n \in Nat, NEW F \in [1 .. n -> [W -> W]]
  PROVE  \E g \in [SUBSET (1 .. n) -> W] : FoldEquation(g, n, base, F)
<1> DEFINE holds == {m \in 0 .. n : \E g \in [SUBSET (1 .. m) -> W] :
                                      FoldEquation(g, m, base, F)}
<1>1. 0 \in holds
  <2> DEFINE g == [t \in SUBSET (1 .. 0) |-> base]
  <2>1. g \in [SUBSET (1 .. 0) -> W]
    OBVIOUS
  <2>2. \A t \in SUBSET (1 .. 0) : t = {}
    OBVIOUS
  <2>3. FoldEquation(g, 0, base, F)
    BY <2>2 DEF FoldEquation
  <2> QED
    BY <2>1, <2>3
<1>2. ASSUME NEW m \in 1 .. n, m - 1 \in holds
      PROVE  m \in holds
  <2>1. PICK g \in [SUBSET (1 .. (m - 1)) -> W] : FoldEquation(g, m - 1, base, F)
    BY <1>2
  <2> DEFINE h == [t \in SUBSET (1 .. m) |-> IF m \in t THEN F[m][g[t \ {m}]] ELSE g[t]]
  <2>2. ASSUME NEW t \in SUBSET (1 .. m)
        PROVE  /\ m \in t => t \ {m} \in SUBSET (1 .. (m - 1))
               /\ m \notin t => t \in SUBSET (1 .. (m - 1))
    OBVIOUS
  <2>3. h \in [SUBSET (1 .. m) -> W]
    <3>1. ASSUME NEW t \in SUBSET (1 .. m)
          PROVE  (IF m \in t THEN F[m][g[t \ {m}]] ELSE g[t]) \in W
      BY <2>1, <2>2
    <3> QED
      BY <3>1
  <2>4. ASSUME NEW t \in SUBSET (1 .. m)
        PROVE  h[t] = IF t = {} THEN base ELSE F[Max(t)][h[t \ {Max(t)}]]
    <3>1. CASE m \in t
      <4>1. Max(t) = m
        <5>1. m \in Nat /\ t # {}
          BY <3>1
        <5>2. Max(t) \in t /\ m <= Max(t)
          BY <3>1, <5>1, LastPosition
        <5>3. Max(t) \in 1 .. m
          BY <5>2
        <5> QED
          BY <5>2, <5>3
      <4>2. t \ {m} \in SUBSET (1 .. m) /\ m \notin t \ {m}
        OBVIOUS
      <4>3. h[t] = F[m][g[t \ {m}]] /\ h[t \ {m}] = g[t \ {m}]
        BY <3>1, <4>2
      <4> HIDE DEF h
      <4> QED
        BY <3>1, <4>1, <4>3
    <3>2. CASE m \notin t
      <4>1. t \in SUBSET (1 .. (m - 1)) /\ h[t] = g[t]
        BY <3>2, <2>2
      <4>2. CASE t = {}
        BY <4>1, <4>2, <2>1 DEF FoldEquation
      <4>3. CASE t # {}
        <5>1. g[t] = F[Max(t)][g[t \ {Max(t)}]]
          BY <4>1, <4>3, <2>1 DEF FoldEquation
        <5>2. t \ {Max(t)} \in SUBSET (1 .. m) /\ m \notin t \ {Max(t)}
          BY <3>2
        <5>3. h[t \ {Max(t)}] = g[t \ {Max(t)}]
          BY <5>2
        <5> HIDE DEF h
        <5> QED
          BY <4>1, <4>3, <5>1, <5>3
      <4> QED
        BY <4>2, <4>3
    <3> QED
      BY <3>1, <3>2
  <2>5. FoldEquation(h, m, base, F)
    BY <2>4 DEF FoldEquation
  <2> HIDE DEF h
  <2> QED
    BY <2>3, <2>5
<1> HIDE DEF holds
<1>3. 0 .. n \subseteq holds
  BY <1>1, <1>2, Along
<1>4. n \in holds
  BY <1>3
<1> QED
  BY <1>4 DEF holds

\* It is enough that a function obeys the equation where the step is one of F.
ObeysWithin(g, n, base, F, W) ==
  /\ g[{}] = base
  /\ \A t \in SUBSET (1 .. n) : t # {} /\ g[t \ {Max(t)}] \in W =>
       g[t] = F[Max(t)][g[t \ {Max(t)}]]

\* The results of a fold after each element.
ResultsOf(h, g, n, base, F) ==
  /\ h[0] = base
  /\ \A i \in 1 .. n : h[i] = F[i][h[i - 1]]
  /\ h[n] = g[1 .. n]

\* A fold has results, one after each element.
LEMMA FoldResults ==
  ASSUME NEW W, NEW base \in W, NEW n \in Nat, NEW F \in [1 .. n -> [W -> W]], NEW g,
         ObeysWithin(g, n, base, F, W)
  PROVE  \E h \in [0 .. n -> W] : ResultsOf(h, g, n, base, F)
<1> DEFINE holds == {i \in 0 .. n : g[1 .. i] \in W}
<1>1. g[1 .. 0] = base
  <2>1. 1 .. 0 = {}
    OBVIOUS
  <2> QED
    BY <2>1 DEF ObeysWithin
<1>2. ASSUME NEW i \in 1 .. n, g[1 .. (i - 1)] \in W
      PROVE  g[1 .. i] = F[i][g[1 .. (i - 1)]]
  <2>1. PICK t \in SUBSET (1 .. n) : t = 1 .. i
    BY FirstPositions
  <2>2. t # {} /\ Max(t) = i /\ t \ {Max(t)} = 1 .. (i - 1)
    BY <2>1, FirstPositions
  <2>3. g[t] = F[Max(t)][g[t \ {Max(t)}]]
    BY <1>2, <2>2 DEF ObeysWithin
  <2> QED
    BY <2>1, <2>2, <2>3
<1>3. ASSUME NEW i \in 1 .. n, i - 1 \in holds
      PROVE  i \in holds
  BY <1>2, <1>3
<1>4. 0 .. n \subseteq holds
  <2>1. 0 \in holds
    BY <1>1
  <2> HIDE DEF holds
  <2> QED
    BY <2>1, <1>3, Along
<1> DEFINE h == [i \in 0 .. n |-> g[1 .. i]]
<1>5. h \in [0 .. n -> W] /\ h[0] = base /\ h[n] = g[1 .. n]
  BY <1>1, <1>4
<1>6. ASSUME NEW i \in 1 .. n
      PROVE  h[i] = F[i][h[i - 1]]
  BY <1>2, <1>4
<1> HIDE DEF h
<1> QED
  BY <1>5, <1>6 DEF ResultsOf

----------------------------------------------------------------------------
(* The binary search.  Each turn narrows the interval, so that there is    *)
(* one function that obeys its recursion; what it finds is right as long   *)
(* as the keys outside the interval are known to be smaller or larger.     *)

Turn(f, keys, key, left, right) ==
  LET middle == (left + right) \div 2
  IN  IF left > right THEN [found |-> FALSE, index |-> left]
      ELSE IF keys[middle + 1] = key THEN [found |-> TRUE, index |-> middle]
      ELSE IF keys[middle + 1] > key THEN f[<<left, middle - 1>>]
      ELSE f[<<middle + 1, right>>]

Search(keys, key, f) ==
  f = [interval \in (0 .. Len(keys)) \X (-1 .. Len(keys) - 1) |->
         Turn(f, keys, key, interval[1], interval[2])]

\* The middle of an interval lies in it, and the turn goes on in a part of it.
LEMMA TurnNarrows ==
  ASSUME NEW n \in Nat, NEW left \in 0 .. n, NEW right \in -1 .. n - 1, left <= right
  PROVE  LET middle == (left + right) \div 2
         IN  /\ middle \in left .. right /\ middle \in 0 .. n - 1
             /\ middle - 1 \in -1 .. n - 1 /\ middle + 1 \in 0 .. n
             /\ (middle - 1) - left < right - left /\ right - (middle + 1) < right - left
             /\ left - 1 <= middle - 1 /\ middle <= right
<1> DEFINE middle == (left + right) \div 2
<1>1. middle \in Int /\ 2 * middle <= left + right /\ left + right <= 2 * middle + 1
  OBVIOUS
<1> HIDE DEF middle
<1> QED
  BY <1>1 DEF middle

\* The loop of a search ends: a function on the intervals obeys its turns.
LEMMA SearchExists ==
  ASSUME NEW keys, NEW key, NEW n \in Nat, n = Len(keys)
  PROVE  \E f : Search(keys, key, f)
<1> DEFINE obeys(f, w) == \A left \in 0 .. n, right \in -1 .. n - 1 :
                            right - left + 1 <= w =>
                              f[<<left, right>>] = Turn(f, keys, key, left, right)
           holds == {w \in 0 .. n : \E f : obeys(f, w)}
<1>1. 0 \in holds
  <2> DEFINE f == [interval \in (0 .. n) \X (-1 .. n - 1) |->
                   [found |-> FALSE, index |-> interval[1]]]
  <2>1. ASSUME NEW left \in 0 .. n, NEW right \in -1 .. n - 1, right - left + 1 <= 0
        PROVE  f[<<left, right>>] = Turn(f, keys, key, left, right)
    <3>1. f[<<left, right>>] = [found |-> FALSE, index |-> left]
      OBVIOUS
    <3> HIDE DEF f
    <3> QED
      BY <2>1, <3>1 DEF Turn
  <2> HIDE DEF f
  <2>2. obeys(f, 0)
    BY <2>1
  <2> QED
    BY <2>2
<1>2. ASSUME NEW w \in 1 .. n, w - 1 \in holds
      PROVE  w \in holds
  <2>1. PICK f : obeys(f, w - 1)
    BY <1>2
  <2> DEFINE g == [interval \in (0 .. n) \X (-1 .. n - 1) |->
                     IF interval[2] - interval[1] + 1 = w
                       THEN Turn(f, keys, key, interval[1], interval[2]) ELSE f[interval]]
  <2>2. ASSUME NEW left \in 0 .. n, NEW right \in -1 .. n - 1
        PROVE  g[<<left, right>>] = IF right - left + 1 = w THEN Turn(f, keys, key, left, right)
                                                        ELSE f[<<left, right>>]
    OBVIOUS
  <2> HIDE DEF g
  <2>3. ASSUME NEW left \in 0 .. n, NEW right \in -1 .. n - 1, right - left + 1 <= w
        PROVE  Turn(g, keys, key, left, right) = Turn(f, keys, key, left, right)
    <3>1. CASE left > right
      BY <3>1 DEF Turn
    <3>2. CASE left <= right
      <4>1. PICK middle \in left .. right :
                   /\ middle = (left + right) \div 2
                   /\ middle - 1 \in -1 .. n - 1 /\ middle + 1 \in 0 .. n
                   /\ (middle - 1) - left < right - left /\ right - (middle + 1) < right - left
        BY <3>2, TurnNarrows
      <4>2. g[<<left, middle - 1>>] = f[<<left, middle - 1>>]
        <5>1. (middle - 1) - left + 1 # w
          BY <2>3, <4>1
        <5> QED
          BY <2>2, <4>1, <5>1
      <4>3. g[<<middle + 1, right>>] = f[<<middle + 1, right>>]
        <5>1. right - (middle + 1) + 1 # w
          BY <2>3, <4>1
        <5> QED
          BY <2>2, <4>1, <5>1
      <4> QED
        BY <4>1, <4>2, <4>3 DEF Turn
    <3> QED
      BY <3>1, <3>2
  <2>4. obeys(g, w)
    BY <2>1, <2>2, <2>3
  <2> QED
    BY <2>4
<1>3. 0 .. n \subseteq holds
  <2> HIDE DEF holds
  <2> QED
    BY <1>1, <1>2, Along
<1>4. PICK f : obeys(f, n)
  <2>1. n \in holds
    <3> HIDE DEF holds
    <3> QED
      BY <1>3
  <2> QED
    BY <2>1
<1> DEFINE g == [interval \in (0 .. n) \X (-1 .. n - 1) |->
                   Turn(f, keys, key, interval[1], interval[2])]
<1>5. ASSUME NEW left \in 0 .. n, NEW right \in -1 .. n - 1
      PROVE  g[<<left, right>>] = f[<<left, right>>]
  BY <1>4
<1> HIDE DEF g
<1>6. ASSUME NEW left \in 0 .. n, NEW right \in -1 .. n - 1
      PROVE  Turn(g, keys, key, left, right) = Turn(f, keys, key, left, right)
  <2>1. CASE left > right
    BY <2>1 DEF Turn
  <2>2. CASE left <= right
    <3>1. PICK middle \in left .. right :
                 /\ middle = (left + right) \div 2
                 /\ middle - 1 \in -1 .. n - 1 /\ middle + 1 \in 0 .. n
      BY <2>2, TurnNarrows
    <3>2. g[<<left, middle - 1>>] = f[<<left, middle - 1>>] /\ g[<<middle + 1, right>>] = f[<<middle + 1, right>>]
      BY <1>5, <3>1
    <3> QED
      BY <3>1, <3>2 DEF Turn
  <2> QED
    BY <2>1, <2>2
<1>7. g = [interval \in (0 .. n) \X (-1 .. n - 1) |->
           Turn(g, keys, key, interval[1], interval[2])]
  BY <1>6 DEF g
<1> QED
  BY <1>7 DEF Search

\* What a search finds: the key, or the place between smaller and larger ones.
Right(keys, key, result) ==
  /\ result.found \in BOOLEAN /\ result.index \in Nat
  /\ result.found => result.index < Len(keys) /\ keys[result.index + 1] = key
  /\ ~ result.found => /\ result.index <= Len(keys)
                       /\ \A i \in 1 .. Len(keys) :
                            IF i <= result.index THEN keys[i] < key ELSE keys[i] > key

\* The binary search over sorted keys finds the key exactly if it is there, and
\* else the place where to insert it (games.c Game_Find).  The CHOOSE of the
\* recursive function is met, and the interval of each turn holds the place.
THEOREM FindIsRight ==
  ASSUME NEW keys \in Seq(Int), Increasing(keys), NEW key \in Int
  PROVE  Right(keys, key, Game_Find(keys, key))
<1>1. PICK n \in Nat : n = Len(keys)
  BY LenProperties
<1>2. PICK f : Search(keys, key, f) /\ Game_Find(keys, key) = f[<<0, n - 1>>]
  <2>1. Game_Find(keys, key) = (CHOOSE f : Search(keys, key, f))[<<0, n - 1>>]
    BY <1>1 DEF Game_Find, Search, Turn
  <2>2. \E f : Search(keys, key, f)
    BY <1>1, SearchExists
  <2> QED
    BY <2>1, <2>2
<1>3. ASSUME NEW left \in 0 .. n, NEW right \in -1 .. n - 1
      PROVE  f[<<left, right>>] = Turn(f, keys, key, left, right)
  BY <1>1, <1>2 DEF Search
<1>4. /\ \A i \in 1 .. n : keys[i] \in Int
      /\ \A i, j \in 1 .. n : i < j => keys[i] < keys[j]
  BY <1>1, ElementOfSeq DEF Increasing, IsSorted
<1> DEFINE around(left, right) == /\ left <= right + 1
                                  /\ \A i \in 1 .. n : /\ i <= left => keys[i] < key
                                                       /\ i > right + 1 => keys[i] > key
           holds == {w \in 0 .. n : \A left \in 0 .. n, right \in -1 .. n - 1 :
                       around(left, right) /\ right - left + 1 <= w =>
                         Right(keys, key, f[<<left, right>>])}
<1>5. ASSUME NEW left \in 0 .. n, NEW right \in -1 .. n - 1, around(left, right), left > right
      PROVE  Right(keys, key, f[<<left, right>>])
  <2>1. f[<<left, right>>] = [found |-> FALSE, index |-> left]
    BY <1>3, <1>5 DEF Turn
  <2>2. left = right + 1
    BY <1>5
  <2> QED
    BY <1>1, <1>5, <2>1, <2>2 DEF Right
<1>6. 0 \in holds
  BY <1>5
<1>7. ASSUME NEW w \in 1 .. n, w - 1 \in holds
      PROVE  w \in holds
  <2> SUFFICES ASSUME NEW left \in 0 .. n, NEW right \in -1 .. n - 1,
                      around(left, right), right - left + 1 <= w
               PROVE  Right(keys, key, f[<<left, right>>])
    BY <1>7
  <2>1. CASE left > right
    BY <1>5, <2>1
  <2>2. CASE left <= right
    <3>1. PICK middle \in left .. right :
                 /\ middle = (left + right) \div 2
                 /\ middle \in 0 .. n - 1
                 /\ middle - 1 \in -1 .. n - 1 /\ middle + 1 \in 0 .. n
                 /\ (middle - 1) - left < right - left /\ right - (middle + 1) < right - left
      BY <2>2, TurnNarrows
    <3>2. middle + 1 \in 1 .. n /\ keys[middle + 1] \in Int
      BY <1>4, <3>1
    <3>3. CASE keys[middle + 1] = key
      <4>1. f[<<left, right>>] = [found |-> TRUE, index |-> middle]
        <5>1. Turn(f, keys, key, left, right) = [found |-> TRUE, index |-> middle]
          BY <2>2, <3>1, <3>3 DEF Turn
        <5> QED
          BY <1>3, <5>1
      <4> QED
        BY <1>1, <3>1, <3>3, <4>1 DEF Right
    <3>4. CASE keys[middle + 1] > key
      <4>1. f[<<left, right>>] = f[<<left, middle - 1>>]
        <5>1. Turn(f, keys, key, left, right) = f[<<left, middle - 1>>]
          BY <2>2, <3>1, <3>2, <3>4 DEF Turn
        <5> QED
          BY <1>3, <5>1
      <4>2. around(left, middle - 1)
        <5>1. ASSUME NEW i \in 1 .. n, i > middle
              PROVE  keys[i] > key
          <6>1. i = middle + 1 \/ keys[middle + 1] < keys[i]
            BY <1>4, <3>2, <5>1
          <6> QED
            BY <1>4, <3>2, <3>4, <6>1
        <5> QED
          BY <3>1, <5>1
      <4>3. (middle - 1) - left + 1 <= w - 1
        BY <3>1
      <4> QED
        BY <1>7, <3>1, <4>1, <4>2, <4>3
    <3>5. CASE keys[middle + 1] < key
      <4>1. f[<<left, right>>] = f[<<middle + 1, right>>]
        <5>1. Turn(f, keys, key, left, right) = f[<<middle + 1, right>>]
          BY <2>2, <3>1, <3>2, <3>5 DEF Turn
        <5> QED
          BY <1>3, <5>1
      <4>2. around(middle + 1, right)
        <5>1. ASSUME NEW i \in 1 .. n, i <= middle + 1
              PROVE  keys[i] < key
          <6>1. i = middle + 1 \/ keys[i] < keys[middle + 1]
            BY <1>4, <3>2, <5>1
          <6> QED
            BY <1>4, <3>2, <3>5, <6>1
        <5> QED
          BY <3>1, <5>1
      <4>3. right - (middle + 1) + 1 <= w - 1
        BY <3>1
      <4> QED
        BY <1>7, <3>1, <4>1, <4>2, <4>3
    <3> QED
      BY <3>2, <3>3, <3>4, <3>5
  <2> QED
    BY <2>1, <2>2
<1>8. n \in holds
  <2> HIDE DEF holds
  <2>1. 0 .. n \subseteq holds
    BY <1>6, <1>7, Along
  <2> QED
    BY <2>1
<1>9. CASE n = 0
  <2>1. around(0, -1) /\ 0 \in 0 .. n /\ -1 \in -1 .. n - 1
    BY <1>9
  <2> QED
    BY <1>2, <1>8, <1>9, <2>1
<1>10. CASE n # 0
  <2>1. around(0, n - 1) /\ 0 \in 0 .. n /\ n - 1 \in -1 .. n - 1
    OBVIOUS
  <2> QED
    BY <1>2, <1>8, <2>1
<1> QED
  BY <1>9, <1>10

----------------------------------------------------------------------------
(* The arrays.                                                             *)

\* memmove makes room for an element, or closes the gap of one.
LEMMA Inserted ==
  ASSUME NEW S, NEW s \in Seq(S), NEW e \in S, NEW k \in 0 .. Len(s)
  PROVE  /\ InsertAt(s, k + 1, e) \in Seq(S)
         /\ Len(InsertAt(s, k + 1, e)) = Len(s) + 1
         /\ \A i \in 1 .. Len(s) + 1 :
              InsertAt(s, k + 1, e)[i] = IF i <= k THEN s[i] ELSE IF i = k + 1 THEN e ELSE s[i - 1]
<1>1. Len(s) \in Nat /\ \A i \in 1 .. Len(s) : s[i] \in S
  BY LenProperties, ElementOfSeq
<1>2. PICK a : a = SubSeq(s, 1, k)
  OBVIOUS
<1>3. PICK b : b = SubSeq(s, k + 1, Len(s))
  OBVIOUS
<1>4. a \in Seq(S) /\ Len(a) = k /\ \A i \in 1 .. k : a[i] = s[i]
  BY <1>1, <1>2, SubSeqProperties
<1>5. b \in Seq(S) /\ Len(b) = Len(s) - k /\ \A i \in 1 .. Len(s) - k : b[i] = s[k + i]
  <2>1. \A i \in k + 1 .. Len(s) : s[i] \in S
    BY <1>1
  <2>2. /\ b \in Seq(S)
        /\ Len(b) = IF k + 1 <= Len(s) THEN Len(s) - (k + 1) + 1 ELSE 0
        /\ \A i \in 1 .. Len(s) - (k + 1) + 1 : b[i] = s[(k + 1) + i - 1]
    BY <1>1, <1>3, <2>1, SubSeqProperties
  <2> QED
    BY <1>1, <2>2
<1>6. PICK c : c = <<e>>
  OBVIOUS
<1>7. c \in Seq(S) /\ Len(c) = 1 /\ c[1] = e
  BY <1>6
<1>8. PICK d : d = a \o c
  OBVIOUS
<1>9. /\ d \in Seq(S) /\ Len(d) = k + 1
      /\ \A i \in 1 .. k + 1 : d[i] = IF i <= k THEN a[i] ELSE c[i - k]
  <2>1. /\ d \in Seq(S) /\ Len(d) = Len(a) + Len(c)
        /\ \A i \in 1 .. Len(a) + Len(c) : d[i] = IF i <= Len(a) THEN a[i] ELSE c[i - Len(a)]
    BY <1>4, <1>7, <1>8, ConcatProperties
  <2> QED
    BY <1>4, <1>7, <2>1
<1>10. PICK f : f = d \o b
  OBVIOUS
<1>11. /\ f \in Seq(S) /\ Len(f) = Len(d) + Len(b)
       /\ \A i \in 1 .. Len(d) + Len(b) : f[i] = IF i <= Len(d) THEN d[i] ELSE b[i - Len(d)]
  BY <1>5, <1>9, <1>10, ConcatProperties
<1>12. InsertAt(s, k + 1, e) = f
  <2>1. (k + 1) - 1 = k
    OBVIOUS
  <2> QED
    BY <1>2, <1>3, <1>6, <1>8, <1>10, <2>1 DEF InsertAt
<1>13. Len(f) = Len(s) + 1
  BY <1>1, <1>5, <1>9, <1>11
<1>14. ASSUME NEW i \in 1 .. Len(s) + 1
       PROVE  f[i] = IF i <= k THEN s[i] ELSE IF i = k + 1 THEN e ELSE s[i - 1]
  <2>1. i \in 1 .. Len(d) + Len(b) /\ Len(d) = k + 1
    BY <1>1, <1>5, <1>9
  <2>2. CASE i <= k
    BY <1>4, <1>9, <1>11, <2>1, <2>2
  <2>3. CASE i = k + 1
    BY <1>7, <1>9, <1>11, <2>1, <2>3
  <2>4. CASE i > k + 1
    <3>1. i - (k + 1) \in 1 .. Len(s) - k /\ k + (i - (k + 1)) = i - 1
      BY <1>1, <2>4
    <3>2. f[i] = b[i - (k + 1)]
      BY <1>11, <2>1, <2>4
    <3>3. b[i - (k + 1)] = s[i - 1]
      BY <1>5, <3>1
    <3> QED
      BY <2>4, <3>2, <3>3
  <2> QED
    BY <2>2, <2>3, <2>4
<1> QED
  BY <1>11, <1>12, <1>13, <1>14

\* A sequence without its element at k (games.c: the memmove of a removal).
LEMMA Removed ==
  ASSUME NEW S, NEW s \in Seq(S), NEW k \in 1 .. Len(s)
  PROVE  /\ RemoveAt(s, k) \in Seq(S)
         /\ Len(RemoveAt(s, k)) = Len(s) - 1
         /\ \A i \in 1 .. Len(s) - 1 : RemoveAt(s, k)[i] = IF i < k THEN s[i] ELSE s[i + 1]
<1>1. Len(s) \in Nat /\ \A i \in 1 .. Len(s) : s[i] \in S
  BY LenProperties, ElementOfSeq
<1>2. PICK a : a = SubSeq(s, 1, k - 1)
  OBVIOUS
<1>3. PICK b : b = SubSeq(s, k + 1, Len(s))
  OBVIOUS
<1>4. a \in Seq(S) /\ Len(a) = k - 1 /\ \A i \in 1 .. k - 1 : a[i] = s[i]
  <2>1. /\ a \in Seq(S)
        /\ Len(a) = IF 1 <= k - 1 THEN (k - 1) - 1 + 1 ELSE 0
        /\ \A i \in 1 .. (k - 1) - 1 + 1 : a[i] = s[1 + i - 1]
    BY <1>1, <1>2, SubSeqProperties
  <2> QED
    BY <1>1, <2>1
<1>5. b \in Seq(S) /\ Len(b) = Len(s) - k /\ \A i \in 1 .. Len(s) - k : b[i] = s[k + i]
  <2>1. \A i \in k + 1 .. Len(s) : s[i] \in S
    BY <1>1
  <2>2. /\ b \in Seq(S)
        /\ Len(b) = IF k + 1 <= Len(s) THEN Len(s) - (k + 1) + 1 ELSE 0
        /\ \A i \in 1 .. Len(s) - (k + 1) + 1 : b[i] = s[(k + 1) + i - 1]
    BY <1>1, <1>3, <2>1, SubSeqProperties
  <2> QED
    BY <1>1, <2>2
<1>6. PICK f : f = a \o b
  OBVIOUS
<1>7. /\ f \in Seq(S) /\ Len(f) = Len(a) + Len(b)
      /\ \A i \in 1 .. Len(a) + Len(b) : f[i] = IF i <= Len(a) THEN a[i] ELSE b[i - Len(a)]
  BY <1>4, <1>5, <1>6, ConcatProperties
<1>8. RemoveAt(s, k) = f
  BY <1>2, <1>3, <1>6 DEF RemoveAt
<1>9. Len(f) = Len(s) - 1
  BY <1>1, <1>4, <1>5, <1>7
<1>10. ASSUME NEW i \in 1 .. Len(s) - 1
       PROVE  f[i] = IF i < k THEN s[i] ELSE s[i + 1]
  <2>1. i \in 1 .. Len(a) + Len(b) /\ Len(a) = k - 1
    BY <1>1, <1>4, <1>5
  <2>2. CASE i < k
    BY <1>4, <1>7, <2>1, <2>2
  <2>3. CASE i >= k
    <3>1. i - (k - 1) \in 1 .. Len(s) - k /\ k + (i - (k - 1)) = i + 1
      BY <1>1, <2>3
    <3> QED
      BY <1>5, <1>7, <2>1, <2>3, <3>1
  <2> QED
    BY <2>2, <2>3
<1> QED
  BY <1>7, <1>8, <1>9, <1>10

----------------------------------------------------------------------------
(* The names of the policy.                                                *)

NameLists == {names \in Seq(Names) : Increasing(names)}

\* A name is inserted where the search says it belongs, and only once.
LEMMA NameAdded ==
  ASSUME NEW names \in NameLists, NEW game \in Names
  PROVE  /\ AddName(names, game) \in NameLists
         /\ ToSet(AddName(names, game)) = ToSet(names) \cup {game}
<1>1. /\ names \in Seq(Names) /\ Len(names) \in Nat /\ DOMAIN names = 1 .. Len(names)
      /\ \A i \in 1 .. Len(names) : names[i] \in Names
      /\ \A i, j \in 1 .. Len(names) : i < j => names[i] < names[j]
  BY LenProperties, ElementOfSeq DEF NameLists, Increasing, IsSorted
<1>2. Names \subseteq Int
  BY GameAssumption
<1>3. PICK f : f = Game_Find(names, game)
  OBVIOUS
<1>4. Right(names, game, f)
  <2>1. names \in Seq(Int) /\ game \in Int
    BY <1>1, <1>2, SeqMonotonic
  <2> QED
    BY <1>3, <2>1, FindIsRight DEF NameLists
<1>5. CASE f.found
  <2>1. AddName(names, game) = names
    BY <1>3, <1>5 DEF AddName
  <2>2. game \in ToSet(names)
    BY <1>1, <1>4, <1>5 DEF Right, ToSet
  <2> QED
    BY <2>1, <2>2
<1>6. CASE ~ f.found
  <2>1. PICK k \in 0 .. Len(names) :
               /\ k = f.index
               /\ \A i \in 1 .. Len(names) : IF i <= k THEN names[i] < game ELSE names[i] > game
    BY <1>1, <1>4, <1>6 DEF Right
  <2>2. PICK new : new = InsertAt(names, k + 1, game)
    OBVIOUS
  <2>3. /\ new \in Seq(Names) /\ Len(new) = Len(names) + 1
        /\ \A i \in 1 .. Len(names) + 1 :
             new[i] = IF i <= k THEN names[i] ELSE IF i = k + 1 THEN game ELSE names[i - 1]
    <3>1. names \in Seq(Names) /\ k \in 0 .. Len(names) /\ game \in Names
      BY <1>1
    <3>2. /\ InsertAt(names, k + 1, game) \in Seq(Names)
          /\ Len(InsertAt(names, k + 1, game)) = Len(names) + 1
          /\ \A i \in 1 .. Len(names) + 1 :
               InsertAt(names, k + 1, game)[i] =
                 IF i <= k THEN names[i] ELSE IF i = k + 1 THEN game ELSE names[i - 1]
      BY <3>1, Inserted
    <3> QED
      BY <2>2, <3>2
  <2>4. AddName(names, game) = new
    BY <1>3, <1>6, <2>1, <2>2 DEF AddName
  <2>5. ASSUME NEW i \in 1 .. Len(new), NEW j \in 1 .. Len(new), i < j
        PROVE  new[i] < new[j]
    BY <1>1, <1>2, <2>1, <2>3, <2>5
  <2>6. new \in NameLists
    BY <2>3, <2>5 DEF NameLists, Increasing, IsSorted
  <2>7. DOMAIN new = 1 .. Len(names) + 1
    BY <2>3, LenProperties
  <2>8. ASSUME NEW x \in ToSet(new)
        PROVE  x \in ToSet(names) \cup {game}
    <3>1. PICK i \in 1 .. Len(names) + 1 : x = new[i]
      BY <2>7 DEF ToSet
    <3>2. x = game \/ (\E j \in 1 .. Len(names) : x = names[j])
      <4>1. CASE i <= k
        BY <1>1, <2>1, <2>3, <3>1, <4>1
      <4>2. CASE i = k + 1
        BY <2>3, <3>1, <4>2
      <4>3. CASE i > k + 1
        <5>1. x = names[i - 1] /\ i - 1 \in 1 .. Len(names)
          BY <1>1, <2>3, <3>1, <4>3
        <5> QED
          BY <5>1
      <4> QED
        BY <1>1, <4>1, <4>2, <4>3
    <3> QED
      BY <1>1, <3>2 DEF ToSet
  <2>9. ASSUME NEW x \in ToSet(names) \cup {game}
        PROVE  x \in ToSet(new)
    <3>1. CASE x = game
      <4>1. k + 1 \in 1 .. Len(names) + 1 /\ new[k + 1] = x
        BY <1>1, <2>3, <3>1
      <4> QED
        BY <2>7, <4>1 DEF ToSet
    <3>2. CASE x # game
      <4>1. PICK i \in 1 .. Len(names) : x = names[i]
        BY <1>1, <3>2 DEF ToSet
      <4>2. IF i <= k THEN i \in 1 .. Len(names) + 1 /\ new[i] = x
            ELSE i + 1 \in 1 .. Len(names) + 1 /\ new[i + 1] = x
        BY <1>1, <2>3, <4>1
      <4> QED
        BY <2>7, <4>2 DEF ToSet
    <3> QED
      BY <3>1, <3>2
  <2> QED
    BY <2>4, <2>6, <2>8, <2>9
<1> QED
  BY <1>5, <1>6

\* A list adds its names, and no others, to those there are.
LEMMA NamesAdded ==
  ASSUME NEW names \in NameLists, NEW games \in Seq(Names)
  PROVE  /\ FoldLeft(AddName, names, games) \in NameLists
         /\ ToSet(FoldLeft(AddName, names, games)) = ToSet(names) \cup ToSet(games)
<1>1. PICK n \in Nat : n = Len(games) /\ DOMAIN games = 1 .. n
  BY LenProperties
<1>2. \A i \in 1 .. n : games[i] \in Names
  BY <1>1, ElementOfSeq
<1>3. PICK F : F = [i \in 1 .. n |-> [w \in NameLists |-> AddName(w, games[i])]]
  OBVIOUS
<1>4. /\ F \in [1 .. n -> [NameLists -> NameLists]]
      /\ \A i \in 1 .. n, w \in NameLists : F[i][w] = AddName(w, games[i])
  BY <1>2, <1>3, NameAdded
<1> DEFINE equation(g) == g = [t \in SUBSET (1 .. n) |->
                                 IF t = {} THEN names
                                 ELSE AddName(g[t \ {Max(t)}], games[Max(t)])]
<1>5. FoldLeft(AddName, names, games) = (CHOOSE g : equation(g))[1 .. n]
  BY <1>1 DEF FoldLeft, MapThenFoldSet
<1>6. \E g : equation(g)
  <2>1. PICK g \in [SUBSET (1 .. n) -> NameLists] : FoldEquation(g, n, names, F)
    BY <1>4, FoldExists
  <2>2. ASSUME NEW t \in SUBSET (1 .. n)
        PROVE  g[t] = IF t = {} THEN names ELSE AddName(g[t \ {Max(t)}], games[Max(t)])
    <3>1. CASE t = {}
      BY <2>1, <3>1 DEF FoldEquation
    <3>2. CASE t # {}
      <4>1. Max(t) \in 1 .. n /\ g[t \ {Max(t)}] \in NameLists
        BY <2>1, <3>2, LastPosition
      <4> QED
        BY <1>4, <2>1, <3>2, <4>1 DEF FoldEquation
    <3> QED
      BY <3>1, <3>2
  <2> QED
    BY <2>1, <2>2
<1>7. PICK g : equation(g) /\ FoldLeft(AddName, names, games) = g[1 .. n]
  <2> HIDE DEF equation
  <2> QED
    BY <1>5, <1>6
<1>8. PICK h \in [0 .. n -> NameLists] : /\ h[0] = names
                                         /\ \A i \in 1 .. n : h[i] = F[i][h[i - 1]]
                                         /\ h[n] = g[1 .. n]
  <2>1. g[{}] = names
    BY <1>7
  <2>2. ASSUME NEW t \in SUBSET (1 .. n), t # {}, g[t \ {Max(t)}] \in NameLists
        PROVE  g[t] = F[Max(t)][g[t \ {Max(t)}]]
    <3>1. Max(t) \in 1 .. n
      BY <2>2, LastPosition
    <3>2. g[t] = AddName(g[t \ {Max(t)}], games[Max(t)])
      BY <1>7, <2>2
    <3> QED
      BY <1>4, <2>2, <3>1, <3>2
  <2>3. ObeysWithin(g, n, names, F, NameLists)
    BY <2>1, <2>2 DEF ObeysWithin
  <2> HIDE DEF equation
  <2> QED
    BY <1>4, <2>3, FoldResults DEF ResultsOf
<1> DEFINE holds == {i \in 0 .. n : ToSet(h[i]) = ToSet(names) \cup {games[j] : j \in 1 .. i}}
<1>9. 0 \in holds
  BY <1>8
<1>10. ASSUME NEW i \in 1 .. n, i - 1 \in holds
       PROVE  i \in holds
  <2>1. h[i] = AddName(h[i - 1], games[i]) /\ h[i - 1] \in NameLists
    BY <1>4, <1>8
  <2>2. ToSet(h[i]) = ToSet(h[i - 1]) \cup {games[i]}
    BY <1>2, <2>1, NameAdded
  <2>3. {games[j] : j \in 1 .. i} = {games[j] : j \in 1 .. (i - 1)} \cup {games[i]}
    OBVIOUS
  <2> QED
    BY <1>10, <2>2, <2>3
<1>11. n \in holds
  <2> HIDE DEF holds
  <2>1. 0 .. n \subseteq holds
    BY <1>9, <1>10, Along
  <2> QED
    BY <2>1
<1>12. /\ FoldLeft(AddName, names, games) = h[n] /\ h[n] \in NameLists
       /\ ToSet(h[n]) = ToSet(names) \cup {games[j] : j \in 1 .. n}
  <2> HIDE DEF equation
  <2> QED
    BY <1>7, <1>8, <1>11
<1>13. ToSet(games) = {games[j] : j \in 1 .. n}
  BY <1>1 DEF ToSet
<1> HIDE DEF equation, holds
<1> QED
  BY <1>12, <1>13

----------------------------------------------------------------------------
(* The protocols and the games they are associated to.                     *)

AssocLists ==
  {s \in Seq(Assocs) : \A i, j \in 1 .. Len(s) : i < j => s[i].protocol < s[j].protocol}

\* An array of associations, taken apart.
LEMMA AssocListHas ==
  ASSUME NEW s \in AssocLists
  PROVE  /\ s \in Seq(Assocs) /\ Len(s) \in Nat /\ DOMAIN s = 1 .. Len(s)
         /\ \A i \in 1 .. Len(s) : /\ s[i] \in Assocs
                                   /\ s[i].protocol \in Protocols /\ s[i].protocol \in Int
                                   /\ s[i].game \in Names
         /\ \A i, j \in 1 .. Len(s) : i < j => s[i].protocol < s[j].protocol
<1>1. \A a \in Assocs : a.protocol \in Protocols /\ a.protocol \in Int /\ a.game \in Names
  BY GameAssumption DEF Assocs
<1>2. s \in Seq(Assocs) /\ \A i, j \in 1 .. Len(s) : i < j => s[i].protocol < s[j].protocol
  BY DEF AssocLists
<1>3. Len(s) \in Nat /\ DOMAIN s = 1 .. Len(s) /\ \A i \in 1 .. Len(s) : s[i] \in Assocs
  BY <1>2, LenProperties, ElementOfSeq
<1> QED
  BY <1>1, <1>2, <1>3

\* The search in the array of associations.
LEMMA ProtocolFound ==
  ASSUME NEW s \in AssocLists, NEW p \in Protocols, NEW r, r = Game_FindAnonymous(s, p)
  PROVE  /\ r.found \in BOOLEAN
         /\ r.found => r.index + 1 \in 1 .. Len(s) /\ s[r.index + 1].protocol = p
         /\ ~ r.found => /\ r.index \in 0 .. Len(s)
                         /\ \A i \in 1 .. Len(s) : IF i <= r.index THEN s[i].protocol < p
                                                                   ELSE s[i].protocol > p
<1>1. /\ s \in Seq(Assocs) /\ Len(s) \in Nat /\ DOMAIN s = 1 .. Len(s)
      /\ \A i \in 1 .. Len(s) : s[i].protocol \in Int
      /\ \A i, j \in 1 .. Len(s) : i < j => s[i].protocol < s[j].protocol
  BY AssocListHas
<1>2. PICK keys : keys = [i \in 1 .. Len(s) |-> s[i].protocol]
  OBVIOUS
<1>3. keys \in [1 .. Len(s) -> Int] /\ \A i \in 1 .. Len(s) : keys[i] = s[i].protocol
  BY <1>1, <1>2
<1>4. keys \in Seq(Int)
  BY <1>1, <1>3, SeqDef
<1>5. Len(keys) = Len(s)
  BY <1>1, <1>3, <1>4, LenProperties
<1>6. Increasing(keys)
  BY <1>1, <1>3, <1>5 DEF Increasing, IsSorted
<1>7. p \in Int
  BY GameAssumption
<1>8. r = Game_Find(keys, p)
  BY <1>1, <1>2 DEF Game_FindAnonymous
<1>9. Right(keys, p, r)
  BY <1>4, <1>6, <1>7, <1>8, FindIsRight
<1>10. ASSUME r.found
       PROVE  r.index + 1 \in 1 .. Len(s) /\ s[r.index + 1].protocol = p
  <2>1. r.index \in Nat /\ r.index < Len(s) /\ keys[r.index + 1] = p
    BY <1>5, <1>9, <1>10 DEF Right
  <2> QED
    BY <1>1, <1>3, <2>1
<1>11. ASSUME ~ r.found
       PROVE  /\ r.index \in 0 .. Len(s)
              /\ \A i \in 1 .. Len(s) : IF i <= r.index THEN s[i].protocol < p
                                                        ELSE s[i].protocol > p
  BY <1>1, <1>3, <1>5, <1>9, <1>11 DEF Right
<1> QED
  BY <1>9, <1>10, <1>11 DEF Right

Assoc(p, game) == [protocol |-> p, game |-> game]
Without(assocs, p) == {a \in assocs : a.protocol # p}

\* What Game_AddProtocol makes of the array.
Added(s, p, game) ==
  LET f == Game_FindAnonymous(s, p)
  IN  IF f.found THEN ReplaceAt(s, f.index + 1, Assoc(p, game))
      ELSE InsertAt(s, f.index + 1, Assoc(p, game))

\* The protocol belongs to the game afterwards, the others are as they were.
LEMMA ProtocolAdded ==
  ASSUME NEW s \in AssocLists, NEW p \in Protocols, NEW game \in Names
  PROVE  /\ Added(s, p, game) \in AssocLists
         /\ ToSet(Added(s, p, game)) = Without(ToSet(s), p) \cup {Assoc(p, game)}
<1>1. /\ s \in Seq(Assocs) /\ Len(s) \in Nat /\ DOMAIN s = 1 .. Len(s)
      /\ \A i \in 1 .. Len(s) : s[i] \in Assocs /\ s[i].protocol \in Int
      /\ \A i, j \in 1 .. Len(s) : i < j => s[i].protocol < s[j].protocol
  BY AssocListHas
<1>2. PICK r : r = Game_FindAnonymous(s, p)
  OBVIOUS
<1>3. PICK a : a = Assoc(p, game)
  OBVIOUS
<1>4. a \in Assocs /\ a.protocol = p /\ p \in Int
  BY <1>3, GameAssumption DEF Assoc, Assocs
<1>5. PICK new : new = Added(s, p, game)
  OBVIOUS
<1>6. CASE r.found
  <2>1. PICK k \in 1 .. Len(s) : k = r.index + 1 /\ s[k].protocol = p
    BY <1>2, <1>6, ProtocolFound
  <2>2. new = [s EXCEPT ![k] = a]
    BY <1>2, <1>3, <1>5, <1>6, <2>1 DEF Added, ReplaceAt
  <2>3. /\ new \in Seq(Assocs) /\ Len(new) = Len(s) /\ DOMAIN new = 1 .. Len(s)
        /\ \A i \in 1 .. Len(s) : new[i] = IF i = k THEN a ELSE s[i]
    <3>1. new \in Seq(Assocs) /\ Len(new) = Len(s)
      BY <1>1, <1>4, <2>1, <2>2, ExceptSeq
    <3> QED
      BY <1>1, <2>2, <3>1
  <2>4. new \in AssocLists
    BY <1>1, <1>4, <2>1, <2>3 DEF AssocLists
  <2>5. \A i \in 1 .. Len(s) : i # k => s[i].protocol # p
    <3> TAKE i \in 1 .. Len(s)
    <3>1. i < k \/ i = k \/ k < i
      BY <2>1
    <3> QED
      BY <1>1, <2>1, <3>1
  <2>6. ToSet(new) = Without(ToSet(s), p) \cup {a}
    <3>1. ToSet(new) \subseteq Without(ToSet(s), p) \cup {a}
      BY <1>1, <2>3, <2>5 DEF ToSet, Without
    <3>2. Without(ToSet(s), p) \cup {a} \subseteq ToSet(new)
      BY <1>1, <2>1, <2>3, <2>5 DEF ToSet, Without
    <3> QED
      BY <3>1, <3>2
  <2> QED
    BY <1>3, <1>5, <2>4, <2>6
<1>7. CASE ~ r.found
  <2>1. PICK k \in 0 .. Len(s) :
               /\ k = r.index
               /\ \A i \in 1 .. Len(s) : IF i <= k THEN s[i].protocol < p ELSE s[i].protocol > p
    BY <1>2, <1>7, ProtocolFound
  <2>2. new = InsertAt(s, k + 1, a)
    BY <1>2, <1>3, <1>5, <1>7, <2>1 DEF Added
  <2>3. /\ new \in Seq(Assocs) /\ Len(new) = Len(s) + 1
        /\ \A i \in 1 .. Len(s) + 1 :
             new[i] = IF i <= k THEN s[i] ELSE IF i = k + 1 THEN a ELSE s[i - 1]
    <3>1. s \in Seq(Assocs) /\ k \in 0 .. Len(s) /\ a \in Assocs
      BY <1>1, <1>4
    <3>2. /\ InsertAt(s, k + 1, a) \in Seq(Assocs)
          /\ Len(InsertAt(s, k + 1, a)) = Len(s) + 1
          /\ \A i \in 1 .. Len(s) + 1 :
               InsertAt(s, k + 1, a)[i] =
                 IF i <= k THEN s[i] ELSE IF i = k + 1 THEN a ELSE s[i - 1]
      BY <3>1, Inserted
    <3> QED
      BY <2>2, <3>2
  <2>4. ASSUME NEW i \in 1 .. Len(new), NEW j \in 1 .. Len(new), i < j
        PROVE  new[i].protocol < new[j].protocol
    <3>1. CASE j <= k
      BY <1>1, <2>1, <2>3, <2>4, <3>1
    <3>2. CASE j = k + 1
      BY <1>1, <1>4, <2>1, <2>3, <2>4, <3>2
    <3>3. CASE j > k + 1 /\ i = k + 1
      BY <1>1, <1>4, <2>1, <2>3, <2>4, <3>3
    <3>4. CASE j > k + 1 /\ i <= k
      <4>1. new[i] = s[i] /\ new[j] = s[j - 1] /\ i \in 1 .. Len(s) /\ j - 1 \in 1 .. Len(s)
            /\ i < j - 1
        BY <1>1, <2>3, <2>4, <3>4
      <4> QED
        BY <1>1, <4>1
    <3>5. CASE j > k + 1 /\ i > k + 1
      <4>1. /\ new[i] = s[i - 1] /\ new[j] = s[j - 1] /\ i - 1 \in 1 .. Len(s)
            /\ j - 1 \in 1 .. Len(s) /\ i - 1 < j - 1
        BY <1>1, <2>3, <2>4, <3>5
      <4> QED
        BY <1>1, <4>1
    <3> QED
      BY <1>1, <2>3, <3>1, <3>2, <3>3, <3>4, <3>5
  <2>5. new \in AssocLists
    BY <2>3, <2>4 DEF AssocLists
  <2>6. DOMAIN new = 1 .. Len(s) + 1
    BY <2>3, LenProperties
  <2>7. \A i \in 1 .. Len(s) : s[i].protocol # p
    BY <1>1, <1>4, <2>1
  <2>8. ASSUME NEW x \in ToSet(new)
        PROVE  x = a \/ \E j \in 1 .. Len(s) : x = s[j]
    <3>1. PICK i \in 1 .. Len(s) + 1 : x = new[i]
      BY <2>6 DEF ToSet
    <3>2. CASE i <= k
      BY <1>1, <2>1, <2>3, <3>1, <3>2
    <3>3. CASE i = k + 1
      BY <2>3, <3>1, <3>3
    <3>4. CASE i > k + 1
      <4>1. x = s[i - 1] /\ i - 1 \in 1 .. Len(s)
        BY <1>1, <2>3, <3>1, <3>4
      <4> QED
        BY <4>1
    <3> QED
      BY <1>1, <3>2, <3>3, <3>4
  <2>9. a \in ToSet(new)
    <3>1. k + 1 \in 1 .. Len(s) + 1 /\ new[k + 1] = a
      BY <1>1, <2>3
    <3> QED
      BY <2>6, <3>1 DEF ToSet
  <2>10. ASSUME NEW j \in 1 .. Len(s)
         PROVE  s[j] \in ToSet(new)
    <3>1. IF j <= k THEN j \in 1 .. Len(s) + 1 /\ new[j] = s[j]
          ELSE j + 1 \in 1 .. Len(s) + 1 /\ new[j + 1] = s[j]
      BY <1>1, <2>3
    <3> QED
      BY <2>6, <3>1 DEF ToSet
  <2>11. ToSet(s) = {s[j] : j \in 1 .. Len(s)}
    BY <1>1 DEF ToSet
  <2>12. Without(ToSet(s), p) = ToSet(s)
    BY <2>7, <2>11 DEF Without
  <2>13. ToSet(new) = ToSet(s) \cup {a}
    BY <2>8, <2>9, <2>10, <2>11
  <2> QED
    BY <1>3, <1>5, <2>5, <2>12, <2>13
<1>8. r.found \in BOOLEAN
  BY <1>2, ProtocolFound
<1> QED
  BY <1>6, <1>7, <1>8

\* What Game_RemoveProtocol makes of the array.
LEMMA ProtocolRemoved ==
  ASSUME NEW s \in AssocLists, NEW k \in 1 .. Len(s)
  PROVE  /\ RemoveAt(s, k) \in AssocLists
         /\ ToSet(RemoveAt(s, k)) = Without(ToSet(s), s[k].protocol)
<1>1. /\ s \in Seq(Assocs) /\ Len(s) \in Nat /\ DOMAIN s = 1 .. Len(s)
      /\ \A i \in 1 .. Len(s) : s[i] \in Assocs /\ s[i].protocol \in Int
      /\ \A i, j \in 1 .. Len(s) : i < j => s[i].protocol < s[j].protocol
  BY AssocListHas
<1>2. PICK new : new = RemoveAt(s, k)
  OBVIOUS
<1>3. /\ new \in Seq(Assocs) /\ Len(new) = Len(s) - 1
      /\ \A i \in 1 .. Len(s) - 1 : new[i] = IF i < k THEN s[i] ELSE s[i + 1]
  <2>1. /\ RemoveAt(s, k) \in Seq(Assocs) /\ Len(RemoveAt(s, k)) = Len(s) - 1
        /\ \A i \in 1 .. Len(s) - 1 : RemoveAt(s, k)[i] = IF i < k THEN s[i] ELSE s[i + 1]
    BY <1>1, Removed
  <2> QED
    BY <1>2, <2>1
<1>4. DOMAIN new = 1 .. Len(s) - 1
  BY <1>3, LenProperties
<1>5. ASSUME NEW i \in 1 .. Len(new), NEW j \in 1 .. Len(new), i < j
      PROVE  new[i].protocol < new[j].protocol
  <2>1. /\ i \in 1 .. Len(s) /\ j \in 1 .. Len(s) /\ i + 1 \in 1 .. Len(s) /\ j + 1 \in 1 .. Len(s)
        /\ i < j + 1 /\ i + 1 < j + 1
    BY <1>1, <1>3, <1>5
  <2> QED
    BY <1>1, <1>3, <1>5, <2>1
<1>6. new \in AssocLists
  BY <1>3, <1>5 DEF AssocLists
<1>7. \A i \in 1 .. Len(s) : i # k => s[i].protocol # s[k].protocol
  <2> TAKE i \in 1 .. Len(s)
  <2>1. i < k \/ i = k \/ k < i
    OBVIOUS
  <2> QED
    BY <1>1, <2>1
<1>8. ASSUME NEW x \in ToSet(new)
      PROVE  x \in Without(ToSet(s), s[k].protocol)
  <2>1. PICK i \in 1 .. Len(s) - 1 : x = new[i]
    BY <1>4 DEF ToSet
  <2>2. \E j \in 1 .. Len(s) : j # k /\ x = s[j]
    <3>1. CASE i < k
      BY <1>1, <1>3, <2>1, <3>1
    <3>2. CASE i >= k
      <4>1. i + 1 \in 1 .. Len(s) /\ i + 1 # k /\ x = s[i + 1]
        BY <1>1, <1>3, <2>1, <3>2
      <4> QED
        BY <4>1
    <3> QED
      BY <3>1, <3>2
  <2> QED
    BY <1>1, <1>7, <2>2 DEF ToSet, Without
<1>9. ASSUME NEW x \in Without(ToSet(s), s[k].protocol)
      PROVE  x \in ToSet(new)
  <2>1. PICK i \in 1 .. Len(s) : x = s[i] /\ i # k
    BY <1>1 DEF ToSet, Without
  <2>2. IF i < k THEN i \in 1 .. Len(s) - 1 /\ new[i] = x
        ELSE i - 1 \in 1 .. Len(s) - 1 /\ new[i - 1] = x
    BY <1>1, <1>3, <2>1
  <2> QED
    BY <1>4, <2>2 DEF ToSet
<1> QED
  BY <1>2, <1>6, <1>8, <1>9

\* The copying loop of Game_RemoveAllProtocols.
Kept(s, game) ==
  FoldLeft(LAMBDA kept, assoc : IF assoc.game = game THEN kept ELSE Append(kept, assoc),
           <<>>, s)

\* It keeps the protocols of the other games, in their order.
LEMMA ProtocolsKept ==
  ASSUME NEW s \in AssocLists, NEW game
  PROVE  /\ Kept(s, game) \in AssocLists
         /\ ToSet(Kept(s, game)) = {a \in ToSet(s) : a.game # game}
<1>1. PICK n \in Nat : n = Len(s) /\ DOMAIN s = 1 .. n
  BY AssocListHas
<1>2. /\ \A i \in 1 .. n : s[i] \in Assocs /\ s[i].protocol \in Int
      /\ \A i, j \in 1 .. n : i < j => s[i].protocol < s[j].protocol
  BY <1>1, AssocListHas
<1> DEFINE step(kept, i)  == IF s[i].game = game THEN kept ELSE Append(kept, s[i])
           equation(g) == g = [t \in SUBSET (1 .. n) |->
                                 IF t = {} THEN <<>> ELSE step(g[t \ {Max(t)}], Max(t))]
<1>3. PICK F : F = [i \in 1 .. n |-> [w \in Seq(Assocs) |-> step(w, i)]]
  OBVIOUS
<1>4. /\ F \in [1 .. n -> [Seq(Assocs) -> Seq(Assocs)]]
      /\ \A i \in 1 .. n, w \in Seq(Assocs) : F[i][w] = step(w, i)
  <2>1. \A i \in 1 .. n, w \in Seq(Assocs) : step(w, i) \in Seq(Assocs)
    BY <1>2, AppendProperties
  <2> HIDE DEF step
  <2> QED
    BY <1>3, <2>1
<1>5. Kept(s, game) = (CHOOSE g : equation(g))[1 .. n]
  BY <1>1 DEF Kept, FoldLeft, MapThenFoldSet
<1>6. PICK none \in Seq(Assocs) : none = <<>>
  BY EmptySeq
<1>7. \E g : equation(g)
  <2>1. PICK g \in [SUBSET (1 .. n) -> Seq(Assocs)] : FoldEquation(g, n, none, F)
    BY <1>4, <1>6, FoldExists
  <2>2. ASSUME NEW t \in SUBSET (1 .. n)
        PROVE  g[t] = IF t = {} THEN <<>> ELSE step(g[t \ {Max(t)}], Max(t))
    <3>1. CASE t = {}
      BY <1>6, <2>1, <3>1 DEF FoldEquation
    <3>2. CASE t # {}
      <4>1. Max(t) \in 1 .. n /\ g[t \ {Max(t)}] \in Seq(Assocs)
        BY <2>1, <3>2, LastPosition
      <4>2. g[t] = F[Max(t)][g[t \ {Max(t)}]]
        BY <2>1, <3>2 DEF FoldEquation
      <4> HIDE DEF step
      <4> QED
        BY <1>4, <3>2, <4>1, <4>2
    <3> QED
      BY <3>1, <3>2
  <2> HIDE DEF step
  <2> QED
    BY <2>1, <2>2
<1> HIDE DEF step
<1>8. PICK g : equation(g) /\ Kept(s, game) = g[1 .. n]
  <2> HIDE DEF equation
  <2> QED
    BY <1>5, <1>7
<1>9. PICK h \in [0 .. n -> Seq(Assocs)] : /\ h[0] = none
                                           /\ \A i \in 1 .. n : h[i] = F[i][h[i - 1]]
                                           /\ h[n] = g[1 .. n]
  <2>1. g[{}] = none
    BY <1>6, <1>8
  <2>2. ASSUME NEW t \in SUBSET (1 .. n), t # {}, g[t \ {Max(t)}] \in Seq(Assocs)
        PROVE  g[t] = F[Max(t)][g[t \ {Max(t)}]]
    <3>1. Max(t) \in 1 .. n
      BY <2>2, LastPosition
    <3>2. g[t] = step(g[t \ {Max(t)}], Max(t))
      BY <1>8, <2>2
    <3> QED
      BY <1>4, <2>2, <3>1, <3>2
  <2>3. ObeysWithin(g, n, none, F, Seq(Assocs))
    BY <2>1, <2>2 DEF ObeysWithin
  <2>4. F \in [1 .. n -> [Seq(Assocs) -> Seq(Assocs)]]
    BY <1>4
  <2> HIDE DEF equation
  <2> QED
    <3>1. PICK W : W = Seq(Assocs)
      OBVIOUS
    <3>2. none \in W /\ F \in [1 .. n -> [W -> W]] /\ ObeysWithin(g, n, none, F, W)
      BY <2>3, <2>4, <3>1
    <3>3. \E h \in [0 .. n -> W] : ResultsOf(h, g, n, none, F)
      BY <3>2, FoldResults
    <3> QED
      BY <3>1, <3>3 DEF ResultsOf
<1> DEFINE good(i) == /\ h[i] \in AssocLists
                      /\ \A k \in 1 .. Len(h[i]) : \E j \in 1 .. i : h[i][k] = s[j]
                      /\ ToSet(h[i]) = {a \in {s[j] : j \in 1 .. i} : a.game # game}
           holds == {i \in 0 .. n : good(i)}
<1>10. 0 \in holds
  <2>1. h[0] \in AssocLists /\ Len(h[0]) = 0 /\ DOMAIN h[0] = {}
    BY <1>6, <1>9, EmptySeq DEF AssocLists
  <2> QED
    BY <2>1 DEF ToSet
<1>11. ASSUME NEW i \in 1 .. n, i - 1 \in holds
       PROVE  i \in holds
  <2>1. PICK kept \in AssocLists : kept = h[i - 1]
    BY <1>11
  <2>2. /\ kept \in Seq(Assocs) /\ Len(kept) \in Nat /\ DOMAIN kept = 1 .. Len(kept)
        /\ \A k \in 1 .. Len(kept) : kept[k].protocol \in Int
        /\ \A k, l \in 1 .. Len(kept) : k < l => kept[k].protocol < kept[l].protocol
    BY AssocListHas
  <2>3. /\ \A k \in 1 .. Len(kept) : \E j \in 1 .. i - 1 : kept[k] = s[j]
        /\ ToSet(kept) = {a \in {s[j] : j \in 1 .. i - 1} : a.game # game}
    BY <1>11, <2>1
  <2>4. h[i] = IF s[i].game = game THEN kept ELSE Append(kept, s[i])
    BY <1>4, <1>9, <2>1, <2>2 DEF step
  <2>5. {s[j] : j \in 1 .. i} = {s[j] : j \in 1 .. i - 1} \cup {s[i]}
    <3>1. 1 .. i = (1 .. i - 1) \cup {i}
      OBVIOUS
    <3> QED
      BY <3>1
  <2>6. ASSUME s[i].game = game
        PROVE  good(i)
    <3>1. h[i] = kept
      BY <2>4, <2>6
    <3>2. \A k \in 1 .. Len(kept) : \E j \in 1 .. i : kept[k] = s[j]
      BY <2>3
    <3>3. ToSet(kept) = {a \in {s[j] : j \in 1 .. i} : a.game # game}
      BY <2>3, <2>5, <2>6
    <3> QED
      BY <3>1, <3>2, <3>3
  <2>7. ASSUME s[i].game # game
        PROVE  good(i)
    <3>1. PICK new : new = Append(kept, s[i])
      OBVIOUS
    <3>2. /\ new \in Seq(Assocs) /\ Len(new) = Len(kept) + 1
          /\ \A k \in 1 .. Len(kept) : new[k] = kept[k]
          /\ new[Len(kept) + 1] = s[i]
      BY <1>2, <2>2, <3>1, AppendProperties
    <3>3. DOMAIN new = 1 .. Len(kept) + 1
      BY <3>2, LenProperties
    <3>4. \A k \in 1 .. Len(kept) : kept[k].protocol < s[i].protocol
      <4> TAKE k \in 1 .. Len(kept)
      <4>1. PICK j \in 1 .. i - 1 : kept[k] = s[j]
        BY <2>3
      <4>2. j \in 1 .. n /\ j < i
        OBVIOUS
      <4> QED
        BY <1>2, <4>1, <4>2
    <3>5. ASSUME NEW k \in 1 .. Len(new), NEW l \in 1 .. Len(new), k < l
          PROVE  new[k].protocol < new[l].protocol
      <4>1. k \in 1 .. Len(kept) /\ (l \in 1 .. Len(kept) \/ l = Len(kept) + 1)
        BY <2>2, <3>2, <3>5
      <4> QED
        BY <2>2, <3>2, <3>4, <3>5, <4>1
    <3>6. new \in AssocLists
      BY <3>2, <3>5 DEF AssocLists
    <3>7. \A k \in 1 .. Len(new) : \E j \in 1 .. i : new[k] = s[j]
      <4> TAKE k \in 1 .. Len(new)
      <4>1. k \in 1 .. Len(kept) \/ k = Len(kept) + 1
        BY <2>2, <3>2
      <4>2. CASE k \in 1 .. Len(kept)
        <5>1. PICK j \in 1 .. i - 1 : kept[k] = s[j]
          BY <2>3, <4>2
        <5> QED
          BY <3>2, <4>2, <5>1
      <4> QED
        BY <3>2, <4>1, <4>2
    <3>8. ToSet(new) = ToSet(kept) \cup {s[i]}
      <4>1. ToSet(kept) = {kept[k] : k \in 1 .. Len(kept)}
        BY <2>2 DEF ToSet
      <4>2. ToSet(new) = {new[k] : k \in 1 .. Len(kept) + 1}
        BY <3>3 DEF ToSet
      <4>3. 1 .. Len(kept) + 1 = (1 .. Len(kept)) \cup {Len(kept) + 1}
        BY <2>2
      <4> QED
        BY <3>2, <4>1, <4>2, <4>3
    <3>9. ToSet(new) = {a \in {s[j] : j \in 1 .. i} : a.game # game}
      BY <2>3, <2>5, <2>7, <3>8
    <3>10. h[i] = new
      BY <2>4, <2>7, <3>1
    <3> QED
      BY <3>6, <3>7, <3>9, <3>10
  <2>8. good(i) /\ i \in 0 .. n
    BY <2>6, <2>7
  <2> HIDE DEF good
  <2> QED
    BY <2>8
<1>12. n \in holds
  <2> HIDE DEF holds
  <2>1. 0 .. n \subseteq holds
    BY <1>10, <1>11, Along
  <2> QED
    BY <2>1
<1>13. ToSet(s) = {s[j] : j \in 1 .. n}
  BY <1>1 DEF ToSet
<1>14. Kept(s, game) = h[n]
  <2> HIDE DEF equation
  <2> QED
    BY <1>8, <1>9
<1> HIDE DEF equation
<1> QED
  BY <1>12, <1>13, <1>14

----------------------------------------------------------------------------
(* The properties of the games.  Every operation on a work record keeps    *)
(* the protocols sorted and each of them with a game of the list.          *)

Work(st, list, protocols) == [status |-> st, list |-> list, protocols |-> protocols]
NamesOf(list) == {list[i].name : i \in 1 .. Len(list)}

Statuses == {"parsing", "refused", "undefined"}
Works ==
  {w \in [status : Statuses, list : Seq(Properties), protocols : AssocLists] :
     \A a \in ToSet(w.protocols) : a.game \in NamesOf(w.list)}

\* A work record, taken apart.
LEMMA WorkHas ==
  ASSUME NEW w \in Works
  PROVE  /\ w = Work(w.status, w.list, w.protocols)
         /\ w.status \in Statuses /\ w.list \in Seq(Properties) /\ w.protocols \in AssocLists
         /\ \A a \in ToSet(w.protocols) : a.game \in NamesOf(w.list)
  BY DEF Works, Work

\* A work record, put together.
LEMMA WorkIs ==
  ASSUME NEW st \in Statuses, NEW list \in Seq(Properties), NEW protocols \in AssocLists,
         \A a \in ToSet(protocols) : a.game \in NamesOf(list)
  PROVE  /\ Work(st, list, protocols) \in Works
         /\ Work(st, list, protocols).status = st
         /\ Work(st, list, protocols).list = list
         /\ Work(st, list, protocols).protocols = protocols
  BY DEF Works, Work

\* What EXCEPT makes of a work record.
LEMMA WorkExcept ==
  ASSUME NEW w \in Works, NEW x, NEW i, NEW h
  PROVE  /\ [w EXCEPT !.status = x] = Work(x, w.list, w.protocols)
         /\ [w EXCEPT !.list = x] = Work(w.status, x, w.protocols)
         /\ [w EXCEPT !.protocols = x] = Work(w.status, w.list, x)
         /\ [w EXCEPT !.list[i][h] = x] =
              Work(w.status, [w.list EXCEPT ![i] = [w.list[i] EXCEPT ![h] = x]], w.protocols)
         /\ [w EXCEPT !.list[i].options = x] =
              Work(w.status, [w.list EXCEPT ![i] = [w.list[i] EXCEPT !.options = x]], w.protocols)
<1>1. PICK st, list, protocols : w = Work(st, list, protocols)
  BY WorkHas
<1> QED
  BY <1>1 DEF Work

\* The first entry with the name is found if there is one.
LEMMA PositionFound ==
  ASSUME NEW list \in Seq(Properties), NEW game
  PROVE  /\ Position(list, game) \in 0 .. Len(list)
         /\ game \in NamesOf(list) <=> Position(list, game) # 0
         /\ Position(list, game) # 0 => list[Position(list, game)].name = game
<1>1. PICK n \in Nat : n = Len(list)
  BY LenProperties
<1>2. PICK t : t = {i \in 1 .. n : list[i].name = game}
  OBVIOUS
<1>3. Position(list, game) = IF t # {} THEN Min(t) ELSE 0
  BY <1>1, <1>2 DEF Position, SelectInSeq
<1>4. game \in NamesOf(list) <=> t # {}
  BY <1>1, <1>2 DEF NamesOf
<1>5. CASE t = {}
  BY <1>1, <1>3, <1>4, <1>5
<1>6. CASE t # {}
  <2>1. t \in SUBSET (1 .. n)
    BY <1>2
  <2>2. Min(t) \in t
    BY <1>6, <2>1, FirstPosition
  <2> QED
    BY <1>1, <1>2, <1>3, <1>4, <1>6, <2>2
<1> QED
  BY <1>5, <1>6

\* A new entry is put before the others.
LEMMA EntryCreated ==
  ASSUME NEW list \in Seq(Properties), NEW e \in Properties
  PROVE  /\ Cons(e, list) \in Seq(Properties)
         /\ NamesOf(Cons(e, list)) = NamesOf(list) \cup {e.name}
<1>1. PICK one : one = <<e>>
  OBVIOUS
<1>2. one \in Seq(Properties) /\ Len(one) = 1 /\ one[1] = e
  BY <1>1
<1>3. PICK new : new = one \o list
  OBVIOUS
<1>4. Cons(e, list) = new
  BY <1>1, <1>3 DEF Cons
<1>5. Len(list) \in Nat
  BY LenProperties
<1>6. /\ new \in Seq(Properties) /\ Len(new) = 1 + Len(list)
      /\ \A i \in 1 .. 1 + Len(list) : new[i] = IF i <= Len(one) THEN one[i] ELSE list[i - Len(one)]
  <2>1. Len(new) = Len(one) + Len(list) /\ new \in Seq(Properties)
    BY <1>2, <1>3, ConcatProperties
  <2>2. \A i \in 1 .. Len(one) + Len(list) :
          new[i] = IF i <= Len(one) THEN one[i] ELSE list[i - Len(one)]
    BY <1>2, <1>3, ConcatProperties
  <2> QED
    BY <1>2, <2>1, <2>2
<1>7. new[1] = e /\ \A i \in 1 .. Len(list) : new[i + 1] = list[i]
  BY <1>2, <1>5, <1>6
<1>8. ASSUME NEW i \in 1 .. 1 + Len(list), i # 1
      PROVE  i - 1 \in 1 .. Len(list) /\ new[i] = list[i - 1]
  <2>1. ~ (i <= Len(one)) /\ i - 1 \in 1 .. Len(list)
    BY <1>2, <1>5, <1>8
  <2> QED
    BY <1>2, <1>6, <2>1
<1>9. NamesOf(new) = NamesOf(list) \cup {e.name}
  <2>1. ASSUME NEW x \in NamesOf(new)
        PROVE  x \in NamesOf(list) \cup {e.name}
    <3>1. PICK i \in 1 .. 1 + Len(list) : x = new[i].name
      BY <1>6, <2>1 DEF NamesOf
    <3> QED
      BY <1>7, <1>8, <3>1 DEF NamesOf
  <2>2. ASSUME NEW x \in NamesOf(list)
        PROVE  x \in NamesOf(new)
    <3>1. PICK i \in 1 .. Len(list) : x = list[i].name
      BY <2>2 DEF NamesOf
    <3>2. i + 1 \in 1 .. Len(new) /\ x = new[i + 1].name
      BY <1>5, <1>6, <1>7, <3>1
    <3> QED
      BY <3>2 DEF NamesOf
  <2>3. e.name \in NamesOf(new)
    <3>1. 1 \in 1 .. Len(new)
      BY <1>5, <1>6
    <3> QED
      BY <1>7, <3>1 DEF NamesOf
  <2> QED
    BY <2>1, <2>2, <2>3
<1> QED
  BY <1>4, <1>6, <1>9

\* An entry that keeps its name.
LEMMA EntryChanged ==
  ASSUME NEW list \in Seq(Properties), NEW i \in 1 .. Len(list), NEW e \in Properties,
         e.name = list[i].name
  PROVE  /\ [list EXCEPT ![i] = e] \in Seq(Properties)
         /\ NamesOf([list EXCEPT ![i] = e]) = NamesOf(list)
<1>1. PICK new : new = [list EXCEPT ![i] = e]
  OBVIOUS
<1>2. /\ new \in Seq(Properties) /\ Len(new) = Len(list) /\ Len(list) \in Nat
      /\ \A j \in 1 .. Len(list) : new[j] = IF j = i THEN e ELSE list[j]
  BY <1>1, ExceptSeq, LenProperties
<1>3. \A j \in 1 .. Len(list) : new[j].name = list[j].name
  BY <1>2
<1>4. NamesOf(new) = NamesOf(list)
  BY <1>2, <1>3 DEF NamesOf
<1> QED
  BY <1>1, <1>2, <1>4

\* What every operation on the list keeps.
Keeps(w, r) == r \in Works /\ NamesOf(r.list) = NamesOf(w.list) /\ r.protocols = w.protocols

\* An error leaves the lists as they are.
LEMMA StatusChanged ==
  ASSUME NEW w \in Works, NEW st \in Statuses
  PROVE  Keeps(w, [w EXCEPT !.status = st]) /\ [w EXCEPT !.status = st].status = st
<1>1. [w EXCEPT !.status = st] = Work(st, w.list, w.protocols)
  BY WorkExcept
<1> QED
  BY <1>1, WorkHas, WorkIs DEF Keeps

\* An update of an entry leaves the protocols as they are.
LEMMA EntryUpdated ==
  ASSUME NEW w \in Works, NEW i \in 1 .. Len(w.list), NEW e \in Properties,
         e.name = w.list[i].name
  PROVE  Keeps(w, Work(w.status, [w.list EXCEPT ![i] = e], w.protocols))
<1>1. PICK list : list = [w.list EXCEPT ![i] = e]
  OBVIOUS
<1>2. list \in Seq(Properties) /\ NamesOf(list) = NamesOf(w.list)
  BY <1>1, WorkHas, EntryChanged
<1> QED
  BY <1>1, <1>2, WorkHas, WorkIs DEF Keeps

\* The game has an entry, or the option has ended in an error.
LEMMA AnonymousGot ==
  ASSUME NEW w \in Works, NEW game \in Names, NEW r, r = Game_GetAnonymous(w, game)
  PROVE  /\ r \in Works /\ r.protocols = w.protocols
         /\ r.status = "parsing" => w.status = "parsing" /\ game \in NamesOf(r.list)
<1>1. CASE Position(w.list, game) # 0
  BY <1>1, WorkHas, PositionFound DEF Game_GetAnonymous
<1>2. CASE Position(w.list, game) = 0 /\ game \in BadNames
  <2>1. r = [w EXCEPT !.status = "refused"]
    BY <1>2 DEF Game_GetAnonymous
  <2> QED
    BY <2>1, StatusChanged DEF Keeps, Statuses
<1>3. CASE Position(w.list, game) = 0 /\ game \notin BadNames
  <2>1. PICK e : e = [name |-> game, options |-> {}, alive |-> NoTag, dead |-> NoTag]
    OBVIOUS
  <2>2. e \in Properties /\ e.name = game
    BY <2>1 DEF Properties
  <2>3. PICK list : list = Cons(e, w.list)
    OBVIOUS
  <2>4. r = Work(w.status, list, w.protocols)
    <3>1. r = [w EXCEPT !.list = list]
      BY <1>3, <2>1, <2>3 DEF Game_GetAnonymous
    <3> QED
      BY <3>1, WorkExcept
  <2>5. list \in Seq(Properties) /\ NamesOf(list) = NamesOf(w.list) \cup {game}
    BY <2>2, <2>3, WorkHas, EntryCreated
  <2> QED
    BY <2>4, <2>5, WorkHas, WorkIs
<1> QED
  BY <1>1, <1>2, <1>3

\* Any tag but DarkPlaces may stand in an entry.
LEMMA TagSet ==
  ASSUME NEW w \in Works, NEW i \in 1 .. Len(w.list), NEW hb_type \in {"alive", "dead"},
         NEW tag \in (Tags \ {DarkPlaces}) \cup {NoTag}
  PROVE  Keeps(w, [w EXCEPT !.list[i][hb_type] = tag])
<1>1. PICK e : e = [w.list[i] EXCEPT ![hb_type] = tag]
  OBVIOUS
<1>2. w.list[i] \in Properties
  BY WorkHas, ElementOfSeq
<1>3. e \in Properties /\ e.name = w.list[i].name
  BY <1>1, <1>2 DEF Properties
<1>4. [w EXCEPT !.list[i][hb_type] = tag] = Work(w.status, [w.list EXCEPT ![i] = e], w.protocols)
  BY <1>1, WorkExcept
<1> QED
  BY <1>3, <1>4, EntryUpdated

\* A tag is set, kept or removed; DarkPlaces is never set.
LEMMA HeartbeatUpdated ==
  ASSUME NEW w \in Works, NEW i \in 1 .. Len(w.list), NEW hb_type \in {"alive", "dead"},
         NEW value \in Tags, NEW remove \in BOOLEAN
  PROVE  Keeps(w, Game_UpdateHeartbeat(w, i, hb_type, value, remove))
<1>1. \A tag \in (Tags \ {DarkPlaces}) \cup {NoTag} : Keeps(w, [w EXCEPT !.list[i][hb_type] = tag])
  BY TagSet
<1>2. \A st \in Statuses : Keeps(w, [w EXCEPT !.status = st])
  BY StatusChanged
<1>3. Keeps(w, w)
  BY DEF Keeps
<1>4. ~ remove /\ value # DarkPlaces => Keeps(w, [w EXCEPT !.list[i][hb_type] = value])
  BY <1>1
<1>5. Keeps(w, [w EXCEPT !.list[i][hb_type] = NoTag])
  BY <1>1
<1> QED
  BY <1>2, <1>3, <1>4, <1>5 DEF Game_UpdateHeartbeat, Statuses

\* An option is set or removed.
LEMMA OptionUpdated ==
  ASSUME NEW w \in Works, NEW i \in 1 .. Len(w.list), NEW name, NEW remove \in BOOLEAN
  PROVE  /\ Keeps(w, Game_UpdateOption(w, i, name, remove))
         /\ Keeps(w, [w EXCEPT !.list[i].options = {}])
<1>1. ASSUME NEW options \in SUBSET OptionNames
      PROVE  Keeps(w, [w EXCEPT !.list[i].options = options])
  <2>1. PICK e : e = [w.list[i] EXCEPT !.options = options]
    OBVIOUS
  <2>2. w.list[i] \in Properties
    BY WorkHas, ElementOfSeq
  <2>3. e \in Properties /\ e.name = w.list[i].name
    BY <2>1, <2>2 DEF Properties
  <2>4. [w EXCEPT !.list[i].options = options] = Work(w.status, [w.list EXCEPT ![i] = e], w.protocols)
    BY <2>1, WorkExcept
  <2> QED
    BY <2>3, <2>4, EntryUpdated
<1>2. CASE name \notin OptionNames
  BY <1>1, <1>2, StatusChanged DEF Game_UpdateOption, Statuses
<1>3. CASE name \in OptionNames
  <2>1. PICK old : old = w.list[i].options
    OBVIOUS
  <2>2. old \in SUBSET OptionNames
    <3>1. w.list[i] \in Properties
      BY WorkHas, ElementOfSeq
    <3> QED
      BY <2>1, <3>1 DEF Properties
  <2>3. Game_UpdateOption(w, i, name, remove) =
          [w EXCEPT !.list[i].options = IF remove THEN old \ {name} ELSE old \cup {name}]
    BY <1>3, <2>1 DEF Game_UpdateOption
  <2> QED
    BY <1>1, <1>3, <2>2, <2>3
<1> QED
  BY <1>2, <1>3

\* The array of protocols is replaced.
LEMMA ProtocolsChanged ==
  ASSUME NEW w \in Works, NEW s \in AssocLists, \A a \in ToSet(s) : a.game \in NamesOf(w.list)
  PROVE  LET r == [w EXCEPT !.protocols = s]
         IN  r \in Works /\ r.status = w.status /\ r.list = w.list /\ r.protocols = s
<1>1. [w EXCEPT !.protocols = s] = Work(w.status, w.list, s)
  BY WorkExcept
<1> QED
  BY <1>1, WorkHas, WorkIs

\* A protocol is given to the game.
LEMMA ProtocolGiven ==
  ASSUME NEW w \in Works, NEW game \in Names, game \in NamesOf(w.list), NEW p \in Protocols,
         NEW r, r = Game_AddProtocol(w, game, p)
  PROVE  /\ r \in Works /\ r.list = w.list /\ r.status = w.status
         /\ ToSet(r.protocols) = Without(ToSet(w.protocols), p) \cup {Assoc(p, game)}
<1>1. PICK s : s = Added(w.protocols, p, game)
  OBVIOUS
<1>2. r = [w EXCEPT !.protocols = s]
  BY <1>1 DEF Game_AddProtocol, Added, Assoc
<1>3. /\ s \in AssocLists
      /\ ToSet(s) = Without(ToSet(w.protocols), p) \cup {Assoc(p, game)}
  BY <1>1, WorkHas, ProtocolAdded
<1>4. \A a \in ToSet(s) : a.game \in NamesOf(w.list)
  BY <1>3, WorkHas DEF Without, Assoc
<1> QED
  BY <1>2, <1>3, <1>4, ProtocolsChanged

\* A protocol is taken from the game, or the option ends in an error.
LEMMA ProtocolTaken ==
  ASSUME NEW w \in Works, NEW game, NEW p \in Protocols, NEW r, r = Game_RemoveProtocol(w, game, p)
  PROVE  /\ r \in Works /\ r.list = w.list
         /\ r.status = "parsing" => /\ w.status = "parsing"
                                    /\ ToSet(r.protocols) = Without(ToSet(w.protocols), p)
<1>1. PICK f : f = Game_FindAnonymous(w.protocols, p)
  OBVIOUS
<1>2. PICK s \in AssocLists : s = w.protocols
  BY WorkHas
<1>3. /\ Len(s) \in Nat /\ DOMAIN s = 1 .. Len(s)
      /\ f.found \in BOOLEAN
      /\ f.found => f.index + 1 \in 1 .. Len(s) /\ s[f.index + 1].protocol = p
      /\ ~ f.found => /\ f.index \in 0 .. Len(s)
                      /\ \A i \in 1 .. Len(s) : IF i <= f.index THEN s[i].protocol < p
                                                                ELSE s[i].protocol > p
  BY <1>1, <1>2, AssocListHas, ProtocolFound
<1>4. CASE ~ f.found
  <2>1. \A i \in 1 .. Len(s) : s[i].protocol # p
    <3>1. p \in Int /\ \A i \in 1 .. Len(s) : s[i].protocol \in Int
      BY AssocListHas, GameAssumption
    <3> QED
      BY <1>3, <1>4, <3>1
  <2>2. Without(ToSet(s), p) = ToSet(s)
    BY <1>3, <2>1 DEF Without, ToSet
  <2>3. r = w
    BY <1>1, <1>4 DEF Game_RemoveProtocol
  <2> QED
    BY <1>2, <2>2, <2>3
<1>5. CASE f.found /\ s[f.index + 1].game # game
  <2>1. r = [w EXCEPT !.status = "refused"]
    BY <1>1, <1>2, <1>5 DEF Game_RemoveProtocol
  <2>2. r = Work("refused", w.list, w.protocols)
    BY <2>1, WorkExcept
  <2> QED
    BY <2>2, WorkHas, WorkIs DEF Statuses
<1>6. CASE f.found /\ s[f.index + 1].game = game
  <2>1. PICK k \in 1 .. Len(s) : k = f.index + 1
    BY <1>3, <1>6
  <2>2. PICK t : t = RemoveAt(s, k)
    OBVIOUS
  <2>3. r = [w EXCEPT !.protocols = t]
    BY <1>1, <1>2, <1>6, <2>1, <2>2 DEF Game_RemoveProtocol
  <2>4. t \in AssocLists /\ ToSet(t) = Without(ToSet(s), p)
    BY <1>3, <1>6, <2>1, <2>2, ProtocolRemoved
  <2>5. \A a \in ToSet(t) : a.game \in NamesOf(w.list)
    BY <1>2, <2>4, WorkHas DEF Without
  <2> QED
    BY <1>2, <2>3, <2>4, <2>5, ProtocolsChanged
<1> QED
  BY <1>3, <1>4, <1>5, <1>6

\* A reset of the protocols takes all of them from the game.
LEMMA PropertyReset ==
  ASSUME NEW w \in Works, NEW game \in Names, game \in NamesOf(w.list), NEW prop,
         NEW r, r = ResetProperty(w, game, prop)
  PROVE  /\ r \in Works /\ NamesOf(r.list) = NamesOf(w.list)
         /\ r.status = "parsing" => w.status = "parsing"
         /\ prop # "protocols" => r.protocols = w.protocols
         /\ prop = "protocols" => ToSet(r.protocols) = {a \in ToSet(w.protocols) : a.game # game}
<1>1. PICK i \in 1 .. Len(w.list) : i = Position(w.list, game)
  BY WorkHas, PositionFound
<1>2. CASE prop = "protocols"
  <2>1. PICK s : s = Kept(w.protocols, game)
    OBVIOUS
  <2>2. r = [w EXCEPT !.protocols = s]
    BY <1>2, <2>1 DEF ResetProperty, Game_RemoveAllProtocols, Kept
  <2>3. s \in AssocLists /\ ToSet(s) = {a \in ToSet(w.protocols) : a.game # game}
    BY <2>1, WorkHas, ProtocolsKept
  <2>4. \A a \in ToSet(s) : a.game \in NamesOf(w.list)
    BY <2>3, WorkHas
  <2>5. r \in Works /\ r.status = w.status /\ r.list = w.list /\ r.protocols = s
    BY <2>2, <2>3, <2>4, ProtocolsChanged
  <2> QED
    BY <1>2, <2>3, <2>5
<1>3. CASE prop = "options"
  <2>1. r = [w EXCEPT !.list[i].options = {}]
    BY <1>1, <1>3 DEF ResetProperty
  <2>2. r.status = w.status
    BY <2>1, WorkExcept DEF Work
  <2>3. Keeps(w, r)
    BY <2>1, OptionUpdated
  <2> QED
    BY <1>3, <2>2, <2>3 DEF Keeps
<1>4. CASE prop \in {"heartbeat", "flatline"}
  <2>1. PICK h \in {"alive", "dead"} : h = HeartbeatType(prop)
    BY DEF HeartbeatType
  <2>2. r = [w EXCEPT !.list[i][h] = NoTag]
    BY <1>1, <1>4, <2>1 DEF ResetProperty
  <2>3. r.status = w.status
    BY <2>2, WorkExcept DEF Work
  <2>4. Keeps(w, r)
    BY <2>1, <2>2, GameAssumption, TagSet
  <2> QED
    BY <1>4, <2>3, <2>4 DEF Keeps
<1>5. CASE prop \notin {"protocols", "options", "heartbeat", "flatline"}
  <2>1. r = [w EXCEPT !.status = "refused"]
    BY <1>5 DEF ResetProperty
  <2> QED
    BY <1>5, <2>1, StatusChanged DEF Keeps, Statuses
<1> QED
  BY <1>2, <1>3, <1>4, <1>5

\* A value of an update is applied, or the option ends in an error.
LEMMA ValueApplied ==
  ASSUME NEW w \in Works, NEW game \in Names, w.status = "parsing" => game \in NamesOf(w.list),
         NEW u, NEW value, u.prop \in {"heartbeat", "flatline"} => value \in Tags,
         NEW r, r = ApplyValue(w, game, u, value)
  PROVE  /\ r \in Works /\ NamesOf(r.list) = NamesOf(w.list)
         /\ r.status = "parsing" => w.status = "parsing"
         /\ u.prop # "protocols" => r.protocols = w.protocols
         /\ u.prop = "protocols" /\ r.status = "parsing" =>
              /\ value \in Protocols
              /\ ToSet(r.protocols) = Without(ToSet(w.protocols), value)
                                        \cup IF u.op = "-=" THEN {} ELSE {Assoc(value, game)}
<1>1. CASE w.status # "parsing"
  <2>1. r = w
    BY <1>1 DEF ApplyValue
  <2> QED
    BY <1>1, <2>1
<1> PICK i : i = Position(w.list, game)
  OBVIOUS
<1>2. w.status = "parsing" => i \in 1 .. Len(w.list)
  BY WorkHas, PositionFound
<1>3. ASSUME w.status = "parsing", r = [w EXCEPT !.status = "refused"]
      PROVE  /\ r \in Works /\ NamesOf(r.list) = NamesOf(w.list)
             /\ r.status # "parsing" /\ r.protocols = w.protocols
  BY <1>3, StatusChanged DEF Keeps, Statuses
<1>4. CASE w.status = "parsing" /\ u.prop = "protocols" /\ value \notin Protocols
  <2>1. r = [w EXCEPT !.status = "refused"]
    BY <1>4 DEF ApplyValue
  <2> QED
    BY <1>3, <1>4, <2>1
<1>5. CASE w.status = "parsing" /\ u.prop = "protocols" /\ value \in Protocols
  <2>1. r = IF u.op = "-=" THEN Game_RemoveProtocol(w, game, value)
            ELSE Game_AddProtocol(w, game, value)
    BY <1>5 DEF ApplyValue
  <2>2. CASE u.op = "-="
    BY <1>5, <2>1, <2>2, ProtocolTaken
  <2>3. CASE u.op # "-="
    BY <1>5, <2>1, <2>3, ProtocolGiven
  <2> QED
    BY <2>2, <2>3
<1>6. CASE w.status = "parsing" /\ u.prop = "options"
  <2>1. PICK remove \in BOOLEAN : remove = (u.op = "-=")
    OBVIOUS
  <2>2. Keeps(w, r)
    <3>1. r = Game_UpdateOption(w, i, value, remove)
      BY <1>6, <2>1 DEF ApplyValue
    <3>2. i \in 1 .. Len(w.list)
      BY <1>2, <1>6
    <3> QED
      BY <3>1, <3>2, OptionUpdated
  <2> QED
    BY <1>6, <2>2 DEF Keeps
<1>7. CASE w.status = "parsing" /\ u.prop \in {"heartbeat", "flatline"}
  <2>1. PICK h \in {"alive", "dead"} : h = HeartbeatType(u.prop)
    BY DEF HeartbeatType
  <2>2. PICK remove \in BOOLEAN : remove = (u.op = "-=")
    OBVIOUS
  <2>3. Keeps(w, r)
    <3>1. r = Game_UpdateHeartbeat(w, i, h, value, remove)
      BY <1>7, <2>1, <2>2 DEF ApplyValue
    <3>2. i \in 1 .. Len(w.list) /\ value \in Tags
      BY <1>2, <1>7
    <3> QED
      BY <3>1, <3>2, HeartbeatUpdated
  <2> QED
    BY <1>7, <2>3 DEF Keeps
<1>8. CASE w.status = "parsing" /\ u.prop \notin {"protocols", "options", "heartbeat", "flatline"}
  <2>1. r = [w EXCEPT !.status = "refused"]
    BY <1>8 DEF ApplyValue
  <2> QED
    BY <1>3, <1>8, <2>1
<1> QED
  BY <1>1, <1>4, <1>5, <1>6, <1>7, <1>8

----------------------------------------------------------------------------
(* The updates of an option, and the game each protocol was last given to. *)

\* A work record, with an entry for the game unless there was an error.
WithGame(game) == {w \in Works : w.status = "parsing" => game \in NamesOf(w.list)}

IsUpdate(u) ==
  /\ u.values \in Seq(ToSet(u.values))
  /\ u.prop \in {"heartbeat", "flatline"} => ToSet(u.values) \subseteq Tags

\* The loop over the values of an update.
ValuesApplied(w, game, u) == FoldLeft(LAMBDA v, value : ApplyValue(v, game, u, value), w, u.values)

\* An element of a sequence is in the set of its elements.
LEMMA InToSet ==
  ASSUME NEW s, s \in Seq(ToSet(s)), NEW i \in 1 .. Len(s)
  PROVE  s[i] \in ToSet(s)
  BY ElementOfSeq

\* The values are applied one after the other.
LEMMA ValuesFold ==
  ASSUME NEW game \in Names, NEW u, IsUpdate(u), NEW w \in WithGame(game)
  PROVE  \E h \in [0 .. Len(u.values) -> WithGame(game)] :
           /\ h[0] = w
           /\ \A i \in 1 .. Len(u.values) : h[i] = ApplyValue(h[i - 1], game, u, u.values[i])
           /\ ValuesApplied(w, game, u) = h[Len(u.values)]
<1>1. PICK n \in Nat : n = Len(u.values) /\ DOMAIN u.values = 1 .. n
  BY LenProperties DEF IsUpdate
<1>2. \A i \in 1 .. n : u.prop \in {"heartbeat", "flatline"} => u.values[i] \in Tags
  BY <1>1, InToSet DEF IsUpdate
<1>3. PICK W : W = WithGame(game)
  OBVIOUS
<1> DEFINE step(v, i)  == ApplyValue(v, game, u, u.values[i])
           equation(g) == g = [t \in SUBSET (1 .. n) |->
                                 IF t = {} THEN w ELSE step(g[t \ {Max(t)}], Max(t))]
<1>4. w \in W /\ \A i \in 1 .. n, v \in W : step(v, i) \in W
  BY <1>2, <1>3, ValueApplied DEF WithGame
<1>5. ValuesApplied(w, game, u) = (CHOOSE g : equation(g))[1 .. n]
  BY <1>1 DEF ValuesApplied, FoldLeft, MapThenFoldSet
<1> HIDE DEF step
<1>6. PICK F : F = [i \in 1 .. n |-> [v \in W |-> step(v, i)]]
  OBVIOUS
<1>7. /\ F \in [1 .. n -> [W -> W]]
      /\ \A i \in 1 .. n, v \in W : F[i][v] = step(v, i)
  BY <1>4, <1>6
<1>8. PICK base \in W : base = w
  BY <1>4
<1>9. \E g : equation(g)
  <2>1. PICK g \in [SUBSET (1 .. n) -> W] : FoldEquation(g, n, base, F)
    BY <1>7, FoldExists
  <2>2. ASSUME NEW t \in SUBSET (1 .. n)
        PROVE  g[t] = IF t = {} THEN base ELSE step(g[t \ {Max(t)}], Max(t))
    <3>1. CASE t = {}
      BY <2>1, <3>1 DEF FoldEquation
    <3>2. CASE t # {}
      <4>1. Max(t) \in 1 .. n /\ g[t \ {Max(t)}] \in W
        BY <2>1, <3>2, LastPosition
      <4>2. g[t] = F[Max(t)][g[t \ {Max(t)}]]
        BY <2>1, <3>2 DEF FoldEquation
      <4> QED
        BY <1>7, <3>2, <4>1, <4>2
    <3> QED
      BY <3>1, <3>2
  <2> QED
    BY <1>8, <2>1, <2>2
<1>10. PICK g : equation(g) /\ ValuesApplied(w, game, u) = g[1 .. n]
  <2> HIDE DEF equation
  <2> QED
    BY <1>5, <1>9
<1>11. ObeysWithin(g, n, base, F, W)
  <2>1. g[{}] = base
    BY <1>8, <1>10
  <2>2. ASSUME NEW t \in SUBSET (1 .. n), t # {}, g[t \ {Max(t)}] \in W
        PROVE  g[t] = F[Max(t)][g[t \ {Max(t)}]]
    <3>1. Max(t) \in 1 .. n
      BY <2>2, LastPosition
    <3>2. g[t] = step(g[t \ {Max(t)}], Max(t))
      BY <1>10, <2>2
    <3> QED
      BY <1>7, <2>2, <3>1, <3>2
  <2> HIDE DEF equation
  <2> QED
    BY <2>1, <2>2 DEF ObeysWithin
<1> HIDE DEF equation
<1>12. PICK h \in [0 .. n -> W] : ResultsOf(h, g, n, base, F)
  BY <1>7, <1>11, FoldResults
<1>13. ASSUME NEW i \in 1 .. n
       PROVE  h[i] = step(h[i - 1], i)
  <2>1. h[i] = F[i][h[i - 1]] /\ h[i - 1] \in W
    BY <1>12 DEF ResultsOf
  <2> QED
    BY <1>7, <2>1
<1>14. h[0] = base /\ h[n] = g[1 .. n]
  BY <1>12 DEF ResultsOf
<1> QED
  BY <1>1, <1>3, <1>8, <1>10, <1>13, <1>14 DEF step

\* The array and the history say the same.
Agree(map, assocs) ==
  /\ map \in [Protocols -> Names \cup {NoGame}]
  /\ \A p \in Protocols, g \in Names : Assoc(p, g) \in assocs <=> map[p] = g

\* What an update of the protocols leaves of the array before its values.
Left(w, game, op) ==
  IF op = "=" THEN {a \in ToSet(w.protocols) : a.game # game} ELSE ToSet(w.protocols)

\* What the values do to it.
Moved(assocs, game, op, values) ==
  {a \in assocs : a.protocol \notin values}
    \cup IF op = "-=" THEN {} ELSE {Assoc(v, game) : v \in values}

\* An update that ends in no error gives the protocols to the game or takes them from it.
LEMMA UpdateApplied ==
  ASSUME NEW game \in Names, NEW u, IsUpdate(u), NEW w \in WithGame(game), w.status = "parsing",
         NEW r, r = Game_UpdateProperty(w, game, u)
  PROVE  /\ r \in WithGame(game)
         /\ u.prop # "protocols" => r.protocols = w.protocols
         /\ u.prop = "protocols" /\ r.status = "parsing" =>
              /\ ToSet(u.values) \subseteq Protocols
              /\ ToSet(r.protocols) = Moved(Left(w, game, u.op), game, u.op, ToSet(u.values))
<1>1. PICK start : start = IF u.op = "=" THEN ResetProperty(w, game, u.prop) ELSE w
  OBVIOUS
<1>2. /\ start \in WithGame(game)
      /\ u.prop # "protocols" => start.protocols = w.protocols
      /\ u.prop = "protocols" => ToSet(start.protocols) = Left(w, game, u.op)
  <2>1. w \in Works /\ game \in NamesOf(w.list)
    BY DEF WithGame
  <2>2. CASE u.op = "="
    <3>1. start = ResetProperty(w, game, u.prop)
      BY <1>1, <2>2
    <3> QED
      BY <2>1, <2>2, <3>1, PropertyReset DEF WithGame, Left
  <2>3. CASE u.op # "="
    BY <1>1, <2>3 DEF Left
  <2> QED
    BY <2>2, <2>3
<1>3. PICK n \in Nat : n = Len(u.values) /\ DOMAIN u.values = 1 .. n
  BY LenProperties DEF IsUpdate
<1>4. PICK W : W = WithGame(game)
  OBVIOUS
<1>5. PICK h \in [0 .. n -> W] :
        /\ h[0] = start
        /\ \A i \in 1 .. n : h[i] = ApplyValue(h[i - 1], game, u, u.values[i])
        /\ ValuesApplied(start, game, u) = h[n]
  BY <1>2, <1>3, <1>4, ValuesFold
<1>6. r = h[n]
  BY <1>1, <1>5 DEF Game_UpdateProperty, ValuesApplied
<1> DEFINE values(i) == {u.values[j] : j \in 1 .. i}
           good(i) == /\ u.prop # "protocols" => h[i].protocols = w.protocols
                      /\ u.prop = "protocols" /\ h[i].status = "parsing" =>
                           /\ values(i) \subseteq Protocols
                           /\ ToSet(h[i].protocols) =
                                Moved(Left(w, game, u.op), game, u.op, values(i))
           holds == {i \in 0 .. n : good(i)}
<1>7. 0 \in holds
  <2>1. values(0) = {}
    OBVIOUS
  <2>2. Moved(Left(w, game, u.op), game, u.op, {}) = Left(w, game, u.op)
    BY DEF Moved
  <2>3. h[0] = start
    BY <1>5
  <2> HIDE DEF values
  <2>4. good(0)
    BY <1>2, <2>1, <2>2, <2>3
  <2> HIDE DEF good
  <2> QED
    BY <2>4
<1>8. ASSUME NEW i \in 1 .. n, i - 1 \in holds
      PROVE  i \in holds
  <2>1. PICK v \in W : v = h[i - 1]
    BY <1>5
  <2>2. PICK e : e = u.values[i]
    OBVIOUS
  <2>3. PICK x : x = h[i]
    OBVIOUS
  <2>4. x = ApplyValue(v, game, u, e)
    BY <1>5, <2>1, <2>2, <2>3
  <2>5. u.prop \in {"heartbeat", "flatline"} => e \in Tags
    BY <1>3, <2>2, InToSet DEF IsUpdate
  <2>6. /\ x.status = "parsing" => v.status = "parsing"
        /\ u.prop # "protocols" => x.protocols = v.protocols
        /\ u.prop = "protocols" /\ x.status = "parsing" =>
             /\ e \in Protocols
             /\ ToSet(x.protocols) = Without(ToSet(v.protocols), e)
                                       \cup IF u.op = "-=" THEN {} ELSE {Assoc(e, game)}
    <3>1. v \in Works /\ (v.status = "parsing" => game \in NamesOf(v.list))
      BY <1>4, <2>1 DEF WithGame
    <3> QED
      BY <2>4, <2>5, <3>1, ValueApplied
  <2>7. values(i) = values(i - 1) \cup {e}
    <3>1. 1 .. i = (1 .. i - 1) \cup {i}
      OBVIOUS
    <3> QED
      BY <2>2, <3>1
  <2>8. good(i - 1)
    <3> HIDE DEF good
    <3> QED
      BY <1>8
  <2> HIDE DEF values
  <2>9. ASSUME u.prop = "protocols", x.status = "parsing"
        PROVE  /\ values(i) \subseteq Protocols
               /\ ToSet(x.protocols) = Moved(Left(w, game, u.op), game, u.op, values(i))
    <3>1. PICK before, left : /\ before = values(i - 1) /\ left = Left(w, game, u.op)
      OBVIOUS
    <3>2. before \subseteq Protocols /\ ToSet(v.protocols) = Moved(left, game, u.op, before)
      BY <2>1, <2>6, <2>8, <2>9, <3>1
    <3>3. Without(Moved(left, game, u.op, before), e)
            \cup (IF u.op = "-=" THEN {} ELSE {Assoc(e, game)})
          = Moved(left, game, u.op, before \cup {e})
      BY DEF Without, Moved, Assoc
    <3>4. e \in Protocols
          /\ ToSet(x.protocols) = Without(ToSet(v.protocols), e)
                                    \cup IF u.op = "-=" THEN {} ELSE {Assoc(e, game)}
      BY <2>6, <2>9
    <3> QED
      BY <2>7, <3>1, <3>2, <3>3, <3>4
  <2>10. good(i)
    BY <2>1, <2>3, <2>6, <2>8, <2>9
  <2> HIDE DEF good
  <2> QED
    BY <2>10
<1>9. good(n)
  <2> HIDE DEF good
  <2>1. 0 \in 0 .. n /\ holds = {i \in 0 .. n : good(i)}
    OBVIOUS
  <2> HIDE DEF holds
  <2>2. 0 .. n \subseteq holds
    BY <1>7, <1>8, Along
  <2> QED
    BY <2>1, <2>2
<1>10. ToSet(u.values) = values(n)
  BY <1>3 DEF ToSet
<1>11. r \in WithGame(game)
  BY <1>4, <1>5, <1>6
<1> HIDE DEF values
<1> QED
  BY <1>6, <1>9, <1>10, <1>11

\* The history is updated alike.
LEMMA ClaimedAlike ==
  ASSUME NEW game \in Names, NEW u, IsUpdate(u), NEW w \in WithGame(game), w.status = "parsing",
         NEW r, r = Game_UpdateProperty(w, game, u), r.status = "parsing",
         NEW map, Agree(map, ToSet(w.protocols))
  PROVE  Agree(Claimed(map, game, u), ToSet(r.protocols))
<1>1. CASE u.prop # "protocols"
  BY <1>1, UpdateApplied DEF Claimed
<1>2. CASE u.prop = "protocols"
  <2>1. PICK values : values = ToSet(u.values)
    OBVIOUS
  <2>2. values \subseteq Protocols
        /\ ToSet(r.protocols) = Moved(Left(w, game, u.op), game, u.op, values)
    BY <1>2, <2>1, UpdateApplied
  <2>3. PICK new : new = Claimed(map, game, u)
    OBVIOUS
  <2>4. /\ map \in [Protocols -> Names \cup {NoGame}] /\ NoGame \notin Names
        /\ \A p \in Protocols, g \in Names : Assoc(p, g) \in ToSet(w.protocols) <=> map[p] = g
    BY GameAssumption DEF Agree, NoGame
  <2>5. /\ new \in [Protocols -> Names \cup {NoGame}]
        /\ \A p \in Protocols :
             new[p] = IF p \in values THEN IF u.op = "-=" THEN NoGame ELSE game
                      ELSE IF u.op = "=" /\ map[p] = game THEN NoGame ELSE map[p]
    BY <1>2, <2>1, <2>3, <2>4 DEF Claimed
  <2>6. ASSUME NEW p \in Protocols, NEW g \in Names
        PROVE  Assoc(p, g) \in ToSet(r.protocols) <=> new[p] = g
    <3>1. PICK a : a = Assoc(p, g)
      OBVIOUS
    <3>2. a.protocol = p /\ a.game = g
      BY <3>1 DEF Assoc
    <3>3. a \in {Assoc(v, game) : v \in values} <=> p \in values /\ g = game
      BY <3>1 DEF Assoc
    <3>4. a \in Left(w, game, u.op) <=> map[p] = g /\ ~ (u.op = "=" /\ g = game)
      BY <2>4, <3>1, <3>2 DEF Left
    <3>5. a \in ToSet(r.protocols) <=>
            \/ a \in Left(w, game, u.op) /\ p \notin values
            \/ u.op # "-=" /\ p \in values /\ g = game
      BY <2>2, <3>2, <3>3 DEF Moved
    <3> QED
      BY <2>4, <2>5, <3>1, <3>4, <3>5
  <2> QED
    BY <2>3, <2>5, <2>6 DEF Agree
<1> QED
  BY <1>1, <1>2

\* The step of the loop over the updates of an option.
UpdateUnlessFailed(v, game, u) == IF v.status # "parsing" THEN v ELSE Game_UpdateProperty(v, game, u)

\* That loop.
UpdatesDone(w, game, updates) ==
  FoldLeft(LAMBDA v, u : IF v.status # "parsing" THEN v ELSE Game_UpdateProperty(v, game, u),
           w, updates)

Maps == [Protocols -> Names \cup {NoGame}]

\* An update keeps the type of a work record.
LEMMA UpdateKeepsType ==
  ASSUME NEW game \in Names, NEW u, IsUpdate(u), NEW v \in WithGame(game)
  PROVE  UpdateUnlessFailed(v, game, u) \in WithGame(game)
  BY UpdateApplied DEF UpdateUnlessFailed

\* An update keeps the type of the history.
LEMMA ClaimedIsMap ==
  ASSUME NEW game \in Names, NEW u, NEW m \in Maps
  PROVE  Claimed(m, game, u) \in Maps
  BY DEF Maps, Claimed

\* An update of an option is one.
LEMMA OneOfUpdates ==
  ASSUME NEW updates, AreUpdates(updates), NEW i \in 1 .. Len(updates)
  PROVE  IsUpdate(updates[i])
<1>1. updates[i] \in ToSet(updates)
  BY InToSet DEF AreUpdates
<1> QED
  BY <1>1 DEF AreUpdates, IsUpdate

\* The updates of an option are made one after the other.
LEMMA UpdatesFold ==
  ASSUME NEW game \in Names, NEW updates, AreUpdates(updates), NEW w \in WithGame(game)
  PROVE  \E h \in [0 .. Len(updates) -> WithGame(game)] :
           /\ h[0] = w
           /\ \A i \in 1 .. Len(updates) : h[i] = UpdateUnlessFailed(h[i - 1], game, updates[i])
           /\ UpdatesDone(w, game, updates) = h[Len(updates)]
<1>1. PICK n \in Nat : n = Len(updates) /\ DOMAIN updates = 1 .. n
  BY LenProperties DEF AreUpdates
<1>2. \A i \in 1 .. n : IsUpdate(updates[i])
  BY <1>1, OneOfUpdates
<1>3. PICK W : W = WithGame(game)
  OBVIOUS
<1> DEFINE step(v, i)  == UpdateUnlessFailed(v, game, updates[i])
           equation(g) == g = [t \in SUBSET (1 .. n) |->
                                 IF t = {} THEN w ELSE step(g[t \ {Max(t)}], Max(t))]
<1>4. w \in W /\ \A i \in 1 .. n, v \in W : step(v, i) \in W
  BY <1>2, <1>3, UpdateKeepsType
<1>5. UpdatesDone(w, game, updates) = (CHOOSE g : equation(g))[1 .. n]
  BY <1>1 DEF UpdatesDone, UpdateUnlessFailed, FoldLeft, MapThenFoldSet
<1> HIDE DEF step
<1>6. PICK F : F = [i \in 1 .. n |-> [v \in W |-> step(v, i)]]
  OBVIOUS
<1>7. /\ F \in [1 .. n -> [W -> W]]
      /\ \A i \in 1 .. n, v \in W : F[i][v] = step(v, i)
  BY <1>4, <1>6
<1>8. PICK base \in W : base = w
  BY <1>4
<1>9. \E g : equation(g)
  <2>1. PICK g \in [SUBSET (1 .. n) -> W] : FoldEquation(g, n, base, F)
    BY <1>7, FoldExists
  <2>2. ASSUME NEW t \in SUBSET (1 .. n)
        PROVE  g[t] = IF t = {} THEN base ELSE step(g[t \ {Max(t)}], Max(t))
    <3>1. CASE t = {}
      BY <2>1, <3>1 DEF FoldEquation
    <3>2. CASE t # {}
      <4>1. Max(t) \in 1 .. n /\ g[t \ {Max(t)}] \in W
        BY <2>1, <3>2, LastPosition
      <4>2. g[t] = F[Max(t)][g[t \ {Max(t)}]]
        BY <2>1, <3>2 DEF FoldEquation
      <4> QED
        BY <1>7, <3>2, <4>1, <4>2
    <3> QED
      BY <3>1, <3>2
  <2> QED
    BY <1>8, <2>1, <2>2
<1>10. PICK g : equation(g) /\ UpdatesDone(w, game, updates) = g[1 .. n]
  <2> HIDE DEF equation
  <2> QED
    BY <1>5, <1>9
<1>11. ObeysWithin(g, n, base, F, W)
  <2>1. g[{}] = base
    BY <1>8, <1>10
  <2>2. ASSUME NEW t \in SUBSET (1 .. n), t # {}, g[t \ {Max(t)}] \in W
        PROVE  g[t] = F[Max(t)][g[t \ {Max(t)}]]
    <3>1. Max(t) \in 1 .. n
      BY <2>2, LastPosition
    <3>2. g[t] = step(g[t \ {Max(t)}], Max(t))
      BY <1>10, <2>2
    <3> QED
      BY <1>7, <2>2, <3>1, <3>2
  <2> HIDE DEF equation
  <2> QED
    BY <2>1, <2>2 DEF ObeysWithin
<1> HIDE DEF equation
<1>12. PICK h \in [0 .. n -> W] : ResultsOf(h, g, n, base, F)
  BY <1>7, <1>11, FoldResults
<1>13. ASSUME NEW i \in 1 .. n
       PROVE  h[i] = step(h[i - 1], i)
  <2>1. h[i] = F[i][h[i - 1]] /\ h[i - 1] \in W
    BY <1>12 DEF ResultsOf
  <2> QED
    BY <1>7, <2>1
<1>14. h[0] = base /\ h[n] = g[1 .. n]
  BY <1>12 DEF ResultsOf
<1> QED
  BY <1>1, <1>3, <1>8, <1>10, <1>13, <1>14 DEF step

\* The history of an option is kept update by update.
LEMMA ClaimsFold ==
  ASSUME NEW game \in Names, NEW updates, AreUpdates(updates), NEW map \in Maps
  PROVE  \E h \in [0 .. Len(updates) -> Maps] :
           /\ h[0] = map
           /\ \A i \in 1 .. Len(updates) : h[i] = Claimed(h[i - 1], game, updates[i])
           /\ ClaimedBy(map, game, updates) = h[Len(updates)]
<1>1. PICK n \in Nat : n = Len(updates) /\ DOMAIN updates = 1 .. n
  BY LenProperties DEF AreUpdates
<1>2. \A i \in 1 .. n : IsUpdate(updates[i])
  BY <1>1, OneOfUpdates
<1>3. PICK W : W = Maps
  OBVIOUS
<1> DEFINE step(v, i)  == Claimed(v, game, updates[i])
           equation(g) == g = [t \in SUBSET (1 .. n) |->
                                 IF t = {} THEN map ELSE step(g[t \ {Max(t)}], Max(t))]
<1>4. map \in W /\ \A i \in 1 .. n, v \in W : step(v, i) \in W
  BY <1>2, <1>3, ClaimedIsMap
<1>5. ClaimedBy(map, game, updates) = (CHOOSE g : equation(g))[1 .. n]
  BY <1>1 DEF ClaimedBy, FoldLeft, MapThenFoldSet
<1> HIDE DEF step
<1>6. PICK F : F = [i \in 1 .. n |-> [v \in W |-> step(v, i)]]
  OBVIOUS
<1>7. /\ F \in [1 .. n -> [W -> W]]
      /\ \A i \in 1 .. n, v \in W : F[i][v] = step(v, i)
  BY <1>4, <1>6
<1>8. PICK base \in W : base = map
  BY <1>4
<1>9. \E g : equation(g)
  <2>1. PICK g \in [SUBSET (1 .. n) -> W] : FoldEquation(g, n, base, F)
    BY <1>7, FoldExists
  <2>2. ASSUME NEW t \in SUBSET (1 .. n)
        PROVE  g[t] = IF t = {} THEN base ELSE step(g[t \ {Max(t)}], Max(t))
    <3>1. CASE t = {}
      BY <2>1, <3>1 DEF FoldEquation
    <3>2. CASE t # {}
      <4>1. Max(t) \in 1 .. n /\ g[t \ {Max(t)}] \in W
        BY <2>1, <3>2, LastPosition
      <4>2. g[t] = F[Max(t)][g[t \ {Max(t)}]]
        BY <2>1, <3>2 DEF FoldEquation
      <4> QED
        BY <1>7, <3>2, <4>1, <4>2
    <3> QED
      BY <3>1, <3>2
  <2> QED
    BY <1>8, <2>1, <2>2
<1>10. PICK g : equation(g) /\ ClaimedBy(map, game, updates) = g[1 .. n]
  <2> HIDE DEF equation
  <2> QED
    BY <1>5, <1>9
<1>11. ObeysWithin(g, n, base, F, W)
  <2>1. g[{}] = base
    BY <1>8, <1>10
  <2>2. ASSUME NEW t \in SUBSET (1 .. n), t # {}, g[t \ {Max(t)}] \in W
        PROVE  g[t] = F[Max(t)][g[t \ {Max(t)}]]
    <3>1. Max(t) \in 1 .. n
      BY <2>2, LastPosition
    <3>2. g[t] = step(g[t \ {Max(t)}], Max(t))
      BY <1>10, <2>2
    <3> QED
      BY <1>7, <2>2, <3>1, <3>2
  <2> HIDE DEF equation
  <2> QED
    BY <2>1, <2>2 DEF ObeysWithin
<1> HIDE DEF equation
<1>12. PICK h \in [0 .. n -> W] : ResultsOf(h, g, n, base, F)
  BY <1>7, <1>11, FoldResults
<1>13. ASSUME NEW i \in 1 .. n
       PROVE  h[i] = step(h[i - 1], i)
  <2>1. h[i] = F[i][h[i - 1]] /\ h[i - 1] \in W
    BY <1>12 DEF ResultsOf
  <2> QED
    BY <1>7, <2>1
<1>14. h[0] = base /\ h[n] = g[1 .. n]
  BY <1>12 DEF ResultsOf
<1> QED
  BY <1>1, <1>3, <1>8, <1>10, <1>13, <1>14 DEF step

\* The history of an option is a map from protocols to games.
LEMMA ClaimedByIsMap ==
  ASSUME NEW game \in Names, NEW updates, AreUpdates(updates), NEW map \in Maps
  PROVE  ClaimedBy(map, game, updates) \in Maps
<1>1. PICK n \in Nat : n = Len(updates)
  BY LenProperties DEF AreUpdates
<1>2. PICK h \in [0 .. n -> Maps] : ClaimedBy(map, game, updates) = h[n]
  BY <1>1, ClaimsFold
<1> QED
  BY <1>2

\* An option that ends in no error leaves the array and its history in agreement.
LEMMA UpdatesApplied ==
  ASSUME NEW game \in Names, NEW updates, AreUpdates(updates), NEW w \in Works,
         NEW r, r = Game_UpdateProperties(w, game, updates)
  PROVE  /\ r \in Works
         /\ r.status = "parsing" => w.status = "parsing"
         /\ \A map : r.status = "parsing" /\ Agree(map, ToSet(w.protocols)) =>
                       Agree(ClaimedBy(map, game, updates), ToSet(r.protocols))
<1>1. PICK start : start = Game_GetAnonymous(w, game)
  OBVIOUS
<1>2. /\ start \in WithGame(game) /\ start.protocols = w.protocols
      /\ start.status = "parsing" => w.status = "parsing"
  BY <1>1, AnonymousGot DEF WithGame
<1>3. PICK n \in Nat : n = Len(updates) /\ DOMAIN updates = 1 .. n
  BY LenProperties DEF AreUpdates
<1>4. PICK W : W = WithGame(game)
  OBVIOUS
<1>5. PICK h \in [0 .. n -> W] :
        /\ h[0] = start
        /\ \A i \in 1 .. n : h[i] = UpdateUnlessFailed(h[i - 1], game, updates[i])
        /\ UpdatesDone(start, game, updates) = h[n]
  BY <1>2, <1>3, <1>4, UpdatesFold
<1>6. r = h[n]
  BY <1>1, <1>5 DEF Game_UpdateProperties, UpdatesDone
<1>7. r \in Works
  BY <1>4, <1>5, <1>6 DEF WithGame
<1>8. ASSUME NEW i \in 1 .. n, h[i].status = "parsing"
      PROVE  /\ h[i - 1].status = "parsing" /\ h[i - 1] \in WithGame(game)
             /\ h[i] = Game_UpdateProperty(h[i - 1], game, updates[i])
  BY <1>4, <1>5, <1>8 DEF UpdateUnlessFailed
<1>9. r.status = "parsing" => w.status = "parsing"
  <2> DEFINE holds == {i \in 0 .. n : h[i].status = "parsing" => w.status = "parsing"}
  <2>1. 0 \in holds
    BY <1>2, <1>5
  <2>2. \A i \in 1 .. n : i - 1 \in holds => i \in holds
    BY <1>8
  <2>3. n \in holds
    <3> HIDE DEF holds
    <3>1. 0 .. n \subseteq holds
      BY <2>1, <2>2, Along
    <3> QED
      BY <3>1
  <2> QED
    BY <1>6, <2>3
<1>10. ASSUME NEW map, r.status = "parsing", Agree(map, ToSet(w.protocols))
       PROVE  Agree(ClaimedBy(map, game, updates), ToSet(r.protocols))
  <2>1. map \in Maps
    BY <1>10 DEF Agree, Maps
  <2>2. PICK m \in [0 .. n -> Maps] :
          /\ m[0] = map
          /\ \A i \in 1 .. n : m[i] = Claimed(m[i - 1], game, updates[i])
          /\ ClaimedBy(map, game, updates) = m[n]
    BY <1>3, <2>1, ClaimsFold
  <2> DEFINE good(i) == h[i].status = "parsing" => Agree(m[i], ToSet(h[i].protocols))
             holds == {i \in 0 .. n : good(i)}
  <2>3. 0 \in holds
    BY <1>2, <1>5, <1>10, <2>2
  <2>4. ASSUME NEW i \in 1 .. n, i - 1 \in holds
        PROVE  i \in holds
    <3>1. ASSUME h[i].status = "parsing"
          PROVE  Agree(m[i], ToSet(h[i].protocols))
      <4>1. PICK v : v = h[i - 1]
        OBVIOUS
      <4>2. PICK x : x = h[i]
        OBVIOUS
      <4>3. PICK u : u = updates[i]
        OBVIOUS
      <4>4. v.status = "parsing" /\ v \in WithGame(game) /\ x = Game_UpdateProperty(v, game, u)
        BY <1>8, <3>1, <4>1, <4>2, <4>3
      <4>5. Agree(m[i - 1], ToSet(v.protocols))
        BY <2>4, <4>1, <4>4
      <4>6. IsUpdate(u)
        BY <1>3, <4>3, OneOfUpdates
      <4>7. Agree(Claimed(m[i - 1], game, u), ToSet(x.protocols))
        BY <3>1, <4>2, <4>4, <4>5, <4>6, ClaimedAlike
      <4> QED
        BY <2>2, <4>2, <4>3, <4>7
    <3>2. i \in 0 .. n
      OBVIOUS
    <3> QED
      BY <3>1, <3>2
  <2>5. n \in holds
    <3> HIDE DEF holds
    <3>1. 0 .. n \subseteq holds
      BY <2>3, <2>4, Along
    <3> QED
      BY <3>1
  <2> QED
    BY <1>6, <1>10, <2>2, <2>5
<1> QED
  BY <1>7, <1>9, <1>10

----------------------------------------------------------------------------
(* The built-in properties.                                                *)

NoWork == [status |-> "parsing", list |-> <<>>, protocols |-> <<>>]
NoClaims == [p \in Protocols |-> NoGame]

\* The history of the built-in properties, as in GamesInit.
BuiltInClaims == FoldLeft(LAMBDA m, b : ClaimedBy(m, b.game, b.updates), NoClaims, BuiltIn)

\* A built-in game and its updates.
LEMMA OneOfBuiltIn ==
  ASSUME NEW i \in 1 .. Len(BuiltIn)
  PROVE  BuiltIn[i].game \in Names /\ AreUpdates(BuiltIn[i].updates)
<1>1. BuiltIn[i] \in ToSet(BuiltIn)
  BY BuiltInAssumption, InToSet
<1> QED
  BY <1>1, BuiltInAssumption

\* Nothing is known at first.
LEMMA NothingYet ==
  NoWork \in Works /\ NoClaims \in Maps /\ Agree(NoClaims, ToSet(NoWork.protocols))
<1>1. PICK none : none = <<>>
  OBVIOUS
<1>2. none \in Seq(Properties) /\ none \in Seq(Assocs) /\ Len(none) = 0 /\ DOMAIN none = {}
  BY <1>1
<1>3. none \in AssocLists /\ ToSet(none) = {}
  BY <1>2 DEF AssocLists, ToSet
<1>4. NoWork = Work("parsing", none, none)
  BY <1>1 DEF NoWork, Work
<1>5. NoWork \in Works /\ NoWork.protocols = none
  <2>1. "parsing" \in Statuses /\ \A a \in ToSet(none) : a.game \in NamesOf(none)
    BY <1>3 DEF Statuses
  <2>2. none \in Seq(Properties) /\ none \in AssocLists
    BY <1>2, <1>3
  <2>3. PICK st : st = "parsing"
    OBVIOUS
  <2>4. Work(st, none, none) \in Works /\ Work(st, none, none).protocols = none
    BY <2>1, <2>2, <2>3, WorkIs
  <2> QED
    BY <1>4, <2>3, <2>4
<1>6. NoClaims \in Maps /\ \A p \in Protocols : NoClaims[p] = NoGame
  BY DEF NoClaims, Maps
<1>7. NoGame \notin Names
  BY GameAssumption DEF NoGame
<1> QED
  BY <1>3, <1>5, <1>6, <1>7 DEF Agree, Maps

\* The built-in games are declared one after the other.
LEMMA BuiltInFold ==
  ASSUME NEW w \in Works
  PROVE  \E h \in [0 .. Len(BuiltIn) -> Works] :
           /\ h[0] = w
           /\ \A i \in 1 .. Len(BuiltIn) : h[i] = Game_UpdateProperties(h[i - 1], BuiltIn[i].game, BuiltIn[i].updates)
           /\ FoldLeft(LAMBDA v, b : Game_UpdateProperties(v, b.game, b.updates), w, BuiltIn) = h[Len(BuiltIn)]
<1>1. PICK n \in Nat : n = Len(BuiltIn) /\ DOMAIN BuiltIn = 1 .. n
  BY LenProperties, BuiltInAssumption
<1>2. \A i \in 1 .. n : BuiltIn[i].game \in Names /\ AreUpdates(BuiltIn[i].updates)
  BY <1>1, OneOfBuiltIn
<1>3. PICK W : W = Works
  OBVIOUS
<1> DEFINE step(v, i)  == Game_UpdateProperties(v, BuiltIn[i].game, BuiltIn[i].updates)
           equation(g) == g = [t \in SUBSET (1 .. n) |->
                                 IF t = {} THEN w ELSE step(g[t \ {Max(t)}], Max(t))]
<1>4. w \in W /\ \A i \in 1 .. n, v \in W : step(v, i) \in W
  BY <1>2, <1>3, UpdatesApplied
<1>5. FoldLeft(LAMBDA v, b : Game_UpdateProperties(v, b.game, b.updates), w, BuiltIn) = (CHOOSE g : equation(g))[1 .. n]
  BY <1>1 DEF FoldLeft, MapThenFoldSet
<1> HIDE DEF step
<1>6. PICK F : F = [i \in 1 .. n |-> [v \in W |-> step(v, i)]]
  OBVIOUS
<1>7. /\ F \in [1 .. n -> [W -> W]]
      /\ \A i \in 1 .. n, v \in W : F[i][v] = step(v, i)
  BY <1>4, <1>6
<1>8. PICK base \in W : base = w
  BY <1>4
<1>9. \E g : equation(g)
  <2>1. PICK g \in [SUBSET (1 .. n) -> W] : FoldEquation(g, n, base, F)
    BY <1>7, FoldExists
  <2>2. ASSUME NEW t \in SUBSET (1 .. n)
        PROVE  g[t] = IF t = {} THEN base ELSE step(g[t \ {Max(t)}], Max(t))
    <3>1. CASE t = {}
      BY <2>1, <3>1 DEF FoldEquation
    <3>2. CASE t # {}
      <4>1. Max(t) \in 1 .. n /\ g[t \ {Max(t)}] \in W
        BY <2>1, <3>2, LastPosition
      <4>2. g[t] = F[Max(t)][g[t \ {Max(t)}]]
        BY <2>1, <3>2 DEF FoldEquation
      <4> QED
        BY <1>7, <3>2, <4>1, <4>2
    <3> QED
      BY <3>1, <3>2
  <2> QED
    BY <1>8, <2>1, <2>2
<1>10. PICK g : equation(g) /\ FoldLeft(LAMBDA v, b : Game_UpdateProperties(v, b.game, b.updates), w, BuiltIn) = g[1 .. n]
  <2> HIDE DEF equation
  <2> QED
    BY <1>5, <1>9
<1>11. ObeysWithin(g, n, base, F, W)
  <2>1. g[{}] = base
    BY <1>8, <1>10
  <2>2. ASSUME NEW t \in SUBSET (1 .. n), t # {}, g[t \ {Max(t)}] \in W
        PROVE  g[t] = F[Max(t)][g[t \ {Max(t)}]]
    <3>1. Max(t) \in 1 .. n
      BY <2>2, LastPosition
    <3>2. g[t] = step(g[t \ {Max(t)}], Max(t))
      BY <1>10, <2>2
    <3> QED
      BY <1>7, <2>2, <3>1, <3>2
  <2> HIDE DEF equation
  <2> QED
    BY <2>1, <2>2 DEF ObeysWithin
<1> HIDE DEF equation
<1>12. PICK h \in [0 .. n -> W] : ResultsOf(h, g, n, base, F)
  BY <1>7, <1>11, FoldResults
<1>13. ASSUME NEW i \in 1 .. n
       PROVE  h[i] = step(h[i - 1], i)
  <2>1. h[i] = F[i][h[i - 1]] /\ h[i - 1] \in W
    BY <1>12 DEF ResultsOf
  <2> QED
    BY <1>7, <2>1
<1>14. h[0] = base /\ h[n] = g[1 .. n]
  BY <1>12 DEF ResultsOf
<1> QED
  BY <1>1, <1>3, <1>8, <1>10, <1>13, <1>14 DEF step

\* Their history is kept game by game.
LEMMA BuiltInClaimsFold ==
  ASSUME NEW map \in Maps
  PROVE  \E h \in [0 .. Len(BuiltIn) -> Maps] :
           /\ h[0] = map
           /\ \A i \in 1 .. Len(BuiltIn) : h[i] = ClaimedBy(h[i - 1], BuiltIn[i].game, BuiltIn[i].updates)
           /\ FoldLeft(LAMBDA m, b : ClaimedBy(m, b.game, b.updates), map, BuiltIn) = h[Len(BuiltIn)]
<1>1. PICK n \in Nat : n = Len(BuiltIn) /\ DOMAIN BuiltIn = 1 .. n
  BY LenProperties, BuiltInAssumption
<1>2. \A i \in 1 .. n : BuiltIn[i].game \in Names /\ AreUpdates(BuiltIn[i].updates)
  BY <1>1, OneOfBuiltIn
<1>3. PICK W : W = Maps
  OBVIOUS
<1> DEFINE step(v, i)  == ClaimedBy(v, BuiltIn[i].game, BuiltIn[i].updates)
           equation(g) == g = [t \in SUBSET (1 .. n) |->
                                 IF t = {} THEN map ELSE step(g[t \ {Max(t)}], Max(t))]
<1>4. map \in W /\ \A i \in 1 .. n, v \in W : step(v, i) \in W
  BY <1>2, <1>3, ClaimedByIsMap
<1>5. FoldLeft(LAMBDA m, b : ClaimedBy(m, b.game, b.updates), map, BuiltIn) = (CHOOSE g : equation(g))[1 .. n]
  BY <1>1 DEF FoldLeft, MapThenFoldSet
<1> HIDE DEF step
<1>6. PICK F : F = [i \in 1 .. n |-> [v \in W |-> step(v, i)]]
  OBVIOUS
<1>7. /\ F \in [1 .. n -> [W -> W]]
      /\ \A i \in 1 .. n, v \in W : F[i][v] = step(v, i)
  BY <1>4, <1>6
<1>8. PICK base \in W : base = map
  BY <1>4
<1>9. \E g : equation(g)
  <2>1. PICK g \in [SUBSET (1 .. n) -> W] : FoldEquation(g, n, base, F)
    BY <1>7, FoldExists
  <2>2. ASSUME NEW t \in SUBSET (1 .. n)
        PROVE  g[t] = IF t = {} THEN base ELSE step(g[t \ {Max(t)}], Max(t))
    <3>1. CASE t = {}
      BY <2>1, <3>1 DEF FoldEquation
    <3>2. CASE t # {}
      <4>1. Max(t) \in 1 .. n /\ g[t \ {Max(t)}] \in W
        BY <2>1, <3>2, LastPosition
      <4>2. g[t] = F[Max(t)][g[t \ {Max(t)}]]
        BY <2>1, <3>2 DEF FoldEquation
      <4> QED
        BY <1>7, <3>2, <4>1, <4>2
    <3> QED
      BY <3>1, <3>2
  <2> QED
    BY <1>8, <2>1, <2>2
<1>10. PICK g : equation(g) /\ FoldLeft(LAMBDA m, b : ClaimedBy(m, b.game, b.updates), map, BuiltIn) = g[1 .. n]
  <2> HIDE DEF equation
  <2> QED
    BY <1>5, <1>9
<1>11. ObeysWithin(g, n, base, F, W)
  <2>1. g[{}] = base
    BY <1>8, <1>10
  <2>2. ASSUME NEW t \in SUBSET (1 .. n), t # {}, g[t \ {Max(t)}] \in W
        PROVE  g[t] = F[Max(t)][g[t \ {Max(t)}]]
    <3>1. Max(t) \in 1 .. n
      BY <2>2, LastPosition
    <3>2. g[t] = step(g[t \ {Max(t)}], Max(t))
      BY <1>10, <2>2
    <3> QED
      BY <1>7, <2>2, <3>1, <3>2
  <2> HIDE DEF equation
  <2> QED
    BY <2>1, <2>2 DEF ObeysWithin
<1> HIDE DEF equation
<1>12. PICK h \in [0 .. n -> W] : ResultsOf(h, g, n, base, F)
  BY <1>7, <1>11, FoldResults
<1>13. ASSUME NEW i \in 1 .. n
       PROVE  h[i] = step(h[i - 1], i)
  <2>1. h[i] = F[i][h[i - 1]] /\ h[i - 1] \in W
    BY <1>12 DEF ResultsOf
  <2> QED
    BY <1>7, <2>1
<1>14. h[0] = base /\ h[n] = g[1 .. n]
  BY <1>12 DEF ResultsOf
<1> QED
  BY <1>1, <1>3, <1>8, <1>10, <1>13, <1>14 DEF step

\* The built-in properties are typed, and their history agrees with them.
LEMMA BuiltInAgrees ==
  Game_InitProperties \in Works /\ Agree(BuiltInClaims, ToSet(Game_InitProperties.protocols))
<1>1. PICK n \in Nat : n = Len(BuiltIn) /\ DOMAIN BuiltIn = 1 .. n
  BY LenProperties, BuiltInAssumption
<1>2. PICK h \in [0 .. n -> Works] :
        /\ h[0] = NoWork
        /\ \A i \in 1 .. n : h[i] = Game_UpdateProperties(h[i - 1], BuiltIn[i].game, BuiltIn[i].updates)
        /\ Game_InitProperties = h[n]
  BY <1>1, NothingYet, BuiltInFold DEF Game_InitProperties, NoWork
<1>3. PICK m \in [0 .. n -> Maps] :
        /\ m[0] = NoClaims
        /\ \A i \in 1 .. n : m[i] = ClaimedBy(m[i - 1], BuiltIn[i].game, BuiltIn[i].updates)
        /\ BuiltInClaims = m[n]
  BY <1>1, NothingYet, BuiltInClaimsFold DEF BuiltInClaims
<1> DEFINE good(i) == h[i].status = "parsing" => Agree(m[i], ToSet(h[i].protocols))
           holds == {i \in 0 .. n : good(i)}
<1>4. 0 \in holds
  BY <1>2, <1>3, NothingYet
<1>5. ASSUME NEW i \in 1 .. n, i - 1 \in holds
      PROVE  i \in holds
  <2>1. PICK w \in Works : w = h[i - 1]
    BY <1>2
  <2>2. PICK x : x = h[i]
    OBVIOUS
  <2>3. PICK b : b = BuiltIn[i]
    OBVIOUS
  <2>4. x = Game_UpdateProperties(w, b.game, b.updates)
    BY <1>2, <2>1, <2>2, <2>3
  <2>5. b.game \in Names /\ AreUpdates(b.updates)
    BY <1>1, <2>3, OneOfBuiltIn
  <2>6. ASSUME x.status = "parsing"
        PROVE  Agree(ClaimedBy(m[i - 1], b.game, b.updates), ToSet(x.protocols))
    <3>1. w.status = "parsing"
      BY <2>4, <2>5, <2>6, UpdatesApplied
    <3>2. Agree(m[i - 1], ToSet(w.protocols))
      BY <1>5, <2>1, <3>1
    <3> QED
      BY <2>4, <2>5, <2>6, <3>2, UpdatesApplied
  <2>7. m[i] = ClaimedBy(m[i - 1], b.game, b.updates) /\ i \in 0 .. n
    BY <1>3, <2>3
  <2> QED
    BY <2>2, <2>6, <2>7
<1>6. n \in holds
  <2> HIDE DEF holds
  <2>1. 0 .. n \subseteq holds
    BY <1>4, <1>5, Along
  <2> QED
    BY <2>1
<1> QED
  BY <1>2, <1>3, <1>6, BuiltInAssumption

=============================================================================
