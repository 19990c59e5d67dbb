-------------------------- MODULE RegistrationProofs --------------------------
(***************************************************************************)
(* Theorems about Registration, for any number of endpoints, games and     *)
(* configurations, any timeouts, and any bound on the datagrams in transit *)
(* and on the restarts.                                                    *)
(*                                                                         *)
(* AnswerFitsHeartbeat is not inductive: an answer that would be refused   *)
(* now, or a getinfo on its way, becomes one that is accepted later.       *)
(* ChallengeTellsTag says it of every datagram that carries a challenge,   *)
(* whatever else the master makes of it.  It holds because a challenge is  *)
(* only sent again for the heartbeat tag it was drawn for, and because one *)
(* that is drawn is in nobody's use.                                       *)
(***************************************************************************)
EXTENDS Registration, FiniteSetTheorems, Functions, TLAPS

Messages == Heartbeats \cup GetInfos \cup InfoResponses

\* The endpoint a datagram that carries a challenge belongs to.
Peer(m) == IF m.type = "getinfo" THEN m.to ELSE m.from

ChallengeTellsTag ==
  \A a \in Endpoints : \A m \in net :
    /\ entry[a] # NoEntry
    /\ m.type # "heartbeat" /\ Peer(m) = a
    /\ entry[a].challenge = m.challenge
    => m.under = entry[a].hb

\* What every step preserves.
IInv == TypeOK /\ IsFiniteSet(net) /\ ChallengeTellsTag /\ ListedUnderItsGame

\* Two entries that list a server under the same game, for the same reason.
SameGame(s, t) ==
  t.game = s.game /\ t.anon = s.anon /\ t.told = s.told /\ t.source = s.source

\* It is all that ListedUnderItsGame looks at.
LEMMA SameListing ==
  ASSUME NEW s, NEW t, SameGame(s, t), UnderItsGame(s)
  PROVE  UnderItsGame(t)
  BY DEF SameGame, UnderItsGame, MayLieAsRestored

----------------------------------------------------------------------------
(* Data.                                                                   *)

\* The constants are what their names say.
LEMMA Times ==
  /\ TIMEOUT_HEARTBEAT \in Nat /\ TIMEOUT_CHALLENGE \in Nat /\ TIMEOUT_INFORESPONSE \in Nat
  BY TimeoutAssumption

\* A datagram has the fields of its type, and a challenge that is not 0.
LEMMA MessageTypes ==
  ASSUME NEW m \in Messages
  PROVE  /\ m.type \in {"heartbeat", "getinfo", "infoResponse"}
         /\ m.type = "heartbeat"    => m \in Heartbeats
         /\ m.type = "getinfo"      => m \in GetInfos
         /\ m.type = "infoResponse" => m \in InfoResponses
         /\ m.type # "heartbeat"    => m.challenge \in Challenges /\ m.challenge # NoChallenge
<1>1. CASE m \in Heartbeats
  BY <1>1 DEF Heartbeats
<1>2. CASE m \in GetInfos
  BY <1>2, BoundAssumption, FS_CardinalityType DEF GetInfos, Challenges, NoChallenge
<1>3. CASE m \in InfoResponses
  BY <1>3, BoundAssumption, FS_CardinalityType DEF InfoResponses, Challenges, NoChallenge
<1> QED BY <1>1, <1>2, <1>3 DEF Messages

\* A new entry has the type of an entry.
LEMMA NewEntryType ==
  /\ NewEntry \in Entries /\ NewEntry.state = "uninitialized" /\ NewEntry.challenge = NoChallenge
  BY Times DEF NewEntry, Entries, NoChallenge

\* The tag a heartbeat is taken for names a game, or none.
LEMMA TagType ==
  ASSUME NEW m \in Heartbeats, NEW tag \in TagsRead(m.tag), TagAccepted(tag)
  PROVE  Properties(tag) \in Games \cup {NoGame}
  BY GameAssumption DEF Heartbeats, TagsRead, TagAccepted, Properties

\* The values of a function on a finite set are finitely many.
LEMMA ImageOf ==
  ASSUME NEW S, IsFiniteSet(S), NEW T, NEW f \in [S -> T]
  PROVE  LET I == {f[x] : x \in S}
         IN  IsFiniteSet(I) /\ Cardinality(I) <= Cardinality(S)
<1> DEFINE I == {f[x] : x \in S}
<1>1. f \in Surjection(S, I)
  BY DEF Surjection
<1> QED BY <1>1, FS_Surjection

\* There are more challenges than datagrams and entries can use up while a
\* heartbeat takes up a place in transit.
LEMMA FreshIsFresh ==
  ASSUME IInv, NEW m \in net, m.type = "heartbeat"
  PROVE  FreshChallenge \in Challenges /\ ~ InUse(FreshChallenge)
<1> DEFINE N == {n \in net : n.type # "heartbeat"}
           E == {a \in Endpoints : entry[a] # NoEntry}
           f == [n \in N |-> n.challenge]
           g == [a \in E |-> entry[a].challenge]
           A == {f[n] : n \in N}
           B == {g[a] : a \in E}
<1>1. IsFiniteSet(N) /\ Cardinality(N) + 1 <= MaxNet /\ Cardinality(N) \in Nat
  <2>1. N \in SUBSET (net \ {m})
    OBVIOUS
  <2>2. IsFiniteSet(net \ {m}) /\ Cardinality(net \ {m}) = Cardinality(net) - 1
    BY FS_RemoveElement DEF IInv
  <2>3. Cardinality(net) \in Nat /\ Cardinality(net) <= MaxNet
    BY FS_CardinalityType DEF IInv, TypeOK
  <2>4. IsFiniteSet(N) /\ Cardinality(N) <= Cardinality(net \ {m})
    BY <2>1, <2>2, FS_Subset
  <2>5. Cardinality(N) \in Nat
    BY <2>4, FS_CardinalityType
  <2> QED BY <2>2, <2>3, <2>4, <2>5, BoundAssumption
<1>2. IsFiniteSet(A) /\ Cardinality(A) <= Cardinality(N) /\ Cardinality(A) \in Nat
  <2>1. f \in [N -> Challenges]
    BY MessageTypes DEF IInv, TypeOK, Messages
  <2> HIDE DEF N, f
  <2> QED BY <1>1, <2>1, ImageOf, FS_CardinalityType
<1>3. IsFiniteSet(E) /\ Cardinality(E) <= Cardinality(Endpoints) /\ Cardinality(E) \in Nat
      /\ Cardinality(Endpoints) \in Nat
  BY BoundAssumption, FS_Subset, FS_CardinalityType
<1>4. IsFiniteSet(B) /\ Cardinality(B) <= Cardinality(E) /\ Cardinality(B) \in Nat
  <2> DEFINE T == {entry[a].challenge : a \in E}
  <2>1. g \in [E -> T]
    OBVIOUS
  <2> HIDE DEF E, g, T
  <2> QED BY <1>3, <2>1, ImageOf, FS_CardinalityType
<1>5. IsFiniteSet(A \cup B) /\ Cardinality(A \cup B) <= Cardinality(A) + Cardinality(B)
  <2> HIDE DEF A, B
  <2>1. IsFiniteSet(A \cap B)
    BY <1>2, FS_Subset
  <2>2. Cardinality(A \cap B) \in Nat
    BY <2>1, FS_CardinalityType
  <2>3. /\ IsFiniteSet(A \cup B)
        /\ Cardinality(A \cup B) = Cardinality(A) + Cardinality(B) - Cardinality(A \cap B)
    BY <1>2, <1>4, FS_Union
  <2> QED BY <1>2, <1>4, <2>2, <2>3
<1>6. Cardinality(Challenges) = MaxNet + Cardinality(Endpoints)
  BY <1>3, BoundAssumption, FS_Interval DEF Challenges
<1>7. ~ (Challenges \subseteq A \cup B)
  <2> HIDE DEF A, B
  <2> SUFFICES ASSUME Challenges \subseteq A \cup B PROVE FALSE
    OBVIOUS
  <2>1. Cardinality(Challenges) <= Cardinality(A \cup B)
    BY <1>5, FS_Subset
  <2>2. Cardinality(A \cup B) \in Nat
    BY <1>5, FS_CardinalityType
  <2> QED BY <1>1, <1>2, <1>3, <1>4, <1>5, <1>6, <2>1, <2>2, BoundAssumption
<1>8. PICK c \in Challenges : c \notin A \cup B
  BY <1>7
<1>9. ~ InUse(c)
  BY <1>8 DEF InUse, Carrying
<1> QED BY <1>9 DEF FreshChallenge

----------------------------------------------------------------------------
(* Steps.                                                                  *)

\* A datagram that is taken may leave a duplicate, and one that is sent may be
\* lost: nothing else comes into transit.
LEMMA Transit ==
  ASSUME IInv, NEW left \in SUBSET net, NEW m \in Messages, net' = Sent(m, left)
  PROVE  /\ net' \subseteq net \cup {m}
         /\ net' \in SUBSET Messages /\ IsFiniteSet(net') /\ Cardinality(net') <= MaxNet
<1>1. /\ net \in SUBSET Messages /\ IsFiniteSet(net) /\ Cardinality(net) <= MaxNet
      /\ Cardinality(net) \in Nat /\ MaxNet \in Nat
  BY BoundAssumption, FS_CardinalityType DEF IInv, TypeOK, Messages
<1>2. IsFiniteSet(left) /\ Cardinality(left) <= Cardinality(net) /\ Cardinality(left) \in Nat
  BY <1>1, FS_Subset, FS_CardinalityType
<1>3. CASE Cardinality(left) < MaxNet
  <2>1. net' = left \cup {m}
    BY <1>3 DEF Sent
  <2>2. IsFiniteSet(net') /\ Cardinality(net') <= Cardinality(left) + 1
    BY <1>2, <2>1, FS_AddElement
  <2>3. Cardinality(net') \in Nat
    BY <2>2, FS_CardinalityType
  <2> QED BY <1>1, <1>2, <1>3, <2>1, <2>2, <2>3
<1>4. CASE ~ (Cardinality(left) < MaxNet)
  BY <1>1, <1>2, <1>4 DEF Sent
<1> QED BY <1>3, <1>4

\* Datagrams that are taken out leave fewer of the same kind.
LEMMA Shrinks ==
  ASSUME IInv, net' \subseteq net
  PROVE  net' \in SUBSET Messages /\ IsFiniteSet(net') /\ Cardinality(net') <= MaxNet
<1>1. /\ net \in SUBSET Messages /\ IsFiniteSet(net) /\ Cardinality(net) <= MaxNet
      /\ Cardinality(net) \in Nat
  BY FS_CardinalityType DEF IInv, TypeOK, Messages
<1>2. IsFiniteSet(net') /\ Cardinality(net') <= Cardinality(net) /\ Cardinality(net') \in Nat
  BY <1>1, FS_Subset, FS_CardinalityType
<1> QED BY <1>1, <1>2, BoundAssumption

\* What a delivery leaves was there.
LEMMA TakenIsLeft == ASSUME NEW m, NEW left \in Taken(m) PROVE left \subseteq net
  BY DEF Taken

\* A step of the network or of a game server, that only takes datagrams out.
LEMMA NetInv ==
  ASSUME IInv, net' \subseteq net, config' \in [Endpoints -> Configs \cup {Off}],
         UNCHANGED <<entry, restarts>>
  PROVE  IInv'
<1>1. TypeOK' /\ IsFiniteSet(net)'
  BY Shrinks DEF IInv, TypeOK, Messages
<1> QED BY <1>1 DEF IInv, ChallengeTellsTag, ListedUnderItsGame, Listed

\* A heartbeat carries no challenge.
LEMMA SendHeartbeatInv == ASSUME IInv, NEW a \in Endpoints, SendHeartbeat(a) PROVE IInv'
<1> DEFINE m == [type |-> "heartbeat", from |-> a, tag |-> config[a].tag]
<1>1. m \in Messages /\ m.type = "heartbeat"
  BY GameAssumption DEF SendHeartbeat, IInv, TypeOK, Messages, Heartbeats
<1>2. net' = Sent(m, net) /\ UNCHANGED <<entry, config, restarts>>
  BY DEF SendHeartbeat
<1> HIDE DEF m
<1>3. /\ net' \subseteq net \cup {m}
      /\ net' \in SUBSET Messages /\ IsFiniteSet(net') /\ Cardinality(net') <= MaxNet
  BY <1>1, <1>2, Transit
<1>4. TypeOK'
  BY <1>2, <1>3 DEF IInv, TypeOK, Messages
<1>5. ChallengeTellsTag' /\ ListedUnderItsGame'
  BY <1>1, <1>2, <1>3 DEF IInv, ChallengeTellsTag, ListedUnderItsGame, Listed
<1> QED BY <1>3, <1>4, <1>5 DEF IInv

\* The answer carries the challenge and the tag of what it answers.
LEMMA AnswerGetInfoInv == ASSUME IInv, NEW a \in Endpoints, AnswerGetInfo(a) PROVE IInv'
<1>1. PICK m \in net : \E left \in Taken(m) :
        /\ m.type = "getinfo" /\ m.to = a
        /\ net' = Sent([type |-> "infoResponse", from |-> a, challenge |-> m.challenge,
                        name |-> config[a].name, under |-> m.under], left)
  BY DEF AnswerGetInfo
<1> DEFINE r == [type |-> "infoResponse", from |-> a, challenge |-> m.challenge,
                 name |-> config[a].name, under |-> m.under]
<1>2. m \in GetInfos
  BY <1>1, MessageTypes DEF IInv, TypeOK, Messages
<1>3. /\ r \in Messages /\ r.type = "infoResponse" /\ Peer(r) = a /\ Peer(m) = a
      /\ r.challenge = m.challenge /\ r.under = m.under
  <2>1. config[a].name \in Names \cup {NoGame, Malformed}
    BY GameAssumption DEF AnswerGetInfo, IInv, TypeOK
  <2> QED BY <1>1, <1>2, <2>1 DEF Messages, GetInfos, InfoResponses, Peer
<1>4. PICK left \in Taken(m) : net' = Sent(r, left)
  BY <1>1
<1>4a. UNCHANGED <<entry, config, restarts>>
  BY DEF AnswerGetInfo
<1> HIDE DEF r
<1>5. /\ net' \subseteq net \cup {r}
      /\ net' \in SUBSET Messages /\ IsFiniteSet(net') /\ Cardinality(net') <= MaxNet
  BY <1>1, <1>3, <1>4, TakenIsLeft, Transit
<1>6. TypeOK'
  BY <1>4a, <1>5 DEF IInv, TypeOK, Messages
<1>7. ChallengeTellsTag'
  BY <1>1, <1>3, <1>4a, <1>5 DEF IInv, ChallengeTellsTag
<1>8. ListedUnderItsGame'
  BY <1>4a DEF IInv, ListedUnderItsGame, Listed
<1> QED BY <1>5, <1>6, <1>7, <1>8 DEF IInv

\* The challenge that is sent is the one drawn for the tag, or a fresh one.
LEMMA HeartbeatTakenInv == ASSUME IInv, NEW a \in Endpoints, HeartbeatTaken(a) PROVE IInv'
<1> DEFINE server   == IF entry[a] = NoEntry THEN NewEntry ELSE entry[a]
           new(tag) == NeedsChallenge(server, Properties(tag))
           c(tag)   == IF new(tag) THEN FreshChallenge ELSE server.challenge
           then(tag) == [server EXCEPT !.hb = Properties(tag), !.challenge = c(tag),
                           !.challenge_left = IF new(tag) THEN TIMEOUT_CHALLENGE ELSE @]
           q(tag) == [type |-> "getinfo", to |-> a, challenge |-> c(tag),
                      under |-> Properties(tag)]
<1>1a. PICK m \in net : \E tag \in TagsRead(m.tag) :
        /\ m.type = "heartbeat" /\ m.from = a /\ TagAccepted(tag)
        /\ entry' = [entry EXCEPT ![a] = then(tag)]
        /\ \E left \in Taken(m) : net' = Sent(q(tag), left)
  BY DEF HeartbeatTaken
<1>1b. PICK tag \in TagsRead(m.tag) :
        /\ m.type = "heartbeat" /\ m.from = a /\ TagAccepted(tag)
        /\ entry' = [entry EXCEPT ![a] = then(tag)]
        /\ \E left \in Taken(m) : net' = Sent(q(tag), left)
  BY <1>1a
<1>1. PICK left \in Taken(m) :
        /\ m.type = "heartbeat" /\ m.from = a /\ TagAccepted(tag)
        /\ entry' = [entry EXCEPT ![a] = then(tag)]
        /\ net' = Sent(q(tag), left)
  BY <1>1b
<1>2. UNCHANGED <<config, restarts>>
  BY DEF HeartbeatTaken
<1>3. server \in Entries /\ (entry[a] # NoEntry => server = entry[a])
      /\ (entry[a] = NoEntry => server.state = "uninitialized" /\ server.challenge = NoChallenge)
  BY NewEntryType DEF IInv, TypeOK
<1>4. Properties(tag) \in Games \cup {NoGame}
  BY <1>1, TagType, MessageTypes DEF IInv, TypeOK, Messages
<1>5. /\ FreshChallenge \in Challenges
      /\ \A n \in net : n.type # "heartbeat" => n.challenge # FreshChallenge
  BY <1>1, FreshIsFresh DEF InUse, Carrying
<1>6. c(tag) \in Challenges
  BY <1>3, <1>5 DEF Entries, NeedsChallenge
<1> HIDE DEF server
<1> DEFINE e == then(tag)
<1>7. /\ e \in Entries /\ e.hb = Properties(tag) /\ e.challenge = c(tag)
      /\ e.state = server.state /\ SameGame(server, e)
  <2> DEFINE x == IF new(tag) THEN TIMEOUT_CHALLENGE ELSE server.challenge_left
             d == c(tag)
             h == Properties(tag)
  <2>1. x \in 0 .. TIMEOUT_CHALLENGE
    BY <1>3, Times DEF Entries
  <2>2. e = [server EXCEPT !.hb = h, !.challenge = d, !.challenge_left = x]
    OBVIOUS
  <2>3. d \in Challenges /\ h \in Games \cup {NoGame}
    BY <1>4, <1>6
  <2> HIDE DEF x, d, h, e
  <2>4. /\ e \in Entries /\ e.hb = h /\ e.challenge = d
        /\ e.state = server.state /\ SameGame(server, e)
    BY <1>3, <2>1, <2>2, <2>3 DEF Entries, SameGame
  <2> QED BY <2>4 DEF d, h
<1>8. q(tag) \in Messages /\ q(tag).type = "getinfo" /\ Peer(q(tag)) = a
      /\ q(tag).challenge = c(tag) /\ q(tag).under = Properties(tag)
  BY <1>4, <1>6 DEF Messages, GetInfos, Peer
<1> DEFINE g == q(tag)
           d == c(tag)
<1>9. \/ d = FreshChallenge
      \/ entry[a] # NoEntry /\ d = entry[a].challenge /\ entry[a].hb = Properties(tag)
  BY <1>3 DEF NeedsChallenge
<1>10. /\ entry' = [entry EXCEPT ![a] = e] /\ net' = Sent(g, left)
       /\ e.challenge = d /\ g.challenge = d /\ g \in Messages
       /\ g.type = "getinfo" /\ Peer(g) = a /\ g.under = Properties(tag)
  BY <1>1, <1>7, <1>8
<1> HIDE DEF e, g, d, then, q, c, new
<1>11. /\ net' \subseteq net \cup {g}
       /\ net' \in SUBSET Messages /\ IsFiniteSet(net') /\ Cardinality(net') <= MaxNet
  BY <1>1, <1>10, TakenIsLeft, Transit
<1>12. /\ entry' \in [Endpoints -> Entries \cup {NoEntry}]
       /\ entry'[a] = e /\ \A b \in Endpoints \ {a} : entry'[b] = entry[b]
  BY <1>7, <1>10 DEF IInv, TypeOK
<1>13. TypeOK'
  BY <1>2, <1>11, <1>12 DEF IInv, TypeOK, Messages
<1>14. ASSUME NEW b \in Endpoints, NEW n \in net',
              entry'[b] # NoEntry, n.type # "heartbeat", Peer(n) = b,
              entry'[b].challenge = n.challenge
       PROVE  n.under = entry'[b].hb
  <2>1. CASE b = a /\ n = g
    BY <1>7, <1>10, <1>12, <2>1
  <2>2. CASE b = a /\ n # g
    <3>1. n \in net /\ n.challenge = d /\ entry'[a].hb = Properties(tag)
      BY <1>7, <1>10, <1>11, <1>12, <1>14, <2>2
    <3>2. d # FreshChallenge
      BY <1>5, <1>14, <3>1
    <3> QED BY <1>9, <1>14, <2>2, <3>1, <3>2 DEF IInv, ChallengeTellsTag
  <2>3. CASE b # a
    BY <1>10, <1>11, <1>12, <1>14, <2>3 DEF IInv, ChallengeTellsTag
  <2> QED BY <2>1, <2>2, <2>3
<1>15. ListedUnderItsGame'
  BY <1>3, <1>7, <1>12, SameListing DEF IInv, ListedUnderItsGame, Listed
<1> QED BY <1>11, <1>13, <1>14, <1>15 DEF IInv, ChallengeTellsTag

\* A server is listed under the game its heartbeat or its answer told.
LEMMA InfoResponseTakenInv == ASSUME IInv, NEW a \in Endpoints, InfoResponseTaken(a) PROVE IInv'
<1>1. PICK m \in net :
        /\ InfoAccepted(a, m)
        /\ entry' = [entry EXCEPT ![a] =
                       [entry[a] EXCEPT !.state = "validated", !.game = GameName(entry[a], m.name),
                                        !.anon = entry[a].hb, !.told = m.under,
                                        !.source = "answer", !.left = TIMEOUT_INFORESPONSE]]
        /\ net' \in Taken(m)
  BY DEF InfoResponseTaken
<1> DEFINE game == GameName(entry[a], m.name)
           e == [entry[a] EXCEPT !.state = "validated", !.game = game,
                                 !.anon = entry[a].hb, !.told = m.under,
                                 !.source = "answer", !.left = TIMEOUT_INFORESPONSE]
<1>2. entry[a] \in Entries /\ entry[a] # NoEntry /\ game \in Accepted
  BY <1>1 DEF InfoAccepted, AnswersChallenge, IInv, TypeOK
<1>3. game \in Names /\ entry[a].hb \in {NoGame, game}
  BY <1>2, GameAssumption DEF GameName
<1>3a. m.under = entry[a].hb
  BY <1>1, <1>2 DEF IInv, ChallengeTellsTag, InfoAccepted, AnswersChallenge, Peer
<1>4. entry' = [entry EXCEPT ![a] = e]
  BY <1>1
<1> HIDE DEF game
<1>5. /\ e \in Entries /\ e.state = "validated" /\ e.game = game /\ e.anon = entry[a].hb
      /\ e.hb = entry[a].hb /\ e.challenge = entry[a].challenge
      /\ e.told = entry[a].hb /\ e.source = "answer"
  <2> DEFINE server == entry[a]
             h == entry[a].hb
             t == TIMEOUT_INFORESPONSE
  <2>1. /\ server \in Entries /\ h = server.hb
        /\ e = [server EXCEPT !.state = "validated", !.game = game, !.anon = h,
                             !.told = h, !.source = "answer", !.left = t]
    BY <1>2, <1>3a
  <2>2. t \in 0 .. TIMEOUT_HEARTBEAT + TIMEOUT_INFORESPONSE /\ h \in Games \cup {NoGame}
    BY <1>2, Times DEF Entries
  <2> HIDE DEF server, h, t, e
  <2>3. /\ e \in Entries /\ e.state = "validated" /\ e.game = game /\ e.anon = h
        /\ e.hb = h /\ e.challenge = server.challenge /\ e.told = h /\ e.source = "answer"
    BY <1>3, <2>1, <2>2 DEF Entries
  <2> QED BY <2>3 DEF server, h
<1> HIDE DEF e
<1>6. /\ entry' \in [Endpoints -> Entries \cup {NoEntry}]
      /\ entry'[a] = e /\ \A b \in Endpoints \ {a} : entry'[b] = entry[b]
  BY <1>4, <1>5 DEF IInv, TypeOK
<1>7. net' \subseteq net /\ UNCHANGED <<config, restarts>>
  BY <1>1, TakenIsLeft DEF InfoResponseTaken
<1>8. TypeOK' /\ IsFiniteSet(net')
  BY <1>6, <1>7, Shrinks DEF IInv, TypeOK, Messages
<1>9. ChallengeTellsTag'
  BY <1>2, <1>5, <1>6, <1>7 DEF IInv, ChallengeTellsTag
<1>10. ListedUnderItsGame'
  <2>1. UnderItsGame(e)
    BY <1>2, <1>3, <1>5 DEF UnderItsGame, MayLieAsRestored
  <2> QED BY <1>6, <2>1 DEF IInv, ListedUnderItsGame, Listed
<1> QED BY <1>8, <1>9, <1>10 DEF IInv

\* An entry that grows older keeps what it says, but for its challenge.
LEMMA TickInv == ASSUME IInv, Tick PROVE IInv'
<1>1. ASSUME NEW a \in Endpoints, entry'[a] # NoEntry
      PROVE  /\ entry[a] # NoEntry /\ entry'[a] \in Entries
             /\ entry'[a].state = entry[a].state /\ entry'[a].hb = entry[a].hb
             /\ SameGame(entry[a], entry'[a])
             /\ entry'[a].challenge \in {entry[a].challenge, NoChallenge}
  <2>1. entry'[a] = Older(entry[a])
    BY DEF Tick
  <2>2. /\ entry[a] \in Entries /\ entry[a] # NoEntry /\ entry[a].left # 0
        /\ entry'[a] = [entry[a] EXCEPT
             !.left = entry[a].left - 1,
             !.challenge = IF entry[a].challenge_left = 0 THEN NoChallenge ELSE entry[a].challenge,
             !.challenge_left = IF entry[a].challenge_left = 0 THEN 0
                                ELSE entry[a].challenge_left - 1]
    BY <1>1, <2>1 DEF Older, IInv, TypeOK
  <2> DEFINE server == entry[a]
             e == entry'[a]
             c == IF server.challenge_left = 0 THEN NoChallenge ELSE server.challenge
             l == IF server.challenge_left = 0 THEN 0 ELSE server.challenge_left - 1
             t == server.left - 1
  <2>3. e = [server EXCEPT !.left = t, !.challenge = c, !.challenge_left = l]
    BY <2>2
  <2>4. /\ server \in Entries /\ c \in Challenges \cup {NoChallenge}
        /\ c \in {server.challenge, NoChallenge}
    BY <2>2 DEF Entries
  <2>5. l \in 0 .. TIMEOUT_CHALLENGE /\ t \in 0 .. TIMEOUT_HEARTBEAT + TIMEOUT_INFORESPONSE
    BY <2>2, Times DEF Entries
  <2> HIDE DEF server, e, c, l, t
  <2>6. /\ e \in Entries /\ e.state = server.state /\ SameGame(server, e)
        /\ e.hb = server.hb /\ e.challenge = c
    BY <2>3, <2>4, <2>5 DEF Entries, SameGame
  <2> QED BY <2>2, <2>4, <2>6 DEF server, e
<1>2. entry' \in [Endpoints -> Entries \cup {NoEntry}]
  BY <1>1 DEF Tick
<1>3. UNCHANGED <<config, net, restarts>>
  BY DEF Tick
<1>4. TypeOK'
  BY <1>2, <1>3 DEF IInv, TypeOK
<1>5. ChallengeTellsTag'
  BY <1>1, <1>3, MessageTypes DEF IInv, TypeOK, ChallengeTellsTag, Messages
<1>6. ListedUnderItsGame'
  BY <1>1, SameListing DEF IInv, ListedUnderItsGame, Listed
<1> QED BY <1>3, <1>4, <1>5, <1>6 DEF IInv

\* What comes back from the state file has no challenge to answer.
LEMMA RestartInv == ASSUME IInv, Restart PROVE IInv'
<1>1. PICK S \in SUBSET {a \in Endpoints : entry[a] # NoEntry /\ entry[a].state = "validated"} :
        entry' = [a \in Endpoints |-> IF a \in S THEN Restored(entry[a]) ELSE NoEntry]
  BY DEF Restart
<1>2. ASSUME NEW a \in Endpoints, entry'[a] # NoEntry
      PROVE  /\ Listed(a) /\ entry'[a] \in Entries
             /\ UnderItsGame(entry'[a]) /\ entry'[a].challenge = NoChallenge
  <2>1. entry[a] \in Entries /\ Listed(a) /\ entry'[a] = Restored(entry[a])
    BY <1>1, <1>2 DEF IInv, TypeOK, Listed
  <2> DEFINE server == entry[a]
             e == entry'[a]
             n == IF server.game \in Games THEN server.game ELSE NoGame
  <2>2. /\ server \in Entries
        /\ e = [server EXCEPT !.hb = NoGame, !.anon = n, !.source = "file",
                              !.challenge = NoChallenge, !.challenge_left = 0]
    BY <2>1 DEF Restored
  <2>3. n \in Games \cup {NoGame} /\ UnderItsGame(server)
    BY <2>1 DEF IInv, ListedUnderItsGame
  <2>4. 0 \in 0 .. TIMEOUT_CHALLENGE
    BY Times
  <2>5. n = IF server.game \in Games THEN server.game ELSE NoGame
    OBVIOUS
  <2> HIDE DEF server, e, n
  <2>6. /\ e \in Entries /\ e.game = server.game /\ e.anon = n /\ e.challenge = NoChallenge
        /\ e.told = server.told /\ e.source = "file"
    BY <2>2, <2>3, <2>4 DEF Entries
  <2>7. server.told \in Games \cup {NoGame} /\ server.game \in Names
    BY <2>2, <2>3, GameAssumption DEF Entries, UnderItsGame
  <2>8. UnderItsGame(e)
    BY <2>3, <2>5, <2>6, <2>7, GameAssumption DEF UnderItsGame, MayLieAsRestored
  <2> QED BY <2>1, <2>6, <2>8 DEF server, e
<1>3. entry' \in [Endpoints -> Entries \cup {NoEntry}]
  BY <1>1, <1>2
<1>4. UNCHANGED <<config, net>> /\ restarts' \in 0 .. MaxRestarts
  BY BoundAssumption DEF Restart, IInv, TypeOK
<1>5. TypeOK'
  BY <1>3, <1>4 DEF IInv, TypeOK
<1>6. ChallengeTellsTag'
  BY <1>2, <1>4, MessageTypes DEF IInv, TypeOK, ChallengeTellsTag, Messages
<1>7. ListedUnderItsGame'
  BY <1>2 DEF IInv, ListedUnderItsGame, Listed
<1> QED BY <1>4, <1>5, <1>6, <1>7 DEF IInv

\* At first there is no entry and no datagram.
LEMMA InitInv == Init => IInv
<1> SUFFICES ASSUME Init PROVE IInv
  OBVIOUS
<1>1. TypeOK /\ IsFiniteSet(net)
  BY BoundAssumption, FS_EmptySet DEF Init, TypeOK
<1> QED BY <1>1 DEF Init, IInv, ChallengeTellsTag, ListedUnderItsGame, Listed

\* The next-state relation, one step per action.
LEMMA NextInv == IInv /\ [Next]_vars => IInv'
<1> SUFFICES ASSUME IInv, [Next]_vars PROVE IInv'
  OBVIOUS
<1>0. config \in [Endpoints -> Configs \cup {Off}]
  BY DEF IInv, TypeOK
<1>1. ASSUME NEW a \in Endpoints, SendHeartbeat(a) PROVE IInv'
  BY <1>1, SendHeartbeatInv
<1>2. ASSUME NEW a \in Endpoints, AnswerGetInfo(a) PROVE IInv'
  BY <1>2, AnswerGetInfoInv
<1>3. ASSUME NEW a \in Endpoints, Reconfigure(a) PROVE IInv'
  BY <1>0, <1>3, NetInv DEF Reconfigure
<1>4. ASSUME NEW a \in Endpoints, HeartbeatTaken(a) PROVE IInv'
  BY <1>4, HeartbeatTakenInv
<1>5. ASSUME NEW a \in Endpoints, HeartbeatIgnored(a) PROVE IInv'
  BY <1>0, <1>5, NetInv, TakenIsLeft DEF HeartbeatIgnored
<1>6. ASSUME NEW a \in Endpoints, InfoResponseTaken(a) PROVE IInv'
  BY <1>6, InfoResponseTakenInv
<1>7. ASSUME NEW a \in Endpoints, InfoResponseRefused(a) PROVE IInv'
  BY <1>0, <1>7, NetInv DEF InfoResponseRefused
<1>8. CASE Tick
  BY <1>8, TickInv
<1>9. CASE Restart
  BY <1>9, RestartInv
<1>10. CASE Lose
  BY <1>0, <1>10, NetInv DEF Lose
<1>11. CASE UNCHANGED vars
  BY <1>0, <1>11, NetInv DEF vars
<1> QED
  BY <1>1, <1>2, <1>3, <1>4, <1>5, <1>6, <1>7, <1>8, <1>9, <1>10, <1>11 DEF Next

\* The invariant holds in every reachable state.
LEMMA Invariance == Spec => []IInv
  BY InitInv, NextInv, PTL DEF Spec

----------------------------------------------------------------------------
(* Theorems.                                                               *)

\* The variables have their types, for any constants.
THEOREM TypeCorrect == Spec => []TypeOK
<1>1. IInv => TypeOK
  BY DEF IInv
<1> QED BY <1>1, Invariance, PTL

\* However late, often or out of order datagrams arrive, and whatever game servers
\* change in between, an infoResponse is only accepted for the heartbeat tag its
\* challenge was sent for.
THEOREM AnswersFit == Spec => []AnswerFitsHeartbeat
<1>1. IInv => AnswerFitsHeartbeat
  BY DEF IInv, ChallengeTellsTag, AnswerFitsHeartbeat, InfoAccepted, AnswersChallenge, Peer
<1> QED BY <1>1, Invariance, PTL

\* No server is ever listed under a game the policy refuses, or lends its name when
\* its latest answer was to a DarkPlaces heartbeat, unless it came back from the
\* state file under a built-in game and has not answered since.
THEOREM GamesAreRight == Spec => []ListedUnderItsGame
<1>1. IInv => ListedUnderItsGame
  BY DEF IInv
<1> QED BY <1>1, Invariance, PTL
=============================================================================
