---------------------------- MODULE Registration ----------------------------
(***************************************************************************)
(* How a game server gets into the list and stays in it: the exchange of   *)
(* heartbeat, getinfo and infoResponse (HandleHeartbeat, SendGetInfo and   *)
(* HandleInfoResponse of src/src/messages.c) over a network that loses,    *)
(* duplicates and reorders datagrams, with a master that may restart.      *)
(*                                                                         *)
(* Deadlines are kept as the seconds left, so the clock needs no bound.    *)
(* An entry past its deadline is gone: no handler tells it from a missing  *)
(* one.  The game servers are outside the repository.                      *)
(***************************************************************************)
EXTENDS Integers, FiniteSets

CONSTANTS
  Endpoints,
  Names,                \* game names
  Games,                \* those with a heartbeat tag of their own (games.c)
  Accepted,             \* those the policy accepts
  DarkPlaces,           \* the heartbeat tag without game properties
  Ignored,              \* any tag that is unknown, or announces a shutdown
  NoGame,               \* NULL properties, an absent game name or tag
  Malformed,            \* an infoResponse that lacks a field, or has a bad one
  Configs,              \* what a game server may run: a tag and a name
  Off,
  NoEntry,
  MaxNet,               \* bound on the datagrams in transit
  MaxRestarts,          \* bound on the restarts of the master
  TIMEOUT_HEARTBEAT, TIMEOUT_CHALLENGE, TIMEOUT_INFORESPONSE

ASSUME TimeoutAssumption ==
  {TIMEOUT_HEARTBEAT, TIMEOUT_CHALLENGE, TIMEOUT_INFORESPONSE} \subseteq Nat \ {0}
ASSUME GameAssumption ==
  /\ Accepted \subseteq Names /\ Games \subseteq Names
  /\ {NoGame, Malformed, DarkPlaces, Ignored} \cap Names = {}
  /\ Configs \subseteq [tag  : Games \cup {DarkPlaces, Ignored, NoGame},
                        name : Names \cup {NoGame, Malformed}]

ASSUME BoundAssumption ==
  IsFiniteSet(Endpoints) /\ MaxNet \in Nat /\ MaxRestarts \in Nat

VARIABLES
  entry,                \* what the list holds of each endpoint
  config,               \* what each game server is running
  net,                  \* the datagrams in transit
  restarts,
  prompt                \* no datagram lasts a second, or is delivered twice

vars == <<entry, config, net, restarts, prompt>>

\* BuildChallenge draws at random: a challenge in use is never drawn again.
\* The numbers here stand for the strings, and are reused once forgotten.
Challenges == 1 .. MaxNet + Cardinality(Endpoints)
NoChallenge == 0

\* "under" is history: the game properties the challenge was sent for.
Heartbeats == [type : {"heartbeat"}, from : Endpoints,
               tag : Games \cup {DarkPlaces, Ignored, NoGame}]
GetInfos == [type : {"getinfo"}, to : Endpoints, challenge : Challenges,
             under : Games \cup {NoGame}]
InfoResponses == [type : {"infoResponse"}, from : Endpoints, challenge : Challenges,
                  name : Names \cup {NoGame, Malformed}, under : Games \cup {NoGame}]

\* "told" and "source" are history: the game properties its latest accepted answer
\* was for, and whether "anon" comes from that answer or from the state file.
Entries ==
  [state     : {"uninitialized", "validated"},
   hb        : Games \cup {NoGame},      \* hb_properties
   anon      : Games \cup {NoGame},      \* anon_properties
   told      : Games \cup {NoGame},
   source    : {"answer", "file"},
   game      : Names \cup {NoGame},      \* gamename
   challenge : Challenges \cup {NoChallenge},
   challenge_left : 0 .. TIMEOUT_CHALLENGE,
   left      : 0 .. TIMEOUT_HEARTBEAT + TIMEOUT_INFORESPONSE]

NewEntry ==
  [state |-> "uninitialized", hb |-> NoGame, anon |-> NoGame, told |-> NoGame,
   source |-> "answer", game |-> NoGame, challenge |-> NoChallenge, challenge_left |-> 0,
   left |-> TIMEOUT_HEARTBEAT]

Carrying(c) == {m \in net : m.type # "heartbeat" /\ m.challenge = c}
InUse(c) ==
  \/ Carrying(c) # {}
  \/ \E a \in Endpoints : entry[a] # NoEntry /\ entry[a].challenge = c
FreshChallenge == CHOOSE c \in Challenges : ~ InUse(c)

----------------------------------------------------------------------------
(* The game servers.                                                       *)

\* A datagram that finds no room is lost.
Sent(m, left) == IF Cardinality(left) < MaxNet THEN left \cup {m} ELSE left

\* A delivery may leave a duplicate in transit, unless the network is prompt.
Taken(m) == {net \ {m}} \cup (IF prompt THEN {} ELSE {net})

SendHeartbeat(a) ==
  /\ config[a] # Off
  /\ net' = Sent([type |-> "heartbeat", from |-> a, tag |-> config[a].tag], net)
  /\ UNCHANGED <<entry, config, restarts, prompt>>

AnswerGetInfo(a) ==
  /\ config[a] # Off
  /\ \E m \in net :
       /\ m.type = "getinfo" /\ m.to = a
       /\ \E left \in Taken(m) :
            net' = Sent([type |-> "infoResponse", from |-> a, challenge |-> m.challenge,
                         name |-> config[a].name, under |-> m.under], left)
  /\ UNCHANGED <<entry, config, restarts, prompt>>

Reconfigure(a) ==
  /\ config' \in {[config EXCEPT ![a] = x] : x \in Configs \cup {Off}}
  /\ UNCHANGED <<entry, net, restarts, prompt>>

----------------------------------------------------------------------------
(* The master.                                                             *)

\* HandleHeartbeat accepts the tag, and finds its game properties.
Properties(tag) == IF tag = DarkPlaces THEN NoGame ELSE tag
TagAccepted(tag) == tag = DarkPlaces \/ tag \in Accepted

\* A heartbeat without a tag leaves the buffer of HandleHeartbeat as it was on
\* the stack, and it is compared with the tags all the same.
TagsRead(tag) == IF tag = NoGame THEN Games \cup {DarkPlaces, Ignored} ELSE {tag}

\* Mutants (wrong versions of the definition they precede, here and below):
\* the challenge survives a change of the heartbeat tag; every heartbeat gets
\* a new challenge.
Mutant_KeepChallenge(server, props) == server.challenge = NoChallenge
Mutant_AlwaysNew(server, props) == TRUE

\* SendGetInfo sends the old challenge again unless it has expired or the tag
\* has changed.
NeedsChallenge(server, props) == server.challenge = NoChallenge \/ server.hb # props

\* Sv_GetByAddr and SendGetInfo.  A newcomer may be refused (HeartbeatIgnored).
HeartbeatTaken(a) ==
  \E m \in {n \in net : n.type = "heartbeat" /\ n.from = a} : \E tag \in TagsRead(m.tag) :
    /\ TagAccepted(tag)
    /\ LET server == IF entry[a] = NoEntry THEN NewEntry ELSE entry[a]
           props  == Properties(tag)
           new    == NeedsChallenge(server, props)
           c      == IF new THEN FreshChallenge ELSE server.challenge
       IN  /\ entry' = [entry EXCEPT ![a] =
                          [server EXCEPT !.hb = props,
                                         !.challenge = c,
                                         !.challenge_left = IF new THEN TIMEOUT_CHALLENGE ELSE @]]
           /\ \E left \in Taken(m) :
                net' = Sent([type |-> "getinfo", to |-> a, challenge |-> c, under |-> props], left)
    /\ UNCHANGED <<config, restarts, prompt>>

\* An ignored tag, a game that is not accepted, the rate limit, or a newcomer
\* the list has no place for.
HeartbeatIgnored(a) ==
  \E m \in net :
    /\ m.type = "heartbeat" /\ m.from = a
    /\ net' \in Taken(m)
    /\ UNCHANGED <<entry, config, restarts, prompt>>

\* Mutant: the game name is not compared with the heartbeat's.
Mutant_GameName(server, name) == IF name = NoGame THEN server.hb ELSE name

\* The game name of an infoResponse, NoGame when it is refused for its name:
\* without one the heartbeat must tell, with one the two must not disagree.
GameName(server, name) ==
  CASE name = NoGame                -> server.hb
    [] server.hb \in {NoGame, name} -> name
    [] OTHER                        -> NoGame

AnswersChallenge(a, m) ==
  /\ entry[a] # NoEntry
  /\ entry[a].challenge # NoChallenge
  /\ entry[a].challenge = m.challenge

InfoAccepted(a, m) ==
  /\ m.type = "infoResponse" /\ m.from = a
  /\ AnswersChallenge(a, m)
  /\ m.name # Malformed
  /\ GameName(entry[a], m.name) \in Accepted

InfoResponseTaken(a) ==
  \E m \in net :
    /\ InfoAccepted(a, m)
    /\ entry' = [entry EXCEPT ![a] =
                   [@ EXCEPT !.state = "validated",
                             !.game = GameName(entry[a], m.name),
                             !.anon = entry[a].hb,
                             !.told = m.under,
                             !.source = "answer",
                             !.left = TIMEOUT_INFORESPONSE]]
    /\ net' \in Taken(m)
    /\ UNCHANGED <<config, restarts, prompt>>

InfoResponseRefused(a) ==
  \E m \in net :
    /\ m.type = "infoResponse" /\ m.from = a
    /\ ~ InfoAccepted(a, m)
    /\ net' = net \ {m}
    /\ UNCHANGED <<entry, config, restarts, prompt>>

\* Mutants: an expired challenge can still be answered; an entry stays for a
\* second more than its deadline.
Mutant_OldChallenge(server) ==
  IF server = NoEntry \/ server.left = 0 THEN NoEntry ELSE [server EXCEPT !.left = @ - 1]
Mutant_LateExpiry(server) ==
  IF server = NoEntry \/ server.left < 0 THEN NoEntry ELSE [server EXCEPT !.left = @ - 1]

\* One second on the clock: an entry, or its challenge, may time out.
Older(server) ==
  IF server = NoEntry \/ server.left = 0
    THEN NoEntry
    ELSE [server EXCEPT
            !.left = @ - 1,
            !.challenge = IF server.challenge_left = 0 THEN NoChallenge ELSE @,
            !.challenge_left = IF @ = 0 THEN 0 ELSE @ - 1]

\* On a prompt network nothing is in transit when the clock moves.
Tick ==
  /\ prompt => net = {}
  /\ entry' = [a \in Endpoints |-> Older(entry[a])]
  /\ UNCHANGED <<config, net, restarts, prompt>>

\* Mutant: a restored entry lends its name to no query.
Mutant_Restored(server) ==
  [server EXCEPT !.hb = NoGame, !.anon = NoGame, !.source = "file",
                 !.challenge = NoChallenge, !.challenge_left = 0]

\* The process is started again: validated entries may come back from the
\* state file, without a challenge and without heartbeat properties.
Restored(server) ==
  [server EXCEPT !.hb = NoGame,
                 !.anon = IF server.game \in Games THEN server.game ELSE NoGame,
                 !.source = "file",
                 !.challenge = NoChallenge, !.challenge_left = 0]

Restart ==
  /\ \E S \in SUBSET {a \in Endpoints : entry[a] # NoEntry /\ entry[a].state = "validated"} :
       entry' = [a \in Endpoints |-> IF a \in S THEN Restored(entry[a]) ELSE NoEntry]
  /\ restarts < MaxRestarts
  /\ restarts' = restarts + 1
  /\ UNCHANGED <<config, net, prompt>>

Lose ==
  /\ net # {}
  /\ net' \in {net \ {m} : m \in net}
  /\ UNCHANGED <<entry, config, restarts, prompt>>

Init ==
  /\ entry = [a \in Endpoints |-> NoEntry]
  /\ config = [a \in Endpoints |-> Off]
  /\ net = {}
  /\ restarts = 0
  /\ prompt \in BOOLEAN

Next ==
  \/ \E a \in Endpoints :
       \/ SendHeartbeat(a)
       \/ AnswerGetInfo(a)
       \/ Reconfigure(a)
       \/ HeartbeatTaken(a)
       \/ HeartbeatIgnored(a)
       \/ InfoResponseTaken(a)
       \/ InfoResponseRefused(a)
  \/ Tick
  \/ Restart
  \/ Lose

Spec == Init /\ [][Next]_vars

\* The clock runs, a running server keeps sending heartbeats and answers what
\* it is asked, and the network does not lose every datagram of a kind.  Only a
\* prompt network must get rid of what is in transit.
InTransit(t, a) == \E m \in net : m.type = t /\ (IF t = "getinfo" THEN m.to ELSE m.from) = a

Fairness ==
  /\ SF_vars(Tick)
  /\ SF_vars(prompt /\ Lose)
  /\ \A a \in Endpoints :
       /\ SF_vars(SendHeartbeat(a) /\ InTransit("heartbeat", a)')
       /\ SF_vars(HeartbeatTaken(a) /\ InTransit("getinfo", a)')
       /\ SF_vars(AnswerGetInfo(a) /\ InTransit("infoResponse", a)')
       /\ SF_vars(InfoResponseTaken(a))

FairSpec == Spec /\ Fairness

----------------------------------------------------------------------------
(* Properties.                                                             *)

\* The variables have their types.
TypeOK ==
  /\ entry \in [Endpoints -> Entries \cup {NoEntry}]
  /\ config \in [Endpoints -> Configs \cup {Off}]
  /\ net \in SUBSET (Heartbeats \cup GetInfos \cup InfoResponses)
  /\ Cardinality(net) <= MaxNet
  /\ restarts \in 0 .. MaxRestarts

\* An answer that would be accepted now answers a challenge that was sent for
\* the game of the entry's latest heartbeat, however late or often it arrives:
\* "Force a new challenge if the heartbeat tag has changed" (messages.c:340).
AnswerFitsHeartbeat ==
  \A a \in Endpoints : \A m \in net : InfoAccepted(a, m) => m.under = entry[a].hb

\* The game of a listed server is an accepted one.  Whether it lends its name to
\* queries that name no game is what its latest accepted answer told, through
\* expiry, restarts and late datagrams: a server that heartbeats as DarkPlaces never
\* does (messages.c:599-602).  One that came back from the state file is excepted:
\* until it answers again it lends its name if that is a game with a tag.
Listed(a) == entry[a] # NoEntry /\ entry[a].state = "validated"
MayLieAsRestored(server) == server.source = "file" /\ server.told = NoGame /\ server.game \in Games

UnderItsGame(server) ==
  /\ server.game \in Accepted
  /\ server.told \in {NoGame, server.game}
  /\ server.anon = IF MayLieAsRestored(server) THEN server.game ELSE server.told

ListedUnderItsGame == \A a \in Endpoints : Listed(a) => UnderItsGame(entry[a])

\* On a prompt network, a server that stays with a configuration the master
\* accepts is in the list again and again, whatever happened before.
Acceptable(x) ==
  \/ x.tag \in Accepted /\ x.name \in {NoGame, x.tag}
  \/ x.tag = DarkPlaces /\ x.name \in Accepted

KeepsComingBack ==
  \A a \in Endpoints : \A x \in {y \in Configs : Acceptable(y)} :
    <>[](prompt /\ config[a] = x) => []<>Listed(a)

\* A server that is gone is forgotten for good, even if the network goes on
\* delivering duplicates of its last datagrams.
DeadIsForgotten ==
  \A a \in Endpoints : <>[](config[a] = Off) => <>[](~ Listed(a))
=============================================================================
