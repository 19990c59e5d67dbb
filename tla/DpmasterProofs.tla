--------------------------- MODULE DpmasterProofs ---------------------------
(***************************************************************************)
(* Proofs of the invariants of Dpmaster, for every set of options, games,  *)
(* protocols and addresses, number of sockets, and width of the numbers:   *)
(* that the log follows the signals, that no setting accepted is unusable, *)
(* that the lookups of games give what the options of the command line     *)
(* said last, that servers are transmitted as the mappings say, that the   *)
(* master listens where it was asked to, and that its variables have their *)
(* types.                                                                  *)
(*                                                                         *)
(* The parts of the state have no more in common than the status, so that  *)
(* each inductive invariant speaks of one part, and ties what the program  *)
(* keeps of a request to the history of the requests.                      *)
(***************************************************************************)
EXTENDS Dpmaster, GamePropertiesProofs, SequenceTheorems, TLAPS

----------------------------------------------------------------------------
(* The log.                                                                *)

\* Until the sockets are created, the loop has not begun; until the command line
\* is parsed, no log is open and no signal was caught.
StartsWithoutLog ==
  /\ status \in {"parsing", "creating"} => at = "start-up"
  /\ status = "parsing" =>
       /\ log_file = "none" /\ ~ must_close_log /\ ~ crossed
       /\ must_open_log = (wanted = "open")

\* The flag that is pending is what the latest signal asked for, and so is the
\* step that follows the test of a flag, unless the other flag is pending again.
PendingIsWanted ==
  /\ must_open_log => wanted = "open"
  /\ must_close_log => wanted = "none"
  /\ at = "reopen" /\ ~ must_close_log => wanted = "open"
  /\ at = "close" /\ ~ must_open_log => wanted = "none"

\* With nothing pending and no such step to come, the log is as wanted.
ServedAsWanted ==
  ~ must_open_log /\ ~ must_close_log /\ at \notin {"reopen", "close"} =>
    (log_file # "none") = (wanted = "open")

\* A file that was moved away before a USR1 is going to be closed.
RotatedIsReopened ==
  log_file = "rotated" /\ signalled => must_open_log \/ at = "reopen"

LogInv ==
  /\ LogTypeOK
  /\ StartsWithoutLog
  /\ ~ crossed => PendingIsWanted /\ ServedAsWanted
  /\ RotatedIsReopened

\* At start-up the option --log sets the flag of the signal USR1.
LEMMA LogStarts == DpmasterInit => LogInv
  BY DEF DpmasterInit, LogInit, LogInv, LogTypeOK, StartsWithoutLog, PendingIsWanted,
         ServedAsWanted, RotatedIsReopened, Places

\* A step of the start-up may set the flag, and opens the log once.
LEMMA LogStartUpSteps ==
  ASSUME LogInv,
         \/ \E o \in Options[scenario] : ParseOption(o)
         \/ UnsecureInit \/ CreateSockets \/ SocketsCreated \/ StartupFails \/ KilledBySignal
  PROVE  LogInv'
<1> USE DEF LogInv, LogTypeOK, StartsWithoutLog, PendingIsWanted, ServedAsWanted,
            RotatedIsReopened, Places
<1>1. ASSUME NEW o, ParseOption(o), UNCHANGED logVars
      PROVE  LogInv'
  <2>1. status = "parsing"
    BY <1>1 DEF ParseOption, PolicyOption, PropertiesOption, NumericOption, FlagOption,
                MapOption, ListenOption, LogOption
  <2> QED
    BY <2>1, <1>1 DEF logVars
<1>2. ASSUME NEW o, LogOption(o)
      PROVE  LogInv'
  BY <1>2 DEF LogOption
<1>3. ASSUME NEW o, ParseOption(o)
      PROVE  UNCHANGED logVars \/ LogOption(o)
  BY <1>3 DEF ParseOption
<1>4. CASE UnsecureInit
  BY <1>4 DEF UnsecureInit, OpenAtStart, Refused
<1>5. CASE CreateSockets
  BY <1>5 DEF CreateSockets, CreateSocket, DropSocket, logVars
<1>6. CASE SocketsCreated
  BY <1>6 DEF SocketsCreated
<1>7. CASE StartupFails
  BY <1>7 DEF StartupFails, Refused, logVars
<1>8. CASE KilledBySignal
  BY <1>8 DEF KilledBySignal, logVars
<1> QED
  BY <1>1, <1>2, <1>3, <1>4, <1>5, <1>6, <1>7, <1>8

\* The loop and the signals, at whatever step of the loop they arrive.
LEMMA LogLoopSteps ==
  ASSUME LogInv, MainLoop
  PROVE  LogInv'
<1> USE DEF LogInv, LogTypeOK, StartsWithoutLog, PendingIsWanted, ServedAsWanted,
            RotatedIsReopened, Places
<1>1. status \in {"creating", "running"} /\ UNCHANGED status
  BY DEF MainLoop
<1>2. CASE USR1
  BY <1>1, <1>2 DEF USR1, Woken
<1>3. CASE USR2
  BY <1>1, <1>3 DEF USR2, Woken
<1>4. CASE Rotate
  BY <1>1, <1>4 DEF Rotate
<1>5. CASE Receive
  BY <1>1, <1>5 DEF Receive
<1>6. CASE TestOpen
  BY <1>1, <1>6 DEF TestOpen
<1>7. CASE Reopen
  BY <1>1, <1>7 DEF Reopen
<1>8. CASE ReopenFails
  BY <1>1, <1>8 DEF ReopenFails
<1>9. CASE TestClose
  BY <1>1, <1>9 DEF TestClose
<1>10. CASE CloseLogFile
  BY <1>1, <1>10 DEF CloseLogFile
<1>11. CASE Handle
  BY <1>1, <1>11 DEF Handle
<1> QED
  BY <1>2, <1>3, <1>4, <1>5, <1>6, <1>7, <1>8, <1>9, <1>10, <1>11
     DEF MainLoop, Environment, UpdateLog

\* No signal is lost: LogInv is an invariant.
THEOREM LogInvariance == DpmasterSpec => []LogInv
<1>1. ASSUME LogInv, [DpmasterNext]_dpmasterVars
      PROVE  LogInv'
  <2>1. CASE DpmasterNext
    BY <1>1, <2>1, LogStartUpSteps, LogLoopSteps DEF DpmasterNext
  <2>2. CASE UNCHANGED dpmasterVars
    BY <1>1, <2>2 DEF dpmasterVars, logVars, LogInv, LogTypeOK, StartsWithoutLog,
                      PendingIsWanted, ServedAsWanted, RotatedIsReopened
  <2> QED
    BY <1>1, <2>1, <2>2
<1> QED
  BY LogStarts, <1>1, PTL DEF DpmasterSpec

\* When the loop waits and no flag is pending, the log is as the latest signal
\* asked (Com_SignalHandler, Com_UpdateLogStatus), unless it found the other flag
\* pending.
THEOREM LogIsAsSignalled == DpmasterSpec => []LogFollowsSignals
<1>1. LogInv => LogFollowsSignals
  BY DEF LogInv, ServedAsWanted, RotatedIsReopened, LogFollowsSignals
<1> QED
  BY LogInvariance, <1>1, PTL

----------------------------------------------------------------------------
(* The settings.                                                           *)

\* A parameter that is accepted is usable: it was reduced to its type before it
\* was compared with the limits.
LEMMA AcceptedIsUsable ==
  ASSUME NEW option \in NumericOptions, NEW n \in Int, InRange(option, Unsigned(option, n)),
         NEW numbers \in [NumericOptions -> Int], Usable(numbers)
  PROVE  LET new == [numbers EXCEPT ![option] = Stored(option, Unsigned(option, n))]
         IN  new \in [NumericOptions -> Int] /\ Usable(new)
<1> DEFINE range  == IF option = "port" THEN USHORT_RANGE ELSE UINT_RANGE
           number == Unsigned(option, n)
           stored == Stored(option, number)
           new    == [numbers EXCEPT ![option] = stored]
<1>1. range \in Nat \ {0} /\ UINT_RANGE \in Nat \ {0} /\ UINT_RANGE % 2 = 0
  BY WidthAssumption DEF MSG_DEBUG
<1>2. number \in 0 .. range - 1
  BY <1>1 DEF Unsigned
<1>3. /\ option \in {"max-clients", "max-servers", "fp-decay-time", "port"} => number # 0
      /\ option = "fp-throttle" => number > 1
      /\ option \in {"cl-hash-size", "hash-size"} => number <= MAX_HASH_SIZE
  <2>1. InRange(option, number) /\ number \in Int
    BY <1>1, <1>2
  <2> HIDE DEF number
  <2> QED
    BY <2>1 DEF InRange
<1>4. /\ option # "fp-throttle" => stored = number
      /\ option = "fp-throttle" =>
           stored \in (- (UINT_RANGE \div 2) .. UINT_RANGE \div 2 - 1) \ {0, 1}
  <2> HIDE DEF number
  <2>1. ASSUME option = "fp-throttle"
        PROVE  /\ range = UINT_RANGE
               /\ UINT_RANGE = 2 * (UINT_RANGE \div 2) /\ UINT_RANGE \div 2 \in Nat
    BY <1>1, <2>1
  <2> QED
    BY <1>1, <1>2, <1>3, <2>1 DEF Stored
<1>5. stored \in Int
  BY <1>1, <1>2, <1>4
<1> HIDE DEF stored, number
<1>6. /\ new \in [NumericOptions -> Int]
      /\ \A p \in NumericOptions : new[p] = IF p = option THEN stored ELSE numbers[p]
  BY <1>5
<1> HIDE DEF new
<1>7. Usable(new)
  <2>1. \A p \in NumericOptions \ {"fp-throttle"} :
          new[p] \in 0 .. (IF p = "port" THEN USHORT_RANGE ELSE UINT_RANGE) - 1
    BY <1>2, <1>4, <1>6 DEF Usable
  <2>2. \A p \in {"max-clients", "max-servers", "fp-decay-time", "port"} : new[p] # 0
    BY <1>2, <1>3, <1>4, <1>6 DEF Usable, NumericOptions
  <2>3. new["fp-throttle"] \in (- (UINT_RANGE \div 2) .. UINT_RANGE \div 2 - 1) \ {0, 1}
    BY <1>4, <1>6 DEF Usable, NumericOptions
  <2>4. \A p \in {"cl-hash-size", "hash-size"} : new[p] <= MAX_HASH_SIZE
    BY <1>2, <1>3, <1>4, <1>6 DEF Usable, NumericOptions
  <2> QED
    BY <2>1, <2>2, <2>3, <2>4 DEF Usable
<1> QED
  BY <1>6, <1>7 DEF new, stored, number

\* The scenario does not change, and says what its options are.
SettingsInv == scenario \in Scenarios /\ SettingsTypeOK

\* Whatever was on the command line, the other modules get the numbers they assume.
THEOREM SettingsAreUsable == DpmasterSpec => []SettingsInv
<1>1. DpmasterInit => SettingsInv
  BY WidthAssumption DEF DpmasterInit, SettingsInit, SettingsInv, SettingsTypeOK
<1>2. ASSUME SettingsInv, [DpmasterNext]_dpmasterVars
      PROVE  SettingsInv'
  <2>1. CASE UNCHANGED <<scenario, settingVars>>
    BY <1>2, <2>1 DEF SettingsInv, SettingsTypeOK, Usable, settingVars
  <2>2. ASSUME NEW o \in Options[scenario], NumericOption(o), UNCHANGED scenario
        PROVE  SettingsInv'
    <3>1. o.option \in NumericOptions /\ flags' = flags
      BY <2>2 DEF NumericOption
    <3>2. \/ settings' = settings
          \/ /\ o.number # NotANumber /\ InRange(o.option, Unsigned(o.option, o.number))
             /\ settings' = [settings EXCEPT ![o.option] =
                               Stored(o.option, Unsigned(o.option, o.number))]
      BY <2>2 DEF NumericOption
    <3>3. o.number # NotANumber => o.number \in Int
      BY <1>2, <3>1, ScenarioAssumption DEF SettingsInv
    <3>4. settings' \in [NumericOptions -> Int] /\ Usable(settings')
      BY <1>2, <3>1, <3>2, <3>3, AcceptedIsUsable DEF SettingsInv, SettingsTypeOK
    <3> QED
      BY <1>2, <2>2, <3>1, <3>4 DEF SettingsInv, SettingsTypeOK, Usable
  <2>3. ASSUME NEW o \in Options[scenario], FlagOption(o), UNCHANGED scenario
        PROVE  SettingsInv'
    BY <1>2, <2>3 DEF FlagOption, SettingsInv, SettingsTypeOK, Usable
  <2>4. ASSUME DpmasterNext
        PROVE  \/ UNCHANGED <<scenario, settingVars>>
               \/ /\ UNCHANGED scenario
                  /\ \E o \in Options[scenario] : NumericOption(o) \/ FlagOption(o)
    <3>1. ASSUME NEW o \in Options[scenario], ParseOption(o)
          PROVE  UNCHANGED <<scenario, settingVars>> \/ 
                 (UNCHANGED scenario /\ (NumericOption(o) \/ FlagOption(o)))
      BY <3>1 DEF ParseOption
    <3> QED
      BY <2>4, <3>1 DEF DpmasterNext, UnsecureInit, CreateSockets, SocketsCreated, MainLoop,
                        StartupFails, KilledBySignal
  <2> QED
    BY <1>2, <2>1, <2>2, <2>3, <2>4 DEF dpmasterVars
<1> QED
  BY <1>1, <1>2, PTL DEF DpmasterSpec

----------------------------------------------------------------------------
(* The games.                                                              *)

\* The lists of names had one policy, and the array has their names.
PolicyInv ==
  /\ game_names \in NameLists
  /\ reject_when_known \in BOOLEAN
  /\ listed = {<<IF reject_when_known THEN "reject" ELSE "accept", game>> : game \in ToSet(game_names)}
  /\ game_names = <<>> => reject_when_known

\* The array of the protocols is sorted, its games have their entries, and it
\* agrees with the history of a program that goes on.
PropertiesInv ==
  /\ game_properties_list \in Seq(Properties)
  /\ game_protocols \in AssocLists
  /\ \A a \in ToSet(game_protocols) : a.game \in NamesOf(game_properties_list)
  /\ status \in {"parsing", "creating", "running"} => Agree(claims, ToSet(game_protocols))

GamesInv == scenario \in Scenarios /\ PolicyInv /\ PropertiesInv

\* Without any option the built-in properties hold, and every game is accepted.
LEMMA GamesStart == DpmasterInit => GamesInv
<1> SUFFICES ASSUME DpmasterInit
             PROVE  GamesInv
  OBVIOUS
<1>1. scenario \in Scenarios /\ GamesInit
  BY DEF DpmasterInit
<1>2. PolicyInv
  <2>1. PICK none : none = <<>>
    OBVIOUS
  <2>2. none \in Seq(Names) /\ Len(none) = 0 /\ DOMAIN none = {}
    BY <2>1
  <2>3. none \in NameLists /\ ToSet(none) = {}
    BY <2>2 DEF NameLists, Increasing, IsSorted, ToSet
  <2> QED
    BY <1>1, <2>1, <2>3 DEF GamesInit, PolicyInv
<1>3. PropertiesInv
  <2>1. PICK w \in Works : w = Game_InitProperties
    BY BuiltInAgrees
  <2>2. /\ w.list \in Seq(Properties) /\ w.protocols \in AssocLists
        /\ \A a \in ToSet(w.protocols) : a.game \in NamesOf(w.list)
    BY WorkHas
  <2>3. claims = BuiltInClaims /\ game_properties_list = w.list /\ game_protocols = w.protocols
    BY <1>1, <2>1 DEF GamesInit, BuiltInClaims, NoClaims
  <2>4. Agree(BuiltInClaims, ToSet(w.protocols))
    BY <2>1, BuiltInAgrees
  <2> QED
    BY <2>2, <2>3, <2>4 DEF PropertiesInv
<1> QED
  BY <1>1, <1>2, <1>3 DEF GamesInv

\* A list of names is added, if its policy is the one of the others.
LEMMA PolicySteps ==
  ASSUME GamesInv, NEW o \in Options[scenario], PolicyOption(o), UNCHANGED scenario
  PROVE  GamesInv'
<1>1. o.option = "game-policy" /\ o.games \in Seq(Names) /\ o.games # <<>>
  BY ScenarioAssumption DEF GamesInv, PolicyOption
<1>2. /\ UNCHANGED <<game_properties_list, game_protocols, claims>> /\ status = "parsing"
  BY DEF PolicyOption
<1>3. PropertiesInv'
  BY <1>2 DEF GamesInv, PropertiesInv
<1>4. CASE UNCHANGED <<game_names, reject_when_known, listed>>
  BY <1>3, <1>4 DEF GamesInv, PolicyInv
<1>5. CASE ~ UNCHANGED <<game_names, reject_when_known, listed>>
  <2>1. PICK policy : policy = o.policy
    OBVIOUS
  <2>2. PICK games \in Seq(Names) : games = o.games
    BY <1>1
  <2>3. /\ policy \in {"accept", "reject"} /\ Agrees(policy)
        /\ reject_when_known' = (policy = "reject")
        /\ game_names' = FoldLeft(AddName, game_names, games)
        /\ listed' = listed \cup {<<policy, game>> : game \in ToSet(games)}
    BY <1>5, <2>1, <2>2 DEF PolicyOption, Game_DeclarePolicy
  <2>4. game_names \in NameLists
    BY DEF GamesInv, PolicyInv
  <2>5. game_names' \in NameLists /\ ToSet(game_names') = ToSet(game_names) \cup ToSet(games)
    BY <2>3, <2>4, NamesAdded
  <2>6. game_names # <<>> => policy = IF reject_when_known THEN "reject" ELSE "accept"
    BY <2>3 DEF Agrees, GamesInv, PolicyInv
  <2>7. game_names = <<>> => ToSet(game_names) = {}
    <3>1. PICK none : none = <<>>
      OBVIOUS
    <3>2. DOMAIN none = {}
      BY <3>1
    <3>3. ToSet(none) = {}
      BY <3>2 DEF ToSet
    <3> QED
      BY <3>1, <3>3
  <2>8. listed = {<<policy, game>> : game \in ToSet(game_names)}
    BY <2>6, <2>7 DEF GamesInv, PolicyInv
  <2>9. listed' = {<<policy, game>> : game \in ToSet(game_names')}
    BY <2>3, <2>5, <2>8
  <2>10. game_names' # <<>>
    <3>1. 1 \in DOMAIN games
      <4>1. Len(games) \in Nat /\ Len(games) # 0 /\ DOMAIN games = 1 .. Len(games)
        BY <1>1, <2>2, LenProperties, EmptySeq
      <4> QED
        BY <4>1
    <3>2. games[1] \in ToSet(game_names')
      BY <2>5, <3>1 DEF ToSet
    <3>3. DOMAIN game_names' # {}
      BY <3>2 DEF ToSet
    <3> QED
      BY <3>3
  <2>11. PolicyInv'
    BY <2>3, <2>5, <2>9, <2>10 DEF PolicyInv
  <2> QED
    BY <1>3, <2>11 DEF GamesInv
<1> QED
  BY <1>4, <1>5

\* An option on the properties of a game.
LEMMA PropertySteps ==
  ASSUME GamesInv, NEW o \in Options[scenario], PropertiesOption(o), UNCHANGED scenario
  PROVE  GamesInv' /\ status' \in Statuses
<1>1. o.game \in Names /\ AreUpdates(o.updates)
  BY ScenarioAssumption DEF GamesInv, PropertiesOption
<1>2. PolicyInv'
  BY DEF GamesInv, PolicyInv, PropertiesOption
<1>3. PICK old : old = Work(status, game_properties_list, game_protocols)
  OBVIOUS
<1>4. status = "parsing" /\ Agree(claims, ToSet(game_protocols))
  BY DEF PropertiesOption, GamesInv, PropertiesInv
<1>5. /\ old \in Works /\ old.status = "parsing" /\ old.list = game_properties_list
      /\ old.protocols = game_protocols
  BY <1>3, <1>4, WorkIs DEF GamesInv, PropertiesInv, Statuses
<1>6. PICK w : /\ status' = w.status /\ game_properties_list' = w.list /\ game_protocols' = w.protocols
               /\ \/ w = Work("undefined", game_properties_list, game_protocols)
                  \/ w = Work("refused", game_properties_list, game_protocols)
                  \/ w = Game_UpdateProperties(old, o.game, o.updates)
  BY <1>3 DEF PropertiesOption, Work, Garbled
<1>7. claims' = ClaimedBy(claims, o.game, o.updates)
  BY DEF PropertiesOption
<1>8. /\ w \in Works
      /\ w.status = "parsing" => Agree(claims', ToSet(w.protocols))
  <2>1. CASE w = Work("undefined", game_properties_list, game_protocols)
    BY <2>1, WorkIs DEF GamesInv, PropertiesInv, Statuses
  <2>2. CASE w = Work("refused", game_properties_list, game_protocols)
    BY <2>2, WorkIs DEF GamesInv, PropertiesInv, Statuses
  <2>3. CASE w = Game_UpdateProperties(old, o.game, o.updates)
    BY <1>1, <1>4, <1>5, <1>7, <2>3, UpdatesApplied
  <2> QED
    BY <1>6, <2>1, <2>2, <2>3
<1>9. w.status \in Statuses
  BY <1>8, WorkHas
<1>10. PropertiesInv'
  BY <1>6, <1>8, <1>9, WorkHas DEF PropertiesInv, Statuses
<1> QED
  BY <1>2, <1>6, <1>9, <1>10 DEF GamesInv

\* Every other step leaves the games alone, and no program that ended goes on.
LEMMA OtherStepsKeepGames ==
  ASSUME DpmasterNext
  PROVE  \/ \E o \in Options[scenario] : PolicyOption(o) \/ PropertiesOption(o)
         \/ /\ UNCHANGED gameVars
            /\ status' \in {"parsing", "creating", "running"} =>
                 status \in {"parsing", "creating", "running"}
<1>1. ASSUME NEW o \in Options[scenario], ParseOption(o)
      PROVE  \/ PolicyOption(o) \/ PropertiesOption(o)
             \/ UNCHANGED gameVars /\ status = "parsing"
  BY <1>1 DEF ParseOption, NumericOption, FlagOption, MapOption, ListenOption, LogOption
<1>2. CASE UnsecureInit
  BY <1>2 DEF UnsecureInit
<1>3. CASE CreateSockets
  BY <1>3 DEF CreateSockets, CreateSocket, DropSocket
<1>4. CASE SocketsCreated
  BY <1>4 DEF SocketsCreated
<1>5. CASE MainLoop
  BY <1>5 DEF MainLoop
<1>6. CASE StartupFails
  BY <1>6 DEF StartupFails
<1>7. CASE KilledBySignal
  BY <1>7 DEF KilledBySignal
<1> QED
  BY <1>1, <1>2, <1>3, <1>4, <1>5, <1>6, <1>7 DEF DpmasterNext

\* Every step leaves the scenario as it is.
LEMMA ScenarioStays == DpmasterNext => UNCHANGED scenario
  BY DEF DpmasterNext, ParseOption, UnsecureInit, CreateSockets, SocketsCreated, MainLoop,
         StartupFails, KilledBySignal

\* The arrays say what the options said: GamesInv is an invariant.
THEOREM GamesInvariance == DpmasterSpec => []GamesInv
<1>1. ASSUME GamesInv, [DpmasterNext]_dpmasterVars
      PROVE  GamesInv'
  <2>1. CASE UNCHANGED dpmasterVars
    BY <1>1, <2>1 DEF dpmasterVars, gameVars, GamesInv, PolicyInv, PropertiesInv
  <2>2. CASE DpmasterNext
    <3>1. UNCHANGED scenario
      BY <2>2, ScenarioStays
    <3>2. CASE \E o \in Options[scenario] : PolicyOption(o) \/ PropertiesOption(o)
      BY <1>1, <3>1, <3>2, PolicySteps, PropertySteps
    <3>3. CASE /\ UNCHANGED gameVars
               /\ status' \in {"parsing", "creating", "running"} =>
                    status \in {"parsing", "creating", "running"}
      BY <1>1, <3>1, <3>3 DEF gameVars, GamesInv, PolicyInv, PropertiesInv
    <3> QED
      BY <2>2, <3>2, <3>3, OtherStepsKeepGames
  <2> QED
    BY <1>1, <2>1, <2>2
<1> QED
  BY GamesStart, <1>1, PTL DEF DpmasterSpec

\* A name is found if it is in the array (Game_Find).
LEMMA NameFound ==
  ASSUME NEW names \in NameLists, NEW game \in Names
  PROVE  /\ Game_Find(names, game).found \in BOOLEAN
         /\ Game_Find(names, game).found <=> game \in ToSet(names)
<1>1. PICK f : f = Game_Find(names, game)
  OBVIOUS
<1>2. /\ names \in Seq(Int) /\ Increasing(names) /\ game \in Int
      /\ Len(names) \in Nat /\ DOMAIN names = 1 .. Len(names)
      /\ \A i \in 1 .. Len(names) : names[i] \in Int
  <2>1. Names \subseteq Int
    BY GameAssumption
  <2>2. /\ names \in Seq(Names) /\ Increasing(names)
        /\ Len(names) \in Nat /\ DOMAIN names = 1 .. Len(names)
        /\ \A i \in 1 .. Len(names) : names[i] \in Names
    BY LenProperties, ElementOfSeq DEF NameLists
  <2> QED
    BY <2>1, <2>2, SeqMonotonic
<1>3. Right(names, game, f)
  BY <1>1, <1>2, FindIsRight
<1>4. f.found => game \in ToSet(names)
  <2>1. f.found => f.index + 1 \in 1 .. Len(names) /\ names[f.index + 1] = game
    BY <1>2, <1>3 DEF Right
  <2> QED
    BY <1>2, <2>1 DEF ToSet
<1>5. ~ f.found => game \notin ToSet(names)
  <2>1. ASSUME ~ f.found, NEW i \in 1 .. Len(names)
        PROVE  names[i] # game
    BY <1>2, <1>3, <2>1 DEF Right
  <2> QED
    BY <1>2, <2>1 DEF ToSet
<1>6. f.found \in BOOLEAN
  BY <1>3 DEF Right
<1> QED
  BY <1>1, <1>4, <1>5, <1>6

\* A protocol belongs to the game it was last given to and not taken from.
LEMMA ProtocolsAgree ==
  ASSUME game_protocols \in AssocLists, Agree(claims, ToSet(game_protocols)), NEW p \in Protocols
  PROVE  Game_GetNameByProtocol(p) = claims[p]
<1>1. PICK s \in AssocLists : s = game_protocols
  OBVIOUS
<1>2. PICK f : f = Game_FindAnonymous(s, p)
  OBVIOUS
<1>3. /\ Len(s) \in Nat /\ DOMAIN s = 1 .. Len(s)
      /\ \A i \in 1 .. Len(s) : s[i] \in Assocs /\ s[i].protocol \in Int
      /\ f.found \in BOOLEAN
      /\ f.found => f.index + 1 \in 1 .. Len(s) /\ s[f.index + 1].protocol = p
      /\ ~ f.found => /\ f.index \in 0 .. Len(s)
                      /\ \A i \in 1 .. Len(s) : IF i <= f.index THEN s[i].protocol < p
                                                                ELSE s[i].protocol > p
  BY <1>2, AssocListHas, ProtocolFound
<1>4. claims \in [Protocols -> Names \cup {NoGame}]
      /\ \A g \in Names : Assoc(p, g) \in ToSet(s) <=> claims[p] = g
  BY <1>1 DEF Agree
<1>5. CASE f.found
  <2>1. PICK a \in Assocs : a = s[f.index + 1]
    BY <1>3, <1>5
  <2>2. a = Assoc(p, a.game) /\ a.game \in Names
    BY <1>3, <1>5, <2>1 DEF Assocs, Assoc
  <2>3. a \in ToSet(s)
    BY <1>3, <1>5, <2>1 DEF ToSet
  <2>4. Game_GetNameByProtocol(p) = a.game
    BY <1>1, <1>2, <1>5, <2>1 DEF Game_GetNameByProtocol
  <2> QED
    BY <1>4, <2>2, <2>3, <2>4
<1>6. CASE ~ f.found
  <2>1. \A i \in 1 .. Len(s) : s[i].protocol # p
    <3>1. p \in Int
      BY GameAssumption
    <3> QED
      BY <1>3, <1>6, <3>1
  <2>2. \A g \in Names : Assoc(p, g) \notin ToSet(s)
    BY <1>3, <2>1 DEF ToSet, Assoc
  <2>3. claims[p] = NoGame
    BY <1>4, <2>2
  <2>4. Game_GetNameByProtocol(p) = NoGame
    BY <1>1, <1>2, <1>6 DEF Game_GetNameByProtocol
  <2> QED
    BY <2>3, <2>4
<1> QED
  BY <1>3, <1>5, <1>6

\* Whatever the options and their order, a protocol number belongs to the game it
\* was last given to, and a game is accepted if and only if the lists say so
\* (Game_UpdateProperties, Game_DeclarePolicy and the look-ups of games.c).
THEOREM OptionsAreFollowed == DpmasterSpec => []LookupsFollowOptions
<1>1. ASSUME GamesInv, status = "running"
      PROVE  ProtocolsFollow
  BY <1>1, ProtocolsAgree DEF ProtocolsFollow, GamesInv, PropertiesInv
<1>2. ASSUME GamesInv
      PROVE  PolicyFollows
  <2> USE DEF GamesInv, PolicyInv
  <2>1. ToSet(game_names) \subseteq Names
    <3>1. \A i \in DOMAIN game_names : game_names[i] \in Names
      BY <1>2, LenProperties, ElementOfSeq DEF NameLists
    <3> QED
      BY <3>1 DEF ToSet
  <2>2. CASE reject_when_known
    <3>1. Declared("accept") = {} /\ Declared("reject") = ToSet(game_names)
      BY <1>2, <2>1, <2>2 DEF Declared
    <3>2. \A g \in Names : Game_IsAccepted(g) <=> g \notin ToSet(game_names)
      BY <1>2, <2>2, NameFound DEF Game_IsAccepted
    <3> QED
      BY <3>1, <3>2 DEF PolicyFollows
  <2>3. CASE ~ reject_when_known
    <3>1. Declared("accept") = ToSet(game_names)
      BY <1>2, <2>1, <2>3 DEF Declared
    <3>2. Declared("accept") # {}
      <4>1. Len(game_names) \in Nat /\ Len(game_names) # 0 /\ DOMAIN game_names = 1 .. Len(game_names)
        BY <1>2, <2>3, LenProperties, EmptySeq DEF NameLists
      <4>2. game_names[1] \in ToSet(game_names)
        BY <4>1 DEF ToSet
      <4> QED
        BY <3>1, <4>2
    <3>3. \A g \in Names : Game_IsAccepted(g) <=> g \in ToSet(game_names)
      BY <1>2, <2>3, NameFound DEF Game_IsAccepted
    <3> QED
      BY <3>1, <3>2, <3>3 DEF PolicyFollows
  <2> QED
    BY <1>2, <2>2, <2>3
<1>3. GamesInv => LookupsFollowOptions
  BY <1>1, <1>2 DEF LookupsFollowOptions
<1> QED
  BY GamesInvariance, <1>3, PTL

\* The arrays of the games are typed and sorted, and each protocol has a game.
LEMMA GamesTyped == GamesInv => GamesTypeOK
<1> SUFFICES ASSUME GamesInv
             PROVE  GamesTypeOK
  OBVIOUS
<1>1. /\ game_names \in NameLists /\ reject_when_known \in BOOLEAN
      /\ game_properties_list \in Seq(Properties) /\ game_protocols \in AssocLists
      /\ \A a \in ToSet(game_protocols) : a.game \in NamesOf(game_properties_list)
  BY DEF GamesInv, PolicyInv, PropertiesInv
<1>2. ToSet(game_names) \subseteq Names /\ Increasing(game_names)
  <2>1. \A i \in DOMAIN game_names : game_names[i] \in Names
    BY <1>1, LenProperties, ElementOfSeq DEF NameLists
  <2> QED
    BY <1>1, <2>1 DEF NameLists, ToSet
<1>3. ToSet(game_properties_list) \subseteq Properties
  <2>1. \A i \in DOMAIN game_properties_list : game_properties_list[i] \in Properties
    BY <1>1, LenProperties, ElementOfSeq
  <2> QED
    BY <2>1 DEF ToSet
<1>4. PICK s \in AssocLists : s = game_protocols
  BY <1>1
<1>5. /\ DOMAIN s = 1 .. Len(s) /\ Len(s) \in Nat
      /\ \A i \in 1 .. Len(s) : s[i] \in Assocs /\ s[i].protocol \in Int
      /\ \A i, j \in 1 .. Len(s) : i < j => s[i].protocol < s[j].protocol
  BY AssocListHas
<1>6. ToSet(s) \subseteq Assocs
  BY <1>5 DEF ToSet
<1>7. Increasing([i \in DOMAIN s |-> s[i].protocol])
  <2>1. PICK keys : keys = [i \in 1 .. Len(s) |-> s[i].protocol]
    OBVIOUS
  <2>2. keys \in Seq(Int) /\ Len(keys) = Len(s) /\ \A i \in 1 .. Len(s) : keys[i] = s[i].protocol
    BY <1>5, <2>1
  <2>3. Increasing(keys)
    BY <1>5, <2>2 DEF Increasing, IsSorted
  <2> QED
    BY <1>5, <2>1, <2>3
<1>8. \A i \in DOMAIN s : Position(game_properties_list, s[i].game) # 0
  <2> TAKE i \in DOMAIN s
  <2>1. s[i] \in ToSet(s)
    BY DEF ToSet
  <2>2. s[i].game \in NamesOf(game_properties_list)
    BY <1>1, <1>4, <2>1
  <2> QED
    BY <1>1, <2>2, PositionFound
<1> QED
  BY <1>1, <1>2, <1>3, <1>4, <1>6, <1>7, <1>8 DEF GamesTypeOK

----------------------------------------------------------------------------
(* The listening sockets.                                                  *)

ListenNames == {o.name : o \in UNION {Options[s] : s \in Scenarios}}

\* The sockets while the options are parsed, and while they are created: those
\* before sock_ind are bound.
Socket(name, local, optional, bound) ==
  [name |-> name, local |-> local, optional |-> optional, bound |-> bound]
ParsedSocket(i)         == ListenSocket(declared_listen[i], FALSE)
AskedSocket(i, bound)   == Socket(declared_listen[i], Resolved(declared_listen[i]), FALSE, bound)
DefaultSocket(i, bound) == Socket(<<>>, AnyAddress(<<"IPv4", "IPv6">>[i]), TRUE, bound)

\* The fields of a socket.
LEMMA SocketFields ==
  ASSUME NEW name, NEW local, NEW optional, NEW bound, NEW x
  PROVE  /\ [Socket(name, local, optional, bound) EXCEPT !.local = x] = Socket(name, x, optional, bound)
         /\ [Socket(name, local, optional, bound) EXCEPT !.bound = x] = Socket(name, local, optional, x)
         /\ Socket(name, local, optional, bound).name = name
         /\ Socket(name, local, optional, bound).local = local
         /\ Socket(name, local, optional, bound).optional = optional
         /\ Socket(name, local, optional, bound).bound = bound
  BY DEF Socket

\* The address of a socket is set.
LEMMA SocketResolved ==
  ASSUME NEW name, NEW optional, NEW local
  PROVE  /\ [ListenSocket(name, optional) EXCEPT !.local = local] = Socket(name, local, optional, FALSE)
         /\ ListenSocket(name, optional).name = name
<1>1. ListenSocket(name, optional) = Socket(name, NoAddressYet, optional, FALSE)
  BY DEF ListenSocket, Socket
<1>2. PICK no : no = FALSE
  OBVIOUS
<1>3. [Socket(name, NoAddressYet, optional, no) EXCEPT !.local = local] = Socket(name, local, optional, no)
  BY SocketFields
<1>4. Socket(name, NoAddressYet, optional, no).name = name
  BY SocketFields
<1> QED
  BY <1>1, <1>2, <1>3, <1>4

\* A socket is bound.
LEMMA SocketBound ==
  ASSUME NEW name, NEW local, NEW optional, NEW bound
  PROVE  [Socket(name, local, optional, bound) EXCEPT !.bound = TRUE]
           = Socket(name, local, optional, TRUE)
<1>1. PICK yes : yes = TRUE
  OBVIOUS
<1>2. [Socket(name, local, optional, bound) EXCEPT !.bound = yes] = Socket(name, local, optional, yes)
  BY SocketFields
<1> QED
  BY <1>1, <1>2

\* None of the sockets that were asked for is ever dropped.
AskedSockets ==
  /\ sock_ind \in 1 .. Len(declared_listen) + 1
  /\ listen_sockets = [i \in 1 .. Len(declared_listen) |-> AskedSocket(i, i < sock_ind)]

\* The default ones after k - 1 of them were created and n are left.  The first
\* one stays in place of the second when it is dropped.
Defaults(k, n) ==
  sock_ind = k /\ listen_sockets = [i \in 1 .. n |-> DefaultSocket(i, i < k)]

DefaultSockets ==
  \/ Defaults(1, 2)
  \/ Defaults(2, 2) /\ "IPv4" \in families
  \/ Defaults(3, 2) /\ "IPv4" \in families /\ "IPv6" \in families
  \/ Defaults(2, 1) /\ "IPv4" \in families /\ "IPv6" \notin families
  \/ Defaults(1, 1) /\ "IPv4" \notin families
  \/ Defaults(1, 0) /\ "IPv4" \notin families

SocketBounds == \E n \in 0 .. MAX_LISTEN_SOCKETS : Len(listen_sockets) = n /\ sock_ind \in 1 .. n + 1

SocketsInv ==
  /\ families \subseteq Families
  /\ declared_listen \in Seq(ListenNames) /\ Len(declared_listen) <= MAX_LISTEN_SOCKETS
  /\ SocketBounds
  /\ status = "parsing" =>
       sock_ind = 1 /\ listen_sockets = [i \in 1 .. Len(declared_listen) |-> ParsedSocket(i)]
  /\ status \in {"creating", "running"} =>
       IF declared_listen = <<>> THEN DefaultSockets ELSE AskedSockets
  /\ status = "running" => sock_ind \notin DOMAIN listen_sockets /\ listen_sockets # <<>>

\* No socket is declared before the options are parsed.
LEMMA SocketsStart == DpmasterInit => SocketsInv
<1> SUFFICES ASSUME DpmasterInit
             PROVE  SocketsInv
  OBVIOUS
<1>1. /\ status = "parsing" /\ families \subseteq Families /\ sock_ind = 1
      /\ listen_sockets = <<>> /\ declared_listen = <<>>
  BY ScenarioAssumption DEF DpmasterInit, SocketsInit
<1>2. PICK none : none = <<>>
  OBVIOUS
<1>3. none \in Seq(ListenNames) /\ Len(none) = 0
  BY <1>2
<1>4. none = [i \in 1 .. 0 |-> ParsedSocket(i)]
  BY <1>2
<1>5. SocketBounds
  BY <1>1, <1>2, <1>3, SocketAssumption DEF SocketBounds
<1> QED
  BY <1>1, <1>2, <1>3, <1>4, <1>5, SocketAssumption DEF SocketsInv

\* A declaration is appended, as long as there is room.
LEMMA ListenSteps ==
  ASSUME SocketsInv, scenario \in Scenarios, NEW o \in Options[scenario], ListenOption(o)
  PROVE  SocketsInv'
<1>1. /\ status = "parsing" /\ UNCHANGED <<families, sock_ind>> /\ sock_ind = 1
      /\ o.name \in ListenNames
  BY DEF ListenOption, SocketsInv, ListenNames
<1>2. PICK n \in 0 .. MAX_LISTEN_SOCKETS : n = Len(declared_listen)
  BY LenProperties, SocketAssumption DEF SocketsInv
<1>3. listen_sockets = [i \in 1 .. n |-> ParsedSocket(i)] /\ n \in Nat
  BY <1>1, <1>2, SocketAssumption DEF SocketsInv
<1>4. Len(listen_sockets) = n
  BY <1>3
<1>5. CASE status' = "refused" /\ UNCHANGED <<listen_sockets, declared_listen>>
  BY <1>1, <1>5 DEF SocketsInv, SocketBounds
<1>6. CASE /\ n < MAX_LISTEN_SOCKETS /\ UNCHANGED status
           /\ listen_sockets' = Append(listen_sockets, ListenSocket(o.name, FALSE))
           /\ declared_listen' = Append(declared_listen, o.name)
  <2>1. PICK S : S = {ListenSocket(name, FALSE) : name \in ListenNames}
    OBVIOUS
  <2>2. PICK s : s = listen_sockets
    OBVIOUS
  <2>3. PICK d : d = declared_listen
    OBVIOUS
  <2>4. PICK e : e = ListenSocket(o.name, FALSE)
    OBVIOUS
  <2>5. d \in Seq(ListenNames) /\ Len(d) = n /\ \A i \in 1 .. n : d[i] \in ListenNames
    BY <1>2, <2>3, ElementOfSeq DEF SocketsInv
  <2>6. /\ s \in Seq(S) /\ Len(s) = n /\ \A i \in 1 .. n : s[i] = ListenSocket(d[i], FALSE)
    <3>1. s = [i \in 1 .. n |-> ListenSocket(d[i], FALSE)]
      BY <1>3, <2>2, <2>3 DEF ParsedSocket
    <3>2. \A i \in 1 .. n : s[i] = ListenSocket(d[i], FALSE)
      BY <3>1
    <3>3. \A i \in 1 .. n : s[i] \in S
      BY <2>1, <2>5, <3>2
    <3>4. s \in [1 .. n -> S]
      BY <3>1, <3>3
    <3>5. s \in Seq(S) /\ Len(s) = n
      BY <1>3, <3>4
    <3> QED
      BY <3>2, <3>5
  <2>7. PICK s2 : s2 = Append(s, e)
    OBVIOUS
  <2>8. PICK d2 : d2 = Append(d, o.name)
    OBVIOUS
  <2>9. /\ s2 \in Seq(S) /\ Len(s2) = n + 1 /\ s2[n + 1] = e
        /\ \A i \in 1 .. n : s2[i] = s[i]
    <3>1. e \in S
      BY <1>1, <2>1, <2>4
    <3> QED
      BY <2>6, <2>7, <3>1, AppendProperties
  <2>10. /\ d2 \in Seq(ListenNames) /\ Len(d2) = n + 1 /\ d2[n + 1] = o.name
         /\ \A i \in 1 .. n : d2[i] = d[i]
    BY <1>1, <2>5, <2>8, AppendProperties
  <2>11. \A i \in 1 .. n + 1 : s2[i] = ListenSocket(d2[i], FALSE)
    <3> TAKE i \in 1 .. n + 1
    <3>1. i \in 1 .. n \/ i = n + 1
      BY <1>3
    <3> QED
      BY <2>4, <2>6, <2>9, <2>10, <3>1
  <2>12. s2 = [i \in 1 .. n + 1 |-> ListenSocket(d2[i], FALSE)]
    BY <2>9, <2>11, LenProperties
  <2>13. listen_sockets' = s2 /\ declared_listen' = d2
    BY <1>6, <2>2, <2>3, <2>4, <2>7, <2>8
  <2>14. listen_sockets' = [i \in 1 .. Len(declared_listen') |-> ListenSocket(declared_listen'[i], FALSE)]
    BY <2>10, <2>12, <2>13
  <2>15. n + 1 \in 0 .. MAX_LISTEN_SOCKETS
    BY <1>3, <1>6, SocketAssumption
  <2>16. SocketBounds'
    BY <1>1, <1>3, <2>9, <2>13, <2>15 DEF SocketBounds
  <2>17. /\ (families \subseteq Families)' /\ status' = "parsing" /\ sock_ind' = 1
         /\ (declared_listen \in Seq(ListenNames))' /\ Len(declared_listen') <= MAX_LISTEN_SOCKETS
    BY <1>1, <1>2, <1>6, <2>10, <2>13, <2>15, SocketAssumption DEF SocketsInv
  <2> QED
    BY <2>14, <2>16, <2>17 DEF SocketsInv, ParsedSocket
<1>7. o.empty \/ Len(listen_sockets) >= MAX_LISTEN_SOCKETS \/ n < MAX_LISTEN_SOCKETS
  BY <1>3, <1>4, SocketAssumption
<1> QED
  BY <1>5, <1>6, <1>7 DEF ListenOption, Refused

\* What was declared is resolved; without a declaration, the two default sockets.
LEMMA ResolveSteps ==
  ASSUME SocketsInv, UnsecureInit
  PROVE  SocketsInv'
<1>1. /\ status = "parsing" /\ sock_ind = 1
      /\ UNCHANGED <<families, sock_ind, declared_listen, settings>>
  BY DEF UnsecureInit, SocketsInv, settingVars
<1>2. PICK n \in 0 .. MAX_LISTEN_SOCKETS : n = Len(declared_listen)
  BY LenProperties, SocketAssumption DEF SocketsInv
<1>3. n \in Nat /\ listen_sockets = [i \in 1 .. n |-> ParsedSocket(i)]
  BY <1>1, <1>2, SocketAssumption DEF SocketsInv
<1>4. Len(listen_sockets) = n /\ DOMAIN listen_sockets = 1 .. n
  BY <1>3
<1>5. declared_listen = <<>> <=> n = 0
  BY <1>2, EmptySeq DEF SocketsInv
<1>6. CASE status' = "refused" /\ UNCHANGED listen_sockets
  BY <1>1, <1>6 DEF SocketsInv, SocketBounds
<1>7. CASE status' = "creating" /\ listen_sockets' = Sys_ResolveListenAddresses
  <2>1. CASE n = 0
    <3>1. listen_sockets = <<>>
      <4>1. PICK s : s = listen_sockets
        OBVIOUS
      <4>2. s = [i \in 1 .. 0 |-> 0]
        BY <1>3, <2>1, <4>1
      <4> QED
        BY <4>1, <4>2
    <3>2. listen_sockets' = [i \in 1 .. 2 |-> DefaultSocket(i, FALSE)]
      <4>1. \A i : [ListenSocket(<<>>, TRUE) EXCEPT !.local = AnyAddress(<<"IPv4", "IPv6">>[i])]
                     = DefaultSocket(i, FALSE)
        BY SocketResolved, Zenon DEF DefaultSocket
      <4> QED
        BY <1>7, <3>1, <4>1 DEF Sys_ResolveListenAddresses
    <3>3. listen_sockets' = [i \in 1 .. 2 |-> DefaultSocket(i, i < 1)']
      <4>1. \A i \in 1 .. 2 : (i < 1) = FALSE
        OBVIOUS
      <4>2. \A i \in 1 .. 2 : DefaultSocket(i, i < 1) = DefaultSocket(i, FALSE)
        BY <4>1
      <4>3. \A i : DefaultSocket(i, i < 1)' = DefaultSocket(i, i < 1)
        BY <1>1 DEF DefaultSocket, AnyAddress
      <4> QED
        BY <3>2, <4>2, <4>3
    <3>4. DefaultSockets'
      BY <1>1, <3>3 DEF DefaultSockets, Defaults
    <3>5. Len(listen_sockets') = 2 /\ 2 \in 0 .. MAX_LISTEN_SOCKETS
      BY <3>2, SocketAssumption
    <3>6. SocketBounds'
      BY <1>1, <3>5 DEF SocketBounds
    <3> QED
      BY <1>1, <1>2, <1>5, <1>7, <2>1, <3>4, <3>6 DEF SocketsInv
  <2>2. CASE n # 0
    <3>1. listen_sockets # <<>>
      <4>1. 1 \in DOMAIN listen_sockets
        BY <1>3, <1>4, <2>2
      <4> QED
        BY <4>1
    <3>2. \A i \in 1 .. n : listen_sockets[i] = ListenSocket(declared_listen[i], FALSE)
      BY <1>3 DEF ParsedSocket
    <3>3. listen_sockets' = [i \in 1 .. n |-> [listen_sockets[i] EXCEPT
                                                 !.local = Resolved(listen_sockets[i].name)]]
      BY <1>4, <1>7, <3>1 DEF Sys_ResolveListenAddresses
    <3>4. \A i \in 1 .. n : listen_sockets'[i] = AskedSocket(i, FALSE)
      <4>1. \A name : [ListenSocket(name, FALSE) EXCEPT !.local = Resolved(ListenSocket(name, FALSE).name)]
                        = Socket(name, Resolved(name), FALSE, FALSE)
        <5> TAKE name
        <5>1. ListenSocket(name, FALSE).name = name
          BY SocketResolved
        <5>2. \A local : [ListenSocket(name, FALSE) EXCEPT !.local = local] = Socket(name, local, FALSE, FALSE)
          BY SocketResolved, Zenon
        <5> QED
          BY <5>1, <5>2
      <4>2. \A i \in 1 .. n : listen_sockets'[i] =
               [ListenSocket(declared_listen[i], FALSE) EXCEPT
                  !.local = Resolved(ListenSocket(declared_listen[i], FALSE).name)]
        BY <3>2, <3>3
      <4> QED
        BY <4>1, <4>2, Zenon DEF AskedSocket
    <3>5. listen_sockets' = [i \in 1 .. n |-> AskedSocket(i, FALSE)]
      BY <3>3, <3>4
    <3>6. \A i \in 1 .. n : (i < sock_ind') = FALSE
      BY <1>1
    <3>7. listen_sockets' = [i \in 1 .. n |-> AskedSocket(i, i < sock_ind)']
      <4>1. \A i \in 1 .. n : AskedSocket(i, i < sock_ind') = AskedSocket(i, FALSE)
        BY <3>6
      <4>2. \A i : AskedSocket(i, i < sock_ind)' = AskedSocket(i, i < sock_ind')
        BY <1>1 DEF AskedSocket, Resolved
      <4> QED
        BY <3>5, <4>1, <4>2
    <3>8. AskedSockets'
      BY <1>1, <1>2, <1>3, <3>7 DEF AskedSockets
    <3>9. Len(listen_sockets') = n
      BY <1>3, <3>5
    <3>10. SocketBounds'
      BY <1>1, <1>3, <3>9 DEF SocketBounds
    <3> QED
      BY <1>1, <1>2, <1>5, <1>7, <2>2, <3>8, <3>10 DEF SocketsInv
  <2> QED
    BY <2>1, <2>2
<1> QED
  BY <1>6, <1>7 DEF UnsecureInit, Refused

\* One turn of the loop for the sockets that were asked for: none is optional.
LEMMA AskedSteps ==
  ASSUME SocketsInv, CreateSocket \/ DropSocket, UNCHANGED settings, declared_listen # <<>>
  PROVE  SocketsInv'
<1>1. /\ status = "creating" /\ UNCHANGED <<status, families, declared_listen, settings>>
      /\ sock_ind \in DOMAIN listen_sockets
  BY DEF CreateSocket, DropSocket
<1>2. PICK n \in 0 .. MAX_LISTEN_SOCKETS : n = Len(declared_listen)
  BY LenProperties, SocketAssumption DEF SocketsInv
<1>3. /\ n \in Nat /\ sock_ind \in 1 .. n + 1
      /\ listen_sockets = [i \in 1 .. n |-> AskedSocket(i, i < sock_ind)]
  BY <1>1, <1>2, SocketAssumption DEF SocketsInv, AskedSockets
<1>4. PICK k \in 1 .. n : k = sock_ind
  BY <1>1, <1>3
<1>5. CASE CreateSocket
  <2>1. sock_ind' = k + 1 /\ listen_sockets' = [listen_sockets EXCEPT ![k].bound = TRUE]
    BY <1>4, <1>5 DEF CreateSocket
  <2>2. \A i \in 1 .. n : listen_sockets[i] = AskedSocket(i, i < k)
    BY <1>3, <1>4
  <2>3. listen_sockets'[k] = AskedSocket(k, TRUE)
    BY <1>3, <2>1, <2>2, SocketBound DEF AskedSocket
  <2>4. \A i \in 1 .. n : i # k => listen_sockets'[i] = AskedSocket(i, i < k + 1)
    <3> TAKE i \in 1 .. n
    <3>1. i # k => (i < k <=> i < k + 1)
      OBVIOUS
    <3> QED
      BY <1>3, <2>1, <2>2, <3>1
  <2>5. \A i \in 1 .. n : listen_sockets'[i] = AskedSocket(i, i < k + 1)
    <3>1. (k < k + 1) = TRUE
      BY <1>3
    <3> QED
      BY <2>3, <2>4, <3>1
  <2>6. listen_sockets' = [i \in 1 .. n |-> AskedSocket(i, i < k + 1)]
    BY <1>3, <2>1, <2>5
  <2>7. listen_sockets' = [i \in 1 .. n |-> AskedSocket(i, i < sock_ind)']
    <3>1. \A i : AskedSocket(i, i < sock_ind)' = AskedSocket(i, i < k + 1)
      BY <1>1, <2>1 DEF AskedSocket, Resolved
    <3> QED
      BY <2>6, <3>1
  <2>8. AskedSockets'
    <3>1. sock_ind' \in 1 .. n + 1
      BY <1>3, <2>1
    <3> QED
      BY <1>1, <1>2, <2>7, <3>1 DEF AskedSockets
  <2>9. Len(listen_sockets') = n
    BY <1>3, <2>6
  <2>10. SocketBounds'
    BY <1>3, <2>1, <2>9 DEF SocketBounds
  <2> QED
    BY <1>1, <2>8, <2>10 DEF SocketsInv
<1>6. CASE DropSocket
  <2>1. listen_sockets[k].optional
    BY <1>4, <1>6 DEF DropSocket, MayDrop, Current
  <2>2. PICK b : listen_sockets[k] = AskedSocket(k, b)
    BY <1>3
  <2> QED
    <3>1. PICK no : no = FALSE
      OBVIOUS
    <3>2. \A name, local : Socket(name, local, no, b).optional = no
      BY SocketFields
    <3>3. listen_sockets[k].optional = FALSE
      BY <2>2, <3>1, <3>2 DEF AskedSocket
    <3> QED
      BY <2>1, <3>3
<1> QED
  BY <1>5, <1>6

Family(i) == <<"IPv4", "IPv6">>[i]

\* The default sockets, taken apart.
LEMMA DefaultsAre ==
  ASSUME NEW k \in 1 .. 3, NEW n \in 0 .. 2, Defaults(k, n)
  PROVE  /\ sock_ind = k /\ DOMAIN listen_sockets = 1 .. n /\ Len(listen_sockets) = n
         /\ \A i \in 1 .. n : /\ listen_sockets[i] = DefaultSocket(i, i < k)
                              /\ listen_sockets[i].local = AnyAddress(Family(i))
                              /\ listen_sockets[i].local.family = Family(i)
                              /\ listen_sockets[i].bound = (i < k)
<1>1. sock_ind = k /\ listen_sockets = [i \in 1 .. n |-> DefaultSocket(i, i < k)]
  BY DEF Defaults
<1>2. DOMAIN listen_sockets = 1 .. n /\ Len(listen_sockets) = n
  BY <1>1
<1>3. ASSUME NEW i \in 1 .. n
      PROVE  /\ listen_sockets[i] = DefaultSocket(i, i < k)
             /\ listen_sockets[i].local = AnyAddress(Family(i))
             /\ listen_sockets[i].local.family = Family(i)
             /\ listen_sockets[i].bound = (i < k)
  <2>1. PICK b : b = (i < k)
    OBVIOUS
  <2>2. listen_sockets[i] = DefaultSocket(i, b)
    BY <1>1, <2>1
  <2>3. PICK yes : yes = TRUE
    OBVIOUS
  <2>4. \A name, local : Socket(name, local, yes, b).local = local /\ Socket(name, local, yes, b).bound = b
    BY SocketFields
  <2>5. listen_sockets[i].local = AnyAddress(Family(i)) /\ listen_sockets[i].bound = b
    <3>1. listen_sockets[i] = Socket(<<>>, AnyAddress(Family(i)), yes, b)
      BY <2>2, <2>3 DEF DefaultSocket, Family
    <3> QED
      BY <2>4, <3>1
  <2>6. AnyAddress(Family(i)).family = Family(i)
    BY DEF AnyAddress
  <2> QED
    BY <2>1, <2>2, <2>5, <2>6
<1> QED
  BY <1>1, <1>2, <1>3

\* The default sockets, put together.
LEMMA DefaultsBecome ==
  ASSUME NEW k \in 1 .. 3, NEW n \in 0 .. 2, sock_ind' = k, UNCHANGED settings, NEW s,
         listen_sockets' = s, s = [i \in 1 .. n |-> s[i]],
         \A i \in 1 .. n : s[i] = DefaultSocket(i, i < k)
  PROVE  Defaults(k, n)' /\ Len(listen_sockets') = n
<1>1. s = [i \in 1 .. n |-> DefaultSocket(i, i < k)]
  OBVIOUS
<1>2. \A i : DefaultSocket(i, i < k)' = DefaultSocket(i, i < k)
  BY DEF DefaultSocket, AnyAddress
<1>3. listen_sockets' = [i \in 1 .. n |-> DefaultSocket(i, i < k)']
  BY <1>1, <1>2
<1> QED
  BY <1>1, <1>3 DEF Defaults

\* One of them is bound.
LEMMA DefaultCreated ==
  ASSUME NEW k \in 1 .. 2, NEW n \in 0 .. 2, k <= n, Defaults(k, n), UNCHANGED settings, CreateSocket
  PROVE  Defaults(k + 1, n)' /\ Len(listen_sockets') = n /\ Family(k) \in families
<1>1. /\ sock_ind = k /\ DOMAIN listen_sockets = 1 .. n
      /\ \A i \in 1 .. n : listen_sockets[i] = DefaultSocket(i, i < k)
      /\ k \in 1 .. n /\ listen_sockets[k].local.family = Family(k)
  <2>1. k \in 1 .. 3 /\ n \in 0 .. 2 /\ k \in 1 .. n
    OBVIOUS
  <2> QED
    BY <2>1, DefaultsAre
<1>2. /\ sock_ind' = k + 1 /\ listen_sockets' = [listen_sockets EXCEPT ![k].bound = TRUE]
      /\ Family(k) \in families
  BY <1>1 DEF CreateSocket, Current
<1>3. PICK s : s = listen_sockets'
  OBVIOUS
<1>4. s = [i \in 1 .. n |-> s[i]]
  BY <1>1, <1>2, <1>3
<1>5. ASSUME NEW i \in 1 .. n
      PROVE  s[i] = DefaultSocket(i, i < k + 1)
  <2>1. CASE i = k
    <3>1. PICK b : listen_sockets[k] = DefaultSocket(k, b)
      BY <1>1
    <3>2. s[k] = [DefaultSocket(k, b) EXCEPT !.bound = TRUE]
      BY <1>1, <1>2, <1>3, <3>1
    <3>3. s[k] = DefaultSocket(k, TRUE)
      BY <3>2, SocketBound DEF DefaultSocket
    <3>4. (k < k + 1) = TRUE
      OBVIOUS
    <3> QED
      BY <2>1, <3>3, <3>4
  <2>2. CASE i # k
    <3>1. s[i] = DefaultSocket(i, i < k)
      BY <1>1, <1>2, <1>3, <2>2
    <3>2. (i < k) = (i < k + 1)
      BY <2>2
    <3> QED
      BY <3>1, <3>2
  <2> QED
    BY <2>1, <2>2
<1>6. PICK next \in 1 .. 3 : next = k + 1
  OBVIOUS
<1>7. Defaults(next, n)' /\ Len(listen_sockets') = n
  <2>1. sock_ind' = next /\ \A i \in 1 .. n : s[i] = DefaultSocket(i, i < next)
    BY <1>2, <1>5, <1>6
  <2> QED
    BY <1>3, <1>4, <2>1, DefaultsBecome
<1> QED
  BY <1>2, <1>6, <1>7

\* One of them is dropped: the first one stays.
LEMMA DefaultDropped ==
  ASSUME NEW k \in 1 .. 2, NEW m \in 0 .. 1, NEW n, n = m + 1, k <= n, Defaults(k, n),
         UNCHANGED settings, DropSocket
  PROVE  Defaults(k, m)' /\ Len(listen_sockets') = m /\ Family(k) \notin families
<1>1. /\ sock_ind = k /\ DOMAIN listen_sockets = 1 .. n /\ Len(listen_sockets) = n
      /\ \A i \in 1 .. n : listen_sockets[i] = DefaultSocket(i, i < k)
      /\ k \in 1 .. n /\ listen_sockets[k].local.family = Family(k)
  <2>1. k \in 1 .. 3 /\ n \in 0 .. 2 /\ k \in 1 .. n
    OBVIOUS
  <2> QED
    BY <2>1, DefaultsAre
<1>2. sock_ind' = k /\ listen_sockets' = Dropped(k) /\ Family(k) \notin families
  BY <1>1 DEF DropSocket, Current
<1>3. Dropped(k) = [j \in 1 .. m |-> listen_sockets[j]]
  BY <1>1 DEF Dropped
<1>4. PICK s : s = listen_sockets'
  OBVIOUS
<1>5. s = [i \in 1 .. m |-> s[i]] /\ \A i \in 1 .. m : s[i] = DefaultSocket(i, i < k)
  BY <1>1, <1>2, <1>3, <1>4
<1>6. m \in 0 .. 2 /\ k \in 1 .. 3
  OBVIOUS
<1> QED
  BY <1>2, <1>4, <1>5, <1>6, DefaultsBecome

\* One turn of the loop for the default sockets.
LEMMA DefaultSteps ==
  ASSUME SocketsInv, CreateSocket \/ DropSocket, UNCHANGED settings, declared_listen = <<>>
  PROVE  SocketsInv'
<1>1. /\ status = "creating" /\ UNCHANGED <<status, families, declared_listen, settings>>
      /\ sock_ind \in DOMAIN listen_sockets
  BY DEF CreateSocket, DropSocket
<1>2. DefaultSockets
  BY <1>1 DEF SocketsInv
<1>3. Family(1) = "IPv4" /\ Family(2) = "IPv6"
  BY DEF Family
<1>4. ASSUME NEW k \in 1 .. 3, NEW n \in 0 .. 2, Defaults(k, n)', Len(listen_sockets') = n, k <= n + 1,
             DefaultSockets'
      PROVE  SocketsInv'
  <2>1. SocketBounds'
    BY <1>4, SocketAssumption DEF SocketBounds, Defaults
  <2> QED
    BY <1>1, <1>4, <2>1 DEF SocketsInv
<1>5. CASE Defaults(1, 2)
  <2>1. CASE CreateSocket
    <3>1. Defaults(2, 2)' /\ Len(listen_sockets') = 2 /\ "IPv4" \in families
      BY <1>1, <1>3, <1>5, <2>1, DefaultCreated
    <3>2. DefaultSockets'
      BY <1>1, <3>1 DEF DefaultSockets
    <3> QED
      BY <1>4, <3>1, <3>2
  <2>2. CASE DropSocket
    <3>1. Defaults(1, 1)' /\ Len(listen_sockets') = 1 /\ "IPv4" \notin families
      <4>1. 1 \in 0 .. 1 /\ 2 = 1 + 1
        OBVIOUS
      <4> QED
        BY <1>1, <1>3, <1>5, <2>2, <4>1, DefaultDropped
    <3>2. DefaultSockets'
      BY <1>1, <3>1 DEF DefaultSockets
    <3> QED
      BY <1>4, <3>1, <3>2
  <2> QED
    BY <2>1, <2>2
<1>6. CASE Defaults(2, 2) /\ "IPv4" \in families
  <2>1. CASE CreateSocket
    <3>1. Defaults(3, 2)' /\ Len(listen_sockets') = 2 /\ "IPv6" \in families
      BY <1>1, <1>3, <1>6, <2>1, DefaultCreated
    <3>2. DefaultSockets'
      BY <1>1, <1>6, <3>1 DEF DefaultSockets
    <3> QED
      BY <1>4, <3>1, <3>2
  <2>2. CASE DropSocket
    <3>1. Defaults(2, 1)' /\ Len(listen_sockets') = 1 /\ "IPv6" \notin families
      <4>1. 1 \in 0 .. 1 /\ 2 = 1 + 1
        OBVIOUS
      <4> QED
        BY <1>1, <1>3, <1>6, <2>2, <4>1, DefaultDropped
    <3>2. DefaultSockets'
      BY <1>1, <1>6, <3>1 DEF DefaultSockets
    <3> QED
      BY <1>4, <3>1, <3>2
  <2> QED
    BY <2>1, <2>2
<1>7. CASE Defaults(1, 1) /\ "IPv4" \notin families
  <2>1. CASE CreateSocket
    <3>1. "IPv4" \in families
      BY <1>1, <1>3, <1>7, <2>1, DefaultCreated
    <3> QED
      BY <1>7, <3>1
  <2>2. CASE DropSocket
    <3>1. Defaults(1, 0)' /\ Len(listen_sockets') = 0
      <4>1. 0 \in 0 .. 1 /\ 1 = 0 + 1
        OBVIOUS
      <4> QED
        BY <1>1, <1>7, <2>2, <4>1, DefaultDropped
    <3>2. DefaultSockets'
      BY <1>1, <1>7, <3>1 DEF DefaultSockets
    <3> QED
      BY <1>4, <3>1, <3>2
  <2> QED
    BY <2>1, <2>2
<1>8. ~ Defaults(3, 2) /\ ~ Defaults(2, 1) /\ ~ Defaults(1, 0)
  BY <1>1, DefaultsAre
<1> QED
  BY <1>2, <1>5, <1>6, <1>7, <1>8 DEF DefaultSockets

\* The loop ends, with a socket or without.
LEMMA CreatedSteps ==
  ASSUME SocketsInv, SocketsCreated
  PROVE  SocketsInv'
<1>1. /\ status = "creating" /\ status' \in {"running", "no socket"}
      /\ UNCHANGED <<families, listen_sockets, sock_ind, declared_listen, settings>>
      /\ status' = "running" => sock_ind \notin DOMAIN listen_sockets /\ listen_sockets # <<>>
  BY DEF SocketsCreated, settingVars, socketVars
<1> QED
  BY <1>1 DEF SocketsInv, SocketBounds, DefaultSockets, Defaults, AskedSockets, DefaultSocket,
              AskedSocket, AnyAddress, Resolved

\* Every other step leaves the sockets alone, and after the options the settings.
LEMMA OtherStepsKeepSockets ==
  ASSUME GamesInv, DpmasterNext
  PROVE  \/ \E o \in Options[scenario] : ListenOption(o)
         \/ UnsecureInit
         \/ (CreateSocket \/ DropSocket) /\ UNCHANGED settings
         \/ SocketsCreated
         \/ /\ UNCHANGED socketVars
            /\ \/ status' \in {"refused", "undefined", "killed"}
               \/ UNCHANGED status /\ (status # "parsing" => UNCHANGED settings)
<1>1. ASSUME NEW o \in Options[scenario], ParseOption(o)
      PROVE  \/ ListenOption(o)
             \/ UNCHANGED socketVars /\ status = "parsing" /\ status' \in Statuses
  <2>1. CASE PropertiesOption(o) /\ UNCHANGED socketVars
    BY <1>1, <2>1, PropertySteps DEF ParseOption, PropertiesOption
  <2>2. CASE PolicyOption(o) /\ UNCHANGED socketVars
    BY <2>2 DEF PolicyOption, Game_DeclarePolicy, Statuses
  <2>3. CASE NumericOption(o) /\ UNCHANGED socketVars
    BY <2>3 DEF NumericOption, Refused, Statuses
  <2>4. CASE FlagOption(o) /\ UNCHANGED socketVars
    BY <2>4 DEF FlagOption, Statuses
  <2>5. CASE MapOption(o) /\ UNCHANGED socketVars
    BY <2>5 DEF MapOption, Refused, Statuses
  <2>6. CASE LogOption(o) /\ UNCHANGED socketVars
    BY <2>6 DEF LogOption, Statuses
  <2> QED
    BY <1>1, <2>1, <2>2, <2>3, <2>4, <2>5, <2>6 DEF ParseOption
<1>2. CASE CreateSockets
  BY <1>2 DEF CreateSockets, settingVars
<1>3. CASE MainLoop
  BY <1>3 DEF MainLoop, settingVars
<1>4. CASE StartupFails
  BY <1>4 DEF StartupFails, Refused
<1>5. CASE KilledBySignal
  BY <1>5 DEF KilledBySignal
<1> QED
  BY <1>1, <1>2, <1>3, <1>4, <1>5 DEF DpmasterNext, Statuses

\* The sockets are those that were asked for, some of them created: an invariant.
THEOREM SocketsInvariance == DpmasterSpec => []SocketsInv
<1>1. ASSUME GamesInv, SocketsInv, [DpmasterNext]_dpmasterVars
      PROVE  SocketsInv'
  <2>1. ASSUME UNCHANGED socketVars, UNCHANGED status, status # "parsing" => UNCHANGED settings
        PROVE  SocketsInv'
    <3> USE DEF SocketsInv, SocketBounds, socketVars
    <3>1. CASE status = "parsing"
      BY <1>1, <2>1, <3>1 DEF ParsedSocket
    <3>2. CASE status # "parsing"
      BY <1>1, <2>1, <3>2 DEF DefaultSockets, Defaults, AskedSockets, DefaultSocket, AskedSocket,
                              AnyAddress, Resolved
    <3> QED
      BY <3>1, <3>2
  <2>2. ASSUME UNCHANGED socketVars, status' \in {"refused", "undefined", "killed"}
        PROVE  SocketsInv'
    BY <1>1, <2>2 DEF SocketsInv, SocketBounds, socketVars
  <2>3. CASE UNCHANGED dpmasterVars
    BY <2>1, <2>3 DEF dpmasterVars, settingVars
  <2>4. CASE DpmasterNext
    <3>1. scenario \in Scenarios
      BY <1>1 DEF GamesInv
    <3>2. CASE \E o \in Options[scenario] : ListenOption(o)
      BY <1>1, <3>1, <3>2, ListenSteps
    <3>3. CASE UnsecureInit
      BY <1>1, <3>3, ResolveSteps
    <3>4. CASE (CreateSocket \/ DropSocket) /\ UNCHANGED settings
      BY <1>1, <3>4, AskedSteps, DefaultSteps
    <3>5. CASE SocketsCreated
      BY <1>1, <3>5, CreatedSteps
    <3> QED
      BY <1>1, <2>1, <2>2, <2>4, <3>2, <3>3, <3>4, <3>5, OtherStepsKeepSockets
  <2> QED
    BY <1>1, <2>3, <2>4
<1> QED
  BY SocketsStart, GamesInvariance, <1>1, PTL DEF DpmasterSpec

\* A master that runs listens where the command line said, with every socket bound
\* (Sys_DeclareListenAddress, Sys_ResolveListenAddresses, Sys_CreateListenSockets).
THEOREM ListensWhereAsked == DpmasterSpec => []ListensAsAsked
<1>1. ASSUME SocketsInv, status = "running"
      PROVE  /\ {listen_sockets[i].local : i \in DOMAIN listen_sockets} = Asked
             /\ \A i \in DOMAIN listen_sockets : listen_sockets[i].bound
             /\ Len(listen_sockets) <= MAX_LISTEN_SOCKETS
  <2>1. /\ sock_ind \notin DOMAIN listen_sockets /\ listen_sockets # <<>> /\ families \subseteq Families
        /\ Len(listen_sockets) <= MAX_LISTEN_SOCKETS
    BY <1>1, SocketAssumption DEF SocketsInv, SocketBounds
  <2>2. CASE declared_listen # <<>>
    <3>1. PICK n \in Nat : n = Len(declared_listen) /\ DOMAIN declared_listen = 1 .. n
      BY <1>1, LenProperties DEF SocketsInv
    <3>2. /\ sock_ind \in 1 .. n + 1
          /\ listen_sockets = [i \in 1 .. n |-> AskedSocket(i, i < sock_ind)]
      BY <1>1, <2>2, <3>1 DEF SocketsInv, AskedSockets
    <3>3. DOMAIN listen_sockets = 1 .. n /\ sock_ind = n + 1
      BY <2>1, <3>1, <3>2
    <3>4. ASSUME NEW i \in 1 .. n
          PROVE  listen_sockets[i].local = Resolved(declared_listen[i]) /\ listen_sockets[i].bound = TRUE
      <4>1. PICK yes : yes = TRUE
        OBVIOUS
      <4>2. PICK no : no = FALSE
        OBVIOUS
      <4>3. i \in Nat /\ i < sock_ind
        BY <3>3, <3>4, <3>1
      <4>4. (i < sock_ind) = TRUE
        BY <4>3, Zenon
      <4>5. listen_sockets[i] = AskedSocket(i, i < sock_ind)
        BY <3>2
      <4>6. (i < sock_ind) = yes
        BY <4>1, <4>4, Zenon
      <4>7. listen_sockets[i] = Socket(declared_listen[i], Resolved(declared_listen[i]), no, yes)
        BY <4>2, <4>5, <4>6, Zenon DEF AskedSocket
      <4>8. /\ Socket(declared_listen[i], Resolved(declared_listen[i]), no, yes).local = Resolved(declared_listen[i])
            /\ Socket(declared_listen[i], Resolved(declared_listen[i]), no, yes).bound = yes
        BY SocketFields
      <4> QED
        BY <4>1, <4>7, <4>8, Zenon
    <3>5. Asked = {Resolved(declared_listen[i]) : i \in 1 .. n}
      BY <2>2, <3>1 DEF Asked, ToSet
    <3> QED
      BY <2>1, <3>3, <3>4, <3>5
  <2>3. CASE declared_listen = <<>>
    <3>1. Family(1) = "IPv4" /\ Family(2) = "IPv6"
      BY DEF Family
    <3>2. Asked = {AnyAddress(family) : family \in families}
      BY <2>3 DEF Asked
    <3>3. DefaultSockets
      BY <1>1, <2>3 DEF SocketsInv
    <3>4. CASE Defaults(3, 2) /\ "IPv4" \in families /\ "IPv6" \in families
      <4>0. 3 \in 1 .. 3 /\ 2 \in 0 .. 2 /\ Defaults(3, 2)
        BY <3>4
      <4>1. /\ DOMAIN listen_sockets = 1 .. 2
            /\ \A i \in 1 .. 2 : /\ listen_sockets[i].local = AnyAddress(Family(i))
                                 /\ listen_sockets[i].bound = TRUE
        <5>1. /\ DOMAIN listen_sockets = 1 .. 2
              /\ \A i \in 1 .. 2 : /\ listen_sockets[i].local = AnyAddress(Family(i))
                                   /\ listen_sockets[i].bound = (i < 3)
          BY <4>0, DefaultsAre, Zenon
        <5>2. \A i \in 1 .. 2 : i < 3
          OBVIOUS
        <5>3. \A i \in 1 .. 2 : (i < 3) = TRUE
          BY <5>2, Zenon
        <5> QED
          BY <5>1, <5>3, Zenon
      <4>2. families = {"IPv4", "IPv6"}
        BY <2>1, <3>4 DEF Families
      <4>3. 1 .. 2 = {1, 2}
        OBVIOUS
      <4> QED
        BY <2>1, <3>1, <3>2, <4>1, <4>2, <4>3
    <3>5. CASE Defaults(2, 1) /\ "IPv4" \in families /\ "IPv6" \notin families
      <4>0. 2 \in 1 .. 3 /\ 1 \in 0 .. 2 /\ Defaults(2, 1)
        BY <3>5
      <4>1. /\ DOMAIN listen_sockets = 1 .. 1
            /\ \A i \in 1 .. 1 : /\ listen_sockets[i].local = AnyAddress(Family(i))
                                 /\ listen_sockets[i].bound = TRUE
        <5>1. /\ DOMAIN listen_sockets = 1 .. 1
              /\ \A i \in 1 .. 1 : /\ listen_sockets[i].local = AnyAddress(Family(i))
                                   /\ listen_sockets[i].bound = (i < 2)
          BY <4>0, DefaultsAre, Zenon
        <5>2. \A i \in 1 .. 1 : i < 2
          OBVIOUS
        <5>3. \A i \in 1 .. 1 : (i < 2) = TRUE
          BY <5>2, Zenon
        <5> QED
          BY <5>1, <5>3, Zenon
      <4>2. families = {"IPv4"}
        BY <2>1, <3>5 DEF Families
      <4>3. 1 .. 1 = {1}
        OBVIOUS
      <4> QED
        BY <2>1, <3>1, <3>2, <4>1, <4>2, <4>3
    <3>6. ~ Defaults(1, 2) /\ ~ Defaults(2, 2) /\ ~ Defaults(1, 1)
      BY <2>1, DefaultsAre
    <3>7. ~ Defaults(1, 0)
      <4>1. PICK none : none = <<>>
        OBVIOUS
      <4>2. none = [i \in 1 .. 0 |-> DefaultSocket(i, i < 1)]
        BY <4>1
      <4> QED
        BY <2>1, <4>1, <4>2 DEF Defaults
    <3> QED
      BY <3>3, <3>4, <3>5, <3>6, <3>7 DEF DefaultSockets
  <2> QED
    BY <2>2, <2>3
<1>2. SocketsInv => ListensAsAsked
  BY <1>1 DEF ListensAsAsked
<1> QED
  BY SocketsInvariance, <1>2, PTL

----------------------------------------------------------------------------
(* The types.                                                              *)

Ends == {"refused", "no socket", "killed", "undefined"}

\* The status is one of those the start-up leads to.
LEMMA StatusTyped ==
  ASSUME GamesInv, DpmasterNext, status \in {"parsing", "creating", "running"} \cup Ends
  PROVE  status' \in {"parsing", "creating", "running"} \cup Ends
<1>1. ASSUME NEW o \in Options[scenario], ListenOption(o)
      PROVE  status' \in {"parsing", "creating", "running"} \cup Ends
  BY <1>1 DEF ListenOption, Refused, Ends
<1>2. CASE UnsecureInit
  BY <1>2 DEF UnsecureInit, Refused, Ends
<1>3. CASE CreateSocket \/ DropSocket
  BY <1>3 DEF CreateSocket, DropSocket
<1>4. CASE SocketsCreated
  BY <1>4 DEF SocketsCreated, Ends
<1> QED
  BY <1>1, <1>2, <1>3, <1>4, OtherStepsKeepSockets DEF Ends

\* Type correctness of the whole program, whatever the command line.
THEOREM DpmasterTypeCorrect == DpmasterSpec => []DpmasterTypeOK
<1> DEFINE StatusInv == status \in {"parsing", "creating", "running"} \cup Ends
<1>1. DpmasterInit => StatusInv
  BY DEF DpmasterInit
<1>2. GamesInv /\ StatusInv /\ [DpmasterNext]_dpmasterVars => StatusInv'
  BY StatusTyped DEF dpmasterVars
<1>3. SettingsInv /\ GamesInv /\ LogInv /\ SocketsInv /\ StatusInv => DpmasterTypeOK
  <2>1. SocketsInv => Len(listen_sockets) <= MAX_LISTEN_SOCKETS
                      /\ sock_ind \in 1 .. MAX_LISTEN_SOCKETS + 1
    BY SocketAssumption DEF SocketsInv, SocketBounds
  <2> QED
    BY <2>1, GamesTyped DEF SettingsInv, LogInv, Ends, DpmasterTypeOK
<1> HIDE DEF StatusInv
<1> QED
  BY <1>1, <1>2, <1>3, SettingsAreUsable, GamesInvariance, LogInvariance, SocketsInvariance, PTL
     DEF DpmasterSpec

----------------------------------------------------------------------------
(* The mappings.                                                           *)

Points   == [host : HostAddresses, port : Ports]
Mappings == [from : Points, to : Points]

\* The order of the list.
Before(a, b) == a.host < b.host \/ (a.host = b.host /\ a.port < b.port)

SortedMaps ==
  {list \in Seq(Mappings) : \A i, j \in 1 .. Len(list) : i < j => Before(list[i].from, list[j].from)}

\* What resolving a name keeps of it.
LEMMA NameResolved ==
  ASSUME NEW name, IsName(name), Resolves(name)
  PROVE  /\ Sv_ResolveIPv4Addr(name) \in Points
         /\ Sv_ResolveIPv4Addr(name).host = name.host
         /\ name.port = NoPort => Sv_ResolveIPv4Addr(name).port = 0
         /\ name.port # NoPort => /\ Sv_ResolveIPv4Addr(name).port = name.port % USHORT_RANGE
                                  /\ Sv_ResolveIPv4Addr(name).port # 0
<1>1. USHORT_RANGE \in Nat \ {0}
  BY WidthAssumption
<1>2. CASE name.port = NoPort
  BY <1>1, <1>2 DEF Sv_ResolveIPv4Addr, Endpoint4, Points, Ports, Resolves
<1>3. CASE name.port # NoPort
  <2>1. PICK n \in Int : n = name.port
    BY <1>3 DEF IsName, Resolves
  <2>2. n % USHORT_RANGE \in Ports
    BY <1>1 DEF Ports
  <2> QED
    BY <1>3, <2>1, <2>2 DEF Sv_ResolveIPv4Addr, Endpoint4, Points, Resolves
<1> QED
  BY <1>2, <1>3

\* A mapping on the command line.
IsMapping(map) == IsName(map.from) /\ IsName(map.to)

\* What resolving a mapping keeps of it.
LEMMA MapResolved ==
  ASSUME NEW map, IsMapping(map), Allowed(map)
  PROVE  /\ Sv_ResolveAddrmap(map) \in Mappings
         /\ Sv_ResolveAddrmap(map).from = Sv_ResolveIPv4Addr(map.from)
         /\ Sv_ResolveAddrmap(map).to = Sv_ResolveIPv4Addr(map.to)
<1>1. Sv_ResolveIPv4Addr(map.from) \in Points /\ Sv_ResolveIPv4Addr(map.to) \in Points
  BY NameResolved DEF IsMapping, Allowed
<1> QED
  BY <1>1 DEF Sv_ResolveAddrmap, Mappings

\* The mappings of a sorted list.
LEMMA SortedHas ==
  ASSUME NEW list \in SortedMaps
  PROVE  \E n \in Nat :
           /\ n = Len(list) /\ DOMAIN list = 1 .. n
           /\ \A i \in 1 .. n : list[i] \in Mappings /\ list[i].from \in Points
           /\ \A i, j \in 1 .. n : i < j => Before(list[i].from, list[j].from)
<1>1. PICK n \in Nat : n = Len(list) /\ DOMAIN list = 1 .. n
  BY LenProperties DEF SortedMaps
<1>2. \A i \in 1 .. n : list[i] \in Mappings
  BY <1>1, ElementOfSeq DEF SortedMaps
<1>3. \A i \in 1 .. n : list[i].from \in Points
  BY <1>2 DEF Mappings
<1>4. \A i, j \in 1 .. n : i < j => Before(list[i].from, list[j].from)
  BY <1>1 DEF SortedMaps
<1> QED
  BY <1>1, <1>2, <1>3, <1>4

\* The order of two addresses is total.
LEMMA OrderIsTotal ==
  ASSUME NEW a \in Points, NEW b \in Points
  PROVE  /\ a.host \in Nat /\ a.port \in Nat
         /\ b.host \in Nat /\ b.port \in Nat
         /\ a = b <=> a.host = b.host /\ a.port = b.port
         /\ Before(a, b) <=> ~ (a.host > b.host \/ (a.host = b.host /\ a.port >= b.port))
         /\ ~ Before(a, b) => a = b \/ Before(b, a)
<1>1. /\ a.host \in Nat /\ a.port \in Nat
      /\ b.host \in Nat /\ b.port \in Nat
  <2>1. a.host \in HostAddresses /\ a.port \in Ports /\ b.host \in HostAddresses /\ b.port \in Ports
    BY DEF Points
  <2>2. HostAddresses \subseteq Nat /\ Ports \subseteq Nat
    BY MapAssumption, WidthAssumption DEF Ports
  <2> QED
    BY <2>1, <2>2
<1>2. a = [host |-> a.host, port |-> a.port] /\ b = [host |-> b.host, port |-> b.port]
  BY DEF Points
<1>3. a = b <=> a.host = b.host /\ a.port = b.port
  BY <1>2
<1> QED
  BY <1>1, <1>3 DEF Before

\* How many mappings of the list come before an address.
Place(list, address) == IF Stop(list, address) = 0 THEN Len(list) ELSE Stop(list, address) - 1

\* The mappings up to that place are before the address, the others are not.
LEMMA PlaceSplits ==
  ASSUME NEW list \in SortedMaps, NEW address \in Points
  PROVE  /\ Place(list, address) \in 0 .. Len(list)
         /\ Stop(list, address) \in 0 .. Len(list)
         /\ Stop(list, address) # 0 => Stop(list, address) = Place(list, address) + 1
         /\ Stop(list, address) = 0 => Place(list, address) = Len(list)
         /\ \A i \in 1 .. Len(list) : IF i <= Place(list, address)
                                        THEN Before(list[i].from, address)
                                        ELSE ~ Before(list[i].from, address)
<1>1. PICK n \in Nat :
        /\ n = Len(list)
        /\ \A i \in 1 .. n : list[i].from \in Points
        /\ \A i, j \in 1 .. n : i < j => Before(list[i].from, list[j].from)
  BY SortedHas
<1>4. PICK t \in SUBSET (1 .. n) : t = {i \in 1 .. n : NotBefore(list[i], address)}
  OBVIOUS
<1>5. \A i \in 1 .. n : i \in t <=> ~ Before(list[i].from, address)
  BY <1>1, <1>4, OrderIsTotal DEF NotBefore
<1>6. Stop(list, address) = IF t # {} THEN Min(t) ELSE 0
  BY <1>1, <1>4 DEF Stop, SelectInSeq
<1>7. CASE t = {}
  <2>1. Stop(list, address) = 0 /\ Place(list, address) = n
    BY <1>1, <1>6, <1>7 DEF Place
  <2> QED
    BY <1>1, <1>5, <1>7, <2>1
<1>8. CASE t # {}
  <2>1. PICK m \in 1 .. n : m = Min(t) /\ m \in t /\ \A i \in t : m <= i
    BY <1>8, FirstPosition
  <2>2. Stop(list, address) = m /\ Place(list, address) = m - 1
    BY <1>6, <1>8, <2>1 DEF Place
  <2>3. ASSUME NEW i \in 1 .. n, i <= m - 1
        PROVE  Before(list[i].from, address)
    BY <1>5, <2>1, <2>3
  <2>4. ASSUME NEW i \in 1 .. n, ~ (i <= m - 1)
        PROVE  ~ Before(list[i].from, address)
    <3>1. CASE i = m
      BY <1>5, <2>1, <3>1
    <3>2. CASE i > m
      <4>1. Before(list[m].from, list[i].from) /\ ~ Before(list[m].from, address)
        BY <1>1, <1>5, <2>1, <3>2
      <4>2. list[m].from \in Points /\ list[i].from \in Points
        BY <1>1
      <4> QED
        BY <4>1, <4>2, OrderIsTotal DEF Before
    <3> QED
      BY <2>1, <2>4, <3>1, <3>2
  <2> QED
    BY <1>1, <2>1, <2>2, <2>3, <2>4
<1> QED
  BY <1>7, <1>8

\* A mapping is put between others.
LEMMA MapInserted ==
  ASSUME NEW list \in Seq(Mappings), NEW map \in Mappings, NEW k \in 0 .. Len(list)
  PROVE  /\ InsertAt(list, k + 1, map) \in Seq(Mappings)
         /\ Len(InsertAt(list, k + 1, map)) = Len(list) + 1
         /\ \A i \in 1 .. Len(list) + 1 :
              InsertAt(list, k + 1, map)[i] = IF i <= k THEN list[i] ELSE IF i = k + 1 THEN map ELSE list[i - 1]
  BY Inserted

\* A mapping is inserted at its place.
LEMMA InsertedAtPlace ==
  ASSUME NEW list \in SortedMaps, NEW map \in Mappings, NEW k \in Nat, k = Place(list, map.from)
  PROVE  LET new == Sv_InsertAddrmapIntoList(list, map)
         IN  /\ new \in Seq(Mappings) /\ Len(new) = Len(list) + 1
             /\ \A i \in 1 .. Len(list) + 1 :
                  new[i] = IF i <= k THEN list[i] ELSE IF i = k + 1 THEN map ELSE list[i - 1]
<1>1. list \in Seq(Mappings) /\ Len(list) \in Nat /\ map.from \in Points
  BY LenProperties DEF SortedMaps, Mappings
<1>2. /\ k \in 0 .. Len(list)
      /\ Stop(list, map.from) # 0 => Stop(list, map.from) = k + 1
      /\ Stop(list, map.from) = 0 => k = Len(list)
  BY <1>1, PlaceSplits
<1>3. CASE Stop(list, map.from) = 0
  <2>1. Sv_InsertAddrmapIntoList(list, map) = Append(list, map)
    BY <1>3 DEF Sv_InsertAddrmapIntoList
  <2>2. /\ Append(list, map) \in Seq(Mappings) /\ Len(Append(list, map)) = Len(list) + 1
        /\ \A i \in 1 .. Len(list) : Append(list, map)[i] = list[i]
        /\ Append(list, map)[Len(list) + 1] = map
    BY <1>1, AppendProperties
  <2> QED
    BY <1>1, <1>2, <1>3, <2>1, <2>2
<1>4. CASE Stop(list, map.from) # 0
  <2>1. Sv_InsertAddrmapIntoList(list, map) = InsertAt(list, k + 1, map)
    BY <1>2, <1>4 DEF Sv_InsertAddrmapIntoList
  <2>2. /\ InsertAt(list, k + 1, map) \in Seq(Mappings)
        /\ Len(InsertAt(list, k + 1, map)) = Len(list) + 1
        /\ \A i \in 1 .. Len(list) + 1 :
             InsertAt(list, k + 1, map)[i] = IF i <= k THEN list[i] ELSE IF i = k + 1 THEN map ELSE list[i - 1]
    <3>1. list \in Seq(Mappings) /\ k \in 0 .. Len(list)
      BY <1>1, <1>2
    <3> QED
      BY <3>1, MapInserted
  <2> QED
    BY <2>1, <2>2
<1> QED
  BY <1>3, <1>4

\* The list stays sorted, and has the mapping besides those it had.
LEMMA InsertKeepsOrder ==
  ASSUME NEW list \in SortedMaps, NEW map \in Mappings, ~ Duplicate(list, map)
  PROVE  /\ Sv_InsertAddrmapIntoList(list, map) \in SortedMaps
         /\ ToSet(Sv_InsertAddrmapIntoList(list, map)) = ToSet(list) \cup {map}
<1>1. PICK n \in Nat :
        /\ n = Len(list) /\ DOMAIN list = 1 .. n
        /\ \A i \in 1 .. n : list[i].from \in Points
        /\ \A i, j \in 1 .. n : i < j => Before(list[i].from, list[j].from)
  BY SortedHas
<1>2. map.from \in Points
  BY DEF Mappings
<1>3. PICK k \in 0 .. n : k = Place(list, map.from)
  BY <1>1, <1>2, PlaceSplits
<1>4. \A i \in 1 .. n : IF i <= k THEN Before(list[i].from, map.from) ELSE ~ Before(list[i].from, map.from)
  BY <1>1, <1>2, <1>3, PlaceSplits
<1>5. PICK new : new = Sv_InsertAddrmapIntoList(list, map)
  OBVIOUS
<1>6. /\ new \in Seq(Mappings) /\ Len(new) = n + 1
      /\ \A i \in 1 .. n + 1 :
           new[i] = IF i <= k THEN list[i] ELSE IF i = k + 1 THEN map ELSE list[i - 1]
  BY <1>1, <1>3, <1>5, InsertedAtPlace
<1>7. k < n => list[k + 1].from # map.from
  <2>1. ASSUME k < n
        PROVE  list[k + 1].from # map.from
    <3>1. Stop(list, map.from) = k + 1
      BY <1>1, <1>2, <1>3, <2>1, PlaceSplits
    <3> QED
      BY <3>1 DEF Duplicate
  <2> QED
    BY <2>1
<1>9. ASSUME NEW i \in 1 .. n, i > k
      PROVE  Before(map.from, list[i].from)
  <2>1. CASE i = k + 1
    BY <1>1, <1>2, <1>4, <1>7, <1>9, <2>1, OrderIsTotal
  <2>2. CASE i > k + 1
    <3>1. k + 1 \in 1 .. n
      BY <1>9
    <3>2. Before(map.from, list[k + 1].from) /\ Before(list[k + 1].from, list[i].from)
      BY <1>1, <1>2, <1>4, <1>7, <2>2, <3>1, OrderIsTotal
    <3> QED
      BY <1>1, <1>2, <3>1, <3>2, OrderIsTotal DEF Before
  <2> QED
    BY <1>9, <2>1, <2>2
<1>10. ASSUME NEW i \in 1 .. n + 1, NEW j \in 1 .. n + 1, i < j
       PROVE  Before(new[i].from, new[j].from)
  <2>1. CASE j <= k
    <3>1. i <= k /\ i \in 1 .. n /\ j \in 1 .. n
      BY <1>10, <2>1
    <3>2. new[i] = list[i] /\ new[j] = list[j]
      BY <1>6, <2>1, <3>1
    <3> QED
      BY <1>1, <1>10, <3>1, <3>2
  <2>2. CASE j = k + 1
    BY <1>4, <1>6, <1>10, <2>2
  <2>3. CASE j > k + 1
    <3>1. new[j] = list[j - 1] /\ j - 1 \in 1 .. n
      BY <1>6, <2>3
    <3>2. CASE i = k + 1
      BY <1>6, <1>9, <2>3, <3>1, <3>2
    <3>3. CASE i <= k
      BY <1>1, <1>6, <2>3, <3>1, <3>3
    <3>4. CASE i > k + 1
      <4>1. i - 1 \in 1 .. n /\ ~ (i <= k) /\ i # k + 1
        BY <3>4
      <4>2. new[i] = list[i - 1]
        BY <1>6, <4>1
      <4> QED
        BY <1>1, <1>10, <3>1, <4>1, <4>2
    <3> QED
      BY <3>2, <3>3, <3>4
  <2> QED
    BY <2>1, <2>2, <2>3
<1>11. new \in SortedMaps
  BY <1>6, <1>10 DEF SortedMaps
<1>12. DOMAIN new = 1 .. n + 1
  BY <1>6, LenProperties
<1>13. ASSUME NEW x \in ToSet(new)
       PROVE  x \in ToSet(list) \cup {map}
  <2>1. PICK i \in 1 .. n + 1 : x = new[i]
    BY <1>12 DEF ToSet
  <2>2. CASE i <= k
    BY <1>1, <1>6, <2>1, <2>2 DEF ToSet
  <2>3. CASE i = k + 1
    BY <1>6, <2>1, <2>3
  <2>4. CASE i > k + 1
    <3>1. x = list[i - 1] /\ i - 1 \in 1 .. n
      BY <1>6, <2>1, <2>4
    <3> QED
      BY <1>1, <3>1 DEF ToSet
  <2> QED
    BY <2>2, <2>3, <2>4
<1>14. ASSUME NEW x \in ToSet(list) \cup {map}
       PROVE  x \in ToSet(new)
  <2>1. CASE x = map
    <3>1. k + 1 \in 1 .. n + 1 /\ new[k + 1] = x
      BY <1>6, <2>1
    <3> QED
      BY <1>12, <3>1 DEF ToSet
  <2>2. CASE x # map
    <3>1. PICK i \in 1 .. n : x = list[i]
      BY <1>1, <1>14, <2>2 DEF ToSet
    <3>2. IF i <= k THEN i \in 1 .. n + 1 /\ new[i] = x
          ELSE i + 1 \in 1 .. n + 1 /\ new[i + 1] = x
      BY <1>6, <3>1
    <3> QED
      BY <1>12, <3>2 DEF ToSet
  <2> QED
    BY <2>1, <2>2
<1> QED
  BY <1>5, <1>11, <1>13, <1>14

\* The step of the loop that builds the list.
MapTaken(r, map) ==
  LET m == Sv_ResolveAddrmap(map)
  IN  IF ~ r.ok \/ Duplicate(r.list, m) THEN [r EXCEPT !.ok = FALSE]
      ELSE [r EXCEPT !.list = Sv_InsertAddrmapIntoList(@, m)]

\* That loop.
ListBuilt ==
  FoldLeft(LAMBDA r, map : LET m == Sv_ResolveAddrmap(map)
                           IN  IF ~ r.ok \/ Duplicate(r.list, m) THEN [r EXCEPT !.ok = FALSE]
                               ELSE [r EXCEPT !.list = Sv_InsertAddrmapIntoList(@, m)],
           [ok |-> TRUE, list |-> <<>>], addrmaps)

Built == [ok : BOOLEAN, list : SortedMaps]

\* A mapping is taken into the list, unless there is one for its address.
LEMMA MapIsTaken ==
  ASSUME NEW map, IsMapping(map), Allowed(map), NEW r \in Built
  PROVE  /\ MapTaken(r, map) \in Built
         /\ MapTaken(r, map).ok => /\ r.ok
                                  /\ ToSet(MapTaken(r, map).list) =
                                       ToSet(r.list) \cup {Sv_ResolveAddrmap(map)}
<1>1. PICK m \in Mappings : m = Sv_ResolveAddrmap(map)
  BY MapResolved
<1>2. r = [ok |-> r.ok, list |-> r.list] /\ r.list \in SortedMaps /\ r.ok \in BOOLEAN
  BY DEF Built
<1>3. CASE ~ r.ok \/ Duplicate(r.list, m)
  <2>1. PICK no : no = FALSE
    OBVIOUS
  <2>2. MapTaken(r, map) = [r EXCEPT !.ok = no]
    BY <1>1, <1>3, <2>1, Zenon DEF MapTaken
  <2>3. [r EXCEPT !.ok = no] = [ok |-> no, list |-> r.list]
    BY <1>2
  <2>4. MapTaken(r, map) = [ok |-> FALSE, list |-> r.list]
    BY <2>1, <2>2, <2>3, Zenon
  <2>5. MapTaken(r, map) \in Built
    BY <1>2, <2>4 DEF Built
  <2>6. ~ MapTaken(r, map).ok
    BY <2>4
  <2> QED
    BY <2>5, <2>6
<1>4. CASE ~ (~ r.ok \/ Duplicate(r.list, m))
  <2>1. PICK list \in SortedMaps : /\ list = Sv_InsertAddrmapIntoList(r.list, m)
                                   /\ ToSet(list) = ToSet(r.list) \cup {m}
    BY <1>2, <1>4, InsertKeepsOrder
  <2>2. MapTaken(r, map) = [r EXCEPT !.list = list]
    <3>1. MapTaken(r, map) = [r EXCEPT !.list = Sv_InsertAddrmapIntoList(@, m)]
      BY <1>1, <1>4, Zenon DEF MapTaken
    <3> QED
      BY <2>1, <3>1
  <2>3. [r EXCEPT !.list = list] = [ok |-> r.ok, list |-> list]
    <3>1. PICK ok : ok = r.ok
      OBVIOUS
    <3>2. r = [ok |-> ok, list |-> r.list]
      BY <1>2, <3>1
    <3>3. [r EXCEPT !.list = list] = [ok |-> ok, list |-> list]
      BY <3>2
    <3> QED
      BY <3>1, <3>3
  <2>4. /\ MapTaken(r, map).list = list
        /\ MapTaken(r, map) \in Built
    BY <1>2, <2>1, <2>2, <2>3 DEF Built
  <2> QED
    BY <1>1, <1>4, <2>1, <2>4
<1> QED
  BY <1>3, <1>4

\* The mappings of the command line can be resolved.
CanBeResolved ==
  /\ addrmaps \in Seq(ToSet(addrmaps))
  /\ \A map \in ToSet(addrmaps) : IsMapping(map) /\ Allowed(map)

\* The list starts empty.
LEMMA BuiltStart == [ok |-> TRUE, list |-> <<>>] \in Built
<1>1. <<>> \in SortedMaps
  BY EmptySeq DEF SortedMaps
<1>2. TRUE \in BOOLEAN
  OBVIOUS
<1> QED
  BY <1>1, <1>2 DEF Built

\* The mappings are taken one after the other.
LEMMA MapsFold ==
  ASSUME CanBeResolved
  PROVE  \E h \in [0 .. Len(addrmaps) -> Built] :
           /\ h[0] = [ok |-> TRUE, list |-> <<>>]
           /\ \A i \in 1 .. Len(addrmaps) : h[i] = MapTaken(h[i - 1], addrmaps[i])
           /\ ListBuilt = h[Len(addrmaps)]
<1>1. PICK n \in Nat : n = Len(addrmaps) /\ DOMAIN addrmaps = 1 .. n
  BY LenProperties DEF CanBeResolved
<1>2. \A i \in 1 .. n : IsMapping(addrmaps[i]) /\ Allowed(addrmaps[i])
  BY <1>1, InToSet DEF CanBeResolved
<1>3. PICK W : W = Built
  OBVIOUS
<1> DEFINE step(v, i)  == MapTaken(v, addrmaps[i])
           equation(g) == g = [t \in SUBSET (1 .. n) |->
                                 IF t = {} THEN [ok |-> TRUE, list |-> <<>>] ELSE step(g[t \ {Max(t)}], Max(t))]
<1>4. [ok |-> TRUE, list |-> <<>>] \in W /\ \A i \in 1 .. n, v \in W : step(v, i) \in W
  BY <1>2, <1>3, MapIsTaken, BuiltStart
<1>5. ListBuilt = (CHOOSE g : equation(g))[1 .. n]
  BY <1>1 DEF ListBuilt, MapTaken, FoldLeft, MapThenFoldSet
<1> HIDE DEF step
<1>6. PICK F : F = [i \in 1 .. n |-> [v \in W |-> step(v, i)]]
  OBVIOUS
<1>7. /\ F \in [1 .. n -> [W -> W]]
      /\ \A i \in 1 .. n, v \in W : F[i][v] = step(v, i)
  BY <1>4, <1>6
<1>8. PICK base \in W : base = [ok |-> TRUE, list |-> <<>>]
  BY <1>4
<1>9. \E g : equation(g)
  <2>1. PICK g \in [SUBSET (1 .. n) -> W] : FoldEquation(g, n, base, F)
    BY <1>7, FoldExists
  <2>2. ASSUME NEW t \in SUBSET (1 .. n)
        PROVE  g[t] = IF t = {} THEN base ELSE step(g[t \ {Max(t)}], Max(t))
    <3>1. CASE t = {}
      BY <2>1, <3>1 DEF FoldEquation
    <3>2. CASE t # {}
      <4>1. Max(t) \in 1 .. n /\ g[t \ {Max(t)}] \in W
        BY <2>1, <3>2, LastPosition
      <4>2. g[t] = F[Max(t)][g[t \ {Max(t)}]]
        BY <2>1, <3>2 DEF FoldEquation
      <4> QED
        BY <1>7, <3>2, <4>1, <4>2
    <3> QED
      BY <3>1, <3>2
  <2> QED
    BY <1>8, <2>1, <2>2
<1>10. PICK g : equation(g) /\ ListBuilt = g[1 .. n]
  <2> HIDE DEF equation
  <2> QED
    BY <1>5, <1>9
<1>11. ObeysWithin(g, n, base, F, W)
  <2>1. g[{}] = base
    BY <1>8, <1>10
  <2>2. ASSUME NEW t \in SUBSET (1 .. n), t # {}, g[t \ {Max(t)}] \in W
        PROVE  g[t] = F[Max(t)][g[t \ {Max(t)}]]
    <3>1. Max(t) \in 1 .. n
      BY <2>2, LastPosition
    <3>2. g[t] = step(g[t \ {Max(t)}], Max(t))
      BY <1>10, <2>2
    <3> QED
      BY <1>7, <2>2, <3>1, <3>2
  <2> HIDE DEF equation
  <2> QED
    BY <2>1, <2>2 DEF ObeysWithin
<1> HIDE DEF equation
<1>12. PICK h \in [0 .. n -> W] : ResultsOf(h, g, n, base, F)
  BY <1>7, <1>11, FoldResults
<1>13. ASSUME NEW i \in 1 .. n
       PROVE  h[i] = step(h[i - 1], i)
  <2>1. h[i] = F[i][h[i - 1]] /\ h[i - 1] \in W
    BY <1>12 DEF ResultsOf
  <2> QED
    BY <1>7, <2>1
<1>14. h[0] = base /\ h[n] = g[1 .. n]
  BY <1>12 DEF ResultsOf
<1> QED
  BY <1>1, <1>3, <1>8, <1>10, <1>13, <1>14 DEF step

\* A list that could be built is sorted, and has all the mappings.
LEMMA MapsResolved ==
  ASSUME addrmaps \in Seq(ToSet(addrmaps)), \A map \in ToSet(addrmaps) : IsMapping(map),
         Sv_ResolveAddressMappings.ok
  PROVE  /\ \A map \in ToSet(addrmaps) : Allowed(map)
         /\ Sv_ResolveAddressMappings.list \in SortedMaps
         /\ ToSet(Sv_ResolveAddressMappings.list) =
              {Sv_ResolveAddrmap(map) : map \in ToSet(addrmaps)}
<1>1. PICK n \in Nat : n = Len(addrmaps) /\ DOMAIN addrmaps = 1 .. n
  BY LenProperties
<1>2. \A i \in DOMAIN addrmaps : Allowed(addrmaps[i])
  <2>1. ASSUME ~ (\A i \in DOMAIN addrmaps : Allowed(addrmaps[i]))
        PROVE  Sv_ResolveAddressMappings = [ok |-> FALSE, list |-> <<>>]
    BY <2>1, Zenon DEF Sv_ResolveAddressMappings
  <2> QED
    BY <2>1
<1>3. Sv_ResolveAddressMappings = ListBuilt
  BY <1>2, Zenon DEF Sv_ResolveAddressMappings, ListBuilt
<1>4. CanBeResolved /\ \A map \in ToSet(addrmaps) : Allowed(map)
  BY <1>1, <1>2 DEF CanBeResolved, ToSet
<1>5. PICK h \in [0 .. n -> Built] :
        /\ h[0] = [ok |-> TRUE, list |-> <<>>]
        /\ \A i \in 1 .. n : h[i] = MapTaken(h[i - 1], addrmaps[i])
        /\ ListBuilt = h[n]
  BY <1>1, <1>4, MapsFold
<1> DEFINE good(i) == h[i].ok => ToSet(h[i].list) = {Sv_ResolveAddrmap(addrmaps[j]) : j \in 1 .. i}
           holds == {i \in 0 .. n : good(i)}
<1>6. good(0)
  <2>1. h[0].list = <<>>
    BY <1>5
  <2>2. ToSet(h[0].list) = {}
    BY <2>1 DEF ToSet
  <2> QED
    BY <2>2
<1>7. ASSUME NEW i \in 1 .. n, good(i - 1)
      PROVE  good(i)
  <2>1. h[i - 1] \in Built /\ h[i] = MapTaken(h[i - 1], addrmaps[i])
    BY <1>5
  <2>2. IsMapping(addrmaps[i]) /\ Allowed(addrmaps[i])
    BY <1>1, <1>4, InToSet
  <2>3. h[i].ok => /\ h[i - 1].ok
                   /\ ToSet(h[i].list) = ToSet(h[i - 1].list) \cup {Sv_ResolveAddrmap(addrmaps[i])}
    BY <2>1, <2>2, MapIsTaken
  <2>4. 1 .. i = (1 .. (i - 1)) \cup {i}
    OBVIOUS
  <2>5. {Sv_ResolveAddrmap(addrmaps[j]) : j \in 1 .. i} =
          {Sv_ResolveAddrmap(addrmaps[j]) : j \in 1 .. (i - 1)} \cup {Sv_ResolveAddrmap(addrmaps[i])}
    BY <2>4
  <2> QED
    BY <1>7, <2>3, <2>5
<1> HIDE DEF good
<1>8. n \in holds
  <2>1. 0 \in holds
    BY <1>6
  <2>2. \A i \in 1 .. n : i - 1 \in holds => i \in holds
    BY <1>7
  <2> HIDE DEF holds
  <2>3. 0 .. n \subseteq holds
    BY <2>1, <2>2, Along
  <2> QED
    BY <2>3
<1>9. good(n)
  BY <1>8
<1>10. ToSet(h[n].list) = {Sv_ResolveAddrmap(addrmaps[j]) : j \in 1 .. n}
  <2>1. h[n].ok
    BY <1>3, <1>5
  <2> QED
    BY <1>9, <2>1 DEF good
<1>11. h[n].list \in SortedMaps
  BY <1>5 DEF Built
<1>12. {Sv_ResolveAddrmap(addrmaps[j]) : j \in 1 .. n} =
         {Sv_ResolveAddrmap(map) : map \in ToSet(addrmaps)}
  BY <1>1 DEF ToSet
<1> QED
  BY <1>3, <1>4, <1>5, <1>10, <1>11, <1>12

\* The last of the first k mappings that has an address.
LEMMA LastOf ==
  ASSUME NEW list \in SortedMaps, NEW k \in 0 .. Len(list), NEW address \in Points,
         NEW i \in 1 .. k, list[i].from = address
  PROVE  SelectLastInSeq(SubSeq(list, 1, k), LAMBDA map : map.from = address) = i
<1>1. PICK n \in Nat :
        /\ n = Len(list) /\ DOMAIN list = 1 .. n
        /\ \A j \in 1 .. n : list[j] \in Mappings /\ list[j].from \in Points
        /\ \A j, m \in 1 .. n : j < m => Before(list[j].from, list[m].from)
  BY SortedHas
<1>2. PICK s : s = SubSeq(list, 1, k)
  OBVIOUS
<1>3. Len(s) = k /\ \A j \in 1 .. k : s[j] = list[j]
  <2>1. \A j \in 1 .. k : list[j] \in Mappings
    BY <1>1
  <2>2. /\ Len(s) = IF 1 <= k THEN k - 1 + 1 ELSE 0
        /\ \A j \in 1 .. k - 1 + 1 : s[j] = list[1 + j - 1]
    BY <1>1, <1>2, <2>1, SubSeqProperties
  <2> QED
    BY <1>1, <2>2
<1>4. PICK t : t = {j \in 1 .. Len(s) : s[j].from = address}
  OBVIOUS
<1>5. ASSUME NEW j \in t
      PROVE  j = i
  <2>1. j \in 1 .. n /\ i \in 1 .. n /\ list[j].from = address
    BY <1>1, <1>3, <1>4
  <2>2. ~ Before(address, address)
    BY OrderIsTotal
  <2> QED
    BY <1>1, <2>1, <2>2
<1>6. t = {i}
  BY <1>3, <1>4, <1>5
<1>7. Max(t) = i
  BY <1>6 DEF Max
<1>8. SelectLastInSeq(s, LAMBDA map : map.from = address) = IF t # {} THEN Max(t) ELSE 0
  BY <1>4 DEF SelectLastInSeq
<1> QED
  BY <1>2, <1>6, <1>7, <1>8

\* Sv_GetAddrmap finds the exact mapping of an address, else that of its host.
LEMMA MapIsFound ==
  ASSUME addrmaps \in SortedMaps, NEW host \in HostAddresses, NEW port \in Ports \ {0},
         NEW address, address = Endpoint4(host, port)
  PROVE  /\ \A i \in 1 .. Len(addrmaps) :
              addrmaps[i].from = address => Sv_GetAddrmap(address) = <<addrmaps[i]>>
         /\ (\A i \in 1 .. Len(addrmaps) : addrmaps[i].from # address) =>
              /\ \A i \in 1 .. Len(addrmaps) :
                   addrmaps[i].from = Endpoint4(host, 0) => Sv_GetAddrmap(address) = <<addrmaps[i]>>
              /\ (\A i \in 1 .. Len(addrmaps) : addrmaps[i].from # Endpoint4(host, 0)) =>
                   Sv_GetAddrmap(address) = <<>>
<1>1. PICK n \in Nat :
        /\ n = Len(addrmaps) /\ DOMAIN addrmaps = 1 .. n
        /\ \A i \in 1 .. n : addrmaps[i] \in Mappings /\ addrmaps[i].from \in Points
        /\ \A i, j \in 1 .. n : i < j => Before(addrmaps[i].from, addrmaps[j].from)
  BY SortedHas
<1>2. PICK general : general = Endpoint4(host, 0)
  OBVIOUS
<1>3. /\ address \in Points /\ general \in Points
      /\ Before(general, address) /\ address # general /\ ~ Before(address, address)
      /\ address.host = host
  <2>1. Ports \subseteq Nat /\ 0 \in Ports /\ HostAddresses \subseteq Nat
    BY MapAssumption, WidthAssumption DEF Ports
  <2> QED
    BY <1>2, <2>1 DEF Endpoint4, Points, Before
<1>4. PICK stop, k :
        /\ stop = Stop(addrmaps, address) /\ stop \in 0 .. n
        /\ k = Place(addrmaps, address) /\ k \in 0 .. n
        /\ stop # 0 => stop = k + 1
        /\ stop = 0 => k = n
        /\ \A i \in 1 .. n : IF i <= k THEN Before(addrmaps[i].from, address)
                                       ELSE ~ Before(addrmaps[i].from, address)
  BY <1>1, <1>3, PlaceSplits
<1>5. PICK passed_by : passed_by = SubSeq(addrmaps, 1, k)
  OBVIOUS
<1>6. passed_by = IF stop = 0 THEN addrmaps ELSE SubSeq(addrmaps, 1, stop - 1)
  <2>1. CASE stop = 0
    <3>1. SubSeq(addrmaps, 1, n) = addrmaps
      BY <1>1, SubSeqFull DEF SortedMaps
    <3> QED
      BY <1>4, <1>5, <2>1, <3>1
  <2>2. CASE stop # 0
    BY <1>4, <1>5, <2>2
  <2> QED
    BY <2>1, <2>2
<1>7. PICK found : found = SelectLastInSeq(passed_by, LAMBDA map : map.from = general)
  OBVIOUS
<1>8. Sv_GetAddrmap(address) =
        IF stop # 0 /\ addrmaps[stop].from = address THEN <<addrmaps[stop]>>
        ELSE IF found # 0 THEN <<passed_by[found]>> ELSE <<>>
  BY <1>2, <1>3, <1>4, <1>6, <1>7 DEF Sv_GetAddrmap
<1>9. ASSUME NEW i \in 1 .. n, addrmaps[i].from = address
      PROVE  Sv_GetAddrmap(address) = <<addrmaps[i]>>
  <2>1. ~ (i <= k)
    BY <1>3, <1>4, <1>9
  <2>2. ~ (k + 1 < i)
    BY <1>1, <1>4, <1>9
  <2>3. stop = i
    BY <1>4, <2>1, <2>2
  <2> QED
    BY <1>8, <1>9, <2>3
<1>10. ASSUME \A i \in 1 .. n : addrmaps[i].from # address
       PROVE  Sv_GetAddrmap(address) = IF found # 0 THEN <<passed_by[found]>> ELSE <<>>
  BY <1>4, <1>8, <1>10
<1>11. ASSUME \A i \in 1 .. n : addrmaps[i].from # address,
              NEW i \in 1 .. n, addrmaps[i].from = general
       PROVE  Sv_GetAddrmap(address) = <<addrmaps[i]>>
  <2>1. i \in 1 .. k
    BY <1>3, <1>4, <1>11
  <2>2. found = i
    BY <1>1, <1>3, <1>4, <1>5, <1>7, <1>11, <2>1, LastOf
  <2>3. passed_by[i] = addrmaps[i]
    <3>1. \A j \in 1 .. k : addrmaps[j] \in Mappings
      BY <1>1, <1>4
    <3>2. \A j \in 1 .. k - 1 + 1 : passed_by[j] = addrmaps[1 + j - 1]
      BY <1>4, <1>5, <3>1, SubSeqProperties
    <3> QED
      BY <1>4, <2>1, <3>2
  <2> QED
    BY <1>10, <1>11, <2>1, <2>2, <2>3
<1>12. ASSUME \A i \in 1 .. n : addrmaps[i].from # address,
              \A i \in 1 .. n : addrmaps[i].from # general
       PROVE  Sv_GetAddrmap(address) = <<>>
  <2>1. Len(passed_by) = k /\ \A j \in 1 .. k : passed_by[j] = addrmaps[j]
    <3>1. \A j \in 1 .. k : addrmaps[j] \in Mappings
      BY <1>1, <1>4
    <3>2. /\ Len(passed_by) = IF 1 <= k THEN k - 1 + 1 ELSE 0
          /\ \A j \in 1 .. k - 1 + 1 : passed_by[j] = addrmaps[1 + j - 1]
      BY <1>4, <1>5, <3>1, SubSeqProperties
    <3> QED
      BY <1>4, <3>2
  <2>2. {j \in 1 .. Len(passed_by) : passed_by[j].from = general} = {}
    BY <1>4, <1>12, <2>1
  <2>3. found = 0
    BY <1>7, <2>2 DEF SelectLastInSeq
  <2> QED
    BY <1>10, <1>12, <2>3
<1> QED
  BY <1>1, <1>2, <1>9, <1>11, <1>12

\* The mappings are those of the command line, and once it is parsed, those that
\* it stands for in the order of their addresses.
MapsInv ==
  /\ \A map \in declared_maps : IsMapping(map)
  /\ status = "parsing" => addrmaps \in Seq(declared_maps) /\ ToSet(addrmaps) = declared_maps
  /\ status \in {"creating", "running"} =>
       /\ \A map \in declared_maps : Allowed(map)
       /\ addrmaps \in SortedMaps
       /\ ToSet(addrmaps) = {Sv_ResolveAddrmap(map) : map \in declared_maps}

\* There are none at first.
LEMMA MapsStart == DpmasterInit => MapsInv
<1>1. \A S : <<>> \in Seq(S)
  BY EmptySeq
<1> QED
  BY <1>1 DEF DpmasterInit, MapsInit, MapsInv, ToSet

\* A declaration goes on top of the list.
LEMMA DeclareKeepsMaps ==
  ASSUME MapsInv, NEW o, o.option = "map" /\ o.equals => IsMapping(o.mapping), MapOption(o)
  PROVE  MapsInv'
<1>1. CASE o.equals
  <2>1. /\ status = "parsing" /\ status' = "parsing"
        /\ addrmaps' = Cons(o.mapping, addrmaps)
        /\ declared_maps' = declared_maps \cup {o.mapping}
        /\ IsMapping(o.mapping)
    BY <1>1 DEF MapOption
  <2>2. PICK map : map = o.mapping
    OBVIOUS
  <2>3. addrmaps \in Seq(declared_maps) /\ ToSet(addrmaps) = declared_maps
    BY <2>1 DEF MapsInv
  <2>4. PICK S : S = declared_maps \cup {map}
    OBVIOUS
  <2>5. addrmaps \in Seq(S) /\ <<map>> \in Seq(S)
    BY <2>3, <2>4, SeqMonotonic
  <2>6. PICK new : new = <<map>> \o addrmaps
    OBVIOUS
  <2>7. PICK n \in Nat : n = Len(addrmaps) /\ DOMAIN addrmaps = 1 .. n
    BY <2>3, LenProperties
  <2>8. /\ new \in Seq(S) /\ Len(new) = 1 + n /\ DOMAIN new = 1 .. n + 1
        /\ \A i \in 1 .. n + 1 : new[i] = IF i <= 1 THEN map ELSE addrmaps[i - 1]
    <3>1. Len(<<map>>) = 1 /\ <<map>>[1] = map
      OBVIOUS
    <3>2. /\ new \in Seq(S) /\ Len(new) = Len(<<map>>) + Len(addrmaps)
          /\ \A i \in 1 .. Len(<<map>>) + Len(addrmaps) :
               new[i] = IF i <= Len(<<map>>) THEN <<map>>[i] ELSE addrmaps[i - Len(<<map>>)]
      BY <2>5, <2>6, ConcatProperties
    <3> QED
      BY <2>7, <3>1, <3>2, LenProperties
  <2>9. ToSet(new) = S
    <3>1. ASSUME NEW x \in S
          PROVE  \E i \in 1 .. n + 1 : x = new[i]
      <4>1. CASE x = map
        BY <2>8, <4>1
      <4>2. CASE x # map
        <5>1. PICK i \in 1 .. n : x = addrmaps[i]
          BY <2>3, <2>4, <2>7, <3>1, <4>2 DEF ToSet
        <5>2. i + 1 \in 1 .. n + 1 /\ ~ (i + 1 <= 1) /\ (i + 1) - 1 = i
          OBVIOUS
        <5>3. new[i + 1] = x
          BY <2>8, <5>1, <5>2
        <5> QED
          BY <5>2, <5>3
      <4> QED
        BY <4>1, <4>2
    <3>2. \A i \in 1 .. n + 1 : new[i] \in S
      BY <2>8, ElementOfSeq
    <3> QED
      BY <2>8, <3>1, <3>2 DEF ToSet
  <2>10. addrmaps' = new /\ declared_maps' = S
    BY <2>1, <2>2, <2>4, <2>6 DEF Cons
  <2>11. \A m \in S : IsMapping(m)
    BY <2>1, <2>2, <2>4 DEF MapsInv
  <2> QED
    BY <2>1, <2>8, <2>9, <2>10, <2>11 DEF MapsInv, IsMapping, IsName
<1>2. CASE ~ o.equals
  BY <1>2 DEF MapOption, Refused, mapVars, MapsInv, IsMapping, IsName
<1> QED
  BY <1>1, <1>2

\* UnsecureInit sorts the list, or the program ends.
LEMMA ResolveKeepsMaps == ASSUME MapsInv, UnsecureInit PROVE MapsInv'
<1>1. status = "parsing" /\ UNCHANGED declared_maps
  BY DEF UnsecureInit
<1>2. addrmaps \in Seq(declared_maps) /\ ToSet(addrmaps) = declared_maps
  BY <1>1 DEF MapsInv
<1>3. \A map \in declared_maps : IsMapping(map)
  BY DEF MapsInv
<1>4. (\A map \in declared_maps : IsMapping(map))'
  BY <1>1, <1>3 DEF IsMapping, IsName
<1>5. CASE Sv_ResolveAddressMappings.ok /\ AllReadable
  <2>1. status' = "creating" /\ addrmaps' = Sv_ResolveAddressMappings.list
    BY <1>5, Zenon DEF UnsecureInit
  <2>2. PICK list : list = Sv_ResolveAddressMappings.list
    OBVIOUS
  <2>3. /\ \A map \in declared_maps : Allowed(map)
        /\ list \in SortedMaps
        /\ ToSet(list) = {Sv_ResolveAddrmap(map) : map \in declared_maps}
    BY <1>2, <1>3, <1>5, <2>2, MapsResolved
  <2>4. addrmaps' = list
    BY <2>1, <2>2
  <2> QED
    BY <1>1, <1>4, <2>1, <2>3, <2>4 DEF MapsInv
<1>6. CASE ~ (Sv_ResolveAddressMappings.ok /\ AllReadable)
  <2>1. status' = "refused"
    BY <1>6, Zenon DEF UnsecureInit, Refused
  <2> QED
    BY <1>4, <2>1 DEF MapsInv
<1> QED
  BY <1>5, <1>6

\* The program ends, stays where it is, or begins to run.
GoesOn ==
  \/ status' \in {"refused", "undefined", "killed", "no socket"}
  \/ UNCHANGED status
  \/ status = "creating" /\ status' = "running"

\* The other steps leave the mappings alone, and no command line is parsed again.
LEMMA OtherStepsKeepMaps ==
  ASSUME GamesInv, DpmasterNext
  PROVE  \/ \E o \in Options[scenario] : MapOption(o)
         \/ UnsecureInit
         \/ UNCHANGED mapVars /\ GoesOn
<1>1. \/ \E o \in Options[scenario] : MapOption(o)
      \/ UnsecureInit
      \/ UNCHANGED mapVars
  <2>1. ASSUME NEW o \in Options[scenario], ParseOption(o)
        PROVE  MapOption(o) \/ UNCHANGED mapVars
    BY <2>1 DEF ParseOption
  <2>2. CASE CreateSockets
    BY <2>2 DEF CreateSockets
  <2>3. CASE SocketsCreated
    BY <2>3 DEF SocketsCreated
  <2>4. CASE MainLoop
    BY <2>4 DEF MainLoop
  <2>5. CASE StartupFails
    BY <2>5 DEF StartupFails
  <2>6. CASE KilledBySignal
    BY <2>6 DEF KilledBySignal
  <2> QED
    BY <2>1, <2>2, <2>3, <2>4, <2>5, <2>6 DEF DpmasterNext
<1>2. UnsecureInit \/ GoesOn
  <2>1. ASSUME NEW o \in Options[scenario], ListenOption(o)
        PROVE  GoesOn
    BY <2>1 DEF ListenOption, Refused, GoesOn
  <2>2. CASE CreateSocket \/ DropSocket
    BY <2>2 DEF CreateSocket, DropSocket, GoesOn
  <2>3. CASE SocketsCreated
    BY <2>3 DEF SocketsCreated, GoesOn
  <2>4. CASE status' \in {"refused", "undefined", "killed"} \/ UNCHANGED status
    BY <2>4 DEF GoesOn
  <2> QED
    BY <2>1, <2>2, <2>3, <2>4, OtherStepsKeepSockets
<1> QED
  BY <1>1, <1>2

\* The mappings stay those of the command line: MapsInv is an invariant.
THEOREM MapsInvariance == DpmasterSpec => []MapsInv
<1>1. ASSUME GamesInv, MapsInv, [DpmasterNext]_dpmasterVars
      PROVE  MapsInv'
  <2>1. ASSUME UNCHANGED mapVars, GoesOn
        PROVE  MapsInv'
    BY <1>1, <2>1 DEF MapsInv, mapVars, GoesOn, IsMapping, IsName, Allowed
  <2>2. CASE UNCHANGED dpmasterVars
    BY <2>1, <2>2 DEF dpmasterVars, GoesOn
  <2>3. CASE DpmasterNext
    <3>1. scenario \in Scenarios
      BY <1>1 DEF GamesInv
    <3>2. ASSUME NEW o \in Options[scenario], MapOption(o)
          PROVE  MapsInv'
      <4>1. o.option = "map" /\ o.equals => IsMapping(o.mapping)
        BY <3>1, ScenarioAssumption DEF IsMapping
      <4> QED
        BY <1>1, <3>2, <4>1, DeclareKeepsMaps
    <3>3. CASE UnsecureInit
      BY <1>1, <3>3, ResolveKeepsMaps
    <3> QED
      BY <1>1, <2>1, <2>3, <3>2, <3>3, OtherStepsKeepMaps
  <2> QED
    BY <1>1, <2>2, <2>3
<1> QED
  BY MapsStart, GamesInvariance, <1>1, PTL DEF DpmasterSpec

\* What a declared mapping applies to, after it was resolved.
LEMMA DeclaredFor ==
  ASSUME NEW map, IsMapping(map), Allowed(map), NEW host, NEW port \in Ports \ {0}
  PROVE  /\ Sv_ResolveAddrmap(map).from = Endpoint4(host, port) <=>
              /\ map.from.host = host
              /\ map.from.port # NoPort
              /\ map.from.port % USHORT_RANGE = port
         /\ Sv_ResolveAddrmap(map).from = Endpoint4(host, 0) <=>
              map.from = [host |-> host, port |-> NoPort]
<1>1. PICK from : from = Sv_ResolveAddrmap(map).from
  OBVIOUS
<1>2. /\ from \in Points /\ from.host = map.from.host
      /\ map.from.port = NoPort => from.port = 0
      /\ map.from.port # NoPort => from.port = map.from.port % USHORT_RANGE /\ from.port # 0
  <2>1. IsName(map.from) /\ Resolves(map.from)
    BY DEF IsMapping, Allowed
  <2>2. from = Sv_ResolveIPv4Addr(map.from)
    BY <1>1, MapResolved
  <2> QED
    BY <2>1, <2>2, NameResolved
<1>3. from = [host |-> from.host, port |-> from.port]
  BY <1>2 DEF Points
<1>4. \A p : from = Endpoint4(host, p) <=> from.host = host /\ from.port = p
  BY <1>3 DEF Endpoint4
<1>5. map.from = [host |-> map.from.host, port |-> map.from.port]
  BY DEF IsMapping, IsName
<1>6. map.from = [host |-> host, port |-> NoPort] <=> map.from.host = host /\ map.from.port = NoPort
  BY <1>5
<1>7. port # 0
  OBVIOUS
<1> QED
  BY <1>1, <1>2, <1>4, <1>6, <1>7

\* What it makes of the address of a server.
LEMMA DeclaredTo ==
  ASSUME NEW map, IsMapping(map), Allowed(map), NEW address,
         Sv_GetAddrmap(address) = <<Sv_ResolveAddrmap(map)>>, "allow-loopback" \notin flags
  PROVE  Transmitted(address) = DocumentedAddress(address, map) /\ MayRegister(address)
<1>1. MappingOf(address) = <<Sv_ResolveAddrmap(map)>>
  BY DEF MappingOf
<1>2. <<Sv_ResolveAddrmap(map)>> # <<>> /\ <<Sv_ResolveAddrmap(map)>>[1] = Sv_ResolveAddrmap(map)
  OBVIOUS
<1>3. PICK to : to = Sv_ResolveAddrmap(map).to
  OBVIOUS
<1>4. Transmitted(address) = Endpoint4(to.host, IF to.port # 0 THEN to.port ELSE address.port)
  BY <1>1, <1>2, <1>3 DEF Transmitted
<1>5. /\ to.host = map.to.host
      /\ map.to.port = NoPort => to.port = 0
      /\ map.to.port # NoPort => to.port = map.to.port % USHORT_RANGE /\ to.port # 0
  <2>1. IsName(map.to) /\ Resolves(map.to)
    BY DEF IsMapping, Allowed
  <2>2. to = Sv_ResolveIPv4Addr(map.to)
    BY <1>3, MapResolved
  <2> QED
    BY <2>1, <2>2, NameResolved
<1>6. Transmitted(address) = DocumentedAddress(address, map)
  BY <1>4, <1>5 DEF DocumentedAddress
<1> QED
  BY <1>1, <1>2, <1>6 DEF MayRegister

\* Servers are transmitted as the manual says of the command line, whatever the
\* order of the mappings (Sv_ResolveAddressMappings, Sv_GetAddrmap, HandleGetServers).
THEOREM MapsAreAsDocumented == DpmasterSpec => []MappingsAreFollowed
<1>1. ASSUME MapsInv, status = "running", "allow-loopback" \notin flags,
             NEW host \in HostAddresses \ {0}, NEW port \in Ports \ {0},
             NEW address, address = Endpoint4(host, port)
      PROVE  IF DocumentedMaps(address) = {}
               THEN /\ Transmitted(address) = address
                    /\ MayRegister(address) = (host \notin LoopbackAddresses)
               ELSE /\ MayRegister(address)
                    /\ \A map \in DocumentedMaps(address) :
                         Transmitted(address) = DocumentedAddress(address, map)
  <2>1. /\ addrmaps \in SortedMaps
        /\ ToSet(addrmaps) = {Sv_ResolveAddrmap(map) : map \in declared_maps}
        /\ \A map \in declared_maps : IsMapping(map) /\ Allowed(map)
    BY <1>1 DEF MapsInv
  <2>2. PICK n \in Nat : n = Len(addrmaps) /\ DOMAIN addrmaps = 1 .. n
    BY <2>1, SortedHas
  <2>3. address.host = host /\ address.port = port
    BY <1>1 DEF Endpoint4
  <2> DEFINE named    == {map \in declared_maps : Sv_ResolveAddrmap(map).from = address}
             hostwide == {map \in declared_maps : Sv_ResolveAddrmap(map).from = Endpoint4(host, 0)}
  <2>4. DocumentedMaps(address) = IF named # {} THEN named ELSE hostwide
    <3>1. named = {map \in declared_maps : /\ map.from.host = address.host
                                           /\ map.from.port # NoPort
                                           /\ map.from.port % USHORT_RANGE = address.port}
      <4>1. ASSUME NEW map \in declared_maps
            PROVE  Sv_ResolveAddrmap(map).from = Endpoint4(host, port) <=>
                     /\ map.from.host = host
                     /\ map.from.port # NoPort
                     /\ map.from.port % USHORT_RANGE = port
        BY <2>1, DeclaredFor
      <4> QED
        BY <1>1, <2>3, <4>1
    <3>2. hostwide = {map \in declared_maps : map.from = [host |-> address.host, port |-> NoPort]}
      <4>1. \A map \in declared_maps : Sv_ResolveAddrmap(map).from = Endpoint4(host, 0) <=>
                                         map.from = [host |-> host, port |-> NoPort]
        BY <2>1, DeclaredFor
      <4> QED
        BY <2>3, <4>1
    <3> HIDE DEF named, hostwide
    <3> QED
      BY <3>1, <3>2 DEF DocumentedMaps
  <2>5. ASSUME NEW map \in declared_maps
        PROVE  \E i \in 1 .. n : addrmaps[i] = Sv_ResolveAddrmap(map)
    BY <2>1, <2>2 DEF ToSet
  <2>6. ASSUME NEW i \in 1 .. n
        PROVE  \E map \in declared_maps : addrmaps[i] = Sv_ResolveAddrmap(map)
    <3>1. addrmaps[i] \in ToSet(addrmaps)
      BY <2>2 DEF ToSet
    <3> QED
      BY <2>1, <3>1
  <2>7. /\ \A i \in 1 .. n :
             addrmaps[i].from = address => Sv_GetAddrmap(address) = <<addrmaps[i]>>
        /\ (\A i \in 1 .. n : addrmaps[i].from # address) =>
             /\ \A i \in 1 .. n :
                  addrmaps[i].from = Endpoint4(host, 0) => Sv_GetAddrmap(address) = <<addrmaps[i]>>
             /\ (\A i \in 1 .. n : addrmaps[i].from # Endpoint4(host, 0)) =>
                  Sv_GetAddrmap(address) = <<>>
    BY <1>1, <2>1, <2>2, MapIsFound
  <2>8. named = {} => \A i \in 1 .. n : addrmaps[i].from # address
    BY <2>6
  <2>9. ASSUME NEW map \in DocumentedMaps(address)
        PROVE  Transmitted(address) = DocumentedAddress(address, map) /\ MayRegister(address)
    <3>1. map \in declared_maps
      BY <2>4, <2>9
    <3>2. PICK i \in 1 .. n : addrmaps[i] = Sv_ResolveAddrmap(map)
      BY <2>5, <3>1
    <3>3. Sv_GetAddrmap(address) = <<Sv_ResolveAddrmap(map)>>
      <4>1. CASE named # {}
        <5>1. addrmaps[i].from = address
          BY <2>4, <2>9, <3>2, <4>1
        <5> QED
          BY <2>7, <3>2, <5>1
      <4>2. CASE named = {}
        <5>1. addrmaps[i].from = Endpoint4(host, 0)
          BY <2>4, <2>9, <3>2, <4>2
        <5> QED
          BY <2>7, <2>8, <3>2, <4>2, <5>1
      <4> QED
        BY <4>1, <4>2
    <3> QED
      BY <1>1, <2>1, <3>1, <3>3, DeclaredTo
  <2>10. ASSUME DocumentedMaps(address) = {}
         PROVE  /\ Transmitted(address) = address
                /\ MayRegister(address) <=> host \notin LoopbackAddresses
    <3>1. named = {} /\ hostwide = {}
      <4> HIDE DEF named, hostwide
      <4> QED
        BY <2>4, <2>10
    <3>2. \A i \in 1 .. n : addrmaps[i].from # address /\ addrmaps[i].from # Endpoint4(host, 0)
      BY <2>6, <3>1
    <3>3. MappingOf(address) = <<>>
      BY <1>1, <2>7, <3>2 DEF MappingOf
    <3> QED
      BY <1>1, <2>3, <3>3 DEF Transmitted, MayRegister
  <2>11. MayRegister(address) \in BOOLEAN /\ (host \notin LoopbackAddresses) \in BOOLEAN
    BY DEF MayRegister
  <2> HIDE DEF named, hostwide
  <2>12. CASE DocumentedMaps(address) = {}
    <3>1. MayRegister(address) = (host \notin LoopbackAddresses)
      BY <2>10, <2>11, <2>12, Zenon
    <3> QED
      BY <2>10, <2>12, <3>1, Zenon
  <2>13. CASE DocumentedMaps(address) # {}
    BY <2>9, <2>13
  <2> QED
    BY <2>12, <2>13
<1>2. MapsInv => MappingsAreFollowed
  BY <1>1 DEF MappingsAreFollowed
<1> QED
  BY MapsInvariance, <1>2, PTL

=============================================================================
