------------------------------ MODULE Dpmaster ------------------------------
(***************************************************************************)
(* main of src/src/dpmaster.c: the command line is parsed, what it         *)
(* declares is resolved, the listening sockets are created, and the main   *)
(* loop runs.  The handlers of its datagrams are in the other modules;     *)
(* here the loop only updates the log.                                     *)
(*                                                                         *)
(* The options of different modules share no state but the status.  A      *)
(* scenario therefore mixes only some of them: it names the options that   *)
(* its command lines are made of, in any order and number, the address     *)
(* families its hosts may support, and whether signals are sent.           *)
(***************************************************************************)
EXTENDS GameProperties, AddressMaps, ListenSockets, LogFile

CONSTANTS
  Scenarios,
  Options,              \* the options of each scenario
  HostFamilies,         \* the sets of families of its hosts
  Signals               \* the scenarios with signals, and with a main loop

ASSUME ScenarioAssumption ==
  /\ \A s \in Scenarios : HostFamilies[s] \subseteq SUBSET Families
  /\ Signals \subseteq Scenarios
  /\ \A s \in Scenarios : \A o \in Options[s] :
       /\ o.option \in NumericOptions => o.number \in Int \cup {NotANumber}
       /\ o.option = "game-properties" => o.game \in Names /\ AreUpdates(o.updates)
       /\ o.option = "game-policy" => o.games \in Seq(Names) \ {<<>>}
       /\ o.option = "map" /\ o.equals => IsName(o.mapping.from) /\ IsName(o.mapping.to)

VARIABLE scenario

dpmasterVars == <<scenario, status, settingVars, gameVars, mapVars, socketVars, logVars>>

ParseOption(o) ==
  /\ \/ PolicyOption(o) /\ UNCHANGED <<settingVars, mapVars, socketVars, logVars>>
     \/ PropertiesOption(o) /\ UNCHANGED <<settingVars, mapVars, socketVars, logVars>>
     \/ NumericOption(o) /\ UNCHANGED <<gameVars, mapVars, socketVars, logVars>>
     \/ FlagOption(o) /\ UNCHANGED <<gameVars, mapVars, socketVars, logVars>>
     \/ MapOption(o) /\ UNCHANGED <<settingVars, gameVars, socketVars, logVars>>
     \/ ListenOption(o) /\ UNCHANGED <<settingVars, gameVars, mapVars, logVars>>
     \/ LogOption(o) /\ UNCHANGED <<settingVars, gameVars, mapVars, socketVars>>
  /\ UNCHANGED scenario

\* An option that is unknown, in error or asks for help; a log file that cannot
\* be opened, an allocation, a system call, a bind that fails: the program ends.
StartupFails ==
  /\ status \in {"parsing", "creating"}
  /\ Refused
  /\ UNCHANGED <<scenario, settingVars, gameVars, mapVars, socketVars, logVars>>

\* Signals are not caught before SecureInit.
KilledBySignal ==
  /\ status = "parsing"
  /\ scenario \in Signals
  /\ status' = "killed"
  /\ UNCHANGED <<scenario, settingVars, gameVars, mapVars, socketVars, logVars>>

\* Com_UpdateLogStatus (true), Sys_UnsecureInit, UnsecureInit, Sys_SecurityInit
\* and Sys_SecureInit: what was declared is resolved, then privileges are dropped.
UnsecureInit ==
  LET maps == Sv_ResolveAddressMappings
  IN  /\ status = "parsing"
      /\ IF maps.ok /\ AllReadable
           THEN /\ status' = "creating"
                /\ addrmaps' = maps.list
                /\ listen_sockets' = Sys_ResolveListenAddresses
           ELSE Refused /\ UNCHANGED <<addrmaps, listen_sockets>>
      /\ OpenAtStart
      /\ UNCHANGED <<scenario, settingVars, gameVars, declared_maps, families, sock_ind,
                     declared_listen>>

\* The turns of the loop that creates the sockets.
CreateSockets ==
  /\ CreateSocket \/ DropSocket
  /\ UNCHANGED <<scenario, settingVars, gameVars, mapVars, logVars>>

\* The end of SecureInit.
SocketsCreated ==
  /\ status = "creating"
  /\ sock_ind \notin DOMAIN listen_sockets
  /\ IF listen_sockets = <<>>
       THEN status' = "no socket" /\ UNCHANGED at
       ELSE status' = "running" /\ at' = "select"
  /\ UNCHANGED <<scenario, settingVars, gameVars, mapVars, socketVars, must_open_log,
                 must_close_log, log_file, wanted, crossed, signalled>>

MainLoop ==
  /\ status \in {"creating", "running"}
  /\ scenario \in Signals
  /\ Environment \/ UpdateLog
  /\ UNCHANGED <<scenario, status, settingVars, gameVars, mapVars, socketVars>>

DpmasterInit ==
  /\ status = "parsing"
  /\ scenario \in Scenarios
  /\ families \in HostFamilies[scenario]
  /\ SettingsInit /\ GamesInit /\ MapsInit /\ SocketsInit /\ LogInit

DpmasterNext ==
  \/ \E o \in Options[scenario] : ParseOption(o)
  \/ UnsecureInit \/ CreateSockets \/ SocketsCreated \/ MainLoop
  \/ StartupFails \/ KilledBySignal

DpmasterSpec == DpmasterInit /\ [][DpmasterNext]_dpmasterVars

----------------------------------------------------------------------------
\* The variables have their types.
DpmasterTypeOK ==
  /\ status \in {"parsing", "creating", "running", "refused", "no socket", "killed", "undefined"}
  /\ SettingsTypeOK /\ GamesTypeOK /\ LogTypeOK
  /\ Len(listen_sockets) <= MAX_LISTEN_SOCKETS /\ sock_ind \in 1 .. MAX_LISTEN_SOCKETS + 1
=============================================================================
