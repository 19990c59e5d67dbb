------------------------------ MODULE LogFile ------------------------------
(***************************************************************************)
(* The log file of src/src/common.c and the signals that control it, in    *)
(* the main loop of src/src/dpmaster.c: USR1 opens the log or reopens it,  *)
(* USR2 closes it.  The handlers only set flags; Com_UpdateLogStatus tests *)
(* and resets them in steps between which signals may arrive.  An admin    *)
(* moves the file away to have it reopened.                                *)
(***************************************************************************)
EXTENDS CommandLine

VARIABLES
  must_open_log,
  must_close_log,
  log_file,             \* "none", "current", or "rotated" when it was moved away
  at,                   \* where the main loop is
  wanted,               \* history: "open" or "none", by the latest signal or failure
  crossed,              \* history: the latest signal came while the other one was pending
  signalled             \* history: a USR1 has come since the file was moved away

logVars == <<must_open_log, must_close_log, log_file, at, wanted, crossed, signalled>>

Places == {"start-up", "select", "update", "reopen", "test close", "close", "handle"}

LogOption(o) ==
  /\ status = "parsing"
  /\ o.option = "log"
  /\ must_open_log' = TRUE                                      \* Com_EnableLog
  /\ wanted' = "open"
  /\ UNCHANGED <<status, must_close_log, log_file, at, crossed, signalled>>

\* Com_UpdateLogStatus (true), before the signals are caught.
OpenAtStart ==
  /\ must_open_log' = FALSE
  /\ log_file' = IF must_open_log THEN "current" ELSE "none"
  /\ UNCHANGED <<must_close_log, at, wanted, crossed, signalled>>

\* A signal interrupts select, and nothing else.
Woken == IF at = "select" THEN "update" ELSE at

USR1 ==
  /\ must_open_log' = TRUE                                      \* Com_SignalHandler
  /\ at' = Woken
  /\ wanted' = "open"
  /\ crossed' = must_close_log
  /\ signalled' = TRUE
  /\ UNCHANGED <<must_close_log, log_file>>

USR2 ==
  /\ must_close_log' = TRUE
  /\ at' = Woken
  /\ wanted' = "none"
  /\ crossed' = must_open_log
  /\ UNCHANGED <<must_open_log, log_file, signalled>>

Rotate ==
  /\ log_file = "current"
  /\ log_file' = "rotated"
  /\ signalled' = FALSE
  /\ UNCHANGED <<must_open_log, must_close_log, at, wanted, crossed>>

\* select returns with a datagram.
Receive ==
  /\ at = "select"
  /\ at' = "update"
  /\ UNCHANGED <<must_open_log, must_close_log, log_file, wanted, crossed, signalled>>

TestOpen ==
  /\ at = "update"
  /\ must_open_log' = FALSE
  /\ at' = IF must_open_log THEN "reopen" ELSE "test close"
  /\ UNCHANGED <<must_close_log, log_file, wanted, crossed, signalled>>

\* Mutant: a log that is open is left alone.
Mutant_Reopen ==
  /\ at = "reopen"
  /\ log_file' = IF log_file = "none" THEN "current" ELSE log_file
  /\ at' = "test close"
  /\ UNCHANGED <<must_open_log, must_close_log, wanted, crossed, signalled>>

\* The old file is closed in any case.
Reopen ==
  /\ at = "reopen"
  /\ log_file' = "current"
  /\ at' = "test close"
  /\ UNCHANGED <<must_open_log, must_close_log, wanted, crossed, signalled>>

\* The main loop goes on without a log.
ReopenFails ==
  /\ at = "reopen"
  /\ log_file' = "none"
  /\ at' = "handle"
  /\ wanted' = IF must_open_log THEN wanted ELSE "none"
  /\ UNCHANGED <<must_open_log, must_close_log, crossed, signalled>>

TestClose ==
  /\ at = "test close"
  /\ must_close_log' = FALSE
  /\ at' = IF must_close_log THEN "close" ELSE "handle"
  /\ UNCHANGED <<must_open_log, log_file, wanted, crossed, signalled>>

\* Mutant: closing the log resets both flags.
Mutant_CloseLogFile ==
  /\ at = "close"
  /\ log_file' = "none"
  /\ must_open_log' = FALSE
  /\ at' = "handle"
  /\ UNCHANGED <<must_close_log, wanted, crossed, signalled>>

CloseLogFile ==
  /\ at = "close"
  /\ log_file' = "none"
  /\ at' = "handle"
  /\ UNCHANGED <<must_open_log, must_close_log, wanted, crossed, signalled>>

\* The datagram is handled, the log is flushed.
Handle ==
  /\ at = "handle"
  /\ at' = "select"
  /\ UNCHANGED <<must_open_log, must_close_log, log_file, wanted, crossed, signalled>>

Environment == USR1 \/ USR2 \/ Rotate \/ Receive
UpdateLog   == TestOpen \/ Reopen \/ ReopenFails \/ TestClose \/ CloseLogFile \/ Handle

LogInit ==
  /\ must_open_log = FALSE
  /\ must_close_log = FALSE
  /\ log_file = "none"
  /\ at = "start-up"
  /\ wanted = "none"
  /\ crossed = FALSE
  /\ signalled = FALSE

----------------------------------------------------------------------------
LogTypeOK ==
  /\ {must_open_log, must_close_log, crossed, signalled} \subseteq BOOLEAN
  /\ log_file \in {"none", "current", "rotated"}
  /\ at \in Places
  /\ wanted \in {"none", "open"}

\* No signal is lost, at whatever step of the loop it arrives: when the loop waits
\* again and no flag is pending, the log is open if and only if the latest signal
\* asked for it, and it is not a file that was moved away before a USR1
\* (doc/manual.txt:96-99).  Excepted is a signal that finds the other one pending:
\* the flags have no order, and either may be served first.
LogFollowsSignals ==
  at = "select" /\ ~ must_open_log /\ ~ must_close_log =>
    /\ crossed \/ (log_file # "none") = (wanted = "open")
    /\ log_file = "rotated" => ~ signalled
=============================================================================
