----------------------------- MODULE Persistence -----------------------------
(***************************************************************************)
(* The state file of src/src/servers.c (--state-file): Sv_SaveState writes *)
(* a snapshot of the validated servers after every accepted infoResponse,  *)
(* and Sv_LoadState reads it when the process starts.                      *)
(*                                                                         *)
(* A save is cut into its system calls.  Any of them may fail, the process *)
(* may be killed and the machine may lose its power between two of them.   *)
(* Only the validated entries of the list matter here, and an entry past   *)
(* its deadline is gone: the list itself is the subject of ServerTable.    *)
(***************************************************************************)
EXTENDS Integers

CONSTANTS
  Servers,
  Unloadable,           \* those whose record Sv_LoadState drops, see Accepted
  NotListed,
  NoFile,
  TIMEOUT_INFORESPONSE

ASSUME ServerAssumption == Unloadable \subseteq Servers
ASSUME TimeAssumption == TIMEOUT_INFORESPONSE \in Nat \ {0}

VARIABLES
  list,                 \* the validated servers in memory: their timeout
  step,                 \* the next step of Sv_SaveState, "idle" or "down"
  tmp,                  \* the file <path>.tmp
  file,                 \* the state file, as the running system sees it
  on_disk,              \* the state file, as a power loss leaves it
  granted,              \* history: the latest deadline each server was given
  behind,               \* history: the file misses an accepted infoResponse
  unread,               \* history: the process could not read the file it found
  hidden                \* the servers the last snapshot did not reach

vars == <<list, step, tmp, file, on_disk, granted, behind, unread, hidden>>
memory == <<list, granted, behind, unread, hidden>>

\* Deadlines are kept as the seconds left, and 0 once they have passed, so the
\* clock needs no bound.
Timeouts == 0 .. TIMEOUT_INFORESPONSE
Records  == [server : Servers, timeout : Timeouts]
Damages  == {"none", "write error", "power loss"}
Files    == [records : SUBSET Records, damage : Damages, durable : BOOLEAN]

ASSUME AbsenceAssumption == NotListed \notin Nat /\ NoFile \notin Files

Listed(s) == list[s] # NotListed
RecordOf(s) == [server |-> s, timeout |-> list[s]]
Nothing == [s \in Servers |-> NotListed]

----------------------------------------------------------------------------
(* Saving.                                                                 *)

\* HandleInfoResponse accepts, which calls Sv_SaveState.
InfoResponse(s) ==
  /\ step = "idle"
  /\ list' = [list EXCEPT ![s] = TIMEOUT_INFORESPONSE]
  /\ granted' = [granted EXCEPT ![s] = TIMEOUT_INFORESPONSE]
  /\ step' = "open"
  /\ behind' = TRUE
  /\ UNCHANGED <<tmp, file, on_disk, unread, hidden>>

\* Mutant: the loop ends before the last slot.
Mutant_Snapshot(reached) ==
  LET all == {RecordOf(s) : s \in {x \in reached : Listed(x) /\ list[x] > 0}}
  IN  {r \in all : \E q \in all : q # r}

\* The loop over the slots.  ServerTable shows that a server may sit beyond
\* last_used_slot, where the loop ends: such servers are not reached.
Snapshot(reached) == {RecordOf(s) : s \in {x \in reached : Listed(x) /\ list[x] > 0}}

\* fopen, then the fprintf calls.  Nobody looks at what they return: when the
\* disk is full for a moment, the records of a buffer are lost.
Write ==
  /\ step = "open"
  /\ \E reached \in SUBSET Servers :
       /\ hidden' = {s \in Servers \ reached : Listed(s)}
       /\ \E written \in SUBSET Snapshot(reached) :
            tmp' = [records |-> written,
                    damage  |-> IF written = Snapshot(reached) THEN "none" ELSE "write error",
                    durable |-> FALSE]
  /\ step' = "sync"
  /\ UNCHANGED <<list, file, on_disk, granted, behind, unread>>

OpenFails ==
  /\ step = "open"
  /\ step' = "idle"
  /\ UNCHANGED <<memory, tmp, file, on_disk>>

\* Mutant: fflush without fsync.
Mutant_Sync ==
  /\ step = "sync"
  /\ step' = "rename"
  /\ UNCHANGED <<memory, tmp, file, on_disk>>

\* fflush, fsync and fclose.
Sync ==
  /\ step = "sync"
  /\ tmp' = [tmp EXCEPT !.durable = TRUE]
  /\ step' = "rename"
  /\ UNCHANGED <<memory, file, on_disk>>

\* rename is atomic, but the directory reaches the disk later (Journal).
Rename ==
  /\ step = "rename"
  /\ file' = tmp
  /\ tmp' = NoFile
  /\ behind' = (tmp.damage # "none")
  /\ step' = "idle"
  /\ UNCHANGED <<list, on_disk, granted, unread, hidden>>

\* fflush, fsync, fclose or rename fails.
CommitFails ==
  /\ step \in {"sync", "rename"}
  /\ tmp' = NoFile
  /\ step' = "idle"
  /\ UNCHANGED <<memory, file, on_disk>>

Journal ==
  /\ on_disk # file
  /\ on_disk' = file
  /\ UNCHANGED <<memory, step, tmp, file>>

----------------------------------------------------------------------------
(* Stopping and starting.                                                  *)

Stopped ==
  /\ step # "down"
  /\ step' = "down"
  /\ list' = Nothing
  /\ tmp' = NoFile
  /\ UNCHANGED <<granted, behind, unread, hidden>>

\* A signal, or a crash.  A temporary file that is left is truncated by the
\* next fopen, and counts as none.
Kill == Stopped /\ UNCHANGED <<file, on_disk>>

\* A file that was not synchronized keeps any part of its contents.
AfterPowerLoss(f) ==
  IF f = NoFile \/ f.durable
    THEN {f}
    ELSE {[records |-> kept, damage |-> "power loss", durable |-> TRUE] : kept \in SUBSET f.records}

PowerLoss ==
  /\ Stopped
  /\ file' \in AfterPowerLoss(file) \cup AfterPowerLoss(on_disk)
  /\ on_disk' = file'

\* Mutants: a restored server is given another period of validity; a bad record
\* ends the loading.
Mutant_Restored(r) == r.timeout + TIMEOUT_INFORESPONSE
Mutant_Accepted(f) == IF \E r \in f.records : r.server \in Unloadable THEN {} ELSE f.records

Restored(r) == r.timeout

\* The records that pass the tests of Sv_LoadState.  It wants a positive protocol
\* number and eight fields; HandleInfoResponse accepts any number, and an empty
\* game type, which leaves seven.
Accepted(f) == {r \in f.records : r.timeout > 0 /\ r.server \notin Unloadable}

\* Without the first line, which a damaged file may have lost, nothing is read.
Readable(f) == IF f = NoFile THEN {{}}
               ELSE IF f.damage = "none" THEN {Accepted(f)} ELSE {Accepted(f), {}}

\* SecureInit calls Sv_LoadState, and ignores its failure.
Start ==
  /\ step = "down"
  /\ step' = "idle"
  /\ \E R \in Readable(file) :
       /\ list' = [s \in Servers |-> IF \E r \in R : r.server = s
                                       THEN Restored(CHOOSE r \in R : r.server = s)
                                       ELSE NotListed]
       /\ unread' = (file # NoFile /\ R # Accepted(file))
  /\ behind' = FALSE
  /\ hidden' = {}
  /\ UNCHANGED <<tmp, file, on_disk, granted>>

LoadFails ==
  /\ step = "down"
  /\ file # NoFile
  /\ step' = "idle"
  /\ unread' = TRUE
  /\ behind' = FALSE
  /\ hidden' = {}
  /\ UNCHANGED <<list, tmp, file, on_disk, granted>>

Older(t) == IF t > 0 THEN t - 1 ELSE 0
OlderFile(f) ==
  IF f = NoFile THEN NoFile
  ELSE [f EXCEPT !.records = {[r EXCEPT !.timeout = Older(@)] : r \in f.records}]

\* One second on the clock, which the process does not see while it handles a
\* message.
Tick ==
  /\ step \in {"idle", "down"}
  /\ list' = [s \in Servers |-> IF Listed(s) /\ list[s] > 0 THEN list[s] - 1 ELSE NotListed]
  /\ file' = OlderFile(file)
  /\ on_disk' = OlderFile(on_disk)
  /\ granted' = [s \in Servers |-> Older(granted[s])]
  /\ UNCHANGED <<step, tmp, behind, unread, hidden>>

Init ==
  /\ list = Nothing
  /\ step = "down"
  /\ tmp = NoFile /\ file = NoFile /\ on_disk = NoFile
  /\ granted = [s \in Servers |-> 0]
  /\ behind = FALSE
  /\ unread = FALSE
  /\ hidden = {}

Next ==
  \/ \E s \in Servers : InfoResponse(s)
  \/ Write \/ OpenFails \/ Sync \/ Rename \/ CommitFails \/ Journal
  \/ Kill \/ PowerLoss \/ Start \/ LoadFails
  \/ Tick

Spec == Init /\ [][Next]_vars

----------------------------------------------------------------------------
(* Properties.                                                             *)

\* The variables have their types.
TypeOK ==
  /\ list \in [Servers -> Timeouts \cup {NotListed}]
  /\ step \in {"idle", "open", "sync", "rename", "down"}
  /\ {tmp, file, on_disk} \subseteq Files \cup {NoFile}
  /\ granted \in [Servers -> Timeouts]
  /\ {behind, unread} \subseteq BOOLEAN
  /\ hidden \subseteq Servers

\* "Snapshots are committed atomically" (doc/manual.txt:406): no crash, of the
\* process or of the machine, leaves a part of a snapshot as the state file.
CrashNeverTears == file # NoFile => file.damage # "power loss"

\* "Restored records keep their original expiration time" (doc/manual.txt:408):
\* over any number of restarts, neither the list nor the file holds a deadline
\* later than the last one an infoResponse of the server itself was given.
NeverExtended ==
  /\ \A s \in Servers : Listed(s) => list[s] <= granted[s]
  /\ file # NoFile => \A r \in file.records : r.timeout <= granted[r.server]

\* Between two saves, a kill loses no server whose record can be loaded, unless
\* the latest save failed or did not reach it.
KillLosesNothing ==
  step = "idle" /\ ~ behind =>
    \A s \in Servers \ (hidden \cup Unloadable) :
      Listed(s) /\ list[s] > 0 => file # NoFile /\ RecordOf(s) \in file.records

\* A new snapshot keeps every live server of the one it replaces, even when the
\* process has been restarted in between, except for those a write error or the
\* end of the loop left out, and unless the old file could not be read.
SnapshotsKeepServers ==
  [][Rename /\ file # NoFile /\ tmp.damage = "none" /\ ~ unread =>
       \A r \in Accepted(file) :
         \/ r.server \in hidden
         \/ \E q \in tmp.records : q.server = r.server /\ q.timeout >= r.timeout]_vars

\* "Validated and unexpired servers survive a process restart" (README.md:32-33).
SavedServersAreRestored ==
  [][Start /\ file # NoFile /\ file.damage = "none" =>
       \A r \in file.records : r.timeout > 0 => list'[r.server] # NotListed]_vars
=============================================================================
