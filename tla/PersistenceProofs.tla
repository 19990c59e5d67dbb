-------------------------- MODULE PersistenceProofs --------------------------
(***************************************************************************)
(* Theorems about Persistence, for any number of servers and any period    *)
(* of validity: a crash never tears the state file, and no number of       *)
(* restarts prolongs a server.                                             *)
(*                                                                         *)
(* CrashNeverTears rests on the order of fsync and rename: a file is       *)
(* durable before it gets its name, so that a power loss finds nothing to  *)
(* tear (Durability).  NeverExtended needs the deadlines of all the copies *)
(* of a server, in memory, in the files and on the disk, to be bounded by  *)
(* the last one it was granted (Bounded).                                  *)
(* KillLosesNothing and SnapshotsKeepServers need in addition what the     *)
(* list, the temporary file and the file know of each other (Saved).       *)
(***************************************************************************)
EXTENDS Persistence, TLAPS

WholeFile(f) == f # NoFile => f.damage # "power loss" /\ f.durable

Durability ==
  /\ WholeFile(file) /\ WholeFile(on_disk)
  /\ step \in {"sync", "rename"} => tmp \in Files /\ tmp.damage # "power loss"
  /\ step = "rename" => tmp.durable
  /\ step \notin {"sync", "rename"} => tmp = NoFile

BoundedFile(f) == f # NoFile => \A r \in f.records : r.timeout <= granted[r.server]

Bounded ==
  /\ \A s \in Servers : Listed(s) => list[s] <= granted[s]
  /\ BoundedFile(file) /\ BoundedFile(on_disk)
  /\ step \in {"sync", "rename"} => \A r \in tmp.records : r.timeout <= granted[r.server]

\* What every step preserves.
IInv == TypeOK /\ Durability /\ Bounded

\* A process that was never started has no file, and owes nothing.
LEMMA InitInv == Init => IInv
<1> SUFFICES ASSUME Init PROVE IInv
  OBVIOUS
<1>1. 0 \in Timeouts
  BY TimeAssumption DEF Timeouts
<1>2. TypeOK
  BY <1>1 DEF Init, TypeOK, Nothing
<1>3. Durability /\ Bounded
  BY DEF Init, Durability, Bounded, WholeFile, BoundedFile, Nothing, Listed
<1> QED BY <1>2, <1>3 DEF IInv

\* Records made of the list have their types and the deadlines of the list.
LEMMA SnapshotBounded ==
  ASSUME IInv, NEW reached \in SUBSET Servers, NEW written \in SUBSET Snapshot(reached)
  PROVE  /\ written \in SUBSET Records
         /\ \A r \in written : r.timeout <= granted[r.server]
<1>1. ASSUME NEW r \in written PROVE r \in Records /\ r.timeout <= granted[r.server]
  <2>1. PICK s \in reached : Listed(s) /\ list[s] > 0 /\ r = RecordOf(s)
    BY DEF Snapshot
  <2>2. s \in Servers /\ list[s] \in Timeouts
    BY <2>1 DEF IInv, TypeOK, Listed
  <2> QED BY <2>1, <2>2 DEF RecordOf, Records, IInv, Bounded
<1> QED BY <1>1

\* Nothing is left to lose of a durable file.
LEMMA DurableStays ==
  ASSUME NEW f, WholeFile(f), NEW g \in AfterPowerLoss(f)
  PROVE  g = f
  BY DEF WholeFile, AfterPowerLoss

\* Time passes for all the records of a file.
LEMMA OlderFileType ==
  ASSUME NEW f \in Files \cup {NoFile}
  PROVE  /\ OlderFile(f) \in Files \cup {NoFile}
         /\ WholeFile(f) => WholeFile(OlderFile(f))
         /\ f = NoFile => OlderFile(f) = NoFile
         /\ f # NoFile => \A q \in OlderFile(f).records :
              \E r \in f.records : q.server = r.server /\ q.timeout = Older(r.timeout)
<1>1. CASE f = NoFile
  BY <1>1 DEF OlderFile, WholeFile
<1>2. CASE f # NoFile
  <2> DEFINE R == {[r EXCEPT !.timeout = Older(@)] : r \in f.records}
  <2>1. f \in Files
    BY <1>2
  <2>2. \A r \in f.records : /\ r \in Records
                             /\ [r EXCEPT !.timeout = Older(@)] \in Records
                             /\ [r EXCEPT !.timeout = Older(@)].server = r.server
                             /\ [r EXCEPT !.timeout = Older(@)].timeout = Older(r.timeout)
    BY <2>1, TimeAssumption DEF Files, Records, Timeouts, Older
  <2>3. OlderFile(f) = [f EXCEPT !.records = R]
    BY <1>2 DEF OlderFile
  <2>4. R \in SUBSET Records
    BY <2>2
  <2>5. /\ OlderFile(f) \in Files /\ OlderFile(f).records = R
        /\ OlderFile(f).damage = f.damage /\ OlderFile(f).durable = f.durable
    <3> HIDE DEF R
    <3> QED BY <2>1, <2>3, <2>4 DEF Files
  <2> QED BY <1>2, <2>2, <2>5 DEF WholeFile
<1> QED BY <1>1, <1>2

\* Time shortens what a copy has left and what was granted alike.
LEMMA TickInv == IInv /\ Tick => IInv'
<1> SUFFICES ASSUME IInv, Tick PROVE IInv'
  OBVIOUS
<1>1. tmp = NoFile /\ tmp' = NoFile
  BY DEF IInv, Durability, Tick
<1>2. \A s \in Servers : granted[s] \in Timeouts /\ granted'[s] = Older(granted[s])
  BY DEF IInv, TypeOK, Tick
<1>3. \A t, u \in Timeouts : Older(t) \in Timeouts /\ (t <= u => Older(t) <= Older(u))
  BY TimeAssumption DEF Timeouts, Older
<1>4. ASSUME NEW f \in Files \cup {NoFile}, BoundedFile(f), OlderFile(f) # NoFile,
             NEW q \in OlderFile(f).records
      PROVE  q.timeout <= granted'[q.server]
  <2>1. f # NoFile /\ f \in Files
    BY <1>4, OlderFileType
  <2>2. PICK r \in f.records : q.server = r.server /\ q.timeout = Older(r.timeout)
    BY <2>1, OlderFileType
  <2>3. r.server \in Servers /\ r.timeout \in Timeouts
    BY <2>1, <2>2 DEF Files, Records
  <2>4. r.timeout <= granted[r.server]
    BY <1>4, <2>1 DEF BoundedFile
  <2> QED BY <1>2, <1>3, <2>2, <2>3, <2>4
<1>5. TypeOK'
  <2>1. list' \in [Servers -> Timeouts \cup {NotListed}]
    <3>1. \A t \in Timeouts : t > 0 => t - 1 \in Timeouts
      BY TimeAssumption DEF Timeouts
    <3>2. \A s \in Servers : Listed(s) => list[s] \in Timeouts
      BY DEF IInv, TypeOK, Listed
    <3> QED BY <3>1, <3>2 DEF Tick
  <2>2. granted' \in [Servers -> Timeouts]
    BY <1>2, <1>3 DEF Tick
  <2>3. {tmp, file, on_disk}' \subseteq Files \cup {NoFile}
    BY <1>1, OlderFileType DEF IInv, TypeOK, Tick
  <2> QED BY <2>1, <2>2, <2>3 DEF IInv, TypeOK, Tick
<1>6. Durability'
  BY <1>1, OlderFileType DEF IInv, TypeOK, Durability, Tick
<1>7. Bounded'
  <2>1. ASSUME NEW s \in Servers, Listed(s)' PROVE list'[s] <= granted'[s]
    <3>1. list[s] \in Timeouts /\ list[s] > 0 /\ list'[s] = Older(list[s]) /\ Listed(s)
      BY <2>1 DEF IInv, TypeOK, Tick, Listed, Older
    <3> QED BY <1>2, <1>3, <3>1 DEF IInv, Bounded
  <2>2. BoundedFile(file)' /\ BoundedFile(on_disk)'
    BY <1>4 DEF IInv, TypeOK, Bounded, Tick, BoundedFile
  <2> QED BY <2>1, <2>2 DEF Bounded, Tick
<1> QED BY <1>5, <1>6, <1>7 DEF IInv

\* The next-state relation, one step per action.
LEMMA NextInv == IInv /\ [Next]_vars => IInv'
<1> SUFFICES ASSUME IInv, [Next]_vars PROVE IInv'
  OBVIOUS
<1> USE DEF IInv
<1>1. ASSUME NEW s \in Servers, InfoResponse(s) PROVE IInv'
  <2>1. TypeOK'
    BY <1>1, TimeAssumption DEF InfoResponse, TypeOK, Timeouts
  <2>2. Durability'
    BY <1>1 DEF InfoResponse, Durability
  <2>3. \A f \in Files \cup {NoFile} : f # NoFile => \A r \in f.records :
          r.server \in Servers /\ r.timeout \in Timeouts
    BY DEF Files, Records
  <2>4. \A x \in Servers, t \in Timeouts : t <= granted[x] => t <= granted'[x]
    BY <1>1, TimeAssumption DEF InfoResponse, TypeOK, Timeouts
  <2>5. \A x \in Servers : Listed(x)' => list'[x] <= granted'[x]
    BY <1>1, TimeAssumption DEF InfoResponse, TypeOK, Timeouts, Bounded, Listed
  <2>6. BoundedFile(file)' /\ BoundedFile(on_disk)'
    BY <1>1, <2>3, <2>4 DEF InfoResponse, TypeOK, Bounded, BoundedFile
  <2> QED BY <1>1, <2>1, <2>2, <2>5, <2>6 DEF Bounded, InfoResponse
<1>2. CASE Write
  <2>0. PICK reached \in SUBSET Servers :
          /\ hidden' = {s \in Servers \ reached : Listed(s)}
          /\ \E written \in SUBSET Snapshot(reached) :
               tmp' = [records |-> written,
                       damage  |-> IF written = Snapshot(reached) THEN "none" ELSE "write error",
                       durable |-> FALSE]
    BY <1>2 DEF Write
  <2>1. PICK written \in SUBSET Snapshot(reached) :
             tmp' = [records |-> written,
                     damage  |-> IF written = Snapshot(reached) THEN "none" ELSE "write error",
                     durable |-> FALSE]
    BY <2>0
  <2>2. written \in SUBSET Records /\ \A r \in written : r.timeout <= granted[r.server]
    BY SnapshotBounded
  <2>3. tmp' \in Files /\ tmp'.damage # "power loss" /\ tmp'.records = written
    BY <2>1, <2>2 DEF Files, Damages
  <2>4. TypeOK'
    BY <1>2, <2>0, <2>3 DEF Write, TypeOK
  <2>5. Durability'
    BY <1>2, <2>3 DEF Write, Durability, WholeFile
  <2>6. Bounded'
    BY <1>2, <2>2, <2>3 DEF Write, Bounded, BoundedFile, Listed
  <2> QED BY <2>4, <2>5, <2>6
<1>3. CASE OpenFails
  BY <1>3 DEF OpenFails, memory, TypeOK, Durability, Bounded, WholeFile, BoundedFile, Listed
<1>4. CASE Sync
  <2>1. tmp \in Files /\ tmp.damage # "power loss"
    BY <1>4 DEF Sync, Durability
  <2>2. tmp' \in Files /\ tmp'.damage = tmp.damage /\ tmp'.durable = TRUE
          /\ tmp'.records = tmp.records
    BY <1>4, <2>1 DEF Sync, Files
  <2>3. TypeOK'
    BY <1>4, <2>2 DEF Sync, memory, TypeOK
  <2>4. Durability'
    BY <1>4, <2>1, <2>2 DEF Sync, memory, Durability, WholeFile
  <2>5. Bounded'
    BY <1>4, <2>2 DEF Sync, memory, Bounded, BoundedFile, Listed
  <2> QED BY <2>3, <2>4, <2>5
<1>5. CASE Rename
  <2>1. tmp \in Files /\ tmp.damage # "power loss" /\ tmp.durable
    BY <1>5 DEF Rename, Durability
  <2>2. TypeOK'
    BY <1>5, <2>1 DEF Rename, TypeOK
  <2>3. Durability'
    BY <1>5, <2>1 DEF Rename, Durability, WholeFile
  <2>4. Bounded'
    BY <1>5 DEF Rename, Bounded, BoundedFile, Listed
  <2> QED BY <2>2, <2>3, <2>4
<1>6. CASE CommitFails
  BY <1>6 DEF CommitFails, memory, TypeOK, Durability, Bounded, WholeFile, BoundedFile, Listed
<1>7. CASE Journal
  BY <1>7 DEF Journal, memory, TypeOK, Durability, Bounded, WholeFile, BoundedFile, Listed
<1>8. CASE Kill
  BY <1>8 DEF Kill, Stopped, TypeOK, Durability, Bounded, WholeFile, BoundedFile, Listed, Nothing
<1>9. CASE PowerLoss
  <2>1. file' \in {file, on_disk} /\ on_disk' = file'
    BY <1>9, DurableStays DEF PowerLoss, Durability
  <2>2. TypeOK'
    BY <1>9, <2>1 DEF PowerLoss, Stopped, TypeOK, Nothing
  <2>3. Durability'
    BY <1>9, <2>1 DEF PowerLoss, Stopped, Durability, WholeFile
  <2>4. Bounded'
    BY <1>9, <2>1 DEF PowerLoss, Stopped, Bounded, BoundedFile, Listed, Nothing
  <2> QED BY <2>2, <2>3, <2>4
<1>10. CASE Start
  <2>1. PICK R \in Readable(file) :
          /\ list' = [s \in Servers |-> IF \E r \in R : r.server = s
                                          THEN Restored(CHOOSE r \in R : r.server = s)
                                          ELSE NotListed]
          /\ unread' = (file # NoFile /\ R # Accepted(file))
    BY <1>10 DEF Start
  <2>2. ASSUME NEW r \in R PROVE file # NoFile /\ r \in file.records /\ r \in Records
    BY <2>2 DEF Readable, Accepted, TypeOK, Files
  <2>3. ASSUME NEW s \in Servers
        PROVE  /\ list'[s] \in Timeouts \cup {NotListed}
               /\ list'[s] # NotListed => list'[s] <= granted[s]
    <3>1. CASE \E r \in R : r.server = s
      <4>1. PICK r \in R : r.server = s /\ list'[s] = r.timeout
        BY <2>1, <3>1 DEF Restored
      <4> QED BY <2>2, <4>1 DEF Records, Bounded, BoundedFile
    <3>2. CASE ~ \E r \in R : r.server = s
      BY <2>1, <3>2
    <3> QED BY <3>1, <3>2
  <2>4. TypeOK'
    BY <1>10, <2>1, <2>3 DEF Start, TypeOK
  <2>5. Durability'
    BY <1>10 DEF Start, Durability, WholeFile
  <2>6. Bounded'
    BY <1>10, <2>3 DEF Start, Bounded, BoundedFile, Listed
  <2> QED BY <2>4, <2>5, <2>6
<1>11. CASE LoadFails
  BY <1>11 DEF LoadFails, TypeOK, Durability, Bounded, WholeFile, BoundedFile, Listed
<1>12. CASE Tick
  BY <1>12, TickInv
<1>13. CASE UNCHANGED vars
  BY <1>13 DEF vars, TypeOK, Durability, Bounded, WholeFile, BoundedFile, Listed
<1> QED
  BY <1>1, <1>2, <1>3, <1>4, <1>5, <1>6, <1>7, <1>8, <1>9, <1>10, <1>11, <1>12, <1>13 DEF Next

\* The invariant holds in every reachable state.
LEMMA Invariance == Spec => []IInv
  BY InitInv, NextInv, PTL DEF Spec

----------------------------------------------------------------------------
(***************************************************************************)
(* What the file, the temporary file and the memory know of each other:    *)
(* the temporary file is a snapshot of the list, the list has whatever can *)
(* be read from the file, and the file has whatever is listed once a save  *)
(* has succeeded.                                                          *)
(***************************************************************************)
Live(s) == Listed(s) /\ list[s] > 0

Covered(records) == \A s \in Servers \ hidden : Live(s) => RecordOf(s) \in records

TmpIsSnapshot ==
  step \in {"sync", "rename"} =>
    /\ \A r \in tmp.records : r.server \in Servers /\ Live(r.server) /\ r = RecordOf(r.server)
    /\ tmp.damage = "none" => Covered(tmp.records)

ListHasFile ==
  step # "down" /\ ~ unread /\ file # NoFile =>
    \A r \in Accepted(file) : Listed(r.server) /\ r.timeout <= list[r.server]

FileHasList ==
  step = "idle" /\ ~ behind =>
    \A s \in Servers \ (hidden \cup Unloadable) :
      Live(s) => file # NoFile /\ RecordOf(s) \in file.records

OnePerServer(f) == f # NoFile => \A r, q \in f.records : r.server = q.server => r = q

Saved ==
  /\ OnePerServer(file) /\ OnePerServer(on_disk)
  /\ TmpIsSnapshot /\ ListHasFile /\ FileHasList
  /\ step \in {"open", "sync", "rename"} => behind
  /\ step = "down" => list = Nothing

\* Without a file nothing is claimed.
LEMMA SavedInit == Init => Saved
  BY DEF Init, Saved, TmpIsSnapshot, ListHasFile, FileHasList, Live, Listed, Nothing,
     OnePerServer

\* Write turns the list into the temporary file, less what it does not reach.
LEMMA SavedWrite == IInv /\ Saved /\ Write => Saved'
<1> SUFFICES ASSUME IInv, Saved, Write PROVE Saved'
  OBVIOUS
<1>1. PICK reached \in SUBSET Servers :
        /\ hidden' = {s \in Servers \ reached : Listed(s)}
        /\ \E written \in SUBSET Snapshot(reached) :
             tmp' = [records |-> written,
                     damage  |-> IF written = Snapshot(reached) THEN "none" ELSE "write error",
                     durable |-> FALSE]
  BY DEF Write
<1>2. PICK written \in SUBSET Snapshot(reached) :
        tmp' = [records |-> written,
                damage  |-> IF written = Snapshot(reached) THEN "none" ELSE "write error",
                durable |-> FALSE]
  BY <1>1
<1>3. list' = list /\ file' = file /\ step = "open" /\ step' = "sync" /\ behind' = behind
        /\ unread' = unread
  BY DEF Write
<1>4. ASSUME NEW r \in written
      PROVE  r.server \in Servers /\ Live(r.server) /\ r = RecordOf(r.server)
  BY DEF Snapshot, Live, RecordOf
<1>5. ASSUME written = Snapshot(reached), NEW s \in Servers \ hidden', Live(s)
      PROVE  RecordOf(s) \in written
  BY <1>1, <1>5 DEF Snapshot, Live
<1>6. TmpIsSnapshot'
  <2>1. tmp'.records = written /\ (tmp'.damage = "none" => written = Snapshot(reached))
    BY <1>2
  <2>2. \A s : (Live(s))' = Live(s) /\ RecordOf(s)' = RecordOf(s)
    BY <1>3 DEF Live, Listed, RecordOf
  <2> QED BY <1>4, <1>5, <2>1, <2>2 DEF TmpIsSnapshot, Covered
<1>7. ListHasFile'
  BY <1>3 DEF Saved, ListHasFile, Accepted, Listed
<1>8. (OnePerServer(file) /\ OnePerServer(on_disk))'
  BY DEF Write, Saved, OnePerServer
<1> QED BY <1>3, <1>6, <1>7, <1>8 DEF Saved, FileHasList

\* The snapshot that takes the name has what is listed.
LEMMA SavedRename == IInv /\ Saved /\ Rename => Saved'
<1> SUFFICES ASSUME IInv, Saved, Rename PROVE Saved'
  OBVIOUS
<1>1. /\ list' = list /\ hidden' = hidden /\ file' = tmp
      /\ step = "rename" /\ step' = "idle" /\ behind' = (tmp.damage # "none")
  BY DEF Rename
<1>2. file' # NoFile
  BY <1>1, AbsenceAssumption DEF IInv, Durability
<1>3. \A r \in tmp.records : r.server \in Servers /\ Live(r.server) /\ r = RecordOf(r.server)
  BY <1>1 DEF Saved, TmpIsSnapshot
<1>4. \A s \in Servers : Live(s) => list[s] \in Timeouts
  BY DEF IInv, TypeOK, Live, Listed
<1>5. ListHasFile'
  BY <1>1, <1>3, <1>4, TimeAssumption DEF ListHasFile, Accepted, Live, Listed, RecordOf, Timeouts
<1>6. FileHasList'
  BY <1>1, <1>2 DEF Saved, TmpIsSnapshot, Covered, FileHasList, Live, Listed, RecordOf
<1>7. (OnePerServer(file) /\ OnePerServer(on_disk))'
  BY <1>3 DEF Rename, Saved, OnePerServer
<1> QED BY <1>1, <1>5, <1>6, <1>7 DEF Saved, TmpIsSnapshot

\* What is loaded is what the file has: the list and the file agree.
LEMMA SavedStart == IInv /\ Saved /\ Start => Saved'
<1> SUFFICES ASSUME IInv, Saved, Start PROVE Saved'
  OBVIOUS
<1>1. PICK R \in Readable(file) :
        /\ list' = [s \in Servers |-> IF \E r \in R : r.server = s
                                        THEN Restored(CHOOSE r \in R : r.server = s)
                                        ELSE NotListed]
        /\ unread' = (file # NoFile /\ R # Accepted(file))
  BY DEF Start
<1>2. file' = file /\ step' = "idle"
  BY DEF Start
<1>3. ASSUME NEW r \in R PROVE file # NoFile /\ r \in file.records /\ r \in Records
  BY <1>3 DEF Readable, Accepted, IInv, TypeOK, Files
<1>4. ASSUME NEW s \in Servers, list'[s] # NotListed
      PROVE  \E r \in R : r.server = s /\ list'[s] = r.timeout
  BY <1>1, <1>4 DEF Restored
<1>5. FileHasList'
  <2> SUFFICES ASSUME NEW s \in Servers, list'[s] # NotListed
               PROVE  file # NoFile /\ [server |-> s, timeout |-> list'[s]] \in file.records
    BY <1>2 DEF FileHasList, Live, Listed, RecordOf
  <2>1. PICK r \in R : r.server = s /\ list'[s] = r.timeout
    BY <1>4
  <2>2. r = [server |-> s, timeout |-> list'[s]]
    BY <1>3, <2>1 DEF Records
  <2> QED BY <1>3, <2>2
<1>6. ListHasFile'
  <2> SUFFICES ASSUME file # NoFile, R = Accepted(file), NEW r \in Accepted(file)
               PROVE  list'[r.server] # NotListed /\ r.timeout <= list'[r.server]
    BY <1>1, <1>2 DEF ListHasFile, Accepted, Listed
  <2>1. r \in R /\ r \in Records
    BY <1>3
  <2>2. PICK q \in R : q.server = r.server /\ list'[r.server] = q.timeout
    BY <1>1, <2>1 DEF Restored, Records
  <2>3. q = r
    BY <1>3, <2>1, <2>2 DEF Saved, OnePerServer
  <2> QED BY <2>1, <2>2, <2>3, AbsenceAssumption, TimeAssumption DEF Records, Timeouts
<1>7. (OnePerServer(file) /\ OnePerServer(on_disk))'
  BY DEF Start, Saved, OnePerServer
<1> QED BY <1>2, <1>5, <1>6, <1>7 DEF Saved, TmpIsSnapshot

\* A record that is a second older.
LEMMA OlderRecord ==
  ASSUME NEW r \in Records
  PROVE  [r EXCEPT !.timeout = Older(@)] = [server |-> r.server, timeout |-> Older(r.timeout)]
  BY DEF Records

\* A record and its entry lose their seconds together.
LEMMA SavedTick == IInv /\ Saved /\ Tick => Saved'
<1> SUFFICES ASSUME IInv, Saved, Tick PROVE Saved'
  OBVIOUS
<1>1. /\ file' = OlderFile(file) /\ on_disk' = OlderFile(on_disk)
      /\ step' = step /\ step \in {"idle", "down"}
      /\ behind' = behind /\ unread' = unread /\ hidden' = hidden
      /\ list' = [s \in Servers |-> IF Listed(s) /\ list[s] > 0 THEN list[s] - 1 ELSE NotListed]
  BY DEF Tick
<1>2. \A s \in Servers : Live(s) => list[s] \in Timeouts /\ list'[s] = Older(list[s])
  BY <1>1 DEF IInv, TypeOK, Live, Listed, Older
<1>3. ASSUME NEW f \in {file, on_disk}, OlderFile(f) # NoFile
      PROVE  /\ f # NoFile /\ f \in Files /\ f.records \in SUBSET Records
             /\ OlderFile(f).records
                  = {[server |-> r.server, timeout |-> Older(r.timeout)] : r \in f.records}
  <2>1. f # NoFile /\ f \in Files
    BY <1>3 DEF IInv, TypeOK, OlderFile
  <2>2. OlderFile(f).records = {[r EXCEPT !.timeout = Older(@)] : r \in f.records}
    BY <2>1 DEF OlderFile, Files
  <2>3. f.records \in SUBSET Records
    BY <2>1 DEF Files
  <2>4. \A r \in f.records :
          [r EXCEPT !.timeout = Older(@)] = [server |-> r.server, timeout |-> Older(r.timeout)]
    BY <2>3, OlderRecord
  <2> QED BY <2>1, <2>2, <2>3, <2>4
<1>4. ASSUME NEW f \in {file, on_disk}, OlderFile(f) # NoFile PROVE OnePerServer(OlderFile(f))
  <2>1. OnePerServer(f)
    BY DEF Saved
  <2> QED BY <1>3, <1>4, <2>1 DEF OnePerServer
<1>5. ListHasFile'
  <2> SUFFICES ASSUME step # "down", ~ unread, file' # NoFile, NEW q \in Accepted(file')
               PROVE  list'[q.server] # NotListed /\ q.timeout <= list'[q.server]
    BY <1>1 DEF ListHasFile, Accepted, Listed
  <2>1. PICK r \in file.records : q = [server |-> r.server, timeout |-> Older(r.timeout)]
    BY <1>1, <1>3 DEF Accepted
  <2>2. r \in Records /\ file # NoFile
    BY <1>1, <1>3
  <2>3. q.timeout > 0 /\ q.server \notin Unloadable
    BY DEF Accepted
  <2>4. r.timeout \in Nat /\ r.timeout > 0 /\ q.timeout = r.timeout - 1
    BY <2>1, <2>2, <2>3, TimeAssumption DEF Records, Timeouts, Older
  <2>5. Listed(r.server) /\ r.timeout <= list[r.server]
    BY <2>1, <2>2, <2>3, <2>4 DEF Saved, ListHasFile, Accepted
  <2>6. r.server \in Servers /\ list[r.server] \in Nat
    BY <2>2, <2>5, TimeAssumption DEF IInv, TypeOK, Listed, Timeouts, Records
  <2>7. list'[r.server] = list[r.server] - 1
    BY <1>1, <2>4, <2>5, <2>6
  <2> QED BY <2>1, <2>4, <2>5, <2>6, <2>7, AbsenceAssumption
<1>6. FileHasList'
  <2> SUFFICES ASSUME step = "idle", ~ behind, NEW s \in Servers \ (hidden \cup Unloadable),
                      list'[s] # NotListed, list'[s] > 0
               PROVE  /\ file' # NoFile
                      /\ [server |-> s, timeout |-> list'[s]] \in file'.records
    BY <1>1 DEF FileHasList, Live, Listed, RecordOf
  <2>1. Live(s)
    BY <1>1 DEF Live
  <2>2. file # NoFile /\ RecordOf(s) \in file.records
    BY <2>1 DEF Saved, FileHasList
  <2>3. file' # NoFile
    <3>1. file \in Files
      BY <2>2 DEF IInv, TypeOK
    <3>2. OlderFile(file) = [file EXCEPT !.records =
                               {[r EXCEPT !.timeout = Older(@)] : r \in file.records}]
      BY <2>2 DEF OlderFile
    <3>3. {[r EXCEPT !.timeout = Older(@)] : r \in file.records} \in SUBSET Records
      BY <3>1, TimeAssumption DEF Files, Records, Timeouts, Older
    <3>4. OlderFile(file) \in Files
      BY <3>1, <3>2, <3>3 DEF Files
    <3> QED BY <1>1, <3>4, AbsenceAssumption
  <2>4. [server |-> s, timeout |-> Older(list[s])] \in file'.records
    BY <1>1, <1>3, <2>2, <2>3 DEF RecordOf
  <2> QED BY <1>2, <2>1, <2>3, <2>4
<1>7. step = "down" => list' = Nothing
  BY <1>1 DEF Saved, Nothing, Listed
<1>8. OnePerServer(file)' /\ OnePerServer(on_disk)'
  BY <1>1, <1>4 DEF OnePerServer
<1> QED BY <1>1, <1>5, <1>6, <1>7, <1>8 DEF Saved, TmpIsSnapshot

\* The next-state relation, one step per action.
LEMMA SavedNext == IInv /\ Saved /\ [Next]_vars => Saved'
<1> SUFFICES ASSUME IInv, Saved, [Next]_vars PROVE Saved'
  OBVIOUS
<1> USE DEF Saved
<1>1. ASSUME NEW s \in Servers, InfoResponse(s) PROVE Saved'
  <2>1. ListHasFile'
    <3> SUFFICES ASSUME ~ unread, file # NoFile, NEW r \in Accepted(file)
                 PROVE  list'[r.server] # NotListed /\ r.timeout <= list'[r.server]
      BY <1>1 DEF InfoResponse, ListHasFile, Accepted, Listed
    <3>1. r \in Records
      BY DEF Accepted, IInv, TypeOK, Files
    <3>2. CASE r.server = s
      BY <1>1, <3>1, <3>2, TimeAssumption, AbsenceAssumption
         DEF InfoResponse, IInv, TypeOK, Records, Timeouts
    <3>3. CASE r.server # s
      BY <1>1, <3>1, <3>3 DEF InfoResponse, IInv, TypeOK, ListHasFile, Listed, Records
    <3> QED BY <3>2, <3>3
  <2> QED BY <1>1, <2>1 DEF InfoResponse, TmpIsSnapshot, FileHasList, OnePerServer
<1>2. CASE Write
  BY <1>2, SavedWrite
<1>3. CASE OpenFails
  BY <1>3 DEF OpenFails, memory, TmpIsSnapshot, ListHasFile, FileHasList, OnePerServer, Accepted,
     Listed
<1>4. CASE Sync
  <2>1. tmp \in Files /\ tmp'.damage = tmp.damage /\ tmp'.records = tmp.records
    BY <1>4 DEF Sync, IInv, Durability, Files
  <2>2. TmpIsSnapshot'
    BY <1>4, <2>1 DEF Sync, memory, TmpIsSnapshot, Covered, Live, Listed, RecordOf
  <2> QED BY <1>4, <2>2 DEF Sync, memory, ListHasFile, FileHasList, OnePerServer, Accepted, Listed
<1>5. CASE Rename
  BY <1>5, SavedRename
<1>6. CASE CommitFails
  BY <1>6 DEF CommitFails, memory, TmpIsSnapshot, ListHasFile, FileHasList, OnePerServer, Accepted,
     Listed
<1>7. CASE Journal
  BY <1>7 DEF Journal, memory, TmpIsSnapshot, Covered, ListHasFile, FileHasList, OnePerServer,
     Accepted, Live, Listed, RecordOf
<1>8. CASE Kill
  BY <1>8 DEF Kill, Stopped, TmpIsSnapshot, ListHasFile, FileHasList, OnePerServer
<1>9. CASE PowerLoss
  <2>1. file' \in {file, on_disk} /\ on_disk' = file'
    BY <1>9, DurableStays DEF PowerLoss, IInv, Durability
  <2> QED BY <1>9, <2>1 DEF PowerLoss, Stopped, TmpIsSnapshot, ListHasFile, FileHasList, OnePerServer
<1>10. CASE Start
  BY <1>10, SavedStart
<1>11. CASE LoadFails
  BY <1>11 DEF LoadFails, TmpIsSnapshot, ListHasFile, FileHasList, OnePerServer, Live, Listed, Nothing
<1>12. CASE Tick
  BY <1>12, SavedTick
<1>13. CASE UNCHANGED vars
  BY <1>13 DEF vars, TmpIsSnapshot, Covered, ListHasFile, FileHasList, OnePerServer, Accepted,
     Live, Listed, RecordOf
<1> QED
  BY <1>1, <1>2, <1>3, <1>4, <1>5, <1>6, <1>7, <1>8, <1>9, <1>10, <1>11, <1>12, <1>13 DEF Next

\* The list and the files agree in every reachable state.
LEMMA SavedInvariance == Spec => []Saved
  BY SavedInit, SavedNext, Invariance, PTL DEF Spec

\* The variables have their types, for any servers and period of validity.
THEOREM TypeCorrect == Spec => []TypeOK
<1>1. IInv => TypeOK
  BY DEF IInv
<1> QED BY <1>1, Invariance, PTL

\* No kill, no power loss and no failed call, at any step of Sv_SaveState, leaves
\* a torn snapshot under the name of the state file.
THEOREM NothingIsTorn == Spec => []CrashNeverTears
<1>1. IInv => CrashNeverTears
  BY DEF IInv, Durability, WholeFile, CrashNeverTears
<1> QED BY <1>1, Invariance, PTL

\* Through any number of saves and restarts, no copy of a server outlives the
\* deadline that its own latest infoResponse was granted.
THEOREM NothingIsProlonged == Spec => []NeverExtended
<1>1. IInv => NeverExtended
  BY DEF IInv, Bounded, BoundedFile, NeverExtended
<1> QED BY <1>1, Invariance, PTL

\* A kill between two saves loses no loadable server, unless the latest save failed
\* or did not reach it: what is listed is in the file, with its deadline.
THEOREM KillsLoseNothing == Spec => []KillLosesNothing
<1>1. Saved => KillLosesNothing
  BY DEF Saved, FileHasList, Live, KillLosesNothing
<1> QED BY <1>1, SavedInvariance, PTL

\* A complete snapshot that replaces a file which was read has every live server
\* of that file, except for those the loop over the slots did not reach.
THEOREM NothingIsDropped == Spec => SnapshotsKeepServers
<1> DEFINE Keeps ==
      Rename /\ file # NoFile /\ tmp.damage = "none" /\ ~ unread =>
        \A r \in Accepted(file) :
          \/ r.server \in hidden
          \/ \E q \in tmp.records : q.server = r.server /\ q.timeout >= r.timeout
<1>1. IInv /\ Saved => Keeps
  <2> SUFFICES ASSUME IInv, Saved, step = "rename", file # NoFile, tmp.damage = "none", ~ unread,
                      NEW r \in Accepted(file), r.server \notin hidden
               PROVE  \E q \in tmp.records : q.server = r.server /\ q.timeout >= r.timeout
    BY DEF Rename
  <2>1. r \in Records /\ r.timeout > 0
    BY DEF IInv, TypeOK, Accepted, Files
  <2>2. Listed(r.server) /\ r.timeout <= list[r.server]
    BY DEF Saved, ListHasFile
  <2>3. r.server \in Servers /\ list[r.server] \in Nat /\ r.timeout \in Nat
    BY <2>1, <2>2, TimeAssumption DEF IInv, TypeOK, Listed, Records, Timeouts
  <2>4. RecordOf(r.server) \in tmp.records
    BY <2>1, <2>2, <2>3 DEF Saved, TmpIsSnapshot, Covered, Live
  <2>5. RecordOf(r.server).server = r.server /\ RecordOf(r.server).timeout >= r.timeout
    BY <2>2, <2>3 DEF RecordOf
  <2> QED BY <2>4, <2>5
<1>2. [](IInv /\ Saved) => [][Keeps]_vars
  BY <1>1, PTL
<1> QED BY <1>2, Invariance, SavedInvariance, PTL DEF SnapshotsKeepServers
=============================================================================
