------------------------------ MODULE Storage ------------------------------
(***************************************************************************)
(* Where the supervisor's state is saved: one JSON file replaced at every  *)
(* save, until its image outgrows 8 MiB; then the first oversized save     *)
(* imports the file into a new database, commits there and replaces the    *)
(* file by a manifest that names the database.  Saves fail at every step,  *)
(* commits end with an outcome nobody knows, processes die and power is    *)
(* lost.  An operation adds one record; saved state is a set of records.   *)
(* Source: src/server.rs (persist, load), server/storage.rs,               *)
(* server/storage/views.rs, record_store/, workspace.rs (atomic_write).    *)
(***************************************************************************)
EXTENDS Naturals, FiniteSets

CONSTANTS
  Ops,        \* operations of clients, each with its own request
  None,       \* no operation
  Fit,        \* records that fit an image of 8 MiB
  MaxDb,      \* bound: databases ever prepared
  MaxFaults,  \* bound: I/O errors
  MaxCrash    \* bound: deaths of the process and power losses

ASSUME StorageAssumption ==
  /\ None \notin Ops /\ IsFiniteSet(Ops)
  /\ Fit \in Nat /\ MaxDb \in Nat /\ MaxFaults \in Nat /\ MaxCrash \in Nat

VARIABLES
  file,       \* what workspaces.v2.json holds
  fileMay,    \* what it may hold after a power loss
  db,         \* db[d]: the d-th database directory
  up,         \* the supervisor runs
  mem,        \* the records it answers from
  serving,    \* the database of its Storage, 0 while it has none
  unresolved, \* Storage.unresolved: the outcome of a save is unknown
  save,       \* the save under way
  report,     \* report[o]: what the client was last told
  exposed,    \* history: a manifest was loaded that a power loss could undo
  faults, crashes

disk == <<file, fileMay, db>>
process == <<up, mem, serving, unresolved, save>>
vars == <<disk, process, report, exposed, faults, crashes>>

Dbs == 1..MaxDb
Records == SUBSET Ops

\* The file is an image of the records or names the database that holds them.
Image(s) == [names |-> 0, image |-> s]
Manifest(d) == [names |-> d, image |-> {}]
Files == [names : 0..MaxDb, image : Records]

\* What the next open of a database may find, and what a power loss may leave.
Absent == [found |-> {}, may |-> {}]
Holding(s) == [found |-> {s}, may |-> {s}]
Database == [found : SUBSET Records, may : SUBSET Records]

\* pc: write, renamed (a file being replaced); import, commit, committing,
\* uncertain, barrier (a database); reread (a manifest whose write failed).
NoSave == [pc |-> "idle", op |-> None, source |-> {}, db |-> 0]
Steps == {"idle", "write", "renamed", "import", "commit", "committing", "uncertain",
          "barrier", "reread"}

Init ==
  /\ file = Image({}) /\ fileMay = {file} /\ db = [d \in Dbs |-> Absent]
  /\ up = TRUE /\ mem = {} /\ serving = 0 /\ unresolved = FALSE /\ save = NoSave
  /\ report = [o \in Ops |-> "none"] /\ exposed = FALSE
  /\ faults = 0 /\ crashes = 0

Fault == faults < MaxFaults /\ faults' = faults + 1

----------------------------------------------------------------------------
(* How a save ends.                                                          *)

Told(o, answer) == report' = [report EXCEPT ![o] = answer]

Saves(d) ==
  /\ mem' = mem \union {save.op} /\ serving' = d
  /\ save' = NoSave /\ Told(save.op, "saved") /\ UNCHANGED unresolved

\* The caller takes the change back.  A failure of a save to the database in service
\* is verified; the file may have been replaced.
Fails ==
  /\ save' = NoSave /\ Told(save.op, IF serving = 0 THEN "failed" ELSE "rejected")
  /\ UNCHANGED <<mem, serving, unresolved>>

\* Mutant: a lost outcome leaves storage in service.
Forgotten(d) ==
  /\ serving' = d /\ save' = NoSave /\ Told(save.op, "lost") /\ UNCHANGED <<mem, unresolved>>

\* Storage is out of service.
Unresolved(d) ==
  /\ unresolved' = TRUE /\ serving' = d
  /\ save' = NoSave /\ Told(save.op, "lost") /\ UNCHANGED mem

Goes(pc) == save' = [save EXCEPT !.pc = pc] /\ UNCHANGED <<mem, serving, unresolved, report>>

----------------------------------------------------------------------------
(* A client's operation, or its retry, which a saved record answers.         *)

Oversized(s) == Cardinality(s) > Fit

Request(o) ==
  /\ up /\ ~unresolved /\ save = NoSave /\ report[o] # "saved"
  /\ \/ o \in mem /\ Told(o, "found") /\ UNCHANGED save
     \/ /\ o \notin mem /\ Told(o, "pending")
        /\ \/ /\ serving # 0
              /\ save' = [NoSave EXCEPT !.pc = "commit", !.op = o, !.db = serving]
           \/ /\ serving = 0 /\ ~Oversized(mem \union {o})
              /\ save' = [NoSave EXCEPT !.pc = "write", !.op = o]
           \/ /\ serving = 0 /\ Oversized(mem \union {o})
              /\ save' = [NoSave EXCEPT !.pc = "import", !.op = o, !.source = file.image]
  /\ UNCHANGED <<disk, up, mem, serving, unresolved, exposed, faults, crashes>>

----------------------------------------------------------------------------
(* atomic_write: a synced temporary file is renamed, then the directory is    *)
(* synced.  It writes the image, or the manifest of a prepared database.      *)

Written == IF save.db = 0 THEN Image(mem \union {save.op}) ELSE Manifest(save.db)

Rename ==
  /\ save.pc = "write"
  /\ file' = Written /\ fileMay' = fileMay \union {Written}
  /\ Goes("renamed") /\ UNCHANGED <<db, up, exposed, faults, crashes>>

DirectorySynced ==
  /\ save.pc = "renamed"
  /\ fileMay' = {file} /\ Saves(save.db)
  /\ UNCHANGED <<file, db, up, exposed, faults, crashes>>

WriteFails ==
  /\ save.pc \in {"write", "renamed"} /\ Fault
  /\ IF save.db = 0 THEN Fails ELSE Goes("reread")
  /\ UNCHANGED <<disk, up, exposed, crashes>>

\* Mutant: the marker that was read back is not synced.
RereadMarker ==
  /\ save.pc = "reread" /\ file = Manifest(save.db)
  /\ Saves(save.db) /\ UNCHANGED <<disk, up, exposed, faults, crashes>>

\* fence_marker: the exact marker is there and is synced.
FenceMarker ==
  /\ save.pc = "reread" /\ file = Manifest(save.db)
  /\ fileMay' = {file} /\ Saves(save.db)
  /\ UNCHANGED <<file, db, up, exposed, faults, crashes>>

FenceFails ==
  /\ save.pc = "reread"
  /\ \/ file # Manifest(save.db) /\ UNCHANGED faults
     \/ file = Manifest(save.db) /\ Fault
  /\ Unresolved(save.db) /\ UNCHANGED <<disk, up, exposed, crashes>>

\* Another file of the directory is written (ui.json, by a thread of its own or by the
\* frontend): what was renamed is synced with it, even if its own save failed.
OthersSync ==
  /\ fileMay' = {file}
  /\ UNCHANGED <<file, db, process, report, exposed, faults, crashes>>

----------------------------------------------------------------------------
(* Activation imports the file as it was read into a new database; a failure  *)
(* leaves the directory unreferenced and the file in charge.                  *)

Import ==
  /\ save.pc = "import"
  /\ \E d \in Dbs :
       /\ db[d] = Absent /\ \A e \in Dbs : e < d => db[e] # Absent
       /\ \/ /\ db' = [db EXCEPT ![d] = Holding(save.source)]
             /\ save' = [save EXCEPT !.pc = "commit", !.db = d]
             /\ UNCHANGED <<mem, serving, unresolved, report, faults>>
          \/ /\ Fault /\ db' = [db EXCEPT ![d] = Holding({})] /\ Fails
  /\ UNCHANGED <<file, fileMay, up, exposed, crashes>>

----------------------------------------------------------------------------
(* A witnessed commit.  In service the changes are the new records; the first *)
(* save of a database makes it equal to the whole image, removing nothing.    *)

Changed(s) == s \union (IF serving = 0 THEN mem ELSE {}) \union {save.op}

Refused(s) ==
  IF serving = 0 THEN ~(s \subseteq mem \union {save.op}) ELSE save.op \in s

Commit ==
  /\ save.pc = "commit"
  /\ \E s \in db[save.db].found :
       /\ ~Refused(s)
       /\ db' = [db EXCEPT ![save.db] = [found |-> {s, Changed(s)}, may |-> @.may \union {Changed(s)}]]
  /\ Goes("committing") /\ UNCHANGED <<file, fileMay, up, exposed, faults, crashes>>

\* The changes were refused, or the transaction failed and was rolled back.
CommitUnchanged ==
  /\ save.pc = "commit"
  /\ \/ Fault
     \/ (\E s \in db[save.db].found : Refused(s)) /\ UNCHANGED faults
  /\ Fails /\ UNCHANGED <<disk, up, exposed, crashes>>

\* The new records are known to be in the database.
Kept == IF serving = 0 THEN Goes("write") ELSE Saves(serving)

Committed ==
  /\ save.pc = "committing"
  /\ db' = [db EXCEPT ![save.db] = Holding(UNION @.found)]
  /\ Kept /\ UNCHANGED <<file, fileMay, up, exposed, faults, crashes>>

CommitUncertain ==
  /\ save.pc \in {"commit", "committing"} /\ Fault   \* COMMIT or ROLLBACK failed
  /\ Goes("uncertain") /\ UNCHANGED <<disk, up, exposed, crashes>>

\* reconcile: the database is opened again and searched for the witness ...
Reopen ==
  /\ save.pc = "uncertain"
  /\ \E s \in db[save.db].found : db' = [db EXCEPT ![save.db].found = {s}]
  /\ Goes("barrier") /\ UNCHANGED <<file, fileMay, up, exposed, faults, crashes>>

\* Mutant: the witness is believed as it was read.
Believe ==
  /\ save.pc = "barrier"
  /\ \E s \in db[save.db].found : IF save.op \in s THEN Kept ELSE Fails
  /\ UNCHANGED <<disk, up, exposed, faults, crashes>>

\* ... and the commit of its fence makes what was found durable.
Barrier ==
  /\ save.pc = "barrier"
  /\ \E s \in db[save.db].found :
       /\ db' = [db EXCEPT ![save.db].may = {s}]
       /\ IF save.op \in s THEN Kept ELSE Fails
  /\ UNCHANGED <<file, fileMay, up, exposed, faults, crashes>>

\* The job did not return, or its outcome cannot be established.  A database that is
\* not in service yet is given up.
OutcomeLost ==
  /\ save.pc \in {"commit", "committing", "uncertain", "barrier"} /\ Fault
  /\ IF serving = 0 THEN Fails ELSE Unresolved(serving)
  /\ UNCHANGED <<disk, up, exposed, crashes>>

----------------------------------------------------------------------------
(* Deaths and restarts.                                                      *)

Stops ==
  /\ up' = FALSE /\ mem' = {} /\ serving' = 0 /\ unresolved' = FALSE /\ save' = NoSave
  /\ crashes < MaxCrash /\ crashes' = crashes + 1

Crash == up /\ Stops /\ UNCHANGED <<disk, report, exposed, faults>>

PowerLoss ==
  /\ Stops
  /\ \E c \in fileMay : file' = c /\ fileMay' = {c}
  /\ \E left \in [Dbs -> Records] :
       /\ \A d \in Dbs : db[d] # Absent => left[d] \in db[d].may
       /\ db' = [d \in Dbs |-> IF db[d] = Absent THEN Absent ELSE Holding(left[d])]
  /\ UNCHANGED <<report, exposed, faults>>

\* Mutant: a manifest is read as a state without records.
LoadPlain ==
  /\ ~up /\ up' = TRUE /\ serving' = 0 /\ mem' = file.image /\ UNCHANGED db
  /\ exposed' = (exposed \/ (file.names # 0 /\ fileMay # {file}))
  /\ UNCHANGED <<file, fileMay, unresolved, save, report, faults, crashes>>

\* A new process serves what the file holds or names.  What it finds in a database is
\* the newest of what a power loss may leave.
Load ==
  /\ ~up /\ up' = TRUE /\ serving' = file.names
  /\ \/ file.names = 0 /\ mem' = file.image /\ UNCHANGED db
     \/ /\ file.names # 0
        /\ \E s \in db[file.names].found :
             /\ mem' = s
             /\ db' = [db EXCEPT ![file.names] =
                         [found |-> {s}, may |-> {r \in @.may : r \subseteq s}]]
  /\ exposed' = (exposed \/ (file.names # 0 /\ fileMay # {file}))
  /\ UNCHANGED <<file, fileMay, unresolved, save, report, faults, crashes>>

Next ==
  \/ \E o \in Ops : Request(o)
  \/ Rename \/ DirectorySynced \/ WriteFails \/ FenceMarker \/ FenceFails \/ OthersSync
  \/ Import \/ Commit \/ CommitUnchanged \/ Committed \/ CommitUncertain
  \/ Reopen \/ Barrier \/ OutcomeLost \/ Crash \/ PowerLoss \/ Load

Spec == Init /\ [][Next]_vars

----------------------------------------------------------------------------
(* Properties.                                                               *)

\* Every variable keeps its type (file, databases, process and reports).
TypeOK ==
  /\ file \in Files /\ fileMay \subseteq Files /\ db \in [Dbs -> Database]
  /\ up \in BOOLEAN /\ mem \subseteq Ops /\ serving \in 0..MaxDb /\ unresolved \in BOOLEAN
  /\ save \in [pc : Steps, op : Ops \union {None}, source : Records, db : 0..MaxDb]
  /\ report \in [Ops -> {"none", "pending", "saved", "found", "failed", "rejected", "lost"}]
  /\ exposed \in BOOLEAN /\ faults \in Nat /\ crashes \in Nat

\* What a power loss now and a restart may bring up.
Restored(c) == IF c.names = 0 THEN {c.image} ELSE db[c.names].may
Futures == UNION {Restored(c) : c \in fileMay}

\* A record reported as saved is in whatever a power loss at this moment leaves, in the
\* middle of a save, an activation or a reconciliation too (persist, publish_marker,
\* recover_inner).  The manifest that was loaded before it was durable is excepted.
SavedSurvives ==
  exposed \/ \A o \in Ops : report[o] = "saved" => \A s \in Futures : o \in s

\* Once records are in service, an operation reported as failed is never found by a
\* restart, unless it is asked for again: the error is a verified outcome.
FailureStands ==
  exposed \/ \A o \in Ops : report[o] = "rejected" => \A s \in Futures \union {mem} : o \notin s

\* The supervisor answers from exactly the records its database holds, and starts no
\* save beside a commit whose outcome it does not know.
RecordsMatchMemory ==
  (up /\ serving # 0 /\ ~unresolved /\ save.pc \in {"idle", "commit"}) =>
    /\ db[serving].found = {mem} /\ mem \in db[serving].may
    /\ \A s \in db[serving].may : s \subseteq mem

\* Whatever fails, dies or loses power, a record that the supervisor answers from, while
\* it runs, and that every restart would bring up stays so; and no save, activation or
\* reconciliation decides about a record but its own (persist, publish_marker,
\* recover_inner, load).  A manifest that was loaded early is no exception.
Durable == {o \in Ops : (up => o \in mem) /\ \A s \in Futures : o \in s}
Doubtful == {o \in Ops : \E s \in Futures : o \in s} \ Durable
Promise == INSTANCE RecordsPromise WITH kept <- Durable, open <- Doubtful
RecordsKept == Promise!Spec
=============================================================================
