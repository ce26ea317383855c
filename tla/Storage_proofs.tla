--------------------------- MODULE Storage_proofs ---------------------------
(***************************************************************************)
(* Proofs about Storage: what was reported saved survives, what was        *)
(* rejected does not come back, and memory is what the database in service *)
(* holds, for all values of its constants.                                 *)
(***************************************************************************)
EXTENDS Storage, TLAPS

InDb == {"commit", "committing", "uncertain", "barrier"}
InFile == {"write", "renamed", "reread"}

\* The image the save would make, and the databases it leads to.
New == mem \union {save.op}

(* The save under way belongs to a supervisor in service and to a new record. *)
Working ==
  /\ save.pc = "idle" => save.op = None
  /\ save.pc # "idle" =>
       /\ up /\ ~unresolved /\ save.op \in Ops /\ save.op \notin mem
       /\ report[save.op] = "pending"
  /\ ~up => mem = {} /\ serving = 0 /\ ~unresolved
  /\ save.pc \in {"idle", "import"} => save.db = 0
  /\ save.pc \in InDb \union {"reread"} => save.db # 0
  /\ serving # 0 => save.pc \in {"idle"} \union InDb
  /\ (serving # 0 /\ save.pc # "idle") => save.db = serving

(* The file names one database at most, which exists and holds what it shows. *)
Disk ==
  /\ file \in fileMay
  /\ \A c \in fileMay : c.names # 0 => c.names = file.names
  /\ file.names # 0 => db[file.names] # Absent
  /\ \A d \in Dbs : db[d].found \subseteq db[d].may
  /\ \A d \in Dbs : db[d] # Absent => db[d].found # {}

(* The file is behind or ahead of memory by the record of one failed save.    *)
Current ==
  /\ (up /\ serving = 0) =>
       /\ file.names # 0 => save.pc \in {"renamed", "reread"} /\ save.db = file.names
       /\ file.names = 0 => /\ mem \subseteq file.image
                            /\ \E o \in Ops \union {None} : file.image \subseteq mem \union {o}
  /\ (up /\ serving # 0 /\ ~unresolved) =>
       /\ file.names = serving
       /\ ~exposed => \A c \in fileMay : c.names = serving

(* A database in preparation holds memory, and the new record last.           *)
Fitting(s) == mem \subseteq s /\ (save.op \in s => s = New)

Prepared ==
  /\ save.pc = "import" => Fitting(save.source)
  /\ (serving = 0 /\ save.pc \in InDb) => \A s \in db[save.db].may : Fitting(s)
  /\ (save.pc \in InFile /\ save.db # 0) =>
       db[save.db].found = {New} /\ db[save.db].may = {New}
  /\ save.pc = "renamed" =>
       /\ file.names = save.db
       /\ save.db = 0 => file.image = New
  /\ save.pc = "reread" => file.names \in {0, save.db}
  /\ save.pc = "committing" =>
       /\ New \in db[save.db].found
       /\ \A s \in db[save.db].found : s \subseteq New
  /\ save.pc = "barrier" => \E s \in Records : db[save.db].found = {s}
  /\ save.pc \in InDb => db[save.db] # Absent

(* The database in service shows what memory holds, but for the new record.   *)
Matches ==
  (up /\ serving # 0 /\ ~unresolved) =>
    /\ db[serving] # Absent
    /\ save.pc \in {"idle", "commit"} =>
         db[serving].found = {mem} /\ \A s \in db[serving].may : s \subseteq mem
    /\ db[serving].found \subseteq {mem, New}
    /\ \A s \in db[serving].may : s \subseteq New

Everywhere(o) ==
  \A c \in fileMay :
    /\ c.names = 0 => o \in c.image
    /\ c.names # 0 => \A s \in db[c.names].may : o \in s

Safe ==
  ~exposed => \A o \in Ops : report[o] = "saved" => (up => o \in mem) /\ Everywhere(o)

Nowhere(o) ==
  /\ file.names # 0 /\ o \notin mem
  /\ \A c \in fileMay : c.names = file.names
  /\ \A s \in db[file.names].may : o \notin s

Rejected == ~exposed => \A o \in Ops : report[o] = "rejected" => Nowhere(o)

IInv ==
  /\ TypeOK /\ Working /\ Disk /\ Current /\ Prepared /\ Matches /\ Safe /\ Rejected

(***************************************************************************)
(* Small facts about the records of the model.                             *)
(***************************************************************************)

\* A database that shows something was prepared.
LEMMA ShownExists == ASSUME NEW x, x.found # {} PROVE x # Absent
BY DEF Absent

\* A database made to hold s shows and keeps s alone.
LEMMA HoldingHolds ==
  ASSUME NEW s
  PROVE Holding(s).found = {s} /\ Holding(s).may = {s} /\ Holding(s) # Absent
<1>1. Holding(s).found = {s} /\ Holding(s).may = {s}
  BY DEF Holding
<1> QED BY <1>1, ShownExists

\* It is a database of the model.
LEMMA HoldingType == ASSUME NEW s \in Records PROVE Holding(s) \in Database
BY SMT DEF Holding, Database, Records

\* The database of a save in one, and the one in service, is one of the databases.
LEMMA InRange ==
  ASSUME TypeOK, Working
  PROVE /\ save.pc \in InDb \union {"reread"} => save.db \in Dbs
        /\ serving # 0 => serving \in Dbs
        /\ file.names # 0 => file.names \in Dbs
        /\ \A c \in fileMay : c.names # 0 => c.names \in Dbs
        /\ save.pc \in InFile => save.db \in Dbs \union {0}
BY SMT, StorageAssumption DEF TypeOK, Working, Dbs, InDb, InFile, Files

SaveRecords == [pc : Steps, op : Ops \union {None}, source : Records, db : 0..MaxDb]

\* The idle save is a save of the model, of no operation and no database.
LEMMA IdleSave ==
  /\ NoSave.pc = "idle" /\ NoSave.op = None /\ NoSave.db = 0
  /\ NoSave \in SaveRecords
<1>1. {} \in Records /\ 0 \in 0..MaxDb /\ "idle" \in Steps
  BY SMT, StorageAssumption DEF Records, Steps
<1> QED BY <1>1, SMT DEF NoSave, SaveRecords

\* Request keeps the invariant (Request in Storage).
LEMMA RequestKeeps == ASSUME NEW o \in Ops, IInv, Request(o) PROVE IInv'
<1>1. /\ up /\ ~unresolved /\ save.pc = "idle" /\ report[o] # "saved"
      /\ UNCHANGED <<disk, up, mem, serving, unresolved, exposed, faults, crashes>>
  BY SMT DEF Request, NoSave
<1>2. \/ o \in mem /\ report' = [report EXCEPT ![o] = "found"] /\ save' = save
      \/ /\ o \notin mem /\ report' = [report EXCEPT ![o] = "pending"] /\ save'.op = o
         /\ save' \in [pc : Steps, op : Ops \union {None}, source : Records, db : 0..MaxDb]
         /\ \/ serving # 0 /\ save'.pc = "commit" /\ save'.db = serving
            \/ serving = 0 /\ save'.pc = "write" /\ save'.db = 0
            \/ serving = 0 /\ save'.pc = "import" /\ save'.db = 0 /\ save'.source = file.image
  <2>1. CASE o \in mem
    BY <2>1, SMT DEF Request, Told
  <2>2. CASE o \notin mem
    <3>1. /\ file.image \in Records /\ serving \in 0..MaxDb /\ o \in Ops
          /\ {"commit", "write", "import"} \subseteq Steps
      BY SMT DEF IInv, TypeOK, Files, Steps
    <3>2. \/ serving # 0 /\ save' = [pc |-> "commit", op |-> o, source |-> {}, db |-> serving]
          \/ serving = 0 /\ save' = [pc |-> "write", op |-> o, source |-> {}, db |-> 0]
          \/ serving = 0 /\ save' = [pc |-> "import", op |-> o, source |-> file.image, db |-> 0]
      BY <2>2, Zenon DEF Request, NoSave
    <3>3. o \notin mem /\ report' = [report EXCEPT ![o] = "pending"]
      BY <2>2, SMT DEF Request, Told
    <3> QED BY <3>1, <3>2, <3>3, SMT DEF Records
  <2> QED BY <2>1, <2>2
<1>3. TypeOK'
  BY <1>1, <1>2, SMT DEF IInv, TypeOK, disk
<1>4. Working'
  BY <1>1, <1>2, SMT DEF IInv, TypeOK, Working, InDb, disk
<1>5. Disk'
  BY <1>1, SMT DEF IInv, Disk, disk
<1>6. Current'
  BY <1>1, <1>2, SMT DEF IInv, Current, disk
<1>7. Prepared'
  <2>1. save'.pc = "import" => Fitting(save.source)'
    BY <1>1, <1>2, SMT DEF IInv, Current, Fitting, New, disk
  <2>2. save'.pc = "commit" => serving # 0 /\ db[serving] # Absent
    BY <1>1, <1>2, SMT DEF IInv, Matches
  <2> QED BY <1>1, <1>2, <2>1, <2>2, SMT DEF IInv, TypeOK, Working, Prepared, InDb, InFile, disk
<1>8. Matches'
  BY <1>1, <1>2, SMT DEF IInv, Matches, New, disk
<1>9. Safe'
  BY <1>1, <1>2, SMT DEF IInv, TypeOK, Safe, Everywhere, disk
<1>10. Rejected'
  BY <1>1, <1>2, SMT DEF IInv, TypeOK, Rejected, Nowhere, disk
<1> QED BY <1>3, <1>4, <1>5, <1>6, <1>7, <1>8, <1>9, <1>10 DEF IInv

\* Rename keeps the invariant (Rename in Storage).
LEMMA RenameKeeps == ASSUME IInv, Rename PROVE IInv'
<1> USE DEF IInv
<1>1. /\ save.pc = "write" /\ save' = [save EXCEPT !.pc = "renamed"] /\ up
      /\ file' = Written /\ fileMay' = fileMay \union {Written}
      /\ UNCHANGED <<db, up, mem, serving, unresolved, report, exposed, faults, crashes>>
  BY SMT DEF Rename, Goes, Working
<1>2. serving = 0 /\ file.names = 0 /\ \A c \in fileMay : c.names = 0
  BY <1>1, SMT DEF Working, Current, Disk, InDb
<1>3. /\ Written \in Files /\ Written.names = save.db
      /\ save.db = 0 => Written.image = New
  BY <1>1, SMT DEF TypeOK, Working, Written, Image, Manifest, Files, Records, New
<1>4. TypeOK'
  BY <1>1, <1>3, SMT DEF TypeOK, Steps
<1>5. Working'
  BY <1>1, <1>2, SMT DEF TypeOK, Working, InDb
<1>6. Disk'
  <2>1. save.db # 0 => db[save.db] # Absent
    BY <1>1, ShownExists, SMT DEF Prepared, InFile
  <2> QED BY <1>1, <1>2, <1>3, <2>1, SMT DEF Disk
<1>7. Current'
  BY <1>1, <1>2, <1>3, SMT DEF TypeOK, Working, Current, New
<1>8. Prepared'
  BY <1>1, <1>2, <1>3, SMT DEF TypeOK, Prepared, InDb, InFile, New
<1>9. Matches'
  BY <1>1, <1>2, SMT DEF Matches
<1>10. Safe'
  <2>1. save.db # 0 => db[save.db].may = {New}
    BY <1>1, SMT DEF Prepared, InFile
  <2> QED BY <1>1, <1>2, <1>3, <2>1, SMT DEF Safe, Everywhere, New
<1>11. Rejected'
  BY <1>1, <1>2, SMT DEF Rejected, Nowhere
<1> QED BY <1>4, <1>5, <1>6, <1>7, <1>8, <1>9, <1>10, <1>11

\* A file that was replaced and synced serves what the save made: the image, or the
\* database it names.
LEMMA InService ==
  ASSUME IInv, TypeOK',
         save.pc \in {"renamed", "reread"}, file.names = save.db,
         save.db = 0 => file.image = New,
         fileMay' = {file}, mem' = New, serving' = save.db, save' = NoSave,
         report' = [report EXCEPT ![save.op] = "saved"],
         UNCHANGED <<file, db, up, unresolved, exposed, faults, crashes>>
  PROVE  IInv'
<1> USE DEF IInv
<1>1. /\ up /\ ~unresolved /\ save.op \in Ops /\ report[save.op] = "pending"
      /\ save.db # 0 => db[save.db].found = {New} /\ db[save.db].may = {New}
  BY SMT DEF Working, Prepared, InFile
<1>2. save.db # 0 => db[save.db] # Absent
  BY <1>1, ShownExists
<1>3. Working'
  BY <1>1, IdleSave, SMT DEF Working, InDb
<1>4. Disk'
  BY SMT DEF Disk
<1>5. Current'
  <2>1. \E o \in Ops \union {None} : New \subseteq New \union {o}
    OBVIOUS
  <2> QED BY <1>1, <2>1, IdleSave DEF Current
<1>6. Prepared'
  BY IdleSave, SMT DEF Prepared, InDb, InFile
<1>7. Matches'
  BY <1>1, <1>2, IdleSave, SMT DEF Matches, New
<1>8. \A o \in New : Everywhere(o)'
  BY <1>1 DEF Everywhere
<1>9. Safe'
  BY <1>1, <1>8, SMT DEF TypeOK, Safe, New
<1>10. \A o \in Ops : Nowhere(o) /\ o # save.op => Nowhere(o)'
  BY <1>1 DEF Nowhere, New
<1>11. \A o \in Ops : report'[o] = "rejected" => report[o] = "rejected" /\ o # save.op
  BY <1>1, SMT DEF TypeOK
<1>12. Rejected'
  BY <1>10, <1>11 DEF Rejected
<1> QED BY <1>3, <1>4, <1>5, <1>6, <1>7, <1>9, <1>12

\* DirectorySynced keeps the invariant (DirectorySynced in Storage).
LEMMA DirectorySyncedKeeps == ASSUME IInv, DirectorySynced PROVE IInv'
<1>1. save.pc = "renamed" /\ file.names = save.db /\ (save.db = 0 => file.image = New)
  BY DEF DirectorySynced, IInv, Prepared
<1>2. /\ fileMay' = {file} /\ mem' = New /\ serving' = save.db /\ save' = NoSave
      /\ report' = [report EXCEPT ![save.op] = "saved"]
      /\ UNCHANGED <<file, db, up, unresolved, exposed, faults, crashes>>
  BY DEF DirectorySynced, Saves, Told, New
<1>3. TypeOK'
  BY <1>1, <1>2, IdleSave, SMT DEF IInv, TypeOK, Working, SaveRecords, New
<1> QED BY <1>1, <1>2, <1>3, InService

\* FenceMarker keeps the invariant (FenceMarker in Storage).
LEMMA FenceMarkerKeeps == ASSUME IInv, FenceMarker PROVE IInv'
<1>1. save.pc = "reread" /\ file.names = save.db /\ save.db # 0
  BY SMT DEF FenceMarker, Manifest, IInv, Working
<1>2. /\ fileMay' = {file} /\ mem' = New /\ serving' = save.db /\ save' = NoSave
      /\ report' = [report EXCEPT ![save.op] = "saved"]
      /\ UNCHANGED <<file, db, up, unresolved, exposed, faults, crashes>>
  BY DEF FenceMarker, Saves, Told, New
<1>3. TypeOK'
  BY <1>1, <1>2, IdleSave, SMT DEF IInv, TypeOK, Working, SaveRecords, New
<1> QED BY <1>1, <1>2, <1>3, InService

\* A file that is synced with another one of its directory is what it was (OthersSync).
LEMMA OthersSyncKeeps == ASSUME IInv, OthersSync PROVE IInv'
<1>1. /\ UNCHANGED <<file, db, up, mem, serving, unresolved, save, report, exposed, faults, crashes>>
      /\ fileMay' = {file} /\ file \in fileMay
  BY DEF OthersSync, process, IInv, Disk
<1>2. TypeOK' /\ Working' /\ Disk'
  BY <1>1 DEF IInv, TypeOK, Working, Disk
<1>3. Current' /\ Prepared' /\ Matches'
  BY <1>1 DEF IInv, Current, Prepared, Fitting, New, Matches
<1>4. Safe' /\ Rejected'
  BY <1>1 DEF IInv, Safe, Everywhere, Rejected, Nowhere
<1> QED BY <1>2, <1>3, <1>4 DEF IInv

\* FenceFails keeps the invariant (FenceFails in Storage).
LEMMA FenceFailsKeeps == ASSUME IInv, FenceFails PROVE IInv'
<1> USE DEF IInv
<1>1. /\ save.pc = "reread" /\ up /\ save.op \in Ops /\ report[save.op] = "pending"
      /\ save.db \in Dbs /\ faults' \in Nat
  BY InRange, SMT DEF FenceFails, Fault, Working, TypeOK
<1>2. /\ unresolved' = TRUE /\ serving' = save.db /\ save' = NoSave /\ mem' = mem
      /\ report' = [report EXCEPT ![save.op] = "lost"]
      /\ UNCHANGED <<file, fileMay, db, up, exposed, crashes>>
  BY DEF FenceFails, Unresolved, Told, disk
<1>3. TypeOK'
  BY <1>1, <1>2, IdleSave, SMT DEF TypeOK, SaveRecords, Dbs
<1>4. Working'
  BY <1>1, <1>2, IdleSave, SMT DEF Working, InDb
<1>5. Disk'
  BY <1>2 DEF Disk
<1>6. Current' /\ Prepared' /\ Matches'
  BY <1>1, <1>2, IdleSave, SMT DEF Current, Prepared, Matches, InDb, InFile, Dbs
<1>7. Safe'
  BY <1>1, <1>2, SMT DEF TypeOK, Safe, Everywhere
<1>8. Rejected'
  BY <1>1, <1>2, SMT DEF TypeOK, Rejected, Nowhere
<1> QED BY <1>3, <1>4, <1>5, <1>6, <1>7, <1>8

\* WriteFails keeps the invariant (WriteFails in Storage).
LEMMA WriteFailsKeeps == ASSUME IInv, WriteFails PROVE IInv'
<1> USE DEF IInv
<1>1. /\ save.pc \in {"write", "renamed"} /\ up /\ serving = 0 /\ save.op \in Ops
      /\ report[save.op] = "pending" /\ faults' \in Nat
      /\ UNCHANGED <<file, fileMay, db, up, exposed, crashes>>
  BY SMT DEF WriteFails, Fault, Working, InDb, TypeOK, disk
<1>2. Disk'
  BY <1>1 DEF Disk
<1>3. CASE save.db = 0
  <2>1. /\ save' = NoSave /\ UNCHANGED <<mem, serving, unresolved>>
        /\ report' = [report EXCEPT ![save.op] = "failed"]
    BY <1>1, <1>3 DEF WriteFails, Fails, Told
  <2>2. TypeOK'
    BY <1>1, <2>1, IdleSave, SMT DEF TypeOK, SaveRecords
  <2>3. Working' /\ Prepared' /\ Matches'
    BY <1>1, <2>1, IdleSave, SMT DEF Working, Prepared, Matches, InDb, InFile
  <2>4. Current'
    BY <1>1, <1>3, <2>1, SMT DEF Current
  <2>5. Safe'
    BY <1>1, <2>1, SMT DEF TypeOK, Safe, Everywhere
  <2>6. Rejected'
    BY <1>1, <2>1, SMT DEF TypeOK, Rejected, Nowhere
  <2> QED BY <1>2, <2>2, <2>3, <2>4, <2>5, <2>6
<1>4. CASE save.db # 0
  <2>1. /\ save' = [save EXCEPT !.pc = "reread"]
        /\ UNCHANGED <<mem, serving, unresolved, report>>
    BY <1>1, <1>4 DEF WriteFails, Goes
  <2>2. /\ save'.pc = "reread" /\ save'.db = save.db /\ save'.op = save.op
        /\ save' \in SaveRecords
    BY <2>1, SMT DEF TypeOK, SaveRecords, Steps
  <2>3. TypeOK'
    BY <1>1, <2>1, <2>2, SMT DEF TypeOK, SaveRecords
  <2>4. Working' /\ Matches'
    BY <1>1, <1>4, <2>1, <2>2, SMT DEF Working, Matches, InDb
  <2>5. Current'
    BY <1>1, <2>1, <2>2, SMT DEF Current
  <2>6. Prepared'
    BY <1>1, <1>4, <2>1, <2>2, SMT DEF Current, Prepared, New, InDb, InFile
  <2>7. Safe' /\ Rejected'
    BY <1>1, <2>1 DEF Safe, Everywhere, Rejected, Nowhere
  <2> QED BY <1>2, <2>3, <2>4, <2>5, <2>6, <2>7
<1> QED BY <1>3, <1>4

\* CommitUncertain keeps the invariant (CommitUncertain in Storage).
LEMMA CommitUncertainKeeps == ASSUME IInv, CommitUncertain PROVE IInv'
<1> USE DEF IInv
<1>1. /\ save.pc \in {"commit", "committing"} /\ save' = [save EXCEPT !.pc = "uncertain"]
      /\ UNCHANGED <<file, fileMay, db, up, mem, serving, unresolved, report, exposed, crashes>>
      /\ faults' \in Nat
  BY SMT DEF CommitUncertain, Goes, Fault, TypeOK, disk
<1>2. /\ save'.pc = "uncertain" /\ save'.db = save.db /\ save'.op = save.op
      /\ save' \in SaveRecords
  BY <1>1, SMT DEF TypeOK, SaveRecords, Steps
<1>3. TypeOK'
  BY <1>1, <1>2, SMT DEF TypeOK, SaveRecords
<1>4. Working'
  BY <1>1, <1>2, SMT DEF Working, InDb
<1>5. Disk' /\ Safe' /\ Rejected'
  BY <1>1 DEF Disk, Safe, Everywhere, Rejected, Nowhere
<1>6. Current'
  BY <1>1, <1>2, SMT DEF Current
<1>7. Prepared'
  BY <1>1, <1>2, SMT DEF Prepared, Fitting, New, InDb, InFile
<1>8. Matches'
  BY <1>1, <1>2, SMT DEF Matches, New
<1> QED BY <1>3, <1>4, <1>5, <1>6, <1>7, <1>8

\* Import keeps the invariant (Import in Storage).
LEMMA ImportKeeps == ASSUME IInv, Import PROVE IInv'
<1> USE DEF IInv
<1>1. /\ save.pc = "import" /\ up /\ serving = 0 /\ file.names = 0
      /\ \A c \in fileMay : c.names = 0
      /\ UNCHANGED <<file, fileMay, up, mem, serving, unresolved, exposed, crashes>>
  <2>1. save.pc = "import" /\ up /\ serving = 0
    BY SMT DEF Import, Working, InDb
  <2>2. UNCHANGED <<file, fileMay, up, mem, serving, unresolved, exposed, crashes>>
    BY SMT DEF Import, Fails
  <2> QED BY <2>1, <2>2, SMT DEF Current, Disk
<1>2. save.source \in Records /\ save.op \in Ops /\ {} \in Records
  BY <1>1, SMT DEF TypeOK, Working, Records
<1>3. PICK d \in Dbs :
        /\ db[d] = Absent
        /\ \/ /\ db' = [db EXCEPT ![d] = Holding(save.source)]
              /\ save' = [save EXCEPT !.pc = "commit", !.db = d]
              /\ UNCHANGED <<report, faults>>
           \/ /\ db' = [db EXCEPT ![d] = Holding({})] /\ save' = NoSave
              /\ report' = [report EXCEPT ![save.op] = "failed"]
              /\ faults' = faults + 1
  BY <1>1, Zenon DEF Import, Fails, Told, Fault
<1>4. PICK s \in Records : db' = [db EXCEPT ![d] = Holding(s)]
                           /\ (save'.pc = "commit" => s = save.source)
  BY <1>2, <1>3, IdleSave, SMT
<1>5. /\ db' \in [Dbs -> Database] /\ db'[d].found = {s} /\ db'[d].may = {s} /\ db'[d] # Absent
      /\ \A e \in Dbs \ {d} : db'[e] = db[e]
  BY <1>4, HoldingHolds, HoldingType, SMT DEF TypeOK
<1>6. /\ save' \in SaveRecords
      /\ \/ save' = NoSave
         \/ save'.pc = "commit" /\ save'.db = d /\ save'.op = save.op /\ report' = report
  <2>1. CASE save' = NoSave
    BY <2>1, IdleSave
  <2>2. CASE save' = [save EXCEPT !.pc = "commit", !.db = d] /\ UNCHANGED report
    <3>1. save \in SaveRecords /\ "commit" \in Steps /\ d \in 0..MaxDb
      BY SMT, StorageAssumption DEF TypeOK, SaveRecords, Steps, Dbs
    <3>2. save' \in SaveRecords /\ save'.pc = "commit" /\ save'.db = d /\ save'.op = save.op
      <4>1. save' \in SaveRecords
        BY <2>2, <3>1, Zenon DEF SaveRecords
      <4> QED BY <2>2, <3>1, <4>1, SMT DEF SaveRecords
    <3> QED BY <2>2, <3>2
  <2> QED BY <1>3, <2>1, <2>2
<1>7. TypeOK'
  BY <1>1, <1>2, <1>3, <1>5, <1>6, SMT DEF TypeOK, SaveRecords
<1>8. Working'
  BY <1>1, <1>6, IdleSave, SMT DEF TypeOK, Working, InDb, Dbs
<1>9. Disk'
  BY <1>1, <1>5, SMT DEF TypeOK, Disk
<1>10. Current'
  BY <1>1, <1>6, IdleSave, SMT DEF TypeOK, Current
<1>11. Prepared'
  <2>1. Fitting(save.source)
    BY <1>1, SMT DEF Prepared
  <2>2. CASE save'.pc = "commit"
    BY <1>1, <1>4, <1>5, <1>6, <2>1, <2>2, IdleSave, SMT DEF Prepared, Fitting, New, InDb, InFile
  <2>3. CASE save' = NoSave
    BY <2>3, IdleSave, SMT DEF Prepared, InDb, InFile
  <2> QED BY <1>6, <2>2, <2>3
<1>12. Matches'
  BY <1>1, SMT DEF Matches
<1>13. Safe'
  BY <1>1, <1>2, <1>3, SMT DEF TypeOK, Safe, Everywhere
<1>14. Rejected'
  BY <1>1, <1>2, <1>3, SMT DEF TypeOK, Rejected, Nowhere
<1> QED BY <1>7, <1>8, <1>9, <1>10, <1>11, <1>12, <1>13, <1>14

\* Commit keeps the invariant (Commit in Storage).
LEMMA CommitKeeps == ASSUME IInv, Commit PROVE IInv'
<1> USE DEF IInv
<1>1. PICK s \in db[save.db].found :
        /\ ~Refused(s)
        /\ db' = [db EXCEPT ![save.db] = [found |-> {s, Changed(s)}, may |-> @.may \union {Changed(s)}]]
  BY DEF Commit
<1>2. /\ save.pc = "commit" /\ save' = [save EXCEPT !.pc = "committing"] /\ up /\ ~unresolved
      /\ save.op \in Ops /\ save.op \notin mem
      /\ UNCHANGED <<file, fileMay, up, mem, serving, unresolved, report, exposed, faults, crashes>>
  BY SMT DEF Commit, Goes, Working
<1>3. save.db \in Dbs /\ s \in db[save.db].may /\ s \in Records
  BY <1>1, <1>2, InRange, SMT DEF Disk, TypeOK, Database, InDb
<1>4. s \subseteq New /\ New \in Records /\ (serving # 0 => s = mem /\ save.db = serving)
  BY <1>1, <1>2, <1>3, SMT DEF TypeOK, Working, Matches, Refused, New, Records
<1>5. Changed(s) = New
  BY <1>2, <1>4, SMT DEF Changed, New
<1>6. /\ db'[save.db] = [found |-> {s, New}, may |-> db[save.db].may \union {New}]
      /\ \A e \in Dbs \ {save.db} : db'[e] = db[e]
      /\ DOMAIN db' = Dbs
  BY <1>1, <1>3, <1>5, SMT DEF TypeOK
<1>7. /\ db'[save.db].found = {s, New} /\ db'[save.db].may = db[save.db].may \union {New}
      /\ db'[save.db] # Absent
  <2>1. db'[save.db].found = {s, New} /\ db'[save.db].may = db[save.db].may \union {New}
    BY <1>6, SMT
  <2> QED BY <2>1, ShownExists
<1>8. TypeOK'
  <2>1. db' \in [Dbs -> Database]
    BY <1>1, <1>3, <1>4, <1>5, SMT DEF TypeOK, Database
  <2> QED BY <1>2, <2>1, SMT DEF TypeOK, Steps
<1>9. Working'
  BY <1>2, SMT DEF TypeOK, Working, InDb
<1>10. Disk'
  <2>1. \A e \in Dbs : db'[e].found \subseteq db'[e].may
    BY <1>3, <1>6, <1>7, SMT DEF Disk
  <2>2. \A e \in Dbs : db[e] # Absent => db'[e] # Absent
    BY <1>6, <1>7
  <2>3. file.names # 0 => file.names \in Dbs
    BY InRange
  <2> QED BY <1>2, <1>6, <1>7, <2>1, <2>2, <2>3, SMT DEF Disk
<1>11. Current'
  BY <1>2, SMT DEF TypeOK, Current
<1>12. Prepared'
  <2>1. save'.pc = "committing" /\ save'.db = save.db /\ save'.op = save.op /\ mem' = mem
    BY <1>2, SMT DEF TypeOK
  <2>2. serving = 0 => \A t \in db[save.db].may \union {New} : Fitting(t)
    BY <1>2, SMT DEF Prepared, Fitting, New, InDb
  <2> QED BY <1>2, <1>4, <1>7, <2>1, <2>2, SMT DEF Prepared, Fitting, New, InDb, InFile
<1>13. Matches'
  BY <1>2, <1>4, <1>7, SMT DEF TypeOK, Matches, New
<1>14. Safe'
  BY <1>1, <1>2, <1>3, <1>5, SMT DEF TypeOK, Disk, Current, Safe, Everywhere, New, Files, Dbs
<1>15. Rejected'
  BY <1>1, <1>2, <1>3, <1>5, SMT DEF TypeOK, Working, Disk, Current, Rejected, Nowhere, New, Files, Dbs
<1> QED BY <1>8, <1>9, <1>10, <1>11, <1>12, <1>13, <1>14, <1>15

\* CommitUnchanged keeps the invariant (CommitUnchanged in Storage).
LEMMA CommitUnchangedKeeps == ASSUME IInv, CommitUnchanged PROVE IInv'
<1> USE DEF IInv
<1>1. /\ save.pc = "commit" /\ save' = NoSave /\ up /\ ~unresolved
      /\ report' = [report EXCEPT ![save.op] = IF serving = 0 THEN "failed" ELSE "rejected"]
      /\ UNCHANGED <<disk, up, mem, serving, unresolved, exposed, crashes>> /\ faults' \in Nat
  BY SMT DEF CommitUnchanged, Fails, Told, Fault, Working, TypeOK
<1>2. save.op \in Ops /\ report[save.op] = "pending" /\ save.op \notin mem
  BY <1>1, SMT DEF Working
<1>3. TypeOK'
  BY <1>1, <1>2, IdleSave, SMT DEF TypeOK, SaveRecords, disk
<1>4. Working'
  BY <1>1, IdleSave, SMT DEF Working, InDb
<1>5. Disk'
  BY <1>1, SMT DEF Disk, disk
<1>6. Current'
  BY <1>1, SMT DEF Current, disk
<1>7. Prepared'
  BY <1>1, IdleSave, SMT DEF Prepared, InDb, InFile
<1>8. Matches'
  BY <1>1, IdleSave, SMT DEF Matches, New, disk
<1>9. Safe'
  BY <1>1, <1>2, SMT DEF TypeOK, Safe, Everywhere, disk
<1>10. Rejected'
  <2>1. serving # 0 /\ ~exposed => Nowhere(save.op)
    BY <1>1, <1>2, SMT DEF Nowhere, Current, Matches
  <2> QED BY <1>1, <1>2, <2>1, SMT DEF TypeOK, Rejected, Nowhere, disk
<1> QED BY <1>3, <1>4, <1>5, <1>6, <1>7, <1>8, <1>9, <1>10

\* Committed keeps the invariant (Committed in Storage).
LEMMA CommittedKeeps == ASSUME IInv, Committed PROVE IInv'
<1> USE DEF IInv
<1>1. /\ save.pc = "committing" /\ up /\ ~unresolved /\ save.op \in Ops /\ save.op \notin mem
      /\ report[save.op] = "pending" /\ save.db \in Dbs
      /\ db' = [db EXCEPT ![save.db] = Holding(UNION @.found)] /\ Kept
      /\ UNCHANGED <<file, fileMay, up, exposed, faults, crashes>>
  BY InRange, SMT DEF Committed, Working, InDb
<1>2. UNION db[save.db].found = New
  BY <1>1, SMT DEF Prepared
<1>3. /\ db' \in [Dbs -> Database] /\ db'[save.db].found = {New} /\ db'[save.db].may = {New}
      /\ db'[save.db] # Absent /\ \A e \in Dbs \ {save.db} : db'[e] = db[e]
  <2>1. New \in Records
    BY <1>1, SMT DEF TypeOK, New, Records
  <2>2. db' = [db EXCEPT ![save.db] = Holding(New)]
    BY <1>1, <1>2
  <2>3. db'[save.db] = Holding(New) /\ db' \in [Dbs -> Database]
        /\ \A e \in Dbs \ {save.db} : db'[e] = db[e]
    BY <1>1, <2>1, <2>2, HoldingType, SMT DEF TypeOK
  <2> QED BY <2>3, HoldingHolds
<1>4. Disk'
  <2>1. file.names # 0 => file.names \in Dbs
    BY InRange
  <2>2. \A e \in Dbs :
          /\ db'[e].found \subseteq db'[e].may
          /\ db[e] # Absent => db'[e] # Absent
          /\ db'[e] # Absent => db'[e].found # {}
    BY <1>3, SMT DEF Disk
  <2>3. file.names # 0 => db'[file.names] # Absent
    BY <2>1, <2>2 DEF Disk
  <2>4. file' = file /\ fileMay' = fileMay
    BY <1>1
  <2> QED BY <2>2, <2>3, <2>4 DEF Disk
<1>5. CASE serving = 0
  <2>1. save' = [save EXCEPT !.pc = "write"] /\ UNCHANGED <<mem, serving, unresolved, report>>
    BY <1>1, <1>5, SMT DEF Kept, Goes
  <2>2. file.names = 0 /\ \A c \in fileMay : c.names = 0
    BY <1>1, <1>5, SMT DEF Current, Disk
  <2>3. TypeOK'
    BY <1>1, <1>3, <2>1, SMT DEF TypeOK, Steps
  <2>4. Working'
    BY <1>1, <1>5, <2>1, SMT DEF TypeOK, Working, InDb
  <2>5. Current'
    BY <1>1, <2>1, <2>2, SMT DEF TypeOK, Current
  <2>6. Prepared'
    <3>1. save'.pc = "write" /\ save'.db = save.db /\ save'.op = save.op /\ mem' = mem
      BY <2>1, SMT DEF TypeOK
    <3> QED BY <1>3, <3>1, SMT DEF Prepared, New, InDb, InFile
  <2>7. Matches'
    BY <1>5, <2>1, SMT DEF Matches
  <2>8. Safe'
    BY <1>1, <2>1, <2>2, SMT DEF Safe, Everywhere
  <2>9. Rejected'
    BY <1>1, <2>1, <2>2, SMT DEF Rejected, Nowhere
  <2> QED BY <1>4, <2>3, <2>4, <2>5, <2>6, <2>7, <2>8, <2>9
<1>6. CASE serving # 0
  <2>1. /\ mem' = New /\ save' = NoSave /\ report' = [report EXCEPT ![save.op] = "saved"]
        /\ UNCHANGED <<serving, unresolved>>
    BY <1>6, <1>1, SMT DEF Kept, Saves, Told, New
  <2>2. save.db = serving /\ file.names = serving
        /\ (~exposed => \A c \in fileMay : c.names = serving)
    BY <1>1, <1>6, SMT DEF Working, Current
  <2>3. TypeOK'
    BY <1>1, <1>3, <2>1, IdleSave, SMT DEF TypeOK, SaveRecords, New, Records
  <2>4. Working'
    BY <1>1, <1>6, <2>1, IdleSave, SMT DEF Working, InDb
  <2>5. Current'
    BY <1>1, <1>6, <2>1, <2>2, SMT DEF Current
  <2>6. Prepared'
    BY <2>1, IdleSave, SMT DEF Prepared, InDb, InFile
  <2>7. Matches'
    BY <1>3, <2>1, <2>2, SMT DEF Matches, New
  <2>8. Safe'
    <3>1. ~exposed => \A o \in New : Everywhere(o)'
      <4>1. fileMay' = fileMay /\ db'[serving].may = {New} /\ serving # 0
        BY <1>1, <1>3, <1>6, <2>2
      <4> QED BY <2>2, <4>1, SMT DEF Everywhere
    <3> QED BY <1>1, <2>1, <3>1, SMT DEF TypeOK, Safe, New
  <2>9. Rejected'
    <3>1. \A o \in Ops : report'[o] = "rejected" =>
             report[o] = "rejected" /\ o # save.op
      BY <1>1, <2>1, SMT DEF TypeOK
    <3>2. \A o \in Ops : Nowhere(o) /\ o # save.op => Nowhere(o)'
      <4>1. /\ file' = file /\ fileMay' = fileMay /\ file.names = serving
            /\ db'[serving].may = {New} /\ mem' = New
        BY <1>1, <1>3, <2>1, <2>2
      <4> QED BY <4>1, SMT DEF Nowhere, New
    <3> QED BY <1>1, <3>1, <3>2 DEF Rejected
  <2> QED BY <1>4, <2>3, <2>4, <2>5, <2>6, <2>7, <2>8, <2>9
<1> QED BY <1>5, <1>6

\* Reopen keeps the invariant (Reopen in Storage).
LEMMA ReopenKeeps == ASSUME IInv, Reopen PROVE IInv'
<1> USE DEF IInv
<1>1. /\ save.pc = "uncertain" /\ save' = [save EXCEPT !.pc = "barrier"] /\ up /\ ~unresolved
      /\ save.db \in Dbs
      /\ UNCHANGED <<file, fileMay, up, mem, serving, unresolved, report, exposed, faults, crashes>>
  BY InRange, SMT DEF Reopen, Goes, Working, InDb
<1>2. PICK s \in db[save.db].found : db' = [db EXCEPT ![save.db].found = {s}]
  BY DEF Reopen
<1>3. /\ s \in Records /\ s \in db[save.db].may
      /\ db' \in [Dbs -> Database] /\ db'[save.db].found = {s} /\ db'[save.db] # Absent
      /\ \A e \in Dbs : db'[e].may = db[e].may
      /\ \A e \in Dbs \ {save.db} : db'[e] = db[e]
  <2>1. s \in Records /\ s \in db[save.db].may
    BY <1>1, <1>2, SMT DEF TypeOK, Database, Disk
  <2>2. /\ db' \in [Dbs -> Database] /\ db'[save.db].found = {s}
        /\ \A e \in Dbs : db'[e].may = db[e].may
        /\ \A e \in Dbs \ {save.db} : db'[e] = db[e]
    BY <1>1, <1>2, <2>1, SMT DEF TypeOK, Database
  <2> QED BY <2>1, <2>2, ShownExists
<1>4. TypeOK'
  BY <1>1, <1>3, SMT DEF TypeOK, Steps
<1>5. Working'
  BY <1>1, SMT DEF TypeOK, Working, InDb
<1>6. Disk'
  <2>1. \A e \in Dbs :
          /\ db'[e].found \subseteq db'[e].may
          /\ db[e] # Absent => db'[e] # Absent
          /\ db'[e] # Absent => db'[e].found # {}
    BY <1>3, SMT DEF Disk
  <2>2. file.names # 0 => db'[file.names] # Absent
    BY <2>1, InRange DEF Disk
  <2>3. file' = file /\ fileMay' = fileMay
    BY <1>1
  <2> QED BY <2>1, <2>2, <2>3 DEF Disk
<1>7. Current'
  BY <1>1, SMT DEF TypeOK, Current
<1>8. Prepared'
  <2>1. save'.pc = "barrier" /\ save'.db = save.db /\ save'.op = save.op /\ mem' = mem
    BY <1>1, SMT DEF TypeOK
  <2> QED BY <1>1, <1>3, <2>1, SMT DEF Prepared, Fitting, New, InDb, InFile
<1>9. Matches'
  <2>1. save'.pc = "barrier" /\ save'.db = save.db /\ save'.op = save.op /\ mem' = mem
    BY <1>1, SMT DEF TypeOK
  <2> QED BY <1>1, <1>2, <1>3, <2>1, SMT DEF Working, Matches, New
<1>10. Safe'
  <2>1. \A o : Everywhere(o) => Everywhere(o)'
    BY <1>1, <1>3, InRange, SMT DEF Everywhere
  <2> QED BY <1>1, <2>1, SMT DEF Safe
<1>11. Rejected'
  <2>1. \A o : Nowhere(o) => Nowhere(o)'
    BY <1>1, <1>3, InRange, SMT DEF Nowhere
  <2> QED BY <1>1, <2>1, SMT DEF Rejected
<1> QED BY <1>4, <1>5, <1>6, <1>7, <1>8, <1>9, <1>10, <1>11

\* Barrier keeps the invariant (Barrier in Storage).
LEMMA BarrierKeeps == ASSUME IInv, Barrier PROVE IInv'
<1> USE DEF IInv
<1>1. /\ save.pc = "barrier" /\ up /\ ~unresolved /\ save.op \in Ops /\ save.op \notin mem
      /\ report[save.op] = "pending" /\ save.db \in Dbs
      /\ UNCHANGED <<file, fileMay, up, exposed, faults, crashes>>
  BY InRange, SMT DEF Barrier, Working, InDb
<1>2. PICK s \in db[save.db].found :
        /\ db' = [db EXCEPT ![save.db].may = {s}]
        /\ IF save.op \in s THEN Kept ELSE Fails
  BY DEF Barrier
<1>3. /\ s \in Records /\ s \in db[save.db].may
      /\ db' \in [Dbs -> Database] /\ db'[save.db].may = {s} /\ db'[save.db].found = {s}
      /\ db'[save.db] # Absent /\ \A e \in Dbs \ {save.db} : db'[e] = db[e]
  <2>1. s \in Records /\ s \in db[save.db].may
    BY <1>1, <1>2, SMT DEF TypeOK, Database, Disk
  <2>2. db[save.db].found = {s}
    BY <1>1, <1>2, SMT DEF Prepared
  <2>3. /\ db' \in [Dbs -> Database] /\ db'[save.db].may = {s} /\ db'[save.db].found = {s}
        /\ \A e \in Dbs \ {save.db} : db'[e] = db[e]
    BY <1>1, <1>2, <2>1, <2>2, SMT DEF TypeOK, Database
  <2> QED BY <2>1, <2>3, ShownExists
<1>4. /\ save.op \in s => s = New
      /\ serving # 0 => save.db = serving /\ file.names = serving /\ s \in {mem, New}
      /\ (serving # 0 /\ ~exposed) => \A c \in fileMay : c.names = serving
      /\ serving = 0 => file.names = 0 /\ \A c \in fileMay : c.names = 0
  <2>1. CASE serving = 0
    BY <1>1, <1>3, <2>1, SMT DEF Prepared, Fitting, Current, Disk, InDb
  <2>2. CASE serving # 0
    BY <1>1, <1>2, <2>2, SMT DEF Working, Matches, Current
  <2> QED BY <2>1, <2>2
<1>5. Disk'
  <2>1. \A e \in Dbs :
          /\ db'[e].found \subseteq db'[e].may
          /\ db[e] # Absent => db'[e] # Absent
          /\ db'[e] # Absent => db'[e].found # {}
    BY <1>3, SMT DEF Disk
  <2>2. file.names # 0 => db'[file.names] # Absent
    BY <2>1, InRange DEF Disk
  <2>3. file' = file /\ fileMay' = fileMay
    BY <1>1
  <2> QED BY <2>1, <2>2, <2>3 DEF Disk
<1>6. CASE serving = 0 /\ save.op \in s
  <2>1. save' = [save EXCEPT !.pc = "write"] /\ UNCHANGED <<mem, serving, unresolved, report>>
    BY <1>2, <1>6, SMT DEF Kept, Goes
  <2>2. /\ save'.pc = "write" /\ save'.db = save.db /\ save'.op = save.op
        /\ save' \in SaveRecords
    BY <2>1, SMT DEF TypeOK, SaveRecords, Steps
  <2>3. TypeOK'
    BY <1>1, <1>3, <2>1, <2>2, SMT DEF TypeOK, SaveRecords
  <2>4. Working'
    BY <1>1, <1>6, <2>1, <2>2, SMT DEF Working, InDb
  <2>5. Current'
    BY <1>1, <1>4, <1>6, <2>1, <2>2, SMT DEF Current
  <2>6. Prepared'
    <3>1. s = New /\ New' = New
      BY <1>4, <1>6, <2>1, <2>2 DEF New
    <3>2. db'[save'.db].found = {New'} /\ db'[save'.db].may = {New'}
      BY <1>3, <2>2, <3>1
    <3> QED BY <2>2, <3>2, SMT DEF Prepared, InDb, InFile
  <2>7. Matches'
    BY <1>6, <2>1, SMT DEF Matches
  <2>8. Safe'
    BY <1>1, <1>4, <1>6, <2>1, SMT DEF Safe, Everywhere
  <2>9. Rejected'
    BY <1>1, <1>4, <1>6, <2>1, SMT DEF Rejected, Nowhere
  <2> QED BY <1>5, <2>3, <2>4, <2>5, <2>6, <2>7, <2>8, <2>9
<1>7. CASE serving # 0 /\ save.op \in s
  <2>1. /\ mem' = New /\ save' = NoSave /\ report' = [report EXCEPT ![save.op] = "saved"]
        /\ UNCHANGED <<serving, unresolved>>
    BY <1>1, <1>2, <1>7, SMT DEF Kept, Saves, Told, New
  <2>2. db'[serving].may = {New} /\ db'[serving].found = {New} /\ db'[serving] # Absent
    BY <1>3, <1>4, <1>7
  <2>3. TypeOK'
    BY <1>1, <1>3, <2>1, IdleSave, SMT DEF TypeOK, SaveRecords, New, Records
  <2>4. Working'
    BY <1>1, <1>7, <2>1, IdleSave, SMT DEF Working, InDb
  <2>5. Current'
    BY <1>1, <1>4, <1>7, <2>1, SMT DEF Current
  <2>6. Prepared'
    BY <2>1, IdleSave, SMT DEF Prepared, InDb, InFile
  <2>7. Matches'
    BY <2>1, <2>2, SMT DEF Matches, New
  <2>8. Safe'
    <3>1. ~exposed => \A o \in New : Everywhere(o)'
      <4>1. fileMay' = fileMay /\ serving # 0
        BY <1>1, <1>7
      <4> QED BY <1>4, <2>2, <4>1, SMT DEF Everywhere
    <3> QED BY <1>1, <2>1, <3>1, SMT DEF TypeOK, Safe, New
  <2>9. Rejected'
    <3>1. \A o \in Ops : report'[o] = "rejected" => report[o] = "rejected" /\ o # save.op
      BY <1>1, <2>1, SMT DEF TypeOK
    <3>2. \A o \in Ops : Nowhere(o) /\ o # save.op => Nowhere(o)'
      <4>1. file' = file /\ fileMay' = fileMay /\ file.names = serving /\ mem' = New
        BY <1>1, <1>4, <1>7, <2>1
      <4> QED BY <2>2, <4>1, SMT DEF Nowhere, New
    <3> QED BY <1>1, <3>1, <3>2 DEF Rejected
  <2> QED BY <1>5, <2>3, <2>4, <2>5, <2>6, <2>7, <2>8, <2>9
<1>8. CASE save.op \notin s
  <2>1. /\ save' = NoSave /\ UNCHANGED <<mem, serving, unresolved>>
        /\ report' = [report EXCEPT ![save.op] = IF serving = 0 THEN "failed" ELSE "rejected"]
    BY <1>2, <1>8, SMT DEF Fails, Told
  <2>2. serving # 0 => s = mem
    BY <1>1, <1>4, <1>8, SMT DEF New
  <2>3. TypeOK'
    BY <1>1, <1>3, <2>1, IdleSave, SMT DEF TypeOK, SaveRecords
  <2>4. Working'
    BY <1>1, <2>1, IdleSave, SMT DEF Working, InDb
  <2>5. Current'
    BY <1>1, <1>4, <2>1, SMT DEF Current
  <2>6. Prepared'
    BY <2>1, IdleSave, SMT DEF Prepared, InDb, InFile
  <2>7. Matches'
    BY <1>3, <1>4, <2>1, <2>2, SMT DEF Matches, New
  <2>8. Safe'
    <3>1. \A o \in Ops : Everywhere(o) => Everywhere(o)'
      BY <1>1, <1>3, InRange, SMT DEF Everywhere
    <3> QED BY <1>1, <2>1, <3>1, SMT DEF TypeOK, Safe
  <2>9. Rejected'
    <3>1. \A o \in Ops : Nowhere(o) => Nowhere(o)'
      BY <1>1, <1>3, <2>1, InRange, SMT DEF Nowhere
    <3>2. \A o : (serving # 0 /\ ~exposed /\ o = save.op) => Nowhere(o)'
      <4>1. serving # 0 => db'[file.names].may = {s}
        BY <1>3, <1>4
      <4>2. file' = file /\ fileMay' = fileMay /\ mem' = mem
        BY <1>1, <2>1
      <4> QED BY <1>1, <1>4, <1>8, <4>1, <4>2 DEF Nowhere
    <3>3. \A o \in Ops : report'[o] = "rejected" =>
            report[o] = "rejected" \/ (o = save.op /\ serving # 0)
      BY <1>1, <2>1, SMT DEF TypeOK
    <3> QED BY <1>1, <3>1, <3>2, <3>3 DEF Rejected
  <2> QED BY <1>5, <2>3, <2>4, <2>5, <2>6, <2>7, <2>8, <2>9
<1> QED BY <1>6, <1>7, <1>8

\* OutcomeLost keeps the invariant (OutcomeLost in Storage).
LEMMA OutcomeLostKeeps == ASSUME IInv, OutcomeLost PROVE IInv'
<1> USE DEF IInv
<1>1. /\ save.pc \in InDb /\ up /\ save.op \in Ops /\ report[save.op] = "pending"
      /\ save' = NoSave /\ faults' \in Nat
      /\ UNCHANGED <<disk, up, mem, serving, exposed, crashes>>
      /\ unresolved' = IF serving = 0 THEN FALSE ELSE TRUE
      /\ report' = [report EXCEPT ![save.op] = IF serving = 0 THEN "failed" ELSE "lost"]
  <2>1. save.pc \in InDb /\ up /\ ~unresolved /\ save.op \in Ops /\ report[save.op] = "pending"
    BY SMT DEF OutcomeLost, Working, InDb
  <2>2. faults' \in Nat /\ UNCHANGED <<disk, up, exposed, crashes>>
    BY SMT DEF OutcomeLost, Fault, TypeOK
  <2>3. CASE serving = 0
    BY <2>1, <2>2, <2>3, Zenon DEF OutcomeLost, Fails, Told, TypeOK
  <2>4. CASE serving # 0
    BY <2>1, <2>2, <2>4, Zenon DEF OutcomeLost, Unresolved, Told
  <2> QED BY <2>3, <2>4
<1>2. TypeOK'
  BY <1>1, IdleSave, SMT DEF TypeOK, SaveRecords, disk
<1>3. Working'
  BY <1>1, IdleSave, SMT DEF Working, InDb
<1>4. Disk'
  BY <1>1, SMT DEF Disk, disk
<1>5. Current'
  BY <1>1, SMT DEF Current, disk, InDb
<1>6. Prepared'
  BY <1>1, IdleSave, SMT DEF Prepared, InDb, InFile
<1>7. Matches'
  BY <1>1, SMT DEF Matches
<1>8. Safe'
  BY <1>1, SMT DEF TypeOK, Safe, Everywhere, disk
<1>9. Rejected'
  BY <1>1, SMT DEF TypeOK, Rejected, Nowhere, disk
<1> QED BY <1>2, <1>3, <1>4, <1>5, <1>6, <1>7, <1>8, <1>9

\* A process that is gone leaves the disk, and what clients were told.
LEMMA StopsKeeps ==
  ASSUME IInv, Stops, UNCHANGED <<report, exposed, faults>>, Disk', Safe', Rejected',
         file' \in Files, fileMay' \subseteq Files, db' \in [Dbs -> Database]
  PROVE  IInv'
<1> USE DEF IInv
<1>1. /\ up' = FALSE /\ mem' = {} /\ serving' = 0 /\ unresolved' = FALSE /\ save' = NoSave
      /\ crashes' \in Nat
  BY SMT DEF Stops, TypeOK
<1>2. TypeOK'
  <2>1. {} \in SUBSET Ops /\ 0 \in 0..MaxDb
    BY SMT, StorageAssumption
  <2> QED BY <1>1, <2>1, IdleSave DEF TypeOK, SaveRecords
<1>3. Working' /\ Current' /\ Prepared' /\ Matches'
  BY <1>1, IdleSave, SMT DEF Working, Current, Prepared, Matches, InDb, InFile
<1> QED BY <1>2, <1>3

\* Crash keeps the invariant (Crash in Storage).
LEMMA CrashKeeps == ASSUME IInv, Crash PROVE IInv'
<1> USE DEF IInv
<1>1. Stops /\ UNCHANGED <<file, fileMay, db, report, exposed, faults>> /\ up' = FALSE /\ mem' = {}
  BY DEF Crash, Stops, disk
<1>2. Disk'
  BY <1>1 DEF Disk
<1>3. Safe'
  BY <1>1 DEF Safe, Everywhere
<1>4. Rejected'
  BY <1>1 DEF Rejected, Nowhere
<1> QED BY <1>1, <1>2, <1>3, <1>4, StopsKeeps DEF TypeOK

\* PowerLoss keeps the invariant (PowerLoss in Storage).
LEMMA PowerLossKeeps == ASSUME IInv, PowerLoss PROVE IInv'
<1> USE DEF IInv
<1>1. Stops /\ UNCHANGED <<report, exposed, faults>> /\ up' = FALSE /\ mem' = {}
  BY DEF PowerLoss, Stops
<1>2. PICK c \in fileMay : file' = c /\ fileMay' = {c}
  BY DEF PowerLoss
<1>3. PICK left \in [Dbs -> Records] :
        /\ \A d \in Dbs : db[d] # Absent => left[d] \in db[d].may
        /\ db' = [d \in Dbs |-> IF db[d] = Absent THEN Absent ELSE Holding(left[d])]
  BY DEF PowerLoss
<1>4. \A d \in Dbs :
        /\ db[d] = Absent => db'[d] = Absent
        /\ db[d] # Absent => /\ db'[d].found = {left[d]} /\ db'[d].may = {left[d]}
                             /\ db'[d] # Absent /\ left[d] \in db[d].may
  BY <1>3, HoldingHolds
<1>5. file' \in Files /\ fileMay' \subseteq Files
  BY <1>2 DEF TypeOK
<1>6. db' \in [Dbs -> Database]
  <2>1. Absent \in Database
    BY SMT DEF Absent, Database, Records
  <2>2. \A d \in Dbs : Holding(left[d]) \in Database
    BY HoldingType
  <2> QED BY <1>3, <2>1, <2>2
<1>7. c.names # 0 => /\ c.names = file.names /\ c.names \in Dbs /\ db[c.names] # Absent
                     /\ db'[c.names].may \subseteq db[c.names].may /\ db'[c.names] # Absent
  <2>1. c.names # 0 => c.names = file.names /\ c.names \in Dbs /\ db[c.names] # Absent
    BY <1>2, InRange DEF Disk
  <2> QED BY <2>1, <1>4
<1>8. Disk'
  <2>1. Absent.found = {} /\ Absent.may = {}
    BY DEF Absent
  <2>2. \A d \in Dbs : /\ db'[d].found \subseteq db'[d].may
                       /\ db'[d] # Absent => db'[d].found # {}
    BY <1>4, <2>1
  <2> QED BY <1>2, <1>7, <2>2 DEF Disk
<1>9. Safe'
  <2>1. \A o \in Ops : Everywhere(o) => Everywhere(o)'
    BY <1>2, <1>7 DEF Everywhere
  <2> QED BY <1>1, <2>1 DEF Safe
<1>10. Rejected'
  <2>1. \A o \in Ops : Nowhere(o) => Nowhere(o)'
    BY <1>1, <1>2, <1>7 DEF Nowhere
  <2> QED BY <1>1, <2>1 DEF Rejected
<1> QED BY <1>1, <1>5, <1>6, <1>8, <1>9, <1>10, StopsKeeps

\* Load keeps the invariant (Load in Storage).
LEMMA LoadKeeps == ASSUME IInv, Load PROVE IInv'
<1> USE DEF IInv
<1>1. /\ up' = TRUE /\ serving' = file.names /\ save' = save /\ save.pc = "idle"
      /\ unresolved' = unresolved /\ ~unresolved
      /\ exposed' = (exposed \/ (file.names # 0 /\ fileMay # {file}))
      /\ UNCHANGED <<file, fileMay, report, faults, crashes>>
  BY DEF Load, Working
<1>2. ~exposed' => ~exposed /\ \A c \in fileMay : c.names = file.names
  <2>1. ~exposed' => ~exposed /\ (file.names # 0 => fileMay = {file})
    BY <1>1, Zenon
  <2>2. file.names = 0 => \A c \in fileMay : c.names = file.names
    BY SMT DEF Disk
  <2> QED BY <2>1, <2>2
<1>3. CASE file.names = 0
  <2>1. mem' = file.image /\ db' = db
    BY <1>3 DEF Load
  <2>2. TypeOK'
    <3>1. exposed' \in BOOLEAN
      BY <1>1 DEF TypeOK
    <3> QED BY <1>1, <1>3, <2>1, <3>1, SMT DEF TypeOK, Files, Records
  <2>3. Working'
    BY <1>1, <1>3, SMT DEF Working, InDb
  <2>4. Disk'
    BY <1>1, <2>1 DEF Disk
  <2>5. Current'
    <3>1. \E o \in Ops \union {None} : file.image \subseteq file.image \union {o}
      OBVIOUS
    <3> QED BY <1>1, <1>3, <2>1, <3>1 DEF Current
  <2>6. Prepared'
    BY <1>1, SMT DEF Prepared, InDb, InFile
  <2>7. Matches'
    BY <1>1, <1>3 DEF Matches
  <2>8. Safe'
    BY <1>1, <1>2, <1>3, <2>1 DEF Safe, Everywhere, Disk
  <2>9. Rejected'
    BY <1>1, <1>2, <1>3, <2>1 DEF Rejected, Nowhere
  <2> QED BY <2>2, <2>3, <2>4, <2>5, <2>6, <2>7, <2>8, <2>9
<1>4. CASE file.names # 0
  <2>1. file.names \in Dbs /\ db[file.names] # Absent
    BY <1>4, InRange DEF Disk
  <2>2. PICK s \in db[file.names].found :
          /\ mem' = s
          /\ db' = [db EXCEPT ![file.names] = [found |-> {s}, may |-> {r \in @.may : r \subseteq s}]]
    BY <1>4 DEF Load
  <2>3. /\ s \in Records /\ s \in db[file.names].may
        /\ db' \in [Dbs -> Database] /\ db'[file.names].found = {s}
        /\ db'[file.names].may = {r \in db[file.names].may : r \subseteq s}
        /\ db'[file.names] # Absent
        /\ \A d \in Dbs \ {file.names} : db'[d] = db[d]
    <3>1. s \in Records /\ s \in db[file.names].may
      BY <2>1, <2>2, SMT DEF TypeOK, Database, Disk
    <3>2. /\ db' \in [Dbs -> Database] /\ db'[file.names].found = {s}
          /\ db'[file.names].may = {r \in db[file.names].may : r \subseteq s}
          /\ \A d \in Dbs \ {file.names} : db'[d] = db[d]
      BY <2>1, <2>2, <3>1, SMT DEF TypeOK, Database
    <3> QED BY <3>1, <3>2, ShownExists
  <2>4. TypeOK'
    <3>1. exposed' \in BOOLEAN
      BY <1>1 DEF TypeOK
    <3>2. mem' \subseteq Ops /\ serving' \in 0..MaxDb
      BY <1>1, <2>2, <2>3, SMT DEF TypeOK, Records, Files
    <3> QED BY <1>1, <2>3, <3>1, <3>2 DEF TypeOK
  <2>5. Working'
    BY <1>1, <1>4, SMT DEF Working, InDb
  <2>6. Disk'
    BY <1>1, <2>1, <2>3, SMT DEF Disk
  <2>7. Current'
    BY <1>1, <1>2, <1>4 DEF Current
  <2>8. Prepared'
    BY <1>1, SMT DEF Prepared, InDb, InFile
  <2>9. Matches'
    <3>1. /\ db'[serving'] # Absent /\ db'[serving'].found = {mem'}
          /\ \A r \in db'[serving'].may : r \subseteq mem'
      BY <1>1, <2>2, <2>3
    <3> QED BY <3>1 DEF Matches, New
  <2>10. \A o : Everywhere(o) => Everywhere(o)' /\ o \in s
    <3>1. \A c \in fileMay : c.names # 0 => c.names = file.names
      BY DEF Disk
    <3> QED BY <1>1, <1>4, <2>3, <3>1 DEF Everywhere, Disk
  <2>11. Safe'
    BY <1>1, <1>2, <2>2, <2>10 DEF Safe
  <2>12. \A o : Nowhere(o) => Nowhere(o)'
    BY <1>1, <2>2, <2>3 DEF Nowhere
  <2>13. Rejected'
    BY <1>1, <1>2, <2>12 DEF Rejected
  <2> QED BY <2>4, <2>5, <2>6, <2>7, <2>8, <2>9, <2>11, <2>13
<1> QED BY <1>3, <1>4

(***************************************************************************)
(* The theorems.                                                           *)
(***************************************************************************)

\* The initial state satisfies the invariant (Server::load_source).
LEMMA InitHolds == ASSUME Init PROVE IInv
<1>1. TypeOK
  <2>1. {} \in Records /\ 0 \in 0..MaxDb
    BY SMT, StorageAssumption DEF Records
  <2>2. file \in Files /\ fileMay \subseteq Files
    BY <2>1, SMT DEF Init, Files, Image
  <2>3. Absent \in Database
    BY SMT DEF Absent, Database
  <2>4. db \in [Dbs -> Database]
    BY <2>3, SMT DEF Init
  <2>5. save \in [pc : Steps, op : Ops \union {None}, source : Records, db : 0..MaxDb]
    BY IdleSave DEF Init, SaveRecords
  <2>6. report \in [Ops -> {"none", "pending", "saved", "found", "failed", "rejected", "lost"}]
    BY SMT DEF Init
  <2>7. up \in BOOLEAN /\ unresolved \in BOOLEAN /\ exposed \in BOOLEAN
    BY Zenon DEF Init
  <2>8. mem \subseteq Ops /\ serving \in 0..MaxDb /\ faults \in Nat /\ crashes \in Nat
    BY <2>1, SMT DEF Init, Records
  <2> QED BY <2>2, <2>4, <2>5, <2>6, <2>7, <2>8 DEF TypeOK
<1>2. Working /\ Prepared /\ Matches
  BY IdleSave, SMT DEF Init, Working, Prepared, Matches, InDb, InFile
<1>3. Disk
  BY SMT DEF Init, Disk, Image, Absent
<1>4. Current
  BY SMT DEF Init, Current, Image
<1>5. Safe /\ Rejected
  BY SMT DEF Init, Safe, Rejected
<1> QED BY <1>1, <1>2, <1>3, <1>4, <1>5 DEF IInv

\* Every step keeps the invariant; one lemma for each action.
LEMMA NextKeeps == ASSUME IInv, [Next]_vars PROVE IInv'
<1>1. CASE \E o \in Ops : Request(o)
  BY <1>1, RequestKeeps
<1>2. CASE Rename \/ DirectorySynced \/ WriteFails \/ FenceMarker \/ FenceFails \/ OthersSync
  BY <1>2, RenameKeeps, DirectorySyncedKeeps, WriteFailsKeeps, FenceMarkerKeeps, FenceFailsKeeps,
     OthersSyncKeeps
<1>3. CASE Import \/ Commit \/ CommitUnchanged \/ Committed \/ CommitUncertain
  BY <1>3, ImportKeeps, CommitKeeps, CommitUnchangedKeeps, CommittedKeeps, CommitUncertainKeeps
<1>4. CASE Reopen \/ Barrier \/ OutcomeLost
  BY <1>4, ReopenKeeps, BarrierKeeps, OutcomeLostKeeps
<1>5. CASE Crash \/ PowerLoss \/ Load
  BY <1>5, CrashKeeps, PowerLossKeeps, LoadKeeps
<1>6. CASE UNCHANGED vars
  BY <1>6 DEF vars, disk, process, IInv, TypeOK, Working, Disk, Current, Prepared, Fitting, New,
     Matches, Safe, Everywhere, Rejected, Nowhere
<1> QED BY <1>1, <1>2, <1>3, <1>4, <1>5, <1>6 DEF Next

\* The invariant that the properties follow from (persist, persist_records, load).
THEOREM Invariant == Spec => []IInv
BY InitHolds, NextKeeps, PTL DEF Spec

\* Files, databases, the save under way and the reports keep their types (Storage).
THEOREM TypeCorrect == Spec => []TypeOK
<1>1. IInv => TypeOK
  BY DEF IInv
<1> QED BY <1>1, Invariant, PTL

\* What is safe is in every image a restart may read.
LEMMA SafeSurvives == ASSUME IInv PROVE SavedSurvives
<1> SUFFICES ASSUME ~exposed, NEW o \in Ops, report[o] = "saved", NEW s \in Futures
             PROVE  o \in s
  BY DEF SavedSurvives
<1>1. PICK c \in fileMay : s \in Restored(c)
  BY DEF Futures
<1>2. Everywhere(o)
  BY DEF IInv, Safe
<1> QED BY <1>1, <1>2 DEF Restored, Everywhere

\* A record reported as saved is in whatever a power loss leaves, for any number of
\* operations, databases, errors and deaths (persist, publish_marker, recover_inner).
THEOREM WhatIsSavedSurvives == Spec => []SavedSurvives
BY SafeSurvives, Invariant, PTL

\* What was rejected is in no image a restart may read.
LEMMA RejectedStands == ASSUME IInv PROVE FailureStands
<1> SUFFICES ASSUME ~exposed, NEW o \in Ops, report[o] = "rejected", NEW s \in Futures \union {mem}
             PROVE  o \notin s
  BY DEF FailureStands
<1>1. Nowhere(o)
  BY DEF IInv, Rejected
<1>2. CASE s \in Futures
  <2>1. PICK c \in fileMay : s \in Restored(c)
    BY <1>2 DEF Futures
  <2> QED BY <1>1, <2>1 DEF Restored, Nowhere
<1> QED BY <1>1, <1>2 DEF Nowhere

\* What a database rejected is in no database a restart may open (reconcile, Barrier).
THEOREM RejectionIsFinal == Spec => []FailureStands
BY RejectedStands, Invariant, PTL

\* The parts on the disk and on the service give the equality with memory.
LEMMA MatchesMemory == ASSUME IInv PROVE RecordsMatchMemory
<1> SUFFICES ASSUME up, serving # 0, ~unresolved, save.pc \in {"idle", "commit"}
             PROVE  /\ db[serving].found = {mem} /\ mem \in db[serving].may
                    /\ \A s \in db[serving].may : s \subseteq mem
  BY DEF RecordsMatchMemory
<1>1. serving \in Dbs
  BY InRange DEF IInv
<1>2. db[serving].found = {mem} /\ \A s \in db[serving].may : s \subseteq mem
  BY DEF IInv, Matches
<1> QED BY <1>1, <1>2 DEF IInv, Disk

\* Memory is exactly what the database in service holds (Store in Storage).
THEOREM MemoryIsTheDatabase == Spec => []RecordsMatchMemory
BY MatchesMemory, Invariant, PTL

----------------------------------------------------------------------------
(* Storage implements RecordsPromise.                                        *)

\* The records in use that all of some states of the disk bring up, and the others that
\* one of them does: F are the states, u says whether the supervisor runs, on m.
Safekept(F, u, m) == {o \in Ops : (u => o \in m) /\ \A s \in F : o \in s}
Unsettled(F, u, m) == {o \in Ops : \E s \in F : o \in s} \ Safekept(F, u, m)

\* The refinement mapping, in a state and after a step.
LEMMA PromiseView ==
  /\ Durable = Safekept(Futures, up, mem) /\ Doubtful = Unsettled(Futures, up, mem)
  /\ Durable' = Safekept(Futures', up', mem') /\ Doubtful' = Unsettled(Futures', up', mem')
BY DEF Durable, Doubtful, Safekept, Unsettled

\* Memory goes on: no record in use is forgotten, and a new process uses what it found.
MemoryGoesOn == up' => \/ up /\ mem \subseteq mem'
                       \/ ~up /\ \E s \in Futures : s \subseteq mem'

\* A restart brings something up.
LEMMA SomeFuture == ASSUME IInv PROVE Futures # {}
<1>1. file \in fileMay
  BY DEF IInv, Disk
<1>2. CASE file.names = 0
  BY <1>1, <1>2 DEF Futures, Restored
<1>3. CASE file.names # 0
  <2>1. file.names \in Dbs /\ db[file.names] # Absent
    BY <1>3, InRange DEF IInv, Disk
  <2>2. db[file.names].may # {}
    BY <2>1 DEF IInv, Disk
  <2> QED BY <1>1, <1>3, <2>2 DEF Futures, Restored
<1> QED BY <1>2, <1>3

\* Fewer futures settle doubts.
LEMMA FewerFutures ==
  ASSUME Futures' \subseteq Futures, Futures' # {}, MemoryGoesOn
  PROVE  Promise!Settle
<1>1. PICK F, G : F = Futures /\ G = Futures'
  OBVIOUS
<1>2. G \subseteq F /\ G # {} /\ MemoryGoesOn
  BY <1>1
<1>3. Safekept(F, up, mem) \subseteq Safekept(G, up', mem')
  BY <1>1, <1>2 DEF Safekept, MemoryGoesOn
<1>4. Safekept(G, up', mem') \subseteq Safekept(F, up, mem) \union Unsettled(F, up, mem)
  BY <1>2 DEF Safekept, Unsettled
<1>5. Unsettled(G, up', mem') \subseteq Unsettled(F, up, mem) \ Safekept(G, up', mem')
  BY <1>2, <1>3 DEF Unsettled
<1> QED BY <1>1, <1>3, <1>4, <1>5, PromiseView DEF Promise!Settle

\* One more future, that of the record being saved.
LEMMA OneMoreFuture ==
  ASSUME up, up' = up, mem' = mem, save.op \in Ops, save.op \notin mem,
         Futures' = Futures \union {New}, \E f \in Futures : mem \subseteq f
  PROVE  Promise!Next
<1>1. PICK F, G : F = Futures /\ G = Futures'
  OBVIOUS
<1>2. PICK o : o = save.op
  OBVIOUS
<1>3. /\ o \in Ops /\ o \notin mem /\ New = mem \union {o} /\ G = F \union {New}
      /\ \E f \in F : mem \subseteq f
  BY <1>1, <1>2 DEF New
<1>4. Safekept(G, up', mem') = Safekept(F, up, mem) /\ o \notin Safekept(F, up, mem)
  BY <1>3 DEF Safekept
<1>5. Unsettled(G, up', mem') = Unsettled(F, up, mem) \union {o}
  <2>1. \A x : (\E s \in G : x \in s) <=> ((\E s \in F : x \in s) \/ x \in New)
    BY <1>3
  <2>2. \A x \in New : x = o \/ \E s \in F : x \in s
    BY <1>3
  <2>3. o \in New
    BY <1>3
  <2>4. \A x : (\E s \in G : x \in s) <=> ((\E s \in F : x \in s) \/ x = o)
    BY <2>1, <2>2, <2>3
  <2>5. PICK K : K = Safekept(F, up, mem)
    OBVIOUS
  <2>6. o \in Ops /\ o \notin K /\ Safekept(G, up', mem') = K
    BY <1>3, <1>4, <2>5
  <2>7. Unsettled(F, up, mem) = {x \in Ops : \E s \in F : x \in s} \ K
    BY <2>5 DEF Unsettled
  <2>8. Unsettled(G, up', mem') = {x \in Ops : \E s \in G : x \in s} \ K
    BY <2>6 DEF Unsettled
  <2> QED BY <2>4, <2>6, <2>7, <2>8
<1>6. CASE o \in Unsettled(F, up, mem)
  <2>1. Durable' = Durable /\ Doubtful' = Doubtful
    BY <1>1, <1>4, <1>5, <1>6, PromiseView
  <2>2. Doubtful \cap Durable = {}
    BY DEF Doubtful
  <2>3. Promise!Settle
    BY <2>1, <2>2 DEF Promise!Settle
  <2> QED BY <2>3 DEF Promise!Next
<1>7. CASE o \notin Unsettled(F, up, mem)
  <2>1. Promise!Attempt(o)
    BY <1>1, <1>4, <1>5, <1>7, PromiseView DEF Promise!Attempt
  <2> QED BY <1>3, <2>1 DEF Promise!Next
<1> QED BY <1>6, <1>7

\* A step after which the disk may be left in fewer states.
LEMMA DiskSettles ==
  ASSUME fileMay' \subseteq fileMay, fileMay' # {},
         \A c \in fileMay' : c.names # 0 =>
           db'[c.names].may \subseteq db[c.names].may /\ db'[c.names].may # {},
         MemoryGoesOn
  PROVE  Promise!Settle
<1>1. \A c \in fileMay' : Restored(c)' \subseteq Restored(c) /\ Restored(c)' # {}
  BY DEF Restored
<1>2. Futures' = UNION {Restored(c)' : c \in fileMay'}
  BY DEF Futures
<1>3. Futures' \subseteq Futures /\ Futures' # {}
  BY <1>1, <1>2 DEF Futures
<1> QED BY <1>3, FewerFutures

\* While the file holds the records, databases in preparation matter to no restart.
LEMMA FileAlone ==
  ASSUME IInv, up, serving = 0, save.pc \notin {"renamed", "reread"}, fileMay' = fileMay,
         MemoryGoesOn
  PROVE  Promise!Settle
<1>1. \A c \in fileMay : c.names = 0
  BY DEF IInv, Current, Disk
<1>2. fileMay # {}
  BY DEF IInv, Disk
<1> QED BY <1>1, <1>2, DiskSettles

\* The rename of an image or a manifest adds the state that holds the new record.
LEMMA RenameAttempts == ASSUME IInv, Rename PROVE Promise!Next
<1>1. /\ save.pc = "write" /\ up /\ serving = 0 /\ save.op \in Ops /\ save.op \notin mem
      /\ fileMay' = fileMay \union {Written} /\ UNCHANGED <<db, up, mem>>
  BY DEF Rename, Goes, IInv, Working, InDb
<1>2. file \in fileMay /\ file.names = 0 /\ mem \subseteq file.image
  BY <1>1 DEF IInv, Current, Disk
<1>3. Restored(Written) = {New}
  <2>1. CASE save.db = 0
    BY <2>1 DEF Restored, Written, Image, New
  <2>2. CASE save.db # 0
    BY <1>1, <2>2 DEF Restored, Written, Manifest, IInv, Prepared, InFile
  <2> QED BY <2>1, <2>2
<1>4. Futures' = UNION {Restored(c) : c \in fileMay \union {Written}}
  BY <1>1 DEF Futures, Restored
<1>5. Futures' = Futures \union {New}
  BY <1>3, <1>4 DEF Futures
<1>6. file.image \in Futures
  BY <1>2 DEF Futures, Restored
<1> QED BY <1>1, <1>2, <1>5, <1>6, OneMoreFuture

\* A transaction of the database in service adds it too.
LEMMA CommitAttempts == ASSUME IInv, Commit PROVE Promise!Next
<1>1. /\ save.pc = "commit" /\ up /\ ~unresolved /\ save.op \in Ops /\ save.op \notin mem
      /\ UNCHANGED <<fileMay, up, mem>>
  BY DEF Commit, Goes, IInv, Working
<1>2. CASE serving = 0
  BY <1>1, <1>2, FileAlone DEF MemoryGoesOn, Promise!Next
<1>3. CASE serving # 0
  <2>1. /\ save.db = serving /\ serving \in Dbs /\ db[serving].found = {mem}
        /\ file.names = serving /\ file \in fileMay /\ mem \in db[serving].may
        /\ \A c \in fileMay : c.names \in {0, serving}
    BY <1>1, <1>3, InRange DEF IInv, Working, Matches, Current, Disk, InDb
  <2>2. Changed(mem) = New
    BY <1>3 DEF Changed, New
  <2>3. db' = [db EXCEPT ![serving] = [found |-> {mem, New}, may |-> db[serving].may \union {New}]]
    BY <2>1, <2>2 DEF Commit, IInv, TypeOK
  <2>4. db'[serving].may = db[serving].may \union {New}
    BY <2>1, <2>3 DEF IInv, TypeOK
  <2>5. \A c \in fileMay :
          Restored(c)' = IF c.names = serving THEN Restored(c) \union {New} ELSE Restored(c)
    BY <1>3, <2>1, <2>4 DEF Restored
  <2>6. Futures' = UNION {Restored(c)' : c \in fileMay}
    BY <1>1 DEF Futures
  <2>7. Futures' = Futures \union {New}
    BY <2>1, <2>5, <2>6 DEF Futures
  <2>8. mem \in Futures
    BY <1>3, <2>1 DEF Futures, Restored
  <2> QED BY <1>1, <2>7, <2>8, OneMoreFuture
<1> QED BY <1>2, <1>3

\* What is read and fenced was possible before.
LEMMA DatabaseSettles ==
  ASSUME IInv, Committed \/ Reopen \/ Barrier
  PROVE  Promise!Settle
<1>1. save.pc \in InDb /\ up /\ ~unresolved /\ fileMay' = fileMay
  BY DEF Committed, Reopen, Barrier, InDb, IInv, Working
<1>2. MemoryGoesOn
  BY <1>1 DEF MemoryGoesOn, Committed, Reopen, Barrier, Kept, Goes, Saves, Fails
<1>3. CASE serving = 0
  BY <1>1, <1>2, <1>3, FileAlone DEF InDb
<1>4. CASE serving # 0
  <2>1. /\ save.db = serving /\ serving \in Dbs /\ db[serving].found \subseteq db[serving].may
        /\ \A c \in fileMay : c.names \in {0, serving}
    BY <1>1, <1>4, InRange DEF IInv, Working, Current, Disk, InDb
  <2>2. db[serving].found # {} /\ db[serving].found \subseteq {mem, New}
    BY <1>1, <1>4, <2>1 DEF IInv, Matches, Disk
  <2>3. db'[serving].may \subseteq db[serving].may /\ db'[serving].may # {}
    <3>1. CASE Committed
      <4>1. New \in db[serving].found
        BY <2>1, <3>1 DEF Committed, IInv, Prepared
      <4>2. UNION db[serving].found = New
        BY <2>2, <4>1 DEF New
      <4>3. db'[serving] = Holding(New)
        BY <2>1, <3>1, <4>2 DEF Committed, IInv, TypeOK
      <4> QED BY <2>1, <4>1, <4>3, HoldingHolds
    <3>2. CASE Reopen
      <4>1. PICK s : db' = [db EXCEPT ![serving].found = {s}]
        BY <2>1, <3>2 DEF Reopen
      <4>2. db'[serving].may = db[serving].may
        BY <2>1, <4>1 DEF IInv, TypeOK, Database
      <4> QED BY <2>1, <2>2, <4>2
    <3>3. CASE Barrier
      <4>1. PICK s \in db[serving].found : db' = [db EXCEPT ![serving].may = {s}]
        BY <2>1, <3>3 DEF Barrier
      <4>2. db'[serving].may = {s}
        BY <2>1, <4>1 DEF IInv, TypeOK, Database
      <4> QED BY <2>1, <4>1, <4>2
    <3> QED BY <3>1, <3>2, <3>3
  <2>4. fileMay # {}
    BY DEF IInv, Disk
  <2> QED BY <1>1, <1>2, <1>4, <2>1, <2>3, <2>4, DiskSettles
<1> QED BY <1>3, <1>4

\* A sync leaves the file that everybody reads.
LEMMA SyncSettles ==
  ASSUME IInv, DirectorySynced \/ FenceMarker \/ OthersSync
  PROVE  Promise!Settle
<1>1. fileMay' = {file} /\ file \in fileMay /\ db' = db
  BY DEF DirectorySynced, FenceMarker, OthersSync, IInv, Disk
<1>2. file.names # 0 => db[file.names].may # {}
  BY InRange DEF IInv, Disk
<1>3. MemoryGoesOn
  <2>1. CASE DirectorySynced \/ FenceMarker
    <3>1. up /\ mem \subseteq mem'
      BY <2>1 DEF DirectorySynced, FenceMarker, Saves, IInv, Working
    <3> QED BY <3>1 DEF MemoryGoesOn
  <2>2. CASE OthersSync
    BY <2>2 DEF OthersSync, process, MemoryGoesOn
  <2> QED BY <2>1, <2>2
<1> QED BY <1>1, <1>2, <1>3, DiskSettles

\* A power loss picks one of the states that were possible.
LEMMA PowerLossSettles == ASSUME IInv, PowerLoss PROVE Promise!Settle
<1>1. PICK c \in fileMay : fileMay' = {c}
  BY DEF PowerLoss
<1>2. PICK left \in [Dbs -> Records] :
        /\ \A d \in Dbs : db[d] # Absent => left[d] \in db[d].may
        /\ db' = [d \in Dbs |-> IF db[d] = Absent THEN Absent ELSE Holding(left[d])]
  BY DEF PowerLoss
<1>3. ASSUME c.names # 0
      PROVE  db'[c.names].may \subseteq db[c.names].may /\ db'[c.names].may # {}
  <2>1. c.names \in Dbs /\ db[c.names] # Absent
    BY <1>3, InRange DEF IInv, Disk
  <2>2. db'[c.names] = Holding(left[c.names]) /\ left[c.names] \in db[c.names].may
    BY <1>2, <2>1
  <2> QED BY <2>2, HoldingHolds
<1>4. MemoryGoesOn
  BY DEF PowerLoss, Stops, MemoryGoesOn
<1> QED BY <1>1, <1>3, <1>4, DiskSettles

\* What a new process finds, and uses, is the newest of them that are left.
LEMMA LoadSettles == ASSUME IInv, Load PROVE Promise!Settle
<1>1. fileMay' = fileMay /\ file \in fileMay /\ ~up
  BY DEF Load, IInv, Disk
<1>2. CASE file.names = 0
  <2>1. \A c \in fileMay : c.names = 0
    BY <1>2 DEF IInv, Disk
  <2>2. file.image \in Futures /\ mem' = file.image
    BY <1>1, <1>2 DEF Futures, Restored, Load
  <2> QED BY <1>1, <2>1, <2>2, DiskSettles DEF MemoryGoesOn
<1>3. CASE file.names # 0
  <2>1. /\ file.names \in Dbs /\ db[file.names].found \subseteq db[file.names].may
        /\ \A c \in fileMay : c.names \in {0, file.names}
    BY <1>3, InRange DEF IInv, Disk
  <2>2. PICK s \in db[file.names].found :
          /\ mem' = s
          /\ db' = [db EXCEPT ![file.names] = [found |-> {s}, may |-> {r \in @.may : r \subseteq s}]]
    BY <1>3 DEF Load
  <2>3. db'[file.names].may = {r \in db[file.names].may : r \subseteq s}
    BY <2>1, <2>2 DEF IInv, TypeOK
  <2>4. db'[file.names].may \subseteq db[file.names].may /\ s \in db'[file.names].may
    BY <2>1, <2>2, <2>3
  <2>5. s \in Futures
    BY <1>1, <1>3, <2>1, <2>2 DEF Futures, Restored
  <2> QED BY <1>1, <2>1, <2>2, <2>4, <2>5, DiskSettles DEF MemoryGoesOn
<1> QED BY <1>2, <1>3

\* A step that leaves the disk, and memory while the supervisor runs.
LEMMA DiskStays ==
  ASSUME IInv, UNCHANGED disk, up' => up /\ mem' = mem
  PROVE  Promise!Settle
<1>1. Futures' = Futures
  BY DEF Futures, Restored, disk
<1> QED BY <1>1, SomeFuture, FewerFutures DEF MemoryGoesOn

\* Every step is a step of RecordsPromise, or a stutter.
LEMMA RecordsStep == ASSUME IInv, [Next]_vars PROVE [Promise!Next]_(Promise!vars)
<1>1. CASE (\E o \in Ops : Request(o)) \/ WriteFails \/ FenceFails \/ CommitUnchanged
           \/ CommitUncertain \/ OutcomeLost \/ Crash
  <2>1. UNCHANGED disk /\ (up' => up /\ mem' = mem)
    <3>1. CASE \E o \in Ops : Request(o)
      BY <3>1 DEF Request
    <3>2. CASE WriteFails
      BY <3>2 DEF WriteFails, Fails, Goes
    <3>3. CASE FenceFails
      BY <3>3 DEF FenceFails, Unresolved
    <3>4. CASE CommitUnchanged
      BY <3>4 DEF CommitUnchanged, Fails
    <3>5. CASE CommitUncertain
      BY <3>5 DEF CommitUncertain, Goes
    <3>6. CASE OutcomeLost
      BY <3>6 DEF OutcomeLost, Fails, Unresolved
    <3>7. CASE Crash
      BY <3>7 DEF Crash, Stops
    <3> QED BY <1>1, <3>1, <3>2, <3>3, <3>4, <3>5, <3>6, <3>7
  <2> QED BY <2>1, DiskStays DEF Promise!Next
<1>2. CASE DirectorySynced \/ FenceMarker \/ OthersSync
  BY <1>2, SyncSettles DEF Promise!Next
<1>3. CASE Import
  <2>1. /\ up /\ serving = 0 /\ save.pc = "import" /\ fileMay' = fileMay /\ mem' = mem
    BY <1>3 DEF Import, Fails, IInv, Working, InDb
  <2> QED BY <2>1, FileAlone DEF MemoryGoesOn, Promise!Next
<1>4. CASE Rename \/ Commit
  BY <1>4, RenameAttempts, CommitAttempts
<1>5. CASE Committed \/ Reopen \/ Barrier
  BY <1>5, DatabaseSettles DEF Promise!Next
<1>6. CASE PowerLoss \/ Load
  BY <1>6, PowerLossSettles, LoadSettles DEF Promise!Next
<1>7. CASE UNCHANGED vars
  BY <1>7 DEF vars, disk, process, Promise!vars, Durable, Doubtful, Futures, Restored
<1> QED BY <1>1, <1>2, <1>3, <1>4, <1>5, <1>6, <1>7 DEF Next

\* Storage implements RecordsPromise: whatever fails, dies or loses power, and wherever
\* an activation or a reconciliation is, a record in use that every restart would bring up
\* stays so, and a save decides about its own record alone (persist, publish_marker,
\* recover_inner, load).
THEOREM RecordsStay == Spec => RecordsKept
<1>1. Init => Promise!Init
  <2> SUFFICES ASSUME Init
               PROVE  Promise!Init
    OBVIOUS
  <2>1. fileMay = {file} /\ file.names = 0 /\ file.image = {}
    BY DEF Init, Image
  <2>2. Futures = {{}}
    BY <2>1 DEF Futures, Restored
  <2> QED BY <2>2 DEF Promise!Init, Durable, Doubtful
<1>2. IInv /\ [Next]_vars => [Promise!Next]_(Promise!vars)
  BY RecordsStep
<1> QED BY <1>1, <1>2, Invariant, PTL DEF Spec, RecordsKept, Promise!Spec
=============================================================================
