---------------------------- MODULE BackupProofs ----------------------------
(***************************************************************************)
(* Archives are faithful, restores complete and database files whole, for  *)
(* every set of projects and contents.                                     *)
(***************************************************************************)
EXTENDS Backup, TLAPS

Names   == {OpenName, RestoreName}
Exports == [pc : {"idle", "files"}, db : Rows, files : Rows, todo : SUBSET Projects]
Imports == [pc : {"idle", "write", "rename", "files"}, db : Rows \union {None}, files : Rows,
            todo : SUBSET Projects]

\* The types, with the fields that TypeOK does not speak of.
Types ==
  /\ dbs \in [Names -> Rows \union {None}] /\ db \in Rows
  /\ tmp \in Rows \union {None, Partial} /\ dir \in Rows
  /\ archive \in Archive \union {None}
  /\ export \in Exports /\ import \in Imports
  /\ restored \in BOOLEAN /\ served \in BOOLEAN /\ calm \in BOOLEAN

\* A download and a restore that overlap are no calm ones.
OneOfTwo == calm => export.pc = "idle" \/ import.pc = "idle"

\* A calm download has the open database and the directories it has passed.
ExportSoFar ==
  calm /\ export.pc = "files" =>
    /\ export.db = db
    /\ \A p \in Projects : p \notin export.todo => export.files[p] = dir[p]

\* The temporary file that is about to be renamed is the archive's database.
TmpIsWhole ==
  /\ import.pc # "idle" => import.db \in Rows
  /\ import.pc = "rename" => tmp = import.db

\* The restore has still to write every project of the archive, or wrote it.
ImportSoFar ==
  /\ import.pc \in {"write", "rename"} =>
       \A p \in Projects : p \notin import.todo => import.files[p] = Absent
  /\ calm /\ import.pc = "files" =>
       \A p \in Projects : p \notin import.todo /\ import.files[p] # Absent => dir[p] = import.files[p]

IInv == Types /\ OneOfTwo /\ ExportSoFar /\ TmpIsWhole /\ ImportSoFar

-----------------------------------------------------------------------------
\* Nothing under way is typed, and its own.
LEMMA IdleFacts ==
  /\ NoRows \in Rows
  /\ NoExport \in Exports /\ NoExport.pc = "idle"
  /\ NoImport \in Imports /\ NoImport.pc = "idle"
<1>1. NoRows \in Rows
  BY DEF NoRows, Rows
<1>2. QED
  BY <1>1 DEF NoExport, NoImport, Exports, Imports

\* A server starts with the open database only.
LEMMA InitIInv == Init => IInv
<1> SUFFICES ASSUME Init PROVE IInv
  OBVIOUS
<1>1. PICK rows \in Rows : dir = rows /\ dbs = [n \in {OpenName, RestoreName} |->
                                                  IF n = OpenName THEN rows ELSE None]
  BY DEF Init
<1>2. Types
  BY <1>1, IdleFacts DEF Init, Types, Names, db, OpenName, RestoreName
<1>3. QED
  BY <1>2, IdleFacts DEF Init, IInv, OneOfTwo, ExportSoFar, TmpIsWhole, ImportSoFar

\* Projects change under whatever is under way.
LEMMA ChangeStep ==
  ASSUME IInv, NEW p \in Projects, NEW x \in Contents \union {Absent}, ChangeProject(p, x)
  PROVE  IInv'
<1>1. /\ dbs' = [dbs EXCEPT ![OpenName] = [db EXCEPT ![p] = x]] /\ dir' = [dir EXCEPT ![p] = x]
      /\ restored' = FALSE /\ served' = FALSE /\ calm' = FALSE
      /\ UNCHANGED <<tmp, export, archive, import>>
  BY DEF ChangeProject, IInv, Types, Names, db
<1>2. [db EXCEPT ![p] = x] \in Rows /\ dir' \in Rows
  BY <1>1 DEF IInv, Types, Rows
<1>3. Types'
  BY <1>1, <1>2 DEF IInv, Types, Names, db
<1>4. QED
  BY <1>1, <1>3 DEF IInv, OneOfTwo, ExportSoFar, TmpIsWhole, ImportSoFar

\* The steps of a download.
LEMMA ExportStep ==
  ASSUME IInv, VacuumInto \/ AddProjectFiles \/ Download
  PROVE  IInv'
<1>1. CASE VacuumInto
  <2>1. /\ export' = [pc |-> "files", db |-> db, files |-> NoRows, todo |-> Projects]
        /\ calm' = (import = NoImport)
        /\ UNCHANGED <<dbs, tmp, dir, archive, import, restored, served>>
    BY <1>1 DEF VacuumInto
  <2>2. export' \in Exports /\ calm' \in BOOLEAN /\ (calm' => import.pc = "idle") /\ db' = db
    BY <2>1, IdleFacts DEF IInv, Types, Exports, db
  <2>3. Types'
    BY <2>1, <2>2 DEF IInv, Types
  <2>4. OneOfTwo' /\ ExportSoFar'
    BY <2>1, <2>2 DEF OneOfTwo, ExportSoFar
  <2>5. TmpIsWhole' /\ ImportSoFar'
    BY <2>1, <2>2 DEF IInv, TmpIsWhole, ImportSoFar
  <2>6. QED
    BY <2>3, <2>4, <2>5 DEF IInv
<1>2. CASE AddProjectFiles
  <2>1. PICK p \in export.todo :
          \/ /\ export' = [export EXCEPT !.files[p] = dir[p], !.todo = @ \ {p}]
             /\ UNCHANGED calm
          \/ /\ export' = [export EXCEPT !.todo = @ \ {p}]
             /\ calm' = FALSE
    BY <1>2 DEF AddProjectFiles
  <2>2. UNCHANGED <<dbs, tmp, dir, archive, import, restored, served>> /\ db' = db
    BY <1>2 DEF AddProjectFiles, db
  <2>3. /\ export' \in Exports /\ export'.pc = export.pc /\ export'.db = export.db
        /\ calm' \in BOOLEAN /\ (calm' => calm)
    <3>1. p \in Projects /\ export \in Exports /\ dir \in Rows /\ calm \in BOOLEAN
      BY DEF IInv, Types, Exports
    <3>2. CASE export' = [export EXCEPT !.files[p] = dir[p], !.todo = @ \ {p}] /\ UNCHANGED calm
      BY <3>1, <3>2 DEF Exports, Rows
    <3>3. CASE export' = [export EXCEPT !.todo = @ \ {p}] /\ calm' = FALSE
      BY <3>1, <3>3 DEF Exports
    <3>4. QED
      BY <2>1, <3>2, <3>3
  <2>4. Types'
    BY <2>2, <2>3 DEF IInv, Types
  <2>5. OneOfTwo' /\ TmpIsWhole' /\ ImportSoFar'
    BY <2>2, <2>3 DEF IInv, OneOfTwo, TmpIsWhole, ImportSoFar
  <2>6. calm' => /\ export'.todo = export.todo \ {p}
                 /\ export'.files = [export.files EXCEPT ![p] = dir[p]]
    BY <2>1 DEF IInv, Types, Exports
  <2>7. ExportSoFar'
    BY <2>2, <2>3, <2>6 DEF IInv, ExportSoFar, Types, Exports, Rows
  <2>8. QED
    BY <2>4, <2>5, <2>7 DEF IInv
<1>3. CASE Download
  <2>1. /\ archive' = [version |-> "2", db |-> export.db, files |-> export.files]
        /\ export' = NoExport
        /\ UNCHANGED <<dbs, tmp, dir, import, restored, served, calm>> /\ db' = db
    BY <1>3 DEF Download, db
  <2>2. archive' \in Archive
    BY <2>1 DEF Archive, IInv, Types, Exports
  <2>3. Types'
    BY <2>1, <2>2, IdleFacts DEF IInv, Types
  <2>4. QED
    BY <2>1, <2>3, IdleFacts DEF IInv, OneOfTwo, ExportSoFar, TmpIsWhole, ImportSoFar
<1>4. QED
  BY <1>1, <1>2, <1>3

\* The steps of a restore.
LEMMA ImportStep ==
  ASSUME IInv, Restore \/ WriteRestoreFile \/ Rename \/ RestoreProjectFiles \/ AnswerRestored
  PROVE  IInv'
<1>1. CASE Restore
  <2>1. PICK a \in Uploads :
          /\ Valid(a)
          /\ import' = [pc |-> "write", db |-> a.db, files |-> a.files,
                        todo |-> {p \in Projects : a.files[p] # Absent}]
    BY <1>1 DEF Restore
  <2>2. /\ calm' = (export = NoExport)
        /\ UNCHANGED <<dbs, tmp, dir, export, archive, restored, served>> /\ db' = db
    BY <1>1 DEF Restore, db
  <2>3. a.db \in Rows /\ a.files \in Rows
    BY <2>1 DEF Uploads, Archive, Valid
  <2>4. /\ import' \in Imports /\ import'.pc = "write" /\ import'.db \in Rows
        /\ \A p \in Projects : p \notin import'.todo => import'.files[p] = Absent
    BY <2>1, <2>3 DEF Imports
  <2>5. calm' \in BOOLEAN /\ (calm' => export.pc = "idle")
    BY <2>2, IdleFacts
  <2>6. Types'
    BY <2>2, <2>4, <2>5 DEF IInv, Types
  <2>7. OneOfTwo' /\ ExportSoFar' /\ TmpIsWhole' /\ ImportSoFar'
    BY <2>2, <2>4, <2>5 DEF OneOfTwo, ExportSoFar, TmpIsWhole, ImportSoFar
  <2>8. QED
    BY <2>6, <2>7 DEF IInv
<1>2. CASE WriteRestoreFile
  <2>1. /\ import.pc = "write"
        /\ UNCHANGED <<dbs, dir, export, archive, restored, served, calm>> /\ db' = db
    BY <1>2 DEF WriteRestoreFile, db
  <2>2. CASE tmp' = import.db /\ import' = [import EXCEPT !.pc = "rename"]
    <3>1. /\ import' \in Imports /\ import'.pc = "rename" /\ import'.db = import.db
          /\ import'.files = import.files /\ import'.todo = import.todo
      BY <2>2 DEF IInv, Types, Imports
    <3>2. Types'
      BY <2>1, <2>2, <3>1 DEF IInv, Types, TmpIsWhole
    <3>3. QED
      BY <2>1, <2>2, <3>1, <3>2 DEF IInv, OneOfTwo, ExportSoFar, TmpIsWhole, ImportSoFar
  <2>3. CASE tmp' = Partial /\ import' = NoImport
    BY <2>1, <2>3, IdleFacts DEF IInv, Types, OneOfTwo, ExportSoFar, TmpIsWhole, ImportSoFar
  <2>4. QED
    BY <1>2, <2>2, <2>3 DEF WriteRestoreFile
<1>3. CASE Rename
  <2>1. /\ import.pc = "rename" /\ tmp' = None
        /\ UNCHANGED <<dir, export, archive, calm>>
    BY <1>3 DEF Rename
  <2>2. CASE /\ dbs' = [dbs EXCEPT ![RestoreName] = tmp]
             /\ import' = [import EXCEPT !.pc = "files"]
             /\ restored' = FALSE /\ served' = FALSE
    <3>1. /\ import' \in Imports /\ import'.pc = "files" /\ import'.db = import.db
          /\ import'.files = import.files /\ import'.todo = import.todo
      BY <2>2 DEF IInv, Types, Imports
    <3>2. tmp \in Rows /\ dbs' \in [Names -> Rows \union {None}] /\ db' = db
      BY <2>1, <2>2 DEF IInv, Types, TmpIsWhole, Names, db, OpenName, RestoreName
    <3>3. Types'
      BY <2>1, <2>2, <3>1, <3>2 DEF IInv, Types
    <3>4. QED
      BY <2>1, <3>1, <3>2, <3>3 DEF IInv, OneOfTwo, ExportSoFar, TmpIsWhole, ImportSoFar
  <2>3. CASE import' = NoImport /\ UNCHANGED <<dbs, restored, served>>
    BY <2>1, <2>3, IdleFacts DEF IInv, Types, OneOfTwo, ExportSoFar, TmpIsWhole, ImportSoFar, db
  <2>4. QED
    BY <1>3, <2>2, <2>3 DEF Rename
<1>4. CASE RestoreProjectFiles
  <2>1. PICK p \in import.todo :
          /\ import' = [import EXCEPT !.todo = @ \ {p}]
          /\ \/ dir' = [dir EXCEPT ![p] = import.files[p]] /\ UNCHANGED calm
             \/ calm' = FALSE /\ UNCHANGED dir
    BY <1>4 DEF RestoreProjectFiles
  <2>2. import.pc = "files" /\ UNCHANGED <<dbs, tmp, export, archive, restored, served>> /\ db' = db
    BY <1>4 DEF RestoreProjectFiles, db
  <2>3. /\ import' \in Imports /\ import'.pc = "files" /\ import'.db = import.db
        /\ import'.files = import.files /\ import'.todo = import.todo \ {p}
    BY <2>1, <2>2 DEF IInv, Types, Imports
  <2>4. p \in Projects /\ dir' \in Rows /\ calm' \in BOOLEAN /\ (calm' => calm)
    <3>1. p \in Projects /\ import.files \in Rows /\ dir \in Rows /\ calm \in BOOLEAN
      BY DEF IInv, Types, Imports
    <3>2. dir' \in Rows
      BY <2>1, <3>1 DEF Rows
    <3>3. calm' = calm \/ calm' = FALSE
      BY <2>1
    <3>4. calm' \in BOOLEAN /\ (calm' => calm)
      <4>1. CASE calm' = calm
        BY <3>1, <4>1
      <4>2. CASE calm' = FALSE
        BY <4>2
      <4>3. QED
        BY <3>3, <4>1, <4>2
    <3>5. QED
      BY <3>1, <3>2, <3>4
  <2>5. Types'
    BY <2>2, <2>3, <2>4 DEF IInv, Types
  <2>6. OneOfTwo' /\ TmpIsWhole'
    BY <2>2, <2>3, <2>4 DEF IInv, OneOfTwo, TmpIsWhole
  <2>7. ExportSoFar'
    BY <2>2, <2>4 DEF IInv, OneOfTwo, ExportSoFar
  <2>8. ImportSoFar'
    <3>1. calm' => dir' = [dir EXCEPT ![p] = import.files[p]]
      BY <2>1
    <3>2. QED
      BY <2>2, <2>3, <2>4, <3>1 DEF IInv, ImportSoFar, Types, Rows
  <2>9. QED
    BY <2>5, <2>6, <2>7, <2>8 DEF IInv
<1>5. CASE AnswerRestored
  BY <1>5, IdleFacts DEF AnswerRestored, IInv, Types, OneOfTwo, ExportSoFar, TmpIsWhole, ImportSoFar, db
<1>6. QED
  BY <1>1, <1>2, <1>3, <1>4, <1>5

\* Every step keeps the invariant, a restart included.
LEMMA NextIInv == IInv /\ [Next]_vars => IInv'
<1> SUFFICES ASSUME IInv, [Next]_vars PROVE IInv'
  OBVIOUS
<1>1. CASE Restart
  BY <1>1, IdleFacts DEF Restart, IInv, Types, OneOfTwo, ExportSoFar, TmpIsWhole, ImportSoFar, db
<1>2. CASE UNCHANGED vars
  BY <1>2 DEF vars, IInv, Types, OneOfTwo, ExportSoFar, TmpIsWhole, ImportSoFar, db
<1>3. QED
  BY <1>1, <1>2, ChangeStep, ExportStep, ImportStep DEF Next

\* Every reachable state satisfies the inductive invariant.
THEOREM Invariance == Spec => []IInv
BY InitIInv, NextIInv, PTL DEF Spec

\* No interruption of a restore makes a database file partial, and what is
\* renamed into place is the database of the archive (Import).
THEOREM DatabaseStaysWhole == Spec => DatabaseWhole
<1>1. IInv => TypeOK
  BY DEF IInv, Types, TypeOK, Exports, Imports, Names
<1>2. IInv' => TypeOK'
  BY <1>1, PTL
<1>3. IInv /\ Next /\ dbs'[RestoreName] # dbs[RestoreName]
        => dbs'[RestoreName] \in Rows /\ dbs'[RestoreName] = import.db
  <2> SUFFICES ASSUME IInv, Next, dbs'[RestoreName] # dbs[RestoreName]
               PROVE  dbs'[RestoreName] \in Rows /\ dbs'[RestoreName] = import.db
    OBVIOUS
  <2>1. CASE Rename
    BY <2>1 DEF Rename, IInv, Types, TmpIsWhole, Names
  <2>2. CASE \E p \in Projects, x \in Contents \union {Absent} : ChangeProject(p, x)
    BY <2>2 DEF ChangeProject, IInv, Types, Names, OpenName, RestoreName
  <2>3. QED
    BY <2>1, <2>2 DEF Next, VacuumInto, AddProjectFiles, Download, Restore, WriteRestoreFile,
       RestoreProjectFiles, AnswerRestored, Restart
<1>4. IInv /\ IInv' /\ [Next]_vars =>
        [ /\ TypeOK'
          /\ dbs'[RestoreName] # dbs[RestoreName]
               => dbs'[RestoreName] \in Rows /\ dbs'[RestoreName] = import.db ]_vars
  BY <1>2, <1>3
<1>5. QED
  BY <1>4, Invariance, PTL DEF Spec, DatabaseWhole

\* A download during which nothing changed holds what the server has (Export).
THEOREM ArchivesAreFaithful == Spec => ArchiveIsFaithful
<1>1. IInv /\ [Next]_vars => [ archive' # archive /\ calm => archive'.db = db /\ archive'.files = dir ]_vars
  <2> SUFFICES ASSUME IInv, Next, archive' # archive, calm
               PROVE  archive'.db = db /\ archive'.files = dir
    OBVIOUS
  <2>1. Download
    BY DEF Next, ChangeProject, VacuumInto, AddProjectFiles, Restore, WriteRestoreFile, Rename,
       RestoreProjectFiles, AnswerRestored, Restart
  <2>2. archive'.db = db /\ \A p \in Projects : export.files[p] = dir[p]
    BY <2>1 DEF Download, IInv, ExportSoFar
  <2>3. export.files = dir
    BY <2>2 DEF IInv, Types, Exports, Rows
  <2>4. QED
    BY <2>1, <2>2, <2>3 DEF Download
<1>2. QED
  BY <1>1, Invariance, PTL DEF Spec, ArchiveIsFaithful

\* A restore during which nothing changed and every file could be written puts
\* back every project of the archive (Import).
THEOREM RestoresAreComplete == Spec => FilesComeBack
<1>1. IInv /\ [Next]_vars =>
        [ import.pc = "files" /\ import.todo = {} /\ calm
            => \A p \in Projects : import.files[p] # Absent => dir[p] = import.files[p] ]_vars
  BY DEF IInv, ImportSoFar
<1>2. QED
  BY <1>1, Invariance, PTL DEF Spec, FilesComeBack

=============================================================================
