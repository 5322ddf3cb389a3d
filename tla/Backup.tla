------------------------------- MODULE Backup -------------------------------
(***************************************************************************)
(* Downloading and restoring a backup.                                     *)
(*                                                                         *)
(* Export takes a snapshot of the database and then reads the project      *)
(* directories one after the other; Import checks an archive, replaces a   *)
(* database file by a rename and then writes project files one by one, as  *)
(* far as it can.  Meanwhile projects are saved and deleted, and the       *)
(* process may be restarted.  What a project's row and directory hold is   *)
(* one value: ProjectStore tells how the two are kept together.            *)
(***************************************************************************)
EXTENDS Integers, FiniteSets

CONSTANTS
  Projects,
  Contents, \* what a project may hold
  Absent,   \* no such project
  Partial,  \* a database file that was not written to its end
  None

Rows == [Projects -> Contents \union {Absent}]
NoRows == [p \in Projects |-> Absent]

ASSUME ContentsAssumption == Absent \notin Contents /\ Contents # {}
ASSUME NullsAssumption == Partial # None /\ Partial \notin Rows /\ None \notin Rows

\* The database file that db.Open opens, and the one that Import replaces.
OpenName    == "vps-manager.db"
RestoreName == "vps-pilot.db"

\* A ZIP: the version in its manifest, its database and its project files.
Archive == [version : {"none", "1", "2", "other"}, db : Rows \union {None}, files : Rows]

VARIABLES
  dbs,      \* the database files in the data directory
  tmp,      \* the file next to RestoreName that is renamed over it
  dir,      \* the projects directory
  export,   \* the download under way
  archive,  \* the last archive downloaded
  import,   \* the restore under way
  restored, \* history: a restore was completed, and no project changed since
  served,   \* history: and the service was restarted since
  calm      \* history: since the download or restore began no project was
            \* changed and no file passed over

vars == <<dbs, tmp, dir, export, archive, import, restored, served, calm>>

db == dbs[OpenName]

NoExport == [pc |-> "idle", db |-> NoRows, files |-> NoRows, todo |-> {}]
NoImport == [pc |-> "idle", db |-> None, files |-> NoRows, todo |-> {}]

Init ==
  /\ \E rows \in Rows : dir = rows /\ dbs = [n \in {OpenName, RestoreName} |->
                                               IF n = OpenName THEN rows ELSE None]
  /\ tmp = None /\ archive = None /\ restored = FALSE /\ served = FALSE /\ calm = TRUE
  /\ export = NoExport /\ import = NoImport

-----------------------------------------------------------------------------
\* Creating, saving or deleting a project.
ChangeProject(p, x) ==
  /\ x # db[p] \/ x # dir[p]
  /\ dbs' = [dbs EXCEPT ![OpenName][p] = x]
  /\ dir' = [dir EXCEPT ![p] = x]
  /\ restored' = FALSE /\ served' = FALSE /\ calm' = FALSE
  /\ UNCHANGED <<tmp, export, archive, import>>

-----------------------------------------------------------------------------
(***************************************************************************)
(* backup.Export.                                                          *)
(***************************************************************************)
\* Mutant: the snapshot is taken of the file that restores are written to.
VacuumInto_Restored ==
  /\ export = NoExport
  /\ export' = [pc |-> "files", files |-> NoRows, todo |-> Projects,
                db |-> IF dbs[RestoreName] = None THEN db ELSE dbs[RestoreName]]
  /\ calm' = (import = NoImport)
  /\ UNCHANGED <<dbs, tmp, dir, archive, import, restored, served>>

VacuumInto ==
  /\ export = NoExport
  /\ export' = [pc |-> "files", db |-> db, files |-> NoRows, todo |-> Projects]
  /\ calm' = (import = NoImport)
  /\ UNCHANGED <<dbs, tmp, dir, archive, import, restored, served>>

\* One directory; without a compose file there is nothing to add, and a file
\* that cannot be read is passed over.
AddProjectFiles ==
  /\ export.pc = "files"
  /\ \E p \in export.todo :
       \/ /\ export' = [export EXCEPT !.files[p] = dir[p], !.todo = @ \ {p}]
          /\ UNCHANGED calm
       \/ /\ export' = [export EXCEPT !.todo = @ \ {p}]
          /\ calm' = FALSE
  /\ UNCHANGED <<dbs, tmp, dir, archive, import, restored, served>>

Download ==
  /\ export.pc = "files" /\ export.todo = {}
  /\ archive' = [version |-> "2", db |-> export.db, files |-> export.files]
  /\ export' = NoExport
  /\ UNCHANGED <<dbs, tmp, dir, import, restored, served, calm>>

-----------------------------------------------------------------------------
(***************************************************************************)
(* backup.Import.                                                          *)
(***************************************************************************)

Valid(a) == a.version \in {"1", "2"} /\ a.db # None

\* The archive downloaded before, one of version 1, or one that was damaged.
Uploads ==
  {a \in Archive :
     /\ archive # None
     /\ a.db \in {archive.db, None} /\ a.files \in {archive.files, NoRows}
     /\ a.version = "1" => a.files = NoRows}

\* The uploaded archive is read to its end before anything is written.
Restore ==
  /\ import = NoImport
  /\ \E a \in Uploads :
       /\ Valid(a)
       /\ import' = [pc |-> "write", db |-> a.db, files |-> a.files,
                     todo |-> {p \in Projects : a.files[p] # Absent}]
  /\ calm' = (export = NoExport)
  /\ UNCHANGED <<dbs, tmp, dir, export, archive, restored, served>>

\* Mutant: the database file is written in place.
WriteRestoreFile_InPlace ==
  /\ import.pc = "write"
  /\ \/ tmp' = import.db /\ import' = [import EXCEPT !.pc = "rename"] /\ UNCHANGED dbs
     \/ dbs' = [dbs EXCEPT ![RestoreName] = Partial] /\ import' = NoImport /\ UNCHANGED tmp
  /\ UNCHANGED <<dir, export, archive, restored, served, calm>>

\* The write may end early, by an error or with the process.
WriteRestoreFile ==
  /\ import.pc = "write"
  /\ \/ tmp' = import.db /\ import' = [import EXCEPT !.pc = "rename"]
     \/ tmp' = Partial /\ import' = NoImport
  /\ UNCHANGED <<dbs, dir, export, archive, restored, served, calm>>

\* A rename that fails removes the temporary file and ends the restore.
Rename ==
  /\ import.pc = "rename" /\ tmp' = None
  /\ \/ /\ dbs' = [dbs EXCEPT ![RestoreName] = tmp]
        /\ import' = [import EXCEPT !.pc = "files"]
        /\ restored' = FALSE /\ served' = FALSE
     \/ import' = NoImport /\ UNCHANGED <<dbs, restored, served>>
  /\ UNCHANGED <<dir, export, archive, calm>>

\* Mutant: the directory of a project is not created first.
RestoreProjectFiles_NoMkdir ==
  /\ import.pc = "files"
  /\ \E p \in import.todo :
       /\ import' = [import EXCEPT !.todo = @ \ {p}]
       /\ dir' = [dir EXCEPT ![p] = IF @ = Absent THEN @ ELSE import.files[p]]
  /\ UNCHANGED <<dbs, tmp, export, archive, restored, served, calm>>

\* One project; a file that cannot be written is passed over.
RestoreProjectFiles ==
  /\ import.pc = "files"
  /\ \E p \in import.todo :
       /\ import' = [import EXCEPT !.todo = @ \ {p}]
       /\ \/ dir' = [dir EXCEPT ![p] = import.files[p]] /\ UNCHANGED calm
          \/ calm' = FALSE /\ UNCHANGED dir
  /\ UNCHANGED <<dbs, tmp, export, archive, restored, served>>

\* "Database restored. Restart the service to complete the restore."
AnswerRestored ==
  /\ import.pc = "files" /\ import.todo = {}
  /\ import' = NoImport
  /\ restored' = TRUE
  /\ UNCHANGED <<dbs, tmp, dir, export, archive, served, calm>>

\* Requests under way end with the process; db.Open opens OpenName.
Restart ==
  /\ export' = NoExport /\ import' = NoImport
  /\ served' = restored
  /\ UNCHANGED <<dbs, tmp, dir, archive, restored, calm>>

-----------------------------------------------------------------------------
Next ==
  \/ \E p \in Projects, x \in Contents \union {Absent} : ChangeProject(p, x)
  \/ VacuumInto \/ AddProjectFiles \/ Download
  \/ Restore \/ WriteRestoreFile \/ Rename \/ RestoreProjectFiles \/ AnswerRestored
  \/ Restart

Spec == Init /\ [][Next]_vars

-----------------------------------------------------------------------------
\* The types of the variables; a database file is whole, whatever is interrupted:
\* only the temporary file is ever partial.
TypeOK ==
  /\ db \in Rows /\ dbs[RestoreName] \in Rows \union {None}
  /\ tmp \in Rows \union {None, Partial} /\ dir \in Rows
  /\ archive \in Archive \union {None}
  /\ export.files \in Rows /\ export.todo \subseteq Projects
  /\ import.db \in Rows \union {None} /\ import.files \in Rows /\ import.todo \subseteq Projects
  /\ restored \in BOOLEAN /\ served \in BOOLEAN /\ calm \in BOOLEAN

\* An archive made while nobody changes a project holds what the server has: the
\* rows of the open database and every project directory.
ArchiveIsFaithful ==
  [][ archive' # archive /\ calm => archive'.db = db /\ archive'.files = dir ]_vars

\* A restore puts back exactly the project files of the archive and leaves the
\* other projects alone, when no project is changed meanwhile and every file can
\* be written.
FilesComeBack ==
  [][ import.pc = "files" /\ import.todo = {} /\ calm
        => \A p \in Projects :
             import.files[p] # Absent => dir[p] = import.files[p] ]_vars

\* Whatever is interrupted leaves the database files whole, and what is renamed
\* into place is the database that the archive held.
DatabaseWhole ==
  [][ /\ TypeOK'
      /\ dbs'[RestoreName] # dbs[RestoreName]
           => dbs'[RestoreName] \in Rows /\ dbs'[RestoreName] = import.db ]_vars

-----------------------------------------------------------------------------
(***************************************************************************)
(* What the repository says and the code does not do.                      *)
(***************************************************************************)
\* "Database restored. Restart the service to complete the restore."
\* (internal/api/backup.go:68): a restart after a restore serves the database of
\* the archive.  Import replaces vps-pilot.db and the server opens vps-manager.db.
RestartCompletesRestore == served => db = dbs[RestoreName]

=============================================================================
