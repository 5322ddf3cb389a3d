---------------------------- MODULE ProjectStore ----------------------------
(***************************************************************************)
(* One Compose project of vps-pilot as its three copies see it: the row in *)
(* SQLite (with its project_files and project_secrets rows), the directory *)
(* under PROJECTS_DIR, and the containers that docker compose runs.        *)
(*                                                                         *)
(* Every HTTP handler, WebSocket handler and webhook goroutine that works  *)
(* on the project is a request of Reqs.  A handler is a sequence of        *)
(* database statements (atomic: the pool has one connection), file writes  *)
(* and docker commands; each is a step here, and steps of different        *)
(* requests interleave, because the code takes no lock per project.        *)
(* Handlers of projects with other names touch other rows and directories, *)
(* so one name is modelled.                                                *)
(***************************************************************************)
EXTENDS FiniteSets, Integers

CONSTANTS
  Reqs,        \* requests that may be in flight together
  Composes,    \* well-formed contents of docker-compose.yml
  Envs,        \* values of the env_vars column
  FileNames,   \* extra project files
  Contents,    \* their contents
  Secrets,     \* secrets that can be attached to the project
  Newer,       \* Newer[c]: c with every image moved to the newest tag
  Faults,      \* the kinds of failure the environment may inject
  ForeignKeys, \* TRUE iff the database enforces REFERENCES .. ON DELETE CASCADE
  NoRecord,    \* no row in projects
  NoFile,      \* the file does not exist
  Torn,        \* what os.WriteFile leaves when it fails after truncating
  Down         \* no container of the project exists

FaultKinds ==
  {"db",       \* a SELECT, or a statement whose error the code drops, fails
   "write",    \* os.MkdirAll, os.WriteFile or os.RemoveAll fails
   "decrypt",  \* secrets.Decrypt rejects a stored blob
   "up", "down", "pull",  \* docker compose up, down, pull fails
   "health",   \* waitHealthy meets an exited or unhealthy container
   "snapshot", \* SaveImageSnapshot fails or finds nothing running
   "crash"}    \* the server process dies

ASSUME ReqsAssumption == Reqs # {}
ASSUME NewerAssumption == Newer \in [Composes -> Composes]
ASSUME FaultsAssumption == Faults \subseteq FaultKinds
ASSUME ForeignKeysAssumption == ForeignKeys \in BOOLEAN
ASSUME FileNullsAssumption ==
  /\ Torn # NoFile
  /\ NoFile \notin Composes /\ Torn \notin Composes
  /\ NoFile \notin Contents /\ Torn \notin Contents

VARIABLES
  db,       \* the row of projects
  files,    \* the rows of project_files
  attached, \* the rows of project_secrets
  dir,      \* does the project directory exist
  dCompose, \* docker-compose.yml on disk
  dEnv,     \* .env on disk
  dFiles,   \* the extra files on disk
  running,  \* what the containers were created from
  req,      \* the requests in flight and their local variables
  clean,    \* history: the request that so far ran alone and met no failure
  dirty     \* history: a failure or an overlap no clean save has made up for

dbVars   == <<db, files, attached>>
diskVars == <<dir, dCompose, dEnv, dFiles>>
vars     == <<db, files, attached, dir, dCompose, dEnv, dFiles, running, req, clean, dirty>>

Record     == [id : Reqs, compose : Composes, env : Envs]
EnvFile    == [vars : Envs, secrets : SUBSET Secrets]
Rows       == [FileNames -> Contents \union {NoFile}]
Containers == [compose : Composes \union {Torn}, env : EnvFile \union {NoFile, Torn}]

ASSUME RecordNullsAssumption ==
  /\ NoRecord \notin Record
  /\ NoFile \notin EnvFile /\ Torn \notin EnvFile
  /\ Down \notin Containers

(***************************************************************************)
(* A request: where it is, the record it read, the compose content it      *)
(* computed, the secrets and extra files it read, and whether it will roll *)
(* back.                                                                   *)
(***************************************************************************)
SavePCs   == {"getById", "get", "compose", "secrets", "env", "list", "files"}
DeletePCs == {"destroy", "remove"}
PullPCs   == {"check", "writeDisk", "writeRow", "pull", "up", "health"}
RollPCs   == {"rollDisk", "rollUp", "rollGet", "rollRow"}
PCs       == {"idle"} \union SavePCs \union DeletePCs \union PullPCs \union RollPCs

Request == [pc : PCs, rec : Record \union {NoRecord}, new : Composes \union {NoFile},
            secs : SUBSET Secrets, got : Rows, rollback : BOOLEAN]

NoFiles == [f \in FileNames |-> NoFile]

Handler(pc) == [pc |-> pc, rec |-> NoRecord, new |-> NoFile, secs |-> {},
                got |-> NoFiles, rollback |-> FALSE]
Idle  == Handler("idle")
Quiet == \A r \in Reqs : req[r] = Idle

\* A project the server finds when it first starts: none, or a directory an
\* administrator placed under PROJECTS_DIR, with or without its containers.
Init ==
  /\ db = NoRecord /\ files = NoFiles /\ attached = {}
  /\ dir \in BOOLEAN
  /\ dCompose \in IF dir THEN Composes ELSE {NoFile}
  /\ dEnv = NoFile /\ dFiles = NoFiles
  /\ running \in {Down} \union
                 (IF dir THEN {[compose |-> dCompose, env |-> NoFile]} ELSE {})
  /\ req = [r \in Reqs |-> Idle]
  /\ clean = {} /\ dirty = dir

(***************************************************************************)
(* Bookkeeping of requests and of the history variable.  A request that    *)
(* arrives while another is in flight overlaps it.                         *)
(***************************************************************************)
Arrive(r, handler) ==
  /\ req[r] = Idle
  /\ req' = [req EXCEPT ![r] = handler]
  /\ clean' = IF Quiet THEN {r} ELSE {}
  /\ dirty' = (dirty \/ ~Quiet)

\* A handler that is over within the step it arrives in.
Serve(r) ==
  /\ req[r] = Idle
  /\ clean' = {}
  /\ dirty' = (dirty \/ ~Quiet)
  /\ UNCHANGED req

Move(r, q)  == req' = [req EXCEPT ![r] = q] /\ UNCHANGED <<clean, dirty>>
Goto(r, pc) == Move(r, [req[r] EXCEPT !.pc = pc])
FailAndGoto(r, pc) ==
  /\ req' = [req EXCEPT ![r] = [req[r] EXCEPT !.pc = pc]]
  /\ clean' = {}
  /\ dirty' = TRUE

Finish(r)        == req' = [req EXCEPT ![r] = Idle] /\ clean' = {} /\ UNCHANGED dirty
FailAndFinish(r) == req' = [req EXCEPT ![r] = Idle] /\ clean' = {} /\ dirty' = TRUE

\* The last step of a save or a deletion: when it ran alone and nothing
\* failed, it makes up for whatever happened before it.
FinishSave(r) ==
  /\ req' = [req EXCEPT ![r] = Idle]
  /\ clean' = {}
  /\ dirty' = (dirty /\ r \notin clean)

-----------------------------------------------------------------------------
(***************************************************************************)
(* Statements, file writes and docker commands the handlers share.         *)
(***************************************************************************)
\* Mutant: an upsert in place of the UPDATE.
UpdatedRow_Upsert(c, e) ==
  [id |-> IF db = NoRecord THEN CHOOSE r \in Reqs : TRUE ELSE db.id,
   compose |-> c, env |-> e]

\* UPDATE projects SET compose, env_vars WHERE name: no row, no effect.
UpdatedRow(c, e) ==
  IF db = NoRecord THEN NoRecord ELSE [db EXCEPT !.compose = c, !.env = e]

\* Mutant: project_files without its ON DELETE CASCADE.
DeletedFiles_NoCascade == files

\* DELETE FROM projects, with ON DELETE CASCADE on the rows that reference it.
DeletedFiles    == IF ForeignKeys THEN NoFiles ELSE files
DeletedAttached == IF ForeignKeys THEN {} ELSE attached

\* os.WriteFile of docker-compose.yml when the directory must already exist.
WriteCompose(c) == dir /\ dCompose' = c /\ UNCHANGED <<dir, dEnv, dFiles>>
WriteComposeFails ==
  /\ ~dir \/ "write" \in Faults
  /\ dCompose' \in IF dir THEN {dCompose, Torn} ELSE {dCompose}
  /\ UNCHANGED <<dir, dEnv, dFiles>>

\* docker compose up -d in the project directory: the containers are created
\* from the compose file and the .env of that moment.
ComposeUp == dCompose # NoFile /\ running' = [compose |-> dCompose, env |-> dEnv]
ComposeUpFails ==
  \/ dCompose = NoFile /\ UNCHANGED running
  \/ /\ dCompose # NoFile /\ ("up" \in Faults \/ dCompose = Torn)
     /\ running' \in {running, [compose |-> dCompose, env |-> dEnv]}

ComposeDown == dCompose # NoFile /\ running' = Down
ComposeDownFails ==
  /\ dCompose \in {NoFile, Torn} \/ "down" \in Faults
  /\ UNCHANGED running

-----------------------------------------------------------------------------
(***************************************************************************)
(* Saving a project: a row is written, read back, and SyncProject copies   *)
(* it to the directory.  The handlers drop SyncProject's error.            *)
(***************************************************************************)
CreateProject(r, c, e) ==
  /\ db = NoRecord
  /\ db' = [id |-> r, compose |-> c, env |-> e]
  /\ Arrive(r, Handler("getById"))
  /\ UNCHANGED <<files, attached, diskVars, running>>

UpdateProject(r, c, e) ==
  /\ db # NoRecord
  /\ db' = UpdatedRow(c, e)
  /\ Arrive(r, Handler("get"))
  /\ UNCHANGED <<files, attached, diskVars, running>>

UpsertProjectFile(r, f, x) ==
  /\ ForeignKeys => db # NoRecord
  /\ files' = [files EXCEPT ![f] = x]
  /\ Arrive(r, Handler("get"))
  /\ UNCHANGED <<db, attached, diskVars, running>>

\* The row as the handler that saved it reads it back: by the id it inserted,
\* or by name.
Found(r) == db # NoRecord /\ (req[r].pc = "getById" => db.id = r)

GetProject(r) ==
  /\ req[r].pc \in {"getById", "get"}
  /\ \/ /\ Found(r)
        /\ Move(r, [req[r] EXCEPT !.pc = "compose", !.rec = db])
     \/ ~Found(r) /\ Finish(r)
     \/ "db" \in Faults /\ FailAndFinish(r)
  /\ UNCHANGED <<dbVars, diskVars, running>>

SyncCompose(r) ==
  /\ req[r].pc = "compose"
  /\ \/ /\ dir' = TRUE
        /\ dCompose' = req[r].rec.compose
        /\ Goto(r, "secrets")
     \/ /\ "write" \in Faults
        /\ dir' \in {dir, TRUE}
        /\ dCompose' \in IF dir' THEN {dCompose, Torn} ELSE {dCompose}
        /\ FailAndFinish(r)
  /\ UNCHANGED <<dbVars, dEnv, dFiles, running>>

\* A blob that does not decrypt is skipped; a failed query leaves none.
SyncSecrets(r) ==
  /\ req[r].pc = "secrets"
  /\ \E S \in SUBSET attached :
       /\ \/ S = attached
          \/ "decrypt" \in Faults
          \/ "db" \in Faults /\ S = {}
       /\ Move(r, [req[r] EXCEPT !.pc = "env", !.secs = S])
  /\ UNCHANGED <<dbVars, diskVars, running>>

SyncEnv(r) ==
  /\ req[r].pc = "env"
  /\ \/ /\ dir
        /\ dEnv' = [vars |-> req[r].rec.env, secrets |-> req[r].secs]
        /\ Goto(r, "list")
     \/ /\ ~dir \/ "write" \in Faults
        /\ dEnv' \in IF dir THEN {dEnv, Torn} ELSE {dEnv}
        /\ FailAndFinish(r)
  /\ UNCHANGED <<dbVars, dir, dCompose, dFiles, running>>

ListProjectFiles(r) ==
  /\ req[r].pc = "list"
  /\ \/ Move(r, [req[r] EXCEPT !.pc = "files", !.got = files])
     \/ "db" \in Faults /\ FailAndFinish(r)
  /\ UNCHANGED <<dbVars, diskVars, running>>

\* Every file has its own MkdirAll, which brings back a directory that was
\* removed meanwhile; a file that cannot be written is passed over.
SyncFiles(r) ==
  LET got     == req[r].got
      written == [f \in FileNames |-> IF got[f] = NoFile THEN dFiles[f] ELSE got[f]]
  IN  /\ req[r].pc = "files"
      /\ dir' = (dir \/ \E f \in FileNames : got[f] # NoFile)
      /\ \/ dFiles' = written /\ FinishSave(r)
         \/ /\ "write" \in Faults
            /\ \E bad \in SUBSET {f \in FileNames : got[f] # NoFile} :
                 \E left \in [bad -> {"old", "torn"}] :
                   dFiles' = [f \in FileNames |->
                                IF f \notin bad THEN written[f]
                                ELSE IF left[f] = "old" THEN dFiles[f] ELSE Torn]
            /\ FailAndFinish(r)
      /\ UNCHANGED <<dbVars, dCompose, dEnv, running>>

SyncStep(r) ==
  \/ GetProject(r) \/ SyncCompose(r) \/ SyncSecrets(r)
  \/ SyncEnv(r) \/ ListProjectFiles(r) \/ SyncFiles(r)

-----------------------------------------------------------------------------
(***************************************************************************)
(* Handlers of one statement or one docker command.                        *)
(***************************************************************************)
\* The row goes; the file on disk stays.
DeleteProjectFile(r, f) ==
  /\ files[f] # NoFile
  /\ files' = [files EXCEPT ![f] = NoFile]
  /\ Serve(r)
  /\ UNCHANGED <<db, attached, diskVars, running>>

\* One transaction; the .env on disk is not rewritten.
SetProjectSecrets(r, S) ==
  /\ ForeignKeys /\ db = NoRecord => S = {}
  /\ attached' = S
  /\ Serve(r)
  /\ UNCHANGED <<db, files, diskVars, running>>

Start(r) ==
  /\ ComposeUp \/ ComposeUpFails
  /\ Serve(r)
  /\ UNCHANGED <<dbVars, diskVars>>

Stop(r) ==
  /\ ComposeDown \/ ComposeDownFails
  /\ Serve(r)
  /\ UNCHANGED <<dbVars, diskVars>>

-----------------------------------------------------------------------------
(***************************************************************************)
(* Deleting a project: the row, then the containers, then the directory.   *)
(* The errors of the last two are dropped.                                 *)
(***************************************************************************)
DeleteProject(r) ==
  /\ db # NoRecord
  /\ db' = NoRecord
  /\ files' = DeletedFiles
  /\ attached' = DeletedAttached
  /\ Arrive(r, Handler("destroy"))
  /\ UNCHANGED <<diskVars, running>>

Destroy(r) ==
  /\ req[r].pc = "destroy"
  /\ \/ ComposeDown /\ Goto(r, "remove")
     \/ ComposeDownFails /\ running = Down /\ Goto(r, "remove")
     \/ ComposeDownFails /\ running # Down /\ FailAndGoto(r, "remove")
  /\ UNCHANGED <<dbVars, diskVars>>

DeleteProjectFiles(r) ==
  /\ req[r].pc = "remove"
  /\ \/ /\ dir' = FALSE /\ dCompose' = NoFile /\ dEnv' = NoFile /\ dFiles' = NoFiles
        /\ FinishSave(r)
     \/ /\ "write" \in Faults /\ dir
        /\ dir' = dir
        /\ dCompose' \in {dCompose, NoFile}
        /\ dEnv' \in {dEnv, NoFile}
        /\ dFiles' \in {dFiles, NoFiles}
        /\ FailAndFinish(r)
  /\ UNCHANGED <<dbVars, running>>

-----------------------------------------------------------------------------
(***************************************************************************)
(* PullNewImagesStream: the deploy socket calls it with or without         *)
(* rollback, the webhook goroutine without.                                *)
(***************************************************************************)
PullNewImages(r, withRollback) ==
  /\ db # NoRecord
  /\ Arrive(r, [Handler("check") EXCEPT !.rec = db, !.rollback = withRollback])
  /\ UNCHANGED <<dbVars, diskVars, running>>

\* The snapshot of the running containers and the registry lookups.
CheckVersions(r) ==
  /\ req[r].pc = "check"
  /\ \E new \in {req[r].rec.compose, Newer[req[r].rec.compose]},
        snapshot \in BOOLEAN :
       /\ snapshot => running # Down
       /\ ~snapshot => running = Down \/ "snapshot" \in Faults
       /\ Move(r, [req[r] EXCEPT
                     !.pc = IF new = req[r].rec.compose THEN "pull" ELSE "writeDisk",
                     !.new = new,
                     !.rollback = req[r].rollback /\ snapshot])
  /\ UNCHANGED <<dbVars, diskVars, running>>

WriteUpdatedCompose(r) ==
  /\ req[r].pc = "writeDisk"
  /\ \/ WriteCompose(req[r].new) /\ Goto(r, "writeRow")
     \/ WriteComposeFails /\ FailAndFinish(r)
  /\ UNCHANGED <<dbVars, running>>

\* Mutant: the row updated without its variables (marshalEnvVars(nil)).
UpdateRecord_NilEnv(r) ==
  /\ req[r].pc = "writeRow"
  /\ db' = UpdatedRow(req[r].new, CHOOSE e \in Envs : TRUE)
  /\ Goto(r, "pull")
  /\ UNCHANGED <<files, attached, diskVars, running>>

\* The env_vars written are the ones read when the request arrived.
UpdateRecord(r) ==
  /\ req[r].pc = "writeRow"
  /\ \/ db' = UpdatedRow(req[r].new, req[r].rec.env) /\ Goto(r, "pull")
     \/ "db" \in Faults /\ UNCHANGED db /\ FailAndGoto(r, "pull")
  /\ UNCHANGED <<files, attached, diskVars, running>>

\* A failed pull ends the request, whatever rollback says.
Pull(r) ==
  /\ req[r].pc = "pull"
  /\ \/ dCompose # NoFile /\ Goto(r, "up")
     \/ (dCompose \in {NoFile, Torn} \/ "pull" \in Faults) /\ Finish(r)
  /\ UNCHANGED <<dbVars, diskVars, running>>

RollBackOrFinish(r) ==
  \/ req[r].rollback /\ Goto(r, "rollDisk")
  \/ ~req[r].rollback /\ Finish(r)

Redeploy(r) ==
  /\ req[r].pc = "up"
  /\ \/ ComposeUp /\ Goto(r, "health")
     \/ ComposeUpFails /\ RollBackOrFinish(r)
  /\ UNCHANGED <<dbVars, diskVars>>

\* waitHealthy, which also succeeds when its 60 seconds are over.
WaitHealthy(r) ==
  /\ req[r].pc = "health"
  /\ \/ Finish(r)
     \/ "health" \in Faults /\ RollBackOrFinish(r)
  /\ UNCHANGED <<dbVars, diskVars, running>>

RollbackCompose(r) ==
  /\ req[r].pc = "rollDisk"
  /\ \/ WriteCompose(req[r].rec.compose) /\ Goto(r, "rollUp")
     \/ WriteComposeFails /\ FailAndFinish(r)
  /\ UNCHANGED <<dbVars, running>>

\* Mutant: a rollback that never writes the row back.
RollbackUp_NoRow(r) ==
  /\ req[r].pc = "rollUp"
  /\ \/ ComposeUp /\ Finish(r)
     \/ ComposeUpFails /\ FailAndFinish(r)
  /\ UNCHANGED <<dbVars, diskVars>>

\* A redeploy that fails here leaves the row at the new content.
RollbackUp(r) ==
  /\ req[r].pc = "rollUp"
  /\ \/ ComposeUp /\ Goto(r, "rollGet")
     \/ ComposeUpFails /\ FailAndFinish(r)
  /\ UNCHANGED <<dbVars, diskVars>>

\* Mutant: the record read afresh replaces the original compose content.
RollbackGet_NewCompose(r) ==
  /\ req[r].pc = "rollGet"
  /\ db # NoRecord
  /\ Move(r, [req[r] EXCEPT !.pc = "rollRow", !.rec = db])
  /\ UNCHANGED <<dbVars, diskVars, running>>

\* The env_vars written back are read afresh.
RollbackGet(r) ==
  /\ req[r].pc = "rollGet"
  /\ \/ /\ db # NoRecord
        /\ Move(r, [req[r] EXCEPT !.pc = "rollRow", !.rec.env = db.env])
     \/ db = NoRecord /\ Finish(r)
     \/ "db" \in Faults /\ FailAndFinish(r)
  /\ UNCHANGED <<dbVars, diskVars, running>>

RollbackRecord(r) ==
  /\ req[r].pc = "rollRow"
  /\ \/ db' = UpdatedRow(req[r].rec.compose, req[r].rec.env) /\ Finish(r)
     \/ "db" \in Faults /\ UNCHANGED db /\ FailAndFinish(r)
  /\ UNCHANGED <<files, attached, diskVars, running>>

PullStep(r) ==
  \/ CheckVersions(r) \/ WriteUpdatedCompose(r) \/ UpdateRecord(r)
  \/ Pull(r) \/ Redeploy(r) \/ WaitHealthy(r)
  \/ RollbackCompose(r) \/ RollbackUp(r) \/ RollbackGet(r) \/ RollbackRecord(r)

-----------------------------------------------------------------------------
\* The server dies and is started again: the requests are gone, and nothing
\* at start looks for what they left half done.
Crash ==
  /\ "crash" \in Faults
  /\ req' = [r \in Reqs |-> Idle]
  /\ clean' = {}
  /\ dirty' = (dirty \/ ~Quiet)
  /\ UNCHANGED <<dbVars, diskVars, running>>

Arrival(r) ==
  \/ \E c \in Composes, e \in Envs : CreateProject(r, c, e) \/ UpdateProject(r, c, e)
  \/ \E f \in FileNames : \/ DeleteProjectFile(r, f)
                          \/ \E x \in Contents : UpsertProjectFile(r, f, x)
  \/ \E S \in SUBSET Secrets : SetProjectSecrets(r, S)
  \/ Start(r) \/ Stop(r) \/ DeleteProject(r)
  \/ \E w \in BOOLEAN : PullNewImages(r, w)

Step(r) == SyncStep(r) \/ Destroy(r) \/ DeleteProjectFiles(r) \/ PullStep(r)

Next == Crash \/ \E r \in Reqs : Arrival(r) \/ Step(r)

Spec == Init /\ [][Next]_vars

-----------------------------------------------------------------------------
\* Every variable keeps its type; containers come from a compose file.
TypeOK ==
  /\ db \in Record \union {NoRecord}
  /\ files \in Rows
  /\ attached \in SUBSET Secrets
  /\ dir \in BOOLEAN
  /\ dCompose \in Composes \union {NoFile, Torn}
  /\ dEnv \in EnvFile \union {NoFile, Torn}
  /\ dFiles \in [FileNames -> Contents \union {NoFile, Torn}]
  /\ running \in Containers \union {Down}
  /\ req \in [Reqs -> Request]
  /\ clean \in SUBSET Reqs
  /\ dirty \in BOOLEAN

\* The three copies agree: a recorded project has its compose content, its
\* variables and its extra files on disk; a project with no row has neither
\* directory nor containers.
Saved ==
  /\ dir
  /\ dCompose = db.compose
  /\ dEnv \in EnvFile /\ dEnv.vars = db.env
  /\ \A f \in FileNames : files[f] # NoFile => dFiles[f] = files[f]

Gone == ~dir /\ dCompose = NoFile /\ running = Down

Agree == (db = NoRecord => Gone) /\ (db # NoRecord => Saved)

\* Row, directory and containers disagree only after a failure, a crash or an
\* overlap of requests, and one save or deletion that runs alone and meets no
\* failure brings them back together, whatever it found (SyncProject,
\* deleteProject, PullNewImagesStream with and without its rollback).
CopiesAgree == Quiet /\ ~dirty => Agree

\* With the cascades of the schema, a deleted project leaves no extra file and
\* no secret behind for the next project of the same name to inherit.
NoOrphans == ForeignKeys /\ db = NoRecord => files = NoFiles /\ attached = {}

\* env_vars change by an edit (apiUpdateProject) and otherwise only under an
\* overlap or a failure: an image update that runs alone, its rollback included,
\* writes back the variables it found, whatever state the project is in.
EnvChangesByEdit ==
  [][ db # NoRecord /\ db' # NoRecord /\ db'.env # db.env
        => \/ \E r \in Reqs : req[r] = Idle /\ req'[r].pc = "get"
           \/ clean = {} ]_vars

\* A row that was deleted comes back only when a project is created: no step of
\* a save, an image update or a rollback in flight brings it back.
StaysDeleted ==
  [][ db = NoRecord /\ db' # NoRecord
        => \E r \in Reqs : req[r] = Idle /\ req'[r].pc = "getById" ]_vars

\* A rollback that runs to its end undisturbed leaves row, file and containers
\* at the compose content the update started from (performRollback).
RollbackRestores ==
  [][ \A r \in Reqs : RollbackRecord(r) /\ ~dirty'
        => /\ db'.compose = req[r].rec.compose
           /\ dCompose = req[r].rec.compose
           /\ running # Down /\ running.compose = req[r].rec.compose ]_vars

\* What is stored of a project: types, copies and rows.
StoreSound == TypeOK /\ CopiesAgree /\ NoOrphans

-----------------------------------------------------------------------------
(***************************************************************************)
(* The inductive invariant behind CopiesAgree and RollbackRestores.        *)
(***************************************************************************)
\* A request that is still clean is alone, and while nothing went wrong every
\* request is clean.
CleanAlone ==
  /\ \A r \in clean : \A q \in Reqs : q # r => req[q] = Idle
  /\ ~dirty => \A r \in Reqs : req[r] # Idle => r \in clean

WithRecord ==
  {"compose", "secrets", "env", "list", "files"} \union PullPCs \union RollPCs

\* A request holds the record, and later the content, that its step works on.
Loaded ==
  \A r \in Reqs :
    /\ req[r].pc \in WithRecord => req[r].rec # NoRecord
    /\ req[r].pc \in {"writeDisk", "writeRow"} => req[r].new # NoFile

\* What a clean request has achieved so far, even on a dirty project.
CleanProgress(r) ==
  LET q == req[r] IN
  /\ q.pc = "getById" => db # NoRecord /\ db.id = r
  /\ q.pc \in {"compose", "secrets", "env", "list", "files"} =>
       db # NoRecord /\ q.rec = db
  /\ q.pc \in {"secrets", "env", "list", "files"} => dir /\ dCompose = db.compose
  /\ q.pc \in {"list", "files"} => dEnv \in EnvFile /\ dEnv.vars = db.env
  /\ q.pc = "files" => q.got = files
  /\ q.pc \in DeletePCs => db = NoRecord
  /\ q.pc = "remove" => running = Down
  /\ q.pc \in PullPCs \union RollPCs => db # NoRecord
  /\ q.pc \in PullPCs \union {"rollRow"} => q.rec.env = db.env

\* Saved, but for the compose file.
SavedRest ==
  /\ dir
  /\ dEnv \in EnvFile /\ dEnv.vars = db.env
  /\ \A f \in FileNames : files[f] # NoFile => dFiles[f] = files[f]

\* Where a request on a project in order stands.
OrderProgress(r) ==
  LET q == req[r] IN
  /\ q.pc = "get" /\ db = NoRecord => Gone
  /\ q.pc \in PullPCs \union RollPCs => SavedRest
  /\ q.pc \in {"check", "writeDisk", "pull", "up", "health", "rollDisk"} =>
       dCompose = db.compose
  /\ q.pc = "writeRow" => dCompose = q.new
  /\ q.pc \in {"rollUp", "rollGet", "rollRow"} => dCompose = q.rec.compose
  /\ q.pc \in {"rollGet", "rollRow"} =>
       running # Down /\ running.compose = q.rec.compose

Progress ==
  \A r \in clean : CleanProgress(r) /\ (~dirty => OrderProgress(r))

IInv == TypeOK /\ Loaded /\ NoOrphans /\ CleanAlone /\ Progress /\ CopiesAgree

=============================================================================
