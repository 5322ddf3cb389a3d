------------------------- MODULE ProjectStoreProofs -------------------------
(***************************************************************************)
(* Proofs about ProjectStore for every number of requests, every set of    *)
(* contents and every combination of failures.  The invariant IInv is      *)
(* preserved by every action (ArrivalStep, SyncStepKeeps, DeleteStepKeeps, *)
(* PullStepKeeps); the theorems at the end follow from it.                 *)
(***************************************************************************)
EXTENDS ProjectStore, TLAPS

(***************************************************************************)
(* Facts about the records the state is made of.                           *)
(***************************************************************************)

\* A row, and a row after the UPDATE of its compose content and variables.
LEMMA RecordFacts ==
  /\ \A i \in Reqs, c \in Composes, e \in Envs :
       [id |-> i, compose |-> c, env |-> e] \in Record
  /\ \A rec \in Record : rec.id \in Reqs /\ rec.compose \in Composes /\ rec.env \in Envs
  /\ \A rec \in Record, c \in Composes, e \in Envs :
       /\ [rec EXCEPT !.compose = c, !.env = e] \in Record
       /\ [rec EXCEPT !.compose = c, !.env = e].id = rec.id
       /\ [rec EXCEPT !.compose = c, !.env = e].compose = c
       /\ [rec EXCEPT !.compose = c, !.env = e].env = e
BY DEF Record

\* The .env SyncProject writes.
LEMMA EnvFileFacts ==
  \A e \in Envs, S \in SUBSET Secrets :
     /\ [vars |-> e, secrets |-> S] \in EnvFile
     /\ [vars |-> e, secrets |-> S].vars = e
BY DEF EnvFile

\* The rows of project_files, before and after an upsert.
LEMMA RowsFacts ==
  /\ NoFiles \in Rows
  /\ \A rows \in Rows, f \in FileNames, x \in Contents \union {NoFile} :
       [rows EXCEPT ![f] = x] \in Rows
BY DEF Rows, NoFiles

\* A handler at its first step.
LEMMA HandlerFacts ==
  ASSUME NEW p \in PCs
  PROVE  /\ Handler(p) \in Request
         /\ Handler(p).pc = p /\ Handler(p).rec = NoRecord
         /\ p # "idle" => Handler(p) # Idle
BY RowsFacts DEF Handler, Idle, Request

\* The slot of a request that is not in flight.
LEMMA IdleFacts == Idle \in Request /\ Idle.pc = "idle"
BY HandlerFacts DEF Idle, PCs

\* A step of one request leaves the others alone.
LEMMA SetReq ==
  ASSUME req \in [Reqs -> Request], NEW r \in Reqs, NEW q \in Request,
         req' = [req EXCEPT ![r] = q]
  PROVE  /\ req' \in [Reqs -> Request]
         /\ req'[r] = q
         /\ \A p \in Reqs : p # r => req'[p] = req[p]
OBVIOUS

\* A request that moves on keeps its local variables.
LEMMA AtFacts ==
  ASSUME NEW q \in Request, NEW p \in PCs
  PROVE  /\ [q EXCEPT !.pc = p] \in Request
         /\ [q EXCEPT !.pc = p].pc = p
         /\ [q EXCEPT !.pc = p].rec = q.rec
         /\ [q EXCEPT !.pc = p].new = q.new
         /\ [q EXCEPT !.pc = p].secs = q.secs
         /\ [q EXCEPT !.pc = p].got = q.got
         /\ [q EXCEPT !.pc = p].rollback = q.rollback
BY DEF Request

\* PullNewImagesStream at its first step holds the record it loaded.
LEMMA PullFacts ==
  ASSUME NEW rec \in Record, NEW w \in BOOLEAN
  PROVE  /\ [Handler("check") EXCEPT !.rec = rec, !.rollback = w] \in Request
         /\ [Handler("check") EXCEPT !.rec = rec, !.rollback = w].pc = "check"
         /\ [Handler("check") EXCEPT !.rec = rec, !.rollback = w].rec = rec
         /\ [Handler("check") EXCEPT !.rec = rec, !.rollback = w] # Idle
<1>1. Handler("check") \in Request /\ Handler("check").pc = "check"
  BY HandlerFacts DEF PCs, PullPCs
<1>2. QED
  BY <1>1, IdleFacts DEF Request
-----------------------------------------------------------------------------
\* The types of the requests and of the history.
ReqOK == req \in [Reqs -> Request] /\ clean \in SUBSET Reqs /\ dirty \in BOOLEAN

\* q may stand where it stands: it holds what its next step needs.
Ready(q) == /\ q.pc \in WithRecord => q.rec # NoRecord
            /\ q.pc \in {"writeDisk", "writeRow"} => q.new # NoFile

\* Loaded is kept by a request that moves to a place it is ready for.
LEMMA LoadedStep ==
  ASSUME req \in [Reqs -> Request], Loaded, NEW r \in Reqs, NEW q \in Request,
         req' = [req EXCEPT ![r] = q], Ready(q)
  PROVE  req' \in [Reqs -> Request] /\ Loaded'
BY SetReq DEF Loaded, Ready

\* A finished request needs nothing.
LEMMA IdleReady == Ready(Idle)
BY IdleFacts DEF Ready, WithRecord, PullPCs, RollPCs

\* The part of the invariant about who ran alone and how far it got.
Rest == CleanAlone /\ Progress /\ CopiesAgree

\* A request arrives: what is left to show is what it has achieved by arriving.
LEMMA ArriveStep ==
  ASSUME ReqOK, Loaded, Rest, NEW r \in Reqs, NEW h \in Request, Arrive(r, h), Ready(h),
         h # Idle,
         Quiet => CleanProgress(r)',
         Quiet /\ ~dirty => OrderProgress(r)'
  PROVE  ReqOK' /\ Loaded' /\ Rest'
<1>1. req' \in [Reqs -> Request] /\ Loaded'
  BY LoadedStep DEF Arrive, ReqOK
<1>2. ReqOK'
  BY <1>1 DEF ReqOK, Arrive, Quiet
<1>3. req'[r] = h /\ \A q \in Reqs : q # r => req'[q] = req[q]
  BY SetReq DEF Arrive, ReqOK
<1>4. CleanAlone'
  BY <1>3 DEF Arrive, CleanAlone, Quiet
<1>5. Progress'
  BY DEF Arrive, Progress
<1>6. CopiesAgree'
  BY <1>3 DEF CopiesAgree, Quiet
<1>7. QED
  BY <1>1, <1>2, <1>4, <1>5, <1>6 DEF Rest

\* A handler of one step must keep the copies together.
LEMMA ServeStep ==
  ASSUME ReqOK, Loaded, Rest, NEW r \in Reqs, Serve(r), Agree => Agree'
  PROVE  ReqOK' /\ Loaded' /\ Rest'
<1>1. ReqOK' /\ Loaded'
  BY DEF ReqOK, Loaded, Serve, Quiet
<1>2. CleanAlone' /\ Progress'
  BY DEF Serve, CleanAlone, Progress, Quiet
<1>3. CopiesAgree'
  BY DEF Serve, CopiesAgree, Quiet, Rest
<1>4. QED
  BY <1>1, <1>2, <1>3 DEF Rest

\* A request moves on: only its own progress is left to show, because a clean
\* request is alone.
LEMMA MoveStep ==
  ASSUME ReqOK, Loaded, Rest, NEW r \in Reqs, NEW q \in Request, Move(r, q), Ready(q),
         req[r] # Idle, q # Idle,
         r \in clean => CleanProgress(r)',
         r \in clean /\ ~dirty => OrderProgress(r)'
  PROVE  ReqOK' /\ Loaded' /\ Rest'
<1>1. req' \in [Reqs -> Request] /\ Loaded'
  BY LoadedStep DEF Move, ReqOK
<1>2. ReqOK'
  BY <1>1 DEF ReqOK, Move
<1>3. req'[r] = q /\ \A p \in Reqs : p # r => req'[p] = req[p]
  BY SetReq DEF Move, ReqOK
<1>4. clean \subseteq {r}
  BY DEF Rest, CleanAlone, ReqOK
<1>5. CleanAlone'
  BY <1>3, <1>4 DEF Move, CleanAlone, Rest
<1>6. Progress'
  BY <1>4 DEF Move, Progress
<1>7. CopiesAgree'
  BY <1>3 DEF CopiesAgree, Quiet
<1>8. QED
  BY <1>1, <1>2, <1>5, <1>6, <1>7 DEF Rest

\* A failure that the handler passes over.
LEMMA FailAndGotoStep ==
  ASSUME ReqOK, Loaded, Rest, NEW r \in Reqs, NEW p \in PCs, FailAndGoto(r, p),
         Ready([req[r] EXCEPT !.pc = p])
  PROVE  ReqOK' /\ Loaded' /\ Rest'
<1>1. [req[r] EXCEPT !.pc = p] \in Request
  BY AtFacts DEF ReqOK
<1>2. req' \in [Reqs -> Request] /\ Loaded'
  BY <1>1, LoadedStep DEF FailAndGoto, ReqOK
<1>3. QED
  BY <1>2 DEF ReqOK, Rest, CleanAlone, Progress, CopiesAgree, FailAndGoto

\* A failure that ends the handler.
LEMMA FailAndFinishStep ==
  ASSUME ReqOK, Loaded, NEW r \in Reqs, FailAndFinish(r)
  PROVE  ReqOK' /\ Loaded' /\ Rest'
<1>1. req' \in [Reqs -> Request] /\ Loaded'
  BY IdleReady, IdleFacts, LoadedStep DEF FailAndFinish, ReqOK
<1>2. QED
  BY <1>1 DEF ReqOK, Rest, CleanAlone, Progress, CopiesAgree, FailAndFinish

\* A request ends; on a project in order it must leave the copies together.
LEMMA FinishStep ==
  ASSUME ReqOK, Loaded, Rest, NEW r \in Reqs, Finish(r), req[r] # Idle,
         r \in clean /\ ~dirty => Agree'
  PROVE  ReqOK' /\ Loaded' /\ Rest'
<1>1. req' \in [Reqs -> Request] /\ Loaded'
  BY IdleReady, IdleFacts, LoadedStep DEF Finish, ReqOK
<1>2. req'[r] = Idle /\ \A q \in Reqs : q # r => req'[q] = req[q]
  BY IdleFacts, SetReq DEF Finish, ReqOK
<1>3. QED
  BY <1>1, <1>2 DEF ReqOK, Rest, CleanAlone, Progress, CopiesAgree, Finish, Quiet

\* A save or deletion ends; a clean one must bring the copies together.
LEMMA FinishSaveStep ==
  ASSUME ReqOK, Loaded, Rest, NEW r \in Reqs, FinishSave(r), req[r] # Idle,
         r \in clean => Agree'
  PROVE  ReqOK' /\ Loaded' /\ Rest'
<1>1. req' \in [Reqs -> Request] /\ Loaded'
  BY IdleReady, IdleFacts, LoadedStep DEF FinishSave, ReqOK
<1>2. req'[r] = Idle /\ \A q \in Reqs : q # r => req'[q] = req[q]
  BY IdleFacts, SetReq DEF FinishSave, ReqOK
<1>3. QED
  BY <1>1, <1>2 DEF ReqOK, Rest, CleanAlone, Progress, CopiesAgree, FinishSave, Quiet

-----------------------------------------------------------------------------
\* The types of the row, the directory and the containers.
StoreOK ==
  /\ db \in Record \union {NoRecord}
  /\ files \in Rows
  /\ attached \in SUBSET Secrets
  /\ dir \in BOOLEAN
  /\ dCompose \in Composes \union {NoFile, Torn}
  /\ dEnv \in EnvFile \union {NoFile, Torn}
  /\ dFiles \in [FileNames -> Contents \union {NoFile, Torn}]
  /\ running \in Containers \union {Down}

\* The invariant, split into what the store holds and what the requests hold.
LEMMA IInvParts ==
  /\ IInv => StoreOK /\ NoOrphans /\ ReqOK /\ Loaded /\ Rest
  /\ StoreOK' /\ NoOrphans' /\ ReqOK' /\ Loaded' /\ Rest' => IInv'
BY DEF IInv, TypeOK, StoreOK, ReqOK, Rest

\* Containers created from the files on disk.
LEMMA UpFacts ==
  ASSUME StoreOK, dCompose # NoFile
  PROVE  [compose |-> dCompose, env |-> dEnv] \in Containers
BY DEF StoreOK, Containers

\* The handlers' first steps.
LEMMA ArrivalStep ==
  ASSUME IInv, NEW r \in Reqs, Arrival(r)
  PROVE  IInv'
<1> USE IInvParts, RecordNullsAssumption, FileNullsAssumption
<1>1. ASSUME NEW c \in Composes, NEW e \in Envs, CreateProject(r, c, e)
      PROVE  IInv'
  <2>1. Handler("getById") \in Request /\ Handler("getById").pc = "getById" /\ Handler("getById") # Idle
    BY HandlerFacts DEF PCs, SavePCs
  <2>2. db' \in Record /\ db'.id = r
    BY <1>1, RecordFacts DEF CreateProject
  <2>3. StoreOK' /\ NoOrphans'
    BY <1>1, <2>2 DEF CreateProject, StoreOK, NoOrphans, diskVars
  <2>4. req'[r] = Handler("getById")
    BY <1>1, <2>1, SetReq DEF CreateProject, Arrive, ReqOK
  <2>5. CleanProgress(r)' /\ OrderProgress(r)'
    BY <2>1, <2>2, <2>4 DEF CleanProgress, OrderProgress, PullPCs, RollPCs, DeletePCs
  <2>6. Ready(Handler("getById"))
    BY <2>1 DEF Ready, WithRecord, PullPCs, RollPCs
  <2>7. QED
    BY <1>1, <2>1, <2>3, <2>5, <2>6, ArriveStep DEF CreateProject
<1>2. ASSUME NEW c \in Composes, NEW e \in Envs, UpdateProject(r, c, e)
      PROVE  IInv'
  <2>1. Handler("get") \in Request /\ Handler("get").pc = "get" /\ Handler("get") # Idle
    BY HandlerFacts DEF PCs, SavePCs
  <2>2. db' \in Record
    BY <1>2, RecordFacts DEF UpdateProject, UpdatedRow, StoreOK
  <2>3. StoreOK' /\ NoOrphans'
    BY <1>2, <2>2 DEF UpdateProject, StoreOK, NoOrphans, diskVars
  <2>4. req'[r] = Handler("get")
    BY <1>2, <2>1, SetReq DEF UpdateProject, Arrive, ReqOK
  <2>5. CleanProgress(r)' /\ OrderProgress(r)'
    BY <2>1, <2>2, <2>4 DEF CleanProgress, OrderProgress, PullPCs, RollPCs, DeletePCs
  <2>6. Ready(Handler("get"))
    BY <2>1 DEF Ready, WithRecord, PullPCs, RollPCs
  <2>7. QED
    BY <1>2, <2>1, <2>3, <2>5, <2>6, ArriveStep DEF UpdateProject
<1>3. ASSUME NEW f \in FileNames, NEW x \in Contents, UpsertProjectFile(r, f, x)
      PROVE  IInv'
  <2>1. Handler("get") \in Request /\ Handler("get").pc = "get" /\ Handler("get") # Idle
    BY HandlerFacts DEF PCs, SavePCs
  <2>2. files' \in Rows
    BY <1>3, RowsFacts DEF UpsertProjectFile, StoreOK
  <2>3. StoreOK' /\ NoOrphans'
    BY <1>3, <2>2 DEF UpsertProjectFile, StoreOK, NoOrphans, diskVars
  <2>4. req'[r] = Handler("get")
    BY <1>3, <2>1, SetReq DEF UpsertProjectFile, Arrive, ReqOK
  <2>5. CleanProgress(r)'
    BY <2>1, <2>4 DEF CleanProgress, PullPCs, RollPCs, DeletePCs
  <2>6. Quiet /\ ~dirty => OrderProgress(r)'
    BY <1>3, <2>1, <2>4 DEF OrderProgress, PullPCs, RollPCs, UpsertProjectFile, diskVars,
       Rest, CopiesAgree, Agree, Gone
  <2>7. Ready(Handler("get"))
    BY <2>1 DEF Ready, WithRecord, PullPCs, RollPCs
  <2>8. QED
    BY <1>3, <2>1, <2>3, <2>5, <2>6, <2>7, ArriveStep DEF UpsertProjectFile
<1>4. ASSUME NEW f \in FileNames, DeleteProjectFile(r, f)
      PROVE  IInv'
  <2>1. files' \in Rows /\ \A g \in FileNames : files'[g] # NoFile => files'[g] = files[g]
    BY <1>4, RowsFacts DEF DeleteProjectFile, StoreOK, Rows
  <2>2. StoreOK'
    BY <1>4, <2>1 DEF DeleteProjectFile, StoreOK, diskVars
  <2>3. NoOrphans'
    BY <1>4, <2>1 DEF DeleteProjectFile, NoOrphans, NoFiles
  <2>4. Agree => Agree'
    BY <1>4, <2>1 DEF DeleteProjectFile, Agree, Gone, Saved, diskVars
  <2>5. QED
    BY <1>4, <2>2, <2>3, <2>4, ServeStep DEF DeleteProjectFile
<1>5. ASSUME NEW S \in SUBSET Secrets, SetProjectSecrets(r, S)
      PROVE  IInv'
  <2>1. StoreOK' /\ NoOrphans'
    BY <1>5, ForeignKeysAssumption DEF SetProjectSecrets, StoreOK, NoOrphans, diskVars
  <2>2. Agree => Agree'
    BY <1>5 DEF SetProjectSecrets, Agree, Gone, Saved, diskVars
  <2>3. QED
    BY <1>5, <2>1, <2>2, ServeStep DEF SetProjectSecrets
<1>6. CASE Start(r)
  <2>1. StoreOK' /\ NoOrphans'
    BY <1>6, UpFacts DEF Start, ComposeUp, ComposeUpFails, StoreOK, NoOrphans, dbVars, diskVars
  <2>2. Agree => Agree'
    BY <1>6 DEF Start, ComposeUp, ComposeUpFails, Agree, Gone, Saved, dbVars, diskVars
  <2>3. QED
    BY <1>6, <2>1, <2>2, ServeStep DEF Start
<1>7. CASE Stop(r)
  <2>1. StoreOK' /\ NoOrphans'
    BY <1>7 DEF Stop, ComposeDown, ComposeDownFails, StoreOK, NoOrphans, dbVars, diskVars
  <2>2. Agree => Agree'
    BY <1>7 DEF Stop, ComposeDown, ComposeDownFails, Agree, Gone, Saved, dbVars, diskVars
  <2>3. QED
    BY <1>7, <2>1, <2>2, ServeStep DEF Stop
<1>8. CASE DeleteProject(r)
  <2>1. Handler("destroy") \in Request /\ Handler("destroy").pc = "destroy" /\ Handler("destroy") # Idle
    BY HandlerFacts DEF PCs, DeletePCs
  <2>2. StoreOK' /\ NoOrphans'
    BY <1>8, RowsFacts DEF DeleteProject, DeletedFiles, DeletedAttached, StoreOK, NoOrphans, diskVars
  <2>3. req'[r] = Handler("destroy")
    BY <1>8, <2>1, SetReq DEF DeleteProject, Arrive, ReqOK
  <2>4. CleanProgress(r)' /\ OrderProgress(r)'
    BY <1>8, <2>1, <2>3 DEF CleanProgress, OrderProgress, PullPCs, RollPCs, DeletePCs, DeleteProject
  <2>5. Ready(Handler("destroy"))
    BY <2>1 DEF Ready, WithRecord, PullPCs, RollPCs
  <2>6. QED
    BY <1>8, <2>1, <2>2, <2>4, <2>5, ArriveStep DEF DeleteProject
<1>9. ASSUME NEW w \in BOOLEAN, PullNewImages(r, w)
      PROVE  IInv'
  <2> DEFINE h == [Handler("check") EXCEPT !.rec = db, !.rollback = w]
  <2>1. db \in Record
    BY <1>9 DEF PullNewImages, StoreOK
  <2>2. h \in Request /\ h.pc = "check" /\ h.rec = db /\ h # Idle
    BY <2>1, PullFacts
  <2> HIDE DEF h
  <2>3. Arrive(r, h) /\ UNCHANGED <<dbVars, diskVars, running>>
    BY <1>9 DEF PullNewImages, h
  <2>4. StoreOK' /\ NoOrphans'
    BY <2>3 DEF StoreOK, NoOrphans, dbVars, diskVars
  <2>5. req'[r] = h
    BY <2>2, <2>3, SetReq DEF Arrive, ReqOK
  <2>6. CleanProgress(r)'
    BY <2>1, <2>2, <2>3, <2>5 DEF CleanProgress, PullPCs, RollPCs, DeletePCs, dbVars
  <2>7. Quiet /\ ~dirty => OrderProgress(r)'
    BY <2>1, <2>2, <2>3, <2>5 DEF OrderProgress, SavedRest, PullPCs, RollPCs, dbVars, diskVars,
       Rest, CopiesAgree, Agree, Saved
  <2>8. Ready(h)
    BY <2>1, <2>2 DEF Ready
  <2>9. QED
    BY <2>2, <2>3, <2>4, <2>6, <2>7, <2>8, ArriveStep
<1>10. QED
  BY <1>1, <1>2, <1>3, <1>4, <1>5, <1>6, <1>7, <1>8, <1>9 DEF Arrival

-----------------------------------------------------------------------------
\* A request that moves on, field by field.
LEMMA GotoFacts ==
  ASSUME ReqOK, NEW r \in Reqs, NEW p \in PCs, Goto(r, p)
  PROVE  /\ req'[r].pc = p /\ req'[r].rec = req[r].rec /\ req'[r].new = req[r].new
         /\ req'[r].secs = req[r].secs /\ req'[r].got = req[r].got
         /\ clean' = clean /\ dirty' = dirty
<1>1. [req[r] EXCEPT !.pc = p] \in Request
  BY AtFacts DEF ReqOK
<1>2. req'[r] = [req[r] EXCEPT !.pc = p]
  BY <1>1, SetReq DEF Goto, Move, ReqOK
<1>3. QED
  BY <1>2, AtFacts DEF Goto, Move, ReqOK

\* MoveStep for a request that only moves on.
LEMMA GotoStep ==
  ASSUME ReqOK, Loaded, Rest, NEW r \in Reqs, NEW p \in PCs, Goto(r, p), p # "idle",
         req[r] # Idle,
         p \in WithRecord => req[r].rec # NoRecord,
         p \in {"writeDisk", "writeRow"} => req[r].new # NoFile,
         r \in clean => CleanProgress(r)',
         r \in clean /\ ~dirty => OrderProgress(r)'
  PROVE  ReqOK' /\ Loaded' /\ Rest'
<1> DEFINE q == [req[r] EXCEPT !.pc = p]
<1>1. q \in Request /\ q.pc = p /\ q.rec = req[r].rec /\ q.new = req[r].new
  BY AtFacts DEF ReqOK
<1>2. Move(r, q)
  BY DEF Goto
<1> HIDE DEF q
<1>3. q # Idle
  BY <1>1, IdleFacts
<1>4. Ready(q)
  BY <1>1 DEF Ready
<1>5. QED
  BY <1>1, <1>2, <1>3, <1>4, MoveStep

\* The steps of SyncProject.
LEMMA SyncStepKeeps ==
  ASSUME IInv, NEW r \in Reqs, SyncStep(r)
  PROVE  IInv'
<1> USE IInvParts, RecordNullsAssumption, FileNullsAssumption
<1>1. r \in clean => CleanProgress(r) /\ (~dirty => OrderProgress(r))
  BY DEF Rest, Progress
<1>2. req[r] \in Request
  BY DEF ReqOK
<1>3. req[r].pc # "idle" => req[r] # Idle
  BY IdleFacts
<1>4. req[r].pc \in WithRecord => req[r].rec \in Record
  BY <1>2 DEF Loaded, Request
<1>pc. SavePCs \subseteq PCs /\ {"compose", "env", "files"} \subseteq SavePCs
  BY DEF PCs, SavePCs
<1>5. CASE GetProject(r)
  <2>1. StoreOK' /\ NoOrphans'
    BY <1>5 DEF GetProject, StoreOK, NoOrphans, dbVars, diskVars
  <2>2. req[r].pc \in {"getById", "get"} /\ req[r] # Idle
    BY <1>3, <1>5 DEF GetProject
  <2>3. ASSUME Found(r), Move(r, [req[r] EXCEPT !.pc = "compose", !.rec = db])
        PROVE  ReqOK' /\ Loaded' /\ Rest'
    <3> DEFINE q == [req[r] EXCEPT !.pc = "compose", !.rec = db]
    <3>1. db \in Record
      BY <2>3 DEF Found, StoreOK
    <3>2. q \in Request /\ q.pc = "compose" /\ q.rec = db
      BY <1>2, <1>pc, <3>1 DEF Request
    <3>3. Move(r, q)
      BY <2>3
    <3> HIDE DEF q
    <3>4. req'[r] = q
      BY <3>2, <3>3, SetReq DEF Move, ReqOK
    <3>5. CleanProgress(r)' /\ OrderProgress(r)'
      BY <1>5, <3>1, <3>2, <3>4 DEF CleanProgress, OrderProgress, GetProject, dbVars,
         PullPCs, RollPCs, DeletePCs
    <3>6. Ready(q) /\ q # Idle
      BY <3>1, <3>2, IdleFacts DEF Ready
    <3>7. QED
      BY <2>2, <3>2, <3>3, <3>5, <3>6, MoveStep
  <2>4. ASSUME ~Found(r), Finish(r)
        PROVE  ReqOK' /\ Loaded' /\ Rest'
    <3>1. r \in clean /\ ~dirty => Agree'
      BY <1>1, <1>5, <2>2, <2>4 DEF Found, CleanProgress, OrderProgress, Agree, Gone, GetProject,
         dbVars, diskVars
    <3>2. QED
      BY <2>2, <2>4, <3>1, FinishStep
  <2>5. QED
    BY <1>5, <2>1, <2>3, <2>4, FailAndFinishStep DEF GetProject
<1>6. CASE SyncCompose(r)
  <2>1. req[r].pc = "compose" /\ req[r] # Idle /\ req[r].rec \in Record
    BY <1>3, <1>4, <1>6 DEF SyncCompose, WithRecord
  <2>2. StoreOK' /\ NoOrphans'
    <3>1. req[r].rec.compose \in Composes
      BY <2>1, RecordFacts
    <3>2. dir' \in BOOLEAN /\ dCompose' \in Composes \union {NoFile, Torn}
      BY <1>6, <3>1 DEF SyncCompose, StoreOK
    <3>3. QED
      BY <1>6, <3>2 DEF SyncCompose, StoreOK, NoOrphans, dbVars
  <2>3. ASSUME dir' = TRUE, dCompose' = req[r].rec.compose, Goto(r, "secrets")
        PROVE  ReqOK' /\ Loaded' /\ Rest'
    <3>1. "secrets" \in PCs
      BY DEF PCs, SavePCs
    <3>2. req'[r].pc = "secrets" /\ req'[r].rec = req[r].rec
      BY <2>3, <3>1, GotoFacts
    <3>3. r \in clean => CleanProgress(r)'
      BY <1>1, <1>6, <2>1, <2>3, <3>2 DEF CleanProgress, SyncCompose, dbVars,
         PullPCs, RollPCs, DeletePCs
    <3>4. OrderProgress(r)'
      BY <3>2 DEF OrderProgress, PullPCs, RollPCs
    <3>5. QED
      BY <2>1, <2>3, <3>1, <3>3, <3>4, GotoStep
  <2>4. QED
    BY <1>6, <2>2, <2>3, FailAndFinishStep DEF SyncCompose
<1>7. CASE SyncSecrets(r)
  <2>1. req[r].pc = "secrets" /\ req[r] # Idle /\ req[r].rec \in Record
    BY <1>3, <1>4, <1>7 DEF SyncSecrets, WithRecord
  <2>2. StoreOK' /\ NoOrphans'
    BY <1>7 DEF SyncSecrets, StoreOK, NoOrphans, dbVars, diskVars
  <2>3. PICK S \in SUBSET attached : Move(r, [req[r] EXCEPT !.pc = "env", !.secs = S])
    BY <1>7 DEF SyncSecrets
  <2> DEFINE q == [req[r] EXCEPT !.pc = "env", !.secs = S]
  <2>4. S \in SUBSET Secrets
    BY DEF StoreOK
  <2>5. q \in Request /\ q.pc = "env" /\ q.rec = req[r].rec
    BY <1>2, <1>pc, <2>4 DEF Request
  <2>6. Move(r, q)
    BY <2>3
  <2> HIDE DEF q
  <2>7. req'[r] = q
    BY <2>5, <2>6, SetReq DEF Move, ReqOK
  <2>8. r \in clean => CleanProgress(r)'
    BY <1>1, <1>7, <2>1, <2>5, <2>7 DEF CleanProgress, SyncSecrets, dbVars, diskVars,
       PullPCs, RollPCs, DeletePCs
  <2>9. OrderProgress(r)'
    BY <2>5, <2>7 DEF OrderProgress, PullPCs, RollPCs
  <2>10. Ready(q) /\ q # Idle
    BY <2>1, <2>5, IdleFacts DEF Ready
  <2>11. QED
    BY <2>1, <2>2, <2>5, <2>6, <2>8, <2>9, <2>10, MoveStep
<1>8. CASE SyncEnv(r)
  <2>1. req[r].pc = "env" /\ req[r] # Idle /\ req[r].rec \in Record /\ req[r].secs \in SUBSET Secrets
    BY <1>2, <1>3, <1>4, <1>8 DEF SyncEnv, WithRecord, Request
  <2>2. StoreOK' /\ NoOrphans'
    <3>1. [vars |-> req[r].rec.env, secrets |-> req[r].secs] \in EnvFile
      BY <2>1, RecordFacts, EnvFileFacts
    <3>2. dEnv' \in EnvFile \union {NoFile, Torn}
      BY <1>8, <3>1 DEF SyncEnv, StoreOK
    <3>3. QED
      BY <1>8, <3>2 DEF SyncEnv, StoreOK, NoOrphans, dbVars
  <2>3. ASSUME dEnv' = [vars |-> req[r].rec.env, secrets |-> req[r].secs], Goto(r, "list")
        PROVE  ReqOK' /\ Loaded' /\ Rest'
    <3>1. "list" \in PCs
      BY DEF PCs, SavePCs
    <3>2. req'[r].pc = "list" /\ req'[r].rec = req[r].rec
      BY <2>3, <3>1, GotoFacts
    <3>3. dEnv' \in EnvFile /\ dEnv'.vars = req[r].rec.env
      BY <2>1, <2>3, RecordFacts, EnvFileFacts
    <3>4. r \in clean => CleanProgress(r)'
      BY <1>1, <1>8, <2>1, <3>2, <3>3 DEF CleanProgress, SyncEnv, dbVars,
         PullPCs, RollPCs, DeletePCs
    <3>5. OrderProgress(r)'
      BY <3>2 DEF OrderProgress, PullPCs, RollPCs
    <3>6. QED
      BY <2>1, <2>3, <3>1, <3>4, <3>5, GotoStep
  <2>4. QED
    BY <1>8, <2>2, <2>3, FailAndFinishStep DEF SyncEnv
<1>9. CASE ListProjectFiles(r)
  <2>1. req[r].pc = "list" /\ req[r] # Idle /\ req[r].rec \in Record
    BY <1>3, <1>4, <1>9 DEF ListProjectFiles, WithRecord
  <2>2. StoreOK' /\ NoOrphans'
    BY <1>9 DEF ListProjectFiles, StoreOK, NoOrphans, dbVars, diskVars
  <2>3. ASSUME Move(r, [req[r] EXCEPT !.pc = "files", !.got = files])
        PROVE  ReqOK' /\ Loaded' /\ Rest'
    <3> DEFINE q == [req[r] EXCEPT !.pc = "files", !.got = files]
    <3>1. q \in Request /\ q.pc = "files" /\ q.rec = req[r].rec /\ q.got = files
      BY <1>2, <1>pc DEF Request, StoreOK
    <3>2. Move(r, q)
      BY <2>3
    <3> HIDE DEF q
    <3>3. req'[r] = q
      BY <3>1, <3>2, SetReq DEF Move, ReqOK
    <3>4. r \in clean => CleanProgress(r)'
      BY <1>1, <1>9, <2>1, <3>1, <3>3 DEF CleanProgress, ListProjectFiles, dbVars, diskVars,
         PullPCs, RollPCs, DeletePCs
    <3>5. OrderProgress(r)'
      BY <3>1, <3>3 DEF OrderProgress, PullPCs, RollPCs
    <3>6. Ready(q) /\ q # Idle
      BY <2>1, <3>1, IdleFacts DEF Ready
    <3>7. QED
      BY <2>1, <3>1, <3>2, <3>4, <3>5, <3>6, MoveStep
  <2>4. QED
    BY <1>9, <2>2, <2>3, FailAndFinishStep DEF ListProjectFiles
<1>10. CASE SyncFiles(r)
  <2>1. req[r].pc = "files" /\ req[r] # Idle /\ req[r].got \in Rows
    BY <1>2, <1>3, <1>10 DEF SyncFiles, Request
  <2>2. dFiles' \in [FileNames -> Contents \union {NoFile, Torn}]
    BY <1>10, <2>1 DEF SyncFiles, StoreOK, Rows
  <2>3. StoreOK' /\ NoOrphans'
    BY <1>10, <2>2 DEF SyncFiles, StoreOK, NoOrphans, dbVars
  <2>4. ASSUME dFiles' = [f \in FileNames |->
                             IF req[r].got[f] = NoFile THEN dFiles[f] ELSE req[r].got[f]],
               FinishSave(r)
        PROVE  ReqOK' /\ Loaded' /\ Rest'
    <3>1. r \in clean => Agree'
      BY <1>1, <1>10, <2>1, <2>4 DEF CleanProgress, SyncFiles, Agree, Saved, Gone, dbVars
    <3>2. QED
      BY <2>1, <2>4, <3>1, FinishSaveStep
  <2>5. QED
    BY <1>10, <2>3, <2>4, FailAndFinishStep DEF SyncFiles
<1>11. QED
  BY <1>5, <1>6, <1>7, <1>8, <1>9, <1>10 DEF SyncStep

\* The steps of deleteProject after the row is gone.
LEMMA DeleteStepKeeps ==
  ASSUME IInv, NEW r \in Reqs, Destroy(r) \/ DeleteProjectFiles(r)
  PROVE  IInv'
<1> USE IInvParts
<1>1. r \in clean => CleanProgress(r)
  BY DEF Rest, Progress
<1>2. req[r].pc # "idle" => req[r] # Idle
  BY IdleFacts
<1>3. CASE Destroy(r)
  <2>1. req[r].pc = "destroy" /\ req[r] # Idle
    BY <1>2, <1>3 DEF Destroy
  <2>2. StoreOK' /\ NoOrphans'
    BY <1>3 DEF Destroy, ComposeDown, ComposeDownFails, StoreOK, NoOrphans, dbVars, diskVars
  <2>3. "remove" \in PCs /\ "remove" # "idle" /\ "remove" \notin WithRecord
    BY DEF PCs, DeletePCs, WithRecord, PullPCs, RollPCs
  <2>4. ASSUME running' = Down, Goto(r, "remove")
        PROVE  ReqOK' /\ Loaded' /\ Rest'
    <3>1. req'[r].pc = "remove"
      BY <2>3, <2>4, GotoFacts
    <3>2. r \in clean => CleanProgress(r)'
      BY <1>1, <1>3, <2>1, <2>4, <3>1 DEF CleanProgress, Destroy, dbVars, PullPCs, RollPCs, DeletePCs
    <3>3. OrderProgress(r)'
      BY <3>1 DEF OrderProgress, PullPCs, RollPCs
    <3>4. QED
      BY <2>1, <2>3, <2>4, <3>2, <3>3, GotoStep
  <2>5. ASSUME FailAndGoto(r, "remove")
        PROVE  ReqOK' /\ Loaded' /\ Rest'
    <3>1. [req[r] EXCEPT !.pc = "remove"].pc = "remove"
      BY <2>3, AtFacts DEF ReqOK
    <3>2. Ready([req[r] EXCEPT !.pc = "remove"])
      BY <2>3, <3>1 DEF Ready
    <3>3. QED
      BY <2>3, <2>5, <3>2, FailAndGotoStep
  <2>6. QED
    BY <1>3, <2>2, <2>4, <2>5 DEF Destroy, ComposeDown, ComposeDownFails
<1>4. CASE DeleteProjectFiles(r)
  <2>1. req[r].pc = "remove" /\ req[r] # Idle
    BY <1>2, <1>4 DEF DeleteProjectFiles
  <2>2. NoFiles \in [FileNames -> Contents \union {NoFile, Torn}]
    BY DEF NoFiles
  <2>3. StoreOK' /\ NoOrphans'
    BY <1>4, <2>2 DEF DeleteProjectFiles, StoreOK, NoOrphans, dbVars
  <2>4. ASSUME dir' = FALSE, dCompose' = NoFile, FinishSave(r)
        PROVE  ReqOK' /\ Loaded' /\ Rest'
    <3>1. r \in clean => Agree'
      BY <1>1, <1>4, <2>1, <2>4 DEF CleanProgress, DeletePCs, DeleteProjectFiles, Agree, Gone, dbVars
    <3>2. QED
      BY <2>1, <2>4, <3>1, FinishSaveStep
  <2>5. QED
    BY <1>4, <2>3, <2>4, FailAndFinishStep DEF DeleteProjectFiles
<1>5. QED
  BY <1>3, <1>4

\* The UPDATE keeps a missing row missing.
LEMMA UpdatedRowFacts ==
  ASSUME StoreOK, NEW c \in Composes, NEW e \in Envs
  PROVE  /\ UpdatedRow(c, e) \in Record \union {NoRecord}
         /\ (UpdatedRow(c, e) = NoRecord) <=> (db = NoRecord)
         /\ db # NoRecord => /\ UpdatedRow(c, e).compose = c
                             /\ UpdatedRow(c, e).env = e
<1>1. CASE db = NoRecord
  BY <1>1 DEF UpdatedRow
<1>2. CASE db \in Record
  <2>1. UpdatedRow(c, e) = [db EXCEPT !.compose = c, !.env = e]
    BY <1>2, RecordNullsAssumption DEF UpdatedRow
  <2>2. QED
    BY <1>2, <2>1, RecordNullsAssumption DEF Record
<1>3. QED
  BY <1>1, <1>2 DEF StoreOK

\* An update or a rollback on a project in order: what a step that leaves row,
\* .env and extra files alone keeps.
LEMMA SavedRestKept ==
  ASSUME SavedRest, UNCHANGED <<db, files, dir, dEnv, dFiles>>
  PROVE  SavedRest'
BY DEF SavedRest

\* The steps of PullNewImagesStream and performRollback.
LEMMA PullStepKeeps ==
  ASSUME IInv, NEW r \in Reqs, PullStep(r)
  PROVE  IInv'
<1> USE IInvParts, RecordNullsAssumption, FileNullsAssumption
<1>1. r \in clean => CleanProgress(r) /\ (~dirty => OrderProgress(r))
  BY DEF Rest, Progress
<1>2. req[r] \in Request
  BY DEF ReqOK
<1>3. req[r].pc # "idle" => req[r] # Idle
  BY IdleFacts
<1>4. req[r].pc \in PullPCs \union RollPCs =>
        /\ req[r].rec \in Record /\ req[r].rec.compose \in Composes
        /\ req[r].rec.env \in Envs
  BY <1>2, RecordFacts DEF Loaded, Request, WithRecord
<1>5. /\ PullPCs \union RollPCs \subseteq PCs
      /\ "idle" \notin PullPCs \union RollPCs
      /\ PullPCs \union RollPCs \subseteq WithRecord
  BY DEF PCs, WithRecord, PullPCs, RollPCs
<1>6. CASE CheckVersions(r)
  <2>1. req[r].pc = "check" /\ req[r] # Idle
    BY <1>3, <1>6 DEF CheckVersions
  <2>2. req[r].rec \in Record /\ req[r].rec.compose \in Composes
    BY <1>4, <2>1 DEF PullPCs
  <2>3. StoreOK' /\ NoOrphans'
    BY <1>6 DEF CheckVersions, StoreOK, NoOrphans, dbVars, diskVars
  <2>4. PICK new \in {req[r].rec.compose, Newer[req[r].rec.compose]}, snapshot \in BOOLEAN :
          Move(r, [req[r] EXCEPT
                     !.pc = IF new = req[r].rec.compose THEN "pull" ELSE "writeDisk",
                     !.new = new,
                     !.rollback = req[r].rollback /\ snapshot])
    BY <1>6 DEF CheckVersions
  <2> DEFINE p == IF new = req[r].rec.compose THEN "pull" ELSE "writeDisk"
             q == [req[r] EXCEPT !.pc = p, !.new = new,
                                 !.rollback = req[r].rollback /\ snapshot]
  <2>5. new \in Composes
    BY <2>2, NewerAssumption
  <2>6. p \in {"pull", "writeDisk"} /\ p \in PCs /\ req[r].rollback \in BOOLEAN
    BY <1>2 DEF PCs, PullPCs, Request
  <2>7. Move(r, q)
    BY <2>4
  <2> HIDE DEF p
  <2>8. q \in Request /\ q.pc = p /\ q.rec = req[r].rec /\ q.new = new
    BY <1>2, <2>5, <2>6 DEF Request
  <2> HIDE DEF q
  <2>9. req'[r] = q
    BY <2>7, <2>8, SetReq DEF Move, ReqOK
  <2>10. r \in clean => CleanProgress(r)'
    BY <1>1, <1>6, <2>1, <2>6, <2>8, <2>9 DEF CleanProgress, CheckVersions, dbVars, diskVars,
       PullPCs, RollPCs, DeletePCs
  <2>11. r \in clean /\ ~dirty => OrderProgress(r)'
    BY <1>1, <1>6, <2>1, <2>6, <2>8, <2>9, SavedRestKept DEF OrderProgress, CheckVersions,
       dbVars, diskVars, PullPCs, RollPCs
  <2>12. Ready(q) /\ q # Idle
    BY <2>2, <2>5, <2>6, <2>8, IdleFacts DEF Ready
  <2>13. QED
    BY <2>1, <2>3, <2>7, <2>8, <2>10, <2>11, <2>12, MoveStep
<1>7. CASE WriteUpdatedCompose(r)
  <2>1. req[r].pc = "writeDisk" /\ req[r] # Idle
    BY <1>3, <1>7 DEF WriteUpdatedCompose
  <2>2. req[r].rec \in Record /\ req[r].new \in Composes
    BY <1>2, <1>4, <2>1 DEF PullPCs, Loaded, Request
  <2>3. StoreOK' /\ NoOrphans'
    BY <1>7, <2>2 DEF WriteUpdatedCompose, WriteCompose, WriteComposeFails, StoreOK,
       NoOrphans, dbVars
  <2>4. ASSUME WriteCompose(req[r].new), Goto(r, "writeRow")
        PROVE  ReqOK' /\ Loaded' /\ Rest'
    <3>1. "writeRow" \in PCs
      BY DEF PCs, PullPCs
    <3>2. /\ req'[r].pc = "writeRow" /\ req'[r].rec = req[r].rec
          /\ req'[r].new = req[r].new
      BY <2>4, <3>1, GotoFacts
    <3>3. r \in clean => CleanProgress(r)'
      BY <1>1, <1>7, <2>1, <3>2 DEF CleanProgress, WriteUpdatedCompose, dbVars,
         PullPCs, RollPCs, DeletePCs
    <3>4. r \in clean /\ ~dirty => OrderProgress(r)'
      BY <1>1, <1>7, <2>1, <2>4, <3>2, SavedRestKept DEF OrderProgress, WriteUpdatedCompose,
         WriteCompose, dbVars, PullPCs, RollPCs
    <3>5. QED
      BY <2>1, <2>2, <2>4, <3>1, <3>3, <3>4, GotoStep
  <2>5. QED
    BY <1>7, <2>3, <2>4, FailAndFinishStep DEF WriteUpdatedCompose
<1>8. CASE UpdateRecord(r)
  <2>1. req[r].pc = "writeRow" /\ req[r] # Idle
    BY <1>3, <1>8 DEF UpdateRecord
  <2>2. req[r].rec \in Record /\ req[r].new \in Composes /\ req[r].rec.env \in Envs
    BY <1>2, <1>4, <2>1 DEF PullPCs, Loaded, Request
  <2>3. /\ db' \in Record \union {NoRecord}
        /\ (db' = NoRecord) <=> (db = NoRecord)
    BY <1>8, <2>2, UpdatedRowFacts DEF UpdateRecord, StoreOK
  <2>4. StoreOK' /\ NoOrphans'
    BY <1>8, <2>3 DEF UpdateRecord, StoreOK, NoOrphans, diskVars
  <2>5. "pull" \in PCs
    BY DEF PCs, PullPCs
  <2>6. ASSUME db' = UpdatedRow(req[r].new, req[r].rec.env), Goto(r, "pull")
        PROVE  ReqOK' /\ Loaded' /\ Rest'
    <3>1. req'[r].pc = "pull" /\ req'[r].rec = req[r].rec
      BY <2>5, <2>6, GotoFacts
    <3>2. db # NoRecord => db'.compose = req[r].new /\ db'.env = req[r].rec.env
      BY <2>2, <2>6, UpdatedRowFacts
    <3>3. r \in clean => CleanProgress(r)'
      BY <1>1, <2>1, <2>3, <3>1, <3>2 DEF CleanProgress, PullPCs, RollPCs, DeletePCs
    <3>4. r \in clean /\ ~dirty => SavedRest'
      BY <1>1, <1>8, <2>1, <3>2 DEF OrderProgress, CleanProgress, SavedRest, UpdateRecord,
         diskVars, PullPCs
    <3>5. r \in clean /\ ~dirty => OrderProgress(r)'
      BY <1>1, <1>8, <2>1, <3>1, <3>2, <3>4 DEF OrderProgress, CleanProgress, UpdateRecord,
         diskVars, PullPCs, RollPCs
    <3>6. QED
      BY <2>1, <2>2, <2>5, <2>6, <3>3, <3>5, GotoStep
  <2>7. ASSUME FailAndGoto(r, "pull")
        PROVE  ReqOK' /\ Loaded' /\ Rest'
    <3>1. Ready([req[r] EXCEPT !.pc = "pull"])
      BY <1>2, <2>2, <2>5, AtFacts DEF Ready
    <3>2. QED
      BY <2>5, <2>7, <3>1, FailAndGotoStep
  <2>8. QED
    BY <1>8, <2>4, <2>6, <2>7 DEF UpdateRecord
<1>9. CASE Pull(r)
  <2>1. req[r].pc = "pull" /\ req[r] # Idle
    BY <1>3, <1>9 DEF Pull
  <2>2. StoreOK' /\ NoOrphans'
    BY <1>9 DEF Pull, StoreOK, NoOrphans, dbVars, diskVars
  <2>3. ASSUME Goto(r, "up")
        PROVE  ReqOK' /\ Loaded' /\ Rest'
    <3>1. "up" \in PCs
      BY DEF PCs, PullPCs
    <3>2. req'[r].pc = "up" /\ req'[r].rec = req[r].rec
      BY <2>3, <3>1, GotoFacts
    <3>3. r \in clean => CleanProgress(r)'
      BY <1>1, <1>9, <2>1, <3>2 DEF CleanProgress, Pull, dbVars, PullPCs, RollPCs, DeletePCs
    <3>4. r \in clean /\ ~dirty => OrderProgress(r)'
      BY <1>1, <1>9, <2>1, <3>2, SavedRestKept DEF OrderProgress, Pull, dbVars, diskVars,
         PullPCs, RollPCs
    <3>5. QED
      BY <1>4, <2>1, <2>3, <3>1, <3>3, <3>4, GotoStep DEF PullPCs
  <2>4. ASSUME Finish(r)
        PROVE  ReqOK' /\ Loaded' /\ Rest'
    <3>1. r \in clean /\ ~dirty => Agree'
      BY <1>1, <1>9, <2>1 DEF OrderProgress, CleanProgress, SavedRest, Pull, Agree, Saved,
         dbVars, diskVars, PullPCs
    <3>2. QED
      BY <2>1, <2>4, <3>1, FinishStep
  <2>5. QED
    BY <1>9, <2>2, <2>3, <2>4 DEF Pull
<1>10. ASSUME req[r].pc \in {"up", "health"}, RollBackOrFinish(r),
              UNCHANGED <<dbVars, diskVars>>
       PROVE  ReqOK' /\ Loaded' /\ Rest'
  <2>1. req[r] # Idle
    BY <1>3, <1>10
  <2>2. ASSUME Goto(r, "rollDisk")
        PROVE  ReqOK' /\ Loaded' /\ Rest'
    <3>1. "rollDisk" \in PCs
      BY DEF PCs, RollPCs
    <3>2. req'[r].pc = "rollDisk" /\ req'[r].rec = req[r].rec
      BY <2>2, <3>1, GotoFacts
    <3>3. r \in clean => CleanProgress(r)'
      BY <1>1, <1>10, <3>2 DEF CleanProgress, dbVars, PullPCs, RollPCs, DeletePCs
    <3>4. r \in clean /\ ~dirty => OrderProgress(r)'
      BY <1>1, <1>10, <3>2, SavedRestKept DEF OrderProgress, dbVars, diskVars, PullPCs, RollPCs
    <3>5. QED
      BY <1>4, <1>10, <2>1, <2>2, <3>1, <3>3, <3>4, GotoStep DEF PullPCs
  <2>3. ASSUME Finish(r)
        PROVE  ReqOK' /\ Loaded' /\ Rest'
    <3>1. r \in clean /\ ~dirty => Agree'
      BY <1>1, <1>10 DEF OrderProgress, CleanProgress, SavedRest, Agree, Saved,
         dbVars, diskVars, PullPCs
    <3>2. QED
      BY <2>1, <2>3, <3>1, FinishStep
  <2>4. QED
    BY <1>10, <2>2, <2>3 DEF RollBackOrFinish
<1>11. CASE Redeploy(r)
  <2>1. req[r].pc = "up" /\ req[r] # Idle
    BY <1>3, <1>11 DEF Redeploy
  <2>2. StoreOK' /\ NoOrphans'
    BY <1>11, UpFacts DEF Redeploy, ComposeUp, ComposeUpFails, StoreOK, NoOrphans, dbVars, diskVars
  <2>3. ASSUME Goto(r, "health")
        PROVE  ReqOK' /\ Loaded' /\ Rest'
    <3>1. "health" \in PCs
      BY DEF PCs, PullPCs
    <3>2. req'[r].pc = "health" /\ req'[r].rec = req[r].rec
      BY <2>3, <3>1, GotoFacts
    <3>3. r \in clean => CleanProgress(r)'
      BY <1>1, <1>11, <2>1, <3>2 DEF CleanProgress, Redeploy, dbVars, PullPCs, RollPCs, DeletePCs
    <3>4. r \in clean /\ ~dirty => OrderProgress(r)'
      BY <1>1, <1>11, <2>1, <3>2, SavedRestKept DEF OrderProgress, Redeploy, dbVars, diskVars,
         PullPCs, RollPCs
    <3>5. QED
      BY <1>4, <2>1, <2>3, <3>1, <3>3, <3>4, GotoStep DEF PullPCs
  <2>4. QED
    BY <1>10, <1>11, <2>1, <2>2, <2>3 DEF Redeploy
<1>12. CASE WaitHealthy(r)
  <2>1. req[r].pc = "health" /\ req[r] # Idle
    BY <1>3, <1>12 DEF WaitHealthy
  <2>2. StoreOK' /\ NoOrphans'
    BY <1>12 DEF WaitHealthy, StoreOK, NoOrphans, dbVars, diskVars
  <2>3. ASSUME Finish(r)
        PROVE  ReqOK' /\ Loaded' /\ Rest'
    <3>1. r \in clean /\ ~dirty => Agree'
      BY <1>1, <1>12, <2>1 DEF OrderProgress, CleanProgress, SavedRest, WaitHealthy, Agree, Saved,
         dbVars, diskVars, PullPCs
    <3>2. QED
      BY <2>1, <2>3, <3>1, FinishStep
  <2>4. QED
    BY <1>10, <1>12, <2>1, <2>2, <2>3 DEF WaitHealthy
<1>13. CASE RollbackCompose(r)
  <2>1. req[r].pc = "rollDisk" /\ req[r] # Idle
    BY <1>3, <1>13 DEF RollbackCompose
  <2>2. req[r].rec \in Record /\ req[r].rec.compose \in Composes
    BY <1>4, <2>1 DEF RollPCs
  <2>3. StoreOK' /\ NoOrphans'
    BY <1>13, <2>2 DEF RollbackCompose, WriteCompose, WriteComposeFails, StoreOK, NoOrphans, dbVars
  <2>4. ASSUME WriteCompose(req[r].rec.compose), Goto(r, "rollUp")
        PROVE  ReqOK' /\ Loaded' /\ Rest'
    <3>1. "rollUp" \in PCs
      BY DEF PCs, RollPCs
    <3>2. req'[r].pc = "rollUp" /\ req'[r].rec = req[r].rec
      BY <2>4, <3>1, GotoFacts
    <3>3. r \in clean => CleanProgress(r)'
      BY <1>1, <1>13, <2>1, <3>2 DEF CleanProgress, RollbackCompose, dbVars,
         PullPCs, RollPCs, DeletePCs
    <3>4. r \in clean /\ ~dirty => OrderProgress(r)'
      BY <1>1, <1>13, <2>1, <2>4, <3>2, SavedRestKept DEF OrderProgress, RollbackCompose,
         WriteCompose, dbVars, PullPCs, RollPCs
    <3>5. QED
      BY <2>1, <2>2, <2>4, <3>1, <3>3, <3>4, GotoStep
  <2>5. QED
    BY <1>13, <2>3, <2>4, FailAndFinishStep DEF RollbackCompose
<1>14. CASE RollbackUp(r)
  <2>1. req[r].pc = "rollUp" /\ req[r] # Idle
    BY <1>3, <1>14 DEF RollbackUp
  <2>2. StoreOK' /\ NoOrphans'
    BY <1>14, UpFacts DEF RollbackUp, ComposeUp, ComposeUpFails, StoreOK, NoOrphans, dbVars, diskVars
  <2>3. ASSUME ComposeUp, Goto(r, "rollGet")
        PROVE  ReqOK' /\ Loaded' /\ Rest'
    <3>1. "rollGet" \in PCs
      BY DEF PCs, RollPCs
    <3>2. req'[r].pc = "rollGet" /\ req'[r].rec = req[r].rec
      BY <2>3, <3>1, GotoFacts
    <3>3. running' # Down /\ running'.compose = dCompose
      BY <2>3, UpFacts DEF ComposeUp
    <3>4. r \in clean => CleanProgress(r)'
      BY <1>1, <1>14, <2>1, <3>2 DEF CleanProgress, RollbackUp, dbVars, PullPCs, RollPCs, DeletePCs
    <3>5. r \in clean /\ ~dirty => OrderProgress(r)'
      BY <1>1, <1>14, <2>1, <3>2, <3>3, SavedRestKept DEF OrderProgress, RollbackUp, dbVars,
         diskVars, PullPCs, RollPCs
    <3>6. QED
      BY <1>4, <2>1, <2>3, <3>1, <3>4, <3>5, GotoStep DEF RollPCs
  <2>4. QED
    BY <1>14, <2>2, <2>3, FailAndFinishStep DEF RollbackUp
<1>15. CASE RollbackGet(r)
  <2>1. req[r].pc = "rollGet" /\ req[r] # Idle
    BY <1>3, <1>15 DEF RollbackGet
  <2>2. req[r].rec \in Record
    BY <1>4, <2>1 DEF RollPCs
  <2>3. StoreOK' /\ NoOrphans'
    BY <1>15 DEF RollbackGet, StoreOK, NoOrphans, dbVars, diskVars
  <2>4. ASSUME db # NoRecord, Move(r, [req[r] EXCEPT !.pc = "rollRow", !.rec.env = db.env])
        PROVE  ReqOK' /\ Loaded' /\ Rest'
    <3> DEFINE q == [req[r] EXCEPT !.pc = "rollRow", !.rec.env = db.env]
    <3>1. "rollRow" \in PCs /\ db.env \in Envs
      BY <2>4, RecordFacts DEF PCs, RollPCs, StoreOK
    <3>2. /\ q \in Request /\ q.pc = "rollRow" /\ q.rec \in Record
          /\ q.rec.compose = req[r].rec.compose /\ q.rec.env = db.env
      BY <1>2, <2>2, <3>1 DEF Request, Record
    <3>3. Move(r, q)
      BY <2>4
    <3> HIDE DEF q
    <3>4. req'[r] = q
      BY <3>2, <3>3, SetReq DEF Move, ReqOK
    <3>5. r \in clean => CleanProgress(r)'
      BY <1>1, <1>15, <2>1, <2>4, <3>2, <3>4 DEF CleanProgress, RollbackGet, dbVars, PullPCs, RollPCs, DeletePCs
    <3>6. r \in clean /\ ~dirty => OrderProgress(r)'
      BY <1>1, <1>15, <2>1, <3>2, <3>4, SavedRestKept DEF OrderProgress, RollbackGet, dbVars,
         diskVars, PullPCs, RollPCs
    <3>7. Ready(q) /\ q # Idle
      BY <3>2, IdleFacts DEF Ready
    <3>8. QED
      BY <2>1, <3>2, <3>3, <3>5, <3>6, <3>7, MoveStep
  <2>5. ASSUME db = NoRecord, Finish(r)
        PROVE  ReqOK' /\ Loaded' /\ Rest'
    <3>1. r \notin clean
      BY <1>1, <2>1, <2>5 DEF CleanProgress, RollPCs
    <3>2. QED
      BY <2>1, <2>5, <3>1, FinishStep
  <2>6. QED
    BY <1>15, <2>3, <2>4, <2>5, FailAndFinishStep DEF RollbackGet
<1>16. CASE RollbackRecord(r)
  <2>1. req[r].pc = "rollRow" /\ req[r] # Idle
    BY <1>3, <1>16 DEF RollbackRecord
  <2>2. req[r].rec.compose \in Composes /\ req[r].rec.env \in Envs
    BY <1>4, <2>1 DEF RollPCs
  <2>3. /\ db' \in Record \union {NoRecord}
        /\ (db' = NoRecord) <=> (db = NoRecord)
    BY <1>16, <2>2, UpdatedRowFacts DEF RollbackRecord, StoreOK
  <2>4. StoreOK' /\ NoOrphans'
    BY <1>16, <2>3 DEF RollbackRecord, StoreOK, NoOrphans, diskVars
  <2>5. ASSUME db' = UpdatedRow(req[r].rec.compose, req[r].rec.env), Finish(r)
        PROVE  ReqOK' /\ Loaded' /\ Rest'
    <3>1. db # NoRecord => db'.compose = req[r].rec.compose /\ db'.env = req[r].rec.env
      BY <2>2, <2>5, UpdatedRowFacts
    <3>2. r \in clean /\ ~dirty => Agree'
      BY <1>1, <1>16, <2>1, <2>3, <3>1 DEF OrderProgress, CleanProgress, SavedRest, RollbackRecord,
         Agree, Saved, diskVars, RollPCs
    <3>3. QED
      BY <2>1, <2>5, <3>2, FinishStep
  <2>6. QED
    BY <1>16, <2>4, <2>5, FailAndFinishStep DEF RollbackRecord
<1>17. QED
  BY <1>6, <1>7, <1>8, <1>9, <1>11, <1>12, <1>13, <1>14, <1>15, <1>16 DEF PullStep

-----------------------------------------------------------------------------
\* The states the server starts in.
LEMMA InitIInv == Init => IInv
<1> SUFFICES ASSUME Init PROVE IInv
  OBVIOUS
<1>1. NoFiles \in [FileNames -> Contents \union {NoFile, Torn}] /\ NoFiles \in Rows
  BY DEF NoFiles, Rows
<1>2. \A c \in Composes : [compose |-> c, env |-> NoFile] \in Containers
  BY DEF Containers
<1>3. TypeOK
  BY <1>1, <1>2, IdleFacts DEF Init, TypeOK
<1>4. Loaded
  BY IdleFacts DEF Init, Loaded, WithRecord, PullPCs, RollPCs
<1>5. NoOrphans /\ CleanAlone /\ Progress
  BY DEF Init, NoOrphans, CleanAlone, Progress
<1>6. CopiesAgree
  BY DEF Init, CopiesAgree, Agree, Gone
<1>7. QED
  BY <1>3, <1>4, <1>5, <1>6 DEF IInv

\* Every step keeps the invariant.
LEMMA NextIInv == IInv /\ [Next]_vars => IInv'
<1> SUFFICES ASSUME IInv, [Next]_vars PROVE IInv'
  OBVIOUS
<1>1. CASE UNCHANGED vars
  BY <1>1 DEF vars, IInv, TypeOK, Loaded, NoOrphans, CleanAlone, Progress, CleanProgress,
     OrderProgress, SavedRest, CopiesAgree, Agree, Gone, Saved, Quiet
<1>2. CASE Crash
  <2>1. StoreOK' /\ NoOrphans'
    BY <1>2, IInvParts DEF Crash, StoreOK, NoOrphans, dbVars, diskVars
  <2>2. ReqOK' /\ Loaded'
    BY <1>2, IInvParts, IdleFacts DEF Crash, ReqOK, Loaded, WithRecord, PullPCs, RollPCs, Quiet
  <2>3. CleanAlone' /\ Progress'
    BY <1>2 DEF Crash, CleanAlone, Progress
  <2>4. CopiesAgree'
    BY <1>2, IInvParts DEF Crash, CopiesAgree, Agree, Gone, Saved, Rest, dbVars, diskVars
  <2>5. QED
    BY <2>1, <2>2, <2>3, <2>4, IInvParts DEF Rest
<1>3. ASSUME NEW r \in Reqs, Arrival(r) \/ Step(r)
      PROVE  IInv'
  BY <1>3, ArrivalStep, SyncStepKeeps, DeleteStepKeeps, PullStepKeeps DEF Step
<1>4. QED
  BY <1>1, <1>2, <1>3 DEF Next

\* Every reachable state satisfies the inductive invariant.
THEOREM Invariance == Spec => []IInv
BY InitIInv, NextIInv, PTL DEF Spec

\* For every number of requests and every kind of failure the variables keep
\* their types.
THEOREM TypeCorrect == Spec => []TypeOK
<1>1. IInv => TypeOK
  BY DEF IInv
<1>2. QED
  BY <1>1, Invariance, PTL

\* Row, directory and containers disagree only after a failure, a crash or an
\* overlap that no clean save or deletion has followed: SyncProject,
\* deleteProject and PullNewImagesStream, however many requests there are.
THEOREM CopiesStayTogether == Spec => []CopiesAgree
<1>1. IInv => CopiesAgree
  BY DEF IInv
<1>2. QED
  BY <1>1, Invariance, PTL

\* With the cascades of the schema no row of project_files or project_secrets
\* outlives its project.
THEOREM CascadesLeaveNothing == Spec => []NoOrphans
<1>1. IInv => NoOrphans
  BY DEF IInv
<1>2. QED
  BY <1>1, Invariance, PTL

\* All of the above at once, as the runs check it: types, copies and rows of a
\* project under every handler, failure, crash and overlap.
THEOREM StoreStaysSound == Spec => []StoreSound
BY TypeCorrect, CopiesStayTogether, CascadesLeaveNothing, PTL DEF StoreSound

\* A rollback that runs to its end undisturbed leaves row, compose file and
\* containers at the content the update started from.
THEOREM RollbackIsComplete == Spec => RollbackRestores
<1>1. ASSUME IInv, NEW r \in Reqs, RollbackRecord(r), ~dirty'
      PROVE  /\ db'.compose = req[r].rec.compose
             /\ dCompose = req[r].rec.compose
             /\ running # Down /\ running.compose = req[r].rec.compose
  <2>1. req[r].pc = "rollRow" /\ req[r] # Idle /\ req[r] \in Request
    BY <1>1, IInvParts, IdleFacts DEF RollbackRecord, ReqOK
  <2>2. ~dirty /\ r \in clean /\ db' = UpdatedRow(req[r].rec.compose, req[r].rec.env)
    BY <1>1, <2>1, IInvParts DEF RollbackRecord, Finish, FailAndFinish, Rest, CleanAlone
  <2>3. CleanProgress(r) /\ OrderProgress(r)
    BY <1>1, <2>2, IInvParts DEF Rest, Progress
  <2>4. req[r].rec \in Record
    BY <1>1, <2>1, IInvParts DEF Loaded, WithRecord, RollPCs, Request
  <2>5. db'.compose = req[r].rec.compose
    <3>1. db # NoRecord
      BY <2>1, <2>3 DEF CleanProgress, RollPCs
    <3>2. req[r].rec.compose \in Composes /\ req[r].rec.env \in Envs
      BY <2>4, RecordFacts
    <3>3. StoreOK
      BY <1>1, IInvParts
    <3>4. QED
      BY <2>2, <3>1, <3>2, <3>3, UpdatedRowFacts
  <2>6. QED
    BY <2>1, <2>3, <2>5 DEF OrderProgress
<1>2. IInv /\ [Next]_vars =>
        [\A r \in Reqs : RollbackRecord(r) /\ ~dirty'
           => /\ db'.compose = req[r].rec.compose
              /\ dCompose = req[r].rec.compose
              /\ running # Down /\ running.compose = req[r].rec.compose]_vars
  BY <1>1
<1>3. QED
  BY <1>2, Invariance, PTL DEF Spec, RollbackRestores

\* The steps that write the row of projects.
LEMMA RowWriters ==
  ASSUME [Next]_vars, db' # db
  PROVE  \E r \in Reqs :
           \/ \E c \in Composes, e \in Envs : CreateProject(r, c, e) \/ UpdateProject(r, c, e)
           \/ DeleteProject(r) \/ UpdateRecord(r) \/ RollbackRecord(r)
<1>1. ~Crash /\ ~UNCHANGED vars
  BY DEF Crash, vars, dbVars
<1>2. PICK r \in Reqs : Arrival(r) \/ Step(r)
  BY <1>1 DEF Next
<1>3. ~SyncStep(r) /\ ~Destroy(r) /\ ~DeleteProjectFiles(r)
  BY DEF SyncStep, GetProject, SyncCompose, SyncSecrets, SyncEnv, ListProjectFiles, SyncFiles,
     Destroy, DeleteProjectFiles, dbVars
<1>4. PullStep(r) => UpdateRecord(r) \/ RollbackRecord(r)
  BY DEF PullStep, CheckVersions, WriteUpdatedCompose, Pull, Redeploy, WaitHealthy,
     RollbackCompose, RollbackUp, RollbackGet, dbVars
<1>5. Arrival(r) => \/ \E c \in Composes, e \in Envs : CreateProject(r, c, e) \/ UpdateProject(r, c, e)
                    \/ DeleteProject(r)
  BY DEF Arrival, DeleteProjectFile, UpsertProjectFile, SetProjectSecrets, Start, Stop,
     PullNewImages, dbVars
<1>6. QED
  BY <1>2, <1>3, <1>4, <1>5 DEF Step

\* A deleted row comes back only by the creation of a project.
THEOREM DeletedRowStaysDeleted == Spec => StaysDeleted
<1>1. ASSUME IInv, [Next]_vars, db = NoRecord, db' # NoRecord
      PROVE  \E r \in Reqs : req[r] = Idle /\ req'[r].pc = "getById"
  <2>1. PICK r \in Reqs, c \in Composes, e \in Envs : CreateProject(r, c, e)
    BY <1>1, RowWriters DEF UpdateProject, DeleteProject, UpdateRecord, RollbackRecord, UpdatedRow
  <2>2. Handler("getById") \in Request /\ Handler("getById").pc = "getById"
    BY HandlerFacts DEF PCs, SavePCs
  <2>3. req[r] = Idle /\ req'[r] = Handler("getById")
    BY <1>1, <2>1, <2>2, IInvParts, SetReq DEF CreateProject, Arrive, ReqOK
  <2>4. QED
    BY <2>2, <2>3
<1>2. IInv /\ [Next]_vars =>
        [db = NoRecord /\ db' # NoRecord
           => \E r \in Reqs : req[r] = Idle /\ req'[r].pc = "getById"]_vars
  BY <1>1
<1>3. QED
  BY <1>2, Invariance, PTL DEF Spec, StaysDeleted

\* A request that runs alone and meets no failure leaves env_vars to the edits
\* of the user: the stale copy an image update writes back is then not stale.
THEOREM EnvOnlyEdited == Spec => EnvChangesByEdit
<1> DEFINE Edit == \E r \in Reqs : req[r] = Idle /\ req'[r].pc = "get"
<1>1. ASSUME IInv, [Next]_vars, db # NoRecord, db' # NoRecord, db'.env # db.env, clean # {}
      PROVE  Edit
  <2>1. StoreOK /\ ReqOK /\ CleanAlone /\ Progress
    BY <1>1, IInvParts DEF Rest
  <2>2. PICK r \in Reqs : \/ \E c \in Composes, e \in Envs : UpdateProject(r, c, e)
                          \/ UpdateRecord(r) \/ RollbackRecord(r)
    BY <1>1, RowWriters DEF CreateProject, DeleteProject
  <2>3. ASSUME NEW c \in Composes, NEW e \in Envs, UpdateProject(r, c, e)
        PROVE  Edit
    <3>1. Handler("get") \in Request /\ Handler("get").pc = "get"
      BY HandlerFacts DEF PCs, SavePCs
    <3>2. req[r] = Idle /\ req'[r] = Handler("get")
      BY <2>1, <2>3, <3>1, SetReq DEF UpdateProject, Arrive, ReqOK
    <3>3. QED
      BY <3>1, <3>2
  <2>4. ASSUME UpdateRecord(r) \/ RollbackRecord(r)
        PROVE  FALSE
    <3>1. req[r].pc \in {"writeRow", "rollRow"} /\ req[r] # Idle
      BY <2>4, IdleFacts DEF UpdateRecord, RollbackRecord
    <3>2. r \in clean
      BY <1>1, <2>1, <3>1 DEF CleanAlone, ReqOK
    <3>3. CleanProgress(r)
      BY <2>1, <3>2 DEF Progress
    <3>4. req[r].rec.env = db.env
      BY <3>1, <3>3 DEF CleanProgress, PullPCs
    <3>5. req[r] \in Request /\ req[r].rec \in Record
      BY <1>1, <2>1, <3>1, IInvParts DEF ReqOK, Loaded, WithRecord, PullPCs, RollPCs, Request
    <3>6. req[r].rec.compose \in Composes /\ req[r].rec.env \in Envs
      BY <3>5, RecordFacts
    <3>7. CASE UpdateRecord(r)
      <4>1. req[r].new \in Composes
        BY <1>1, <3>5, <3>7, IInvParts DEF UpdateRecord, Loaded, Request
      <4>2. QED
        BY <1>1, <2>1, <3>4, <3>6, <3>7, <4>1, UpdatedRowFacts DEF UpdateRecord
    <3>8. CASE RollbackRecord(r)
      BY <1>1, <2>1, <3>4, <3>6, <3>8, UpdatedRowFacts DEF RollbackRecord
    <3>9. QED
      BY <2>4, <3>7, <3>8
  <2>5. QED
    BY <2>2, <2>3, <2>4
<1> HIDE DEF Edit
<1>2. IInv /\ [Next]_vars =>
        [db # NoRecord /\ db' # NoRecord /\ db'.env # db.env => Edit \/ clean = {}]_vars
  BY <1>1
<1>3. QED
  BY <1>2, Invariance, PTL DEF Spec, EnvChangesByEdit, Edit
=============================================================================
