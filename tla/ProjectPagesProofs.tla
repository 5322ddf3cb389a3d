------------------------- MODULE ProjectPagesProofs -------------------------
(***************************************************************************)
(* What the pages of a project promise, for every value of their           *)
(* constants.  Each page has its inductive invariant; the page that is     *)
(* shown keeps its own and leaves the others alone.                        *)
(***************************************************************************)
EXTENDS ProjectPages, SequenceTheorems, WellFoundedInduction, TLAPS

\* A step is one of the page that is shown, or none of it.
LEMMA PageSteps ==
  ASSUME [Next]_vars
  PROVE  /\ page' = page
         /\ page = "project" => Project!Next \/ UNCHANGED projectVars
         /\ page = "deploy" => Deploy!Next \/ UNCHANGED deployVars
         /\ page = "new" => New!Next \/ UNCHANGED newVars
         /\ page = "secrets" => Secrets!Next \/ UNCHANGED secretVars
         /\ page = "webhooks" => Webhooks!Next \/ UNCHANGED hookVars
         /\ page = "streams" => Streams!Next \/ UNCHANGED liveVars
         /\ page = "builder" => Builder!Next \/ UNCHANGED builderVars
BY DEF Next, vars, ShowProject, ShowDeploy, ShowNew, ShowSecrets, ShowWebhooks, ShowStreams, ShowBuilder

-----------------------------------------------------------------------------
(***************************************************************************)
(* The deploys of a project.                                               *)
(***************************************************************************)
DeployTypeOK ==
  /\ deploying \in BOOLEAN /\ late \in BOOLEAN
  /\ socket \in [Deploy!Sockets -> {"none", "open", "closing", "closed"}]
  /\ job \in [Deploy!Sockets -> {"none", "running", "ended"}]
  /\ wsRef \in Nat

\* Unless a close event hid a deploy, the only deploy that still reports is the
\* latest, and the page says that it runs.
DeployOnlyLatest == ~late => \A s \in Deploy!Running : s = wsRef /\ deploying

DeployIInv == DeployTypeOK /\ Deploy!NotLeftWaiting /\ DeployOnlyLatest

\* A deploy that starts when the page shows none is the only one.
LEMMA DeployStartStep ==
  ASSUME DeployIInv, MaxSockets \in Nat, NEW a, ~deploying, Deploy!start(a)
  PROVE  DeployIInv'
<1> DEFINE s == wsRef + 1
<1>1. /\ s \in Deploy!Sockets /\ wsRef' = s /\ deploying' = TRUE /\ late' = late
      /\ socket' = [socket EXCEPT ![s] = "open"] /\ job' = [job EXCEPT ![s] = "running"]
  BY DEF Deploy!start
<1>2. s # 0 /\ s \in Nat
  BY DEF DeployIInv, DeployTypeOK
<1> HIDE DEF s
<1>3. DeployTypeOK'
  BY <1>1, <1>2 DEF DeployIInv, DeployTypeOK
<1>4. Deploy!NotLeftWaiting'
  BY <1>1, <1>2 DEF Deploy!NotLeftWaiting, DeployIInv, DeployTypeOK
<1>5. DeployOnlyLatest'
  <2>1. ~late => Deploy!Running = {}
    BY DEF DeployIInv, DeployOnlyLatest
  <2>2. Deploy!Running' \subseteq Deploy!Running \union {s}
    BY <1>1 DEF Deploy!Running, DeployIInv, DeployTypeOK
  <2>3. QED
    BY <1>1, <2>1, <2>2 DEF DeployOnlyLatest
<1>6. QED
  BY <1>3, <1>4, <1>5 DEF DeployIInv

\* The events of a socket and the end of a deploy.
LEMMA DeploySocketStep ==
  ASSUME DeployIInv, NEW s \in Deploy!Sockets,
         \/ Deploy!onmessage(s) \/ Deploy!onmessageDone(s)
         \/ Deploy!JobEnds(s) \/ Deploy!Lose(s) \/ Deploy!onclose(s)
  PROVE  DeployIInv'
<1> USE DEF DeployIInv, DeployTypeOK
<1>1. CASE Deploy!onmessage(s)
  BY <1>1 DEF Deploy!onmessage, Deploy!NotLeftWaiting, DeployOnlyLatest, Deploy!Running
<1>2. CASE Deploy!onmessageDone(s)
  <2>1. DeployTypeOK' /\ Deploy!NotLeftWaiting'
    BY <1>2 DEF Deploy!onmessageDone, Deploy!NotLeftWaiting
  <2>2. s \in Deploy!Running /\ Deploy!Running' = Deploy!Running \ {s} /\ late' = late /\ wsRef' = wsRef
    BY <1>2 DEF Deploy!onmessageDone, Deploy!Running
  <2>3. DeployOnlyLatest'
    BY <2>2 DEF DeployOnlyLatest
  <2>4. QED
    BY <2>1, <2>3
<1>3. CASE Deploy!JobEnds(s)
  <2>1. DeployTypeOK' /\ Deploy!NotLeftWaiting'
    BY <1>3 DEF Deploy!JobEnds, Deploy!NotLeftWaiting
  <2>2. Deploy!Running' = Deploy!Running /\ late' = late /\ wsRef' = wsRef /\ deploying' = deploying
    BY <1>3 DEF Deploy!JobEnds, Deploy!Running
  <2>3. QED
    BY <2>1, <2>2 DEF DeployOnlyLatest
<1>4. CASE Deploy!Lose(s)
  <2>1. DeployTypeOK' /\ Deploy!NotLeftWaiting'
    BY <1>4 DEF Deploy!Lose, Deploy!NotLeftWaiting
  <2>2. Deploy!Running' \subseteq Deploy!Running /\ late' = late /\ wsRef' = wsRef /\ deploying' = deploying
    BY <1>4 DEF Deploy!Lose, Deploy!Running
  <2>3. QED
    BY <2>1, <2>2 DEF DeployOnlyLatest
<1>5. CASE Deploy!onclose(s)
  <2>1. /\ socket[s] = "closing" /\ socket' = [socket EXCEPT ![s] = "closed"] /\ UNCHANGED <<job, wsRef>>
        /\ deploying' = FALSE /\ late' = (late \/ (deploying /\ s # wsRef))
    BY <1>5 DEF Deploy!onclose
  <2>2. late' \in BOOLEAN
    BY <2>1
  <2>3. DeployTypeOK' /\ Deploy!NotLeftWaiting'
    BY <2>1, <2>2 DEF Deploy!NotLeftWaiting
  <2>4. Deploy!Running' = Deploy!Running /\ s \notin Deploy!Running
    BY <2>1 DEF Deploy!Running
  <2>5. ~late' => ~late /\ (~deploying \/ s = wsRef)
    BY <2>1
  <2>6. DeployOnlyLatest'
    BY <2>4, <2>5 DEF DeployOnlyLatest
  <2>7. QED
    BY <2>3, <2>6
<1>6. QED
  BY <1>1, <1>2, <1>3, <1>4, <1>5

\* The dialog of the image update.
LEMMA DeployRepullStep ==
  ASSUME DeployIInv, MaxSockets \in Nat, Deploy!RepullDialog
  PROVE  DeployIInv'
<1>1. CASE Deploy!StartUpdate("repull_current") \/ Deploy!StartUpdate("pull_new")
  BY <1>1, DeployStartStep DEF Deploy!StartUpdate, Deploy!showLogs
<1>2. CASE Deploy!Dismiss \/ Deploy!CloseRepull
  BY <1>2 DEF Deploy!Dismiss, Deploy!CloseRepull, Deploy!hook, DeployIInv, DeployTypeOK,
              Deploy!NotLeftWaiting, DeployOnlyLatest, Deploy!Running
<1>3. CASE Deploy!CancelUpdate
  <2>1. /\ socket' = [socket EXCEPT ![wsRef] = IF @ = "open" THEN "closing" ELSE @]
        /\ deploying /\ deploying' = FALSE /\ UNCHANGED <<job, wsRef, late>>
    BY <1>3 DEF Deploy!CancelUpdate
  <2>2. DeployTypeOK' /\ Deploy!NotLeftWaiting'
    BY <2>1 DEF DeployIInv, DeployTypeOK, Deploy!NotLeftWaiting
  <2>3. Deploy!Running' \subseteq Deploy!Running \ {wsRef}
    BY <2>1 DEF DeployIInv, DeployTypeOK, Deploy!Running
  <2>4. QED
    BY <2>1, <2>2, <2>3 DEF DeployIInv, DeployOnlyLatest
<1>4. QED
  BY <1>1, <1>2, <1>3 DEF Deploy!RepullDialog

\* Every step of the page, its sockets and the server keeps the invariant.
LEMMA DeployNextIInv ==
  ASSUME MaxSockets \in Nat
  PROVE  DeployIInv /\ (Deploy!Next \/ UNCHANGED deployVars) => DeployIInv'
<1> SUFFICES ASSUME DeployIInv, (Deploy!Next \/ UNCHANGED deployVars) PROVE DeployIInv'
  OBVIOUS
<1>1. CASE \E s \in Deploy!Sockets :
             \/ Deploy!onmessage(s) \/ Deploy!onmessageDone(s)
             \/ Deploy!JobEnds(s) \/ Deploy!Lose(s) \/ Deploy!onclose(s)
  BY <1>1, DeploySocketStep
<1>2. CASE Deploy!RepullDialog
  BY <1>2, DeployRepullStep
<1>3. CASE Deploy!Play
  BY <1>3, DeployStartStep DEF Deploy!Play
<1>4. UNCHANGED Deploy!hook => DeployIInv'
  BY DEF Deploy!hook, DeployIInv, DeployTypeOK, Deploy!NotLeftWaiting, DeployOnlyLatest, Deploy!Running
<1>5. CASE Deploy!OpenRepull \/ Deploy!SimpleConfirm \/ Deploy!DeleteConfirmDialog
  BY <1>4, <1>5 DEF Deploy!OpenRepull, Deploy!SimpleConfirm, Deploy!DeleteConfirmDialog, Deploy!Confirm,
                    Deploy!CancelConfirm, Deploy!TypeProjectName
<1>6. CASE \E q \in {"stop", "restart", "delete"} : Deploy!AskConfirm(q) \/ Deploy!MutationEnds(q)
  BY <1>4, <1>6 DEF Deploy!AskConfirm, Deploy!MutationEnds
<1>7. CASE UNCHANGED deployVars
  BY <1>4, <1>7 DEF deployVars, Deploy!hook
<1>8. QED
  BY <1>1, <1>2, <1>3, <1>5, <1>6, <1>7 DEF Deploy!Next

\* The page starts with no deploy.
LEMMA DeployInitIInv == Deploy!Init => DeployIInv
<1> SUFFICES ASSUME Deploy!Init PROVE DeployIInv
  OBVIOUS
<1>1. DeployTypeOK /\ Deploy!NotLeftWaiting
  BY DEF Deploy!Init, DeployTypeOK, Deploy!NotLeftWaiting
<1>2. Deploy!Running = {}
  BY DEF Deploy!Init, Deploy!Running
<1>3. QED
  BY <1>1, <1>2 DEF DeployIInv, DeployOnlyLatest

\* All that still report are the latest.
LEMMA DeployOne == DeployIInv => Deploy!OneAtATime
BY DEF DeployIInv, DeployOnlyLatest, Deploy!OneAtATime

\* DeployFollowed: while the page says that a deploy runs, its socket has still
\* to end, and it listens to two deploys only after a late close event
\* (useDeployState).
THEOREM DeployIsFollowed == Spec => []DeployFollowed
<1> DEFINE Inv == page = "deploy" => DeployIInv
<1>1. Init => Inv
  BY DeployInitIInv DEF Init
<1>2. Inv /\ [Next]_vars => Inv'
  BY MaxSocketsAssumption, DeployNextIInv, PageSteps
<1>3. DeployIInv => Deploy!DeployFollowed
  BY DeployOne DEF DeployIInv, Deploy!DeployFollowed
<1>4. Inv => DeployFollowed
  BY <1>3 DEF DeployFollowed
<1>5. QED
  BY <1>1, <1>2, <1>4, PTL DEF Spec

-----------------------------------------------------------------------------
(***************************************************************************)
(* The webhooks of a project.                                              *)
(***************************************************************************)
HookTypeOK ==
  /\ hooks \in SUBSET Hook /\ hookIds \in Nat
  /\ hooksSeen \in (SUBSET Hook) \union {None} /\ hooksFetch \in (SUBSET Hook) \union {None}
  /\ hooksStale \in BOOLEAN /\ hooksOpen \in BOOLEAN /\ early \in BOOLEAN
  /\ creating \in [Webhooks!Mutations -> Webhooks!Targets \union {None}]

\* One more webhook than the bound, when both mutations were under way.
HookBusy(m) == IF creating[m] = None THEN 0 ELSE 1
HookCount == hookIds + HookBusy("project") + HookBusy("service") <= MaxHooks + 1

\* One webhook for a target.
HookOnce(S) == \A g, h \in S : g.target = h.target => g = h

\* The list on the page, or the one on its way, has every webhook there is; an
\* open section that waits for none has it on the page.
HookListInv ==
  /\ hooksFetch # None => hooks \subseteq hooksFetch /\ HookOnce(hooksFetch) /\ hooksStale
  /\ hooksSeen # None => HookOnce(hooksSeen)
  /\ hooksFetch = None /\ ~hooksStale => hooksSeen # None /\ hooks \subseteq hooksSeen
  /\ hooksOpen /\ hooksFetch = None => ~hooksStale

\* What is being created has no webhook yet.
HookNewInv ==
  \A m \in Webhooks!Mutations : creating[m] # None => \A h \in hooks : h.target # creating[m]

HookIInv ==
  /\ HookTypeOK /\ HookCount
  /\ \A m \in Webhooks!Mutations : creating[m] # None => Webhooks!MutationOf(creating[m]) = m
  /\ ~early => HookOnce(hooks) /\ HookListInv /\ HookNewInv

\* The page starts without a list.
LEMMA HookInitIInv == Webhooks!Init => HookIInv
<1> SUFFICES ASSUME Webhooks!Init PROVE HookIInv
  OBVIOUS
<1>1. HookTypeOK
  BY DEF Webhooks!Init, HookTypeOK
<1>2. \A m \in Webhooks!Mutations : creating[m] = None
  BY DEF Webhooks!Init
<1>3. HookCount
  BY <1>2, HooksAssumption DEF Webhooks!Init, Webhooks!Mutations, HookCount, HookBusy
<1>4. HookOnce(hooks) /\ HookListInv /\ HookNewInv
  BY <1>2 DEF Webhooks!Init, HookOnce, HookListInv, HookNewInv
<1>5. QED
  BY <1>1, <1>2, <1>3, <1>4 DEF HookIInv

\* The section is opened and closed, and lists come and fail.
LEMMA HookListStep ==
  ASSUME HookIInv, Webhooks!ToggleOpen \/ Webhooks!HooksArrive \/ Webhooks!HooksFail
  PROVE  HookIInv'
<1>1. UNCHANGED <<hooks, creating, hookIds>>
  BY DEF Webhooks!ToggleOpen, Webhooks!HooksArrive, Webhooks!HooksFail
<1>2. HookTypeOK'
  <2>1. CASE Webhooks!ToggleOpen
    BY <1>1, <2>1 DEF HookIInv, HookTypeOK, Webhooks!ToggleOpen
  <2>2. CASE Webhooks!HooksArrive
    BY <1>1, <2>2 DEF HookIInv, HookTypeOK, Webhooks!HooksArrive
  <2>3. CASE Webhooks!HooksFail
    <3>1. early' \in BOOLEAN
      BY <2>3 DEF HookIInv, HookTypeOK, Webhooks!HooksFail
    <3>2. hooksFetch' = None /\ UNCHANGED <<hooksSeen, hooksStale, hooksOpen>>
      BY <2>3 DEF Webhooks!HooksFail
    <3>3. QED
      BY <1>1, <3>1, <3>2 DEF HookIInv, HookTypeOK
  <2>4. QED
    BY <2>1, <2>2, <2>3
<1>3. ASSUME ~early' PROVE ~early /\ HookListInv'
  <2>1. CASE Webhooks!ToggleOpen
    BY <1>3, <2>1, HooksAssumption DEF HookIInv, HookTypeOK, HookListInv, Webhooks!ToggleOpen, HookOnce
  <2>2. CASE Webhooks!HooksArrive
    BY <1>3, <2>2 DEF HookIInv, HookTypeOK, HookListInv, Webhooks!HooksArrive, HookOnce
  <2>3. CASE Webhooks!HooksFail
    <3>1. early' = (early \/ hooksStale) /\ hooksFetch # None
      BY <2>3 DEF Webhooks!HooksFail
    <3>2. ~early /\ ~hooksStale
      BY <1>3, <3>1 DEF HookIInv, HookTypeOK
    <3>3. QED
      BY <3>1, <3>2 DEF HookIInv, HookListInv
  <2>4. QED
    BY <2>1, <2>2, <2>3
<1>4. QED
  BY <1>1, <1>2, <1>3 DEF HookIInv, HookOnce, HookNewInv, HookCount, HookBusy

\* A webhook is asked for where the page shows none.
LEMMA HookCreateStep ==
  ASSUME HookIInv, NEW t \in Webhooks!Targets, Webhooks!CreateWebhook(t)
  PROVE  HookIInv'
<1> DEFINE m == Webhooks!MutationOf(t)
<1>1. /\ hooksOpen /\ Webhooks!Found(t) = {} /\ hookIds < MaxHooks /\ creating[m] = None
      /\ creating' = [creating EXCEPT ![m] = t]
      /\ early' = (early \/ hooksSeen = None \/ hooksFetch # None)
      /\ UNCHANGED <<hooks, hooksSeen, hooksFetch, hooksStale, hooksOpen, hookIds>>
  BY DEF Webhooks!CreateWebhook
<1>2. m \in Webhooks!Mutations
  BY DEF Webhooks!MutationOf, Webhooks!Mutations
<1>3. early' \in BOOLEAN /\ (~early' => ~early /\ hooksSeen # None /\ hooksFetch = None)
  BY <1>1 DEF HookIInv, HookTypeOK
<1>4. HookTypeOK'
  BY <1>1, <1>2, <1>3 DEF HookIInv, HookTypeOK
<1>5. \A n \in Webhooks!Mutations : creating'[n] = IF n = m THEN t ELSE creating[n]
  BY <1>1, <1>2 DEF HookIInv, HookTypeOK
<1>6. \A n \in Webhooks!Mutations : creating'[n] # None => Webhooks!MutationOf(creating'[n]) = n
  BY <1>5 DEF HookIInv
<1>7. ASSUME ~early', NEW h \in hooks PROVE h.target # t
  <2>0. ~early /\ hooksSeen # None /\ hooksFetch = None /\ HookListInv /\ ~hooksStale
    BY <1>1, <1>3, <1>7 DEF HookIInv, HookListInv
  <2>1. hooksSeen # None /\ h \in hooksSeen /\ hooksSeen \in SUBSET Hook /\ HookOnce(hooksSeen)
    BY <1>7, <2>0 DEF HookIInv, HookTypeOK, HookListInv
  <2>2. h.id <= h.id
    BY <2>1, HooksAssumption DEF Hook
  <2>3. h.target = t => h \in Webhooks!FoundHook(t)
    BY <2>1, <2>2 DEF HookOnce, Webhooks!FoundHook
  <2>4. Webhooks!FoundHook(t) = {}
    BY <1>1, <2>1 DEF Webhooks!Found
  <2>5. QED
    BY <2>3, <2>4
<1>8. ~early' => HookNewInv'
  BY <1>1, <1>3, <1>5, <1>7 DEF HookIInv, HookNewInv
<1>9. ~early' => HookListInv' /\ HookOnce(hooks')
  BY <1>1, <1>3 DEF HookIInv, HookListInv, HookOnce
<1>10. HookCount'
  <2>1. "project" \in Webhooks!Mutations /\ "service" \in Webhooks!Mutations /\ m \in {"project", "service"}
    BY <1>2 DEF Webhooks!Mutations
  <2>2. \A n \in Webhooks!Mutations : HookBusy(n)' \in 0..1 /\ (n # m => HookBusy(n)' = HookBusy(n))
    BY <1>5 DEF HookBusy
  <2>3. HookBusy(m) = 0 /\ HookBusy("project") \in 0..1 /\ HookBusy("service") \in 0..1
    BY <1>1 DEF HookBusy
  <2>4. hookIds \in Nat /\ MaxHooks \in Nat /\ hookIds' = hookIds /\ hookIds < MaxHooks
    BY <1>1, HooksAssumption DEF HookIInv, HookTypeOK
  <2> HIDE DEF m
  <2>5. QED
    BY <2>1, <2>2, <2>3, <2>4 DEF HookIInv, HookCount
<1>11. QED
  BY <1>1, <1>4, <1>6, <1>8, <1>9, <1>10 DEF HookIInv, HookOnce, Webhooks!MutationOf

\* The server has another webhook, or none the more.
LEMMA HookCreatedStep ==
  ASSUME HookIInv, NEW m \in Webhooks!Mutations, Webhooks!CreateSucceeds(m) \/ Webhooks!CreateFails(m)
  PROVE  HookIInv'
<1> DEFINE new == [id |-> hookIds + 1, target |-> creating[m]]
<1>1. /\ creating[m] # None /\ creating' = [creating EXCEPT ![m] = None]
      /\ UNCHANGED <<hooksSeen, hooksOpen>>
  BY DEF Webhooks!CreateSucceeds, Webhooks!CreateFails
<1>20. creating[m] \in Webhooks!Targets /\ hookIds \in Nat
  BY <1>1 DEF HookIInv, HookTypeOK
<1>3. \A n \in Webhooks!Mutations : creating'[n] = IF n = m THEN None ELSE creating[n]
  BY <1>1 DEF HookIInv, HookTypeOK
<1>21. hookIds + 1 \in 1..(MaxHooks + 1) /\ (hookIds' \in {hookIds, hookIds + 1} => HookCount')
  <2>1. /\ "project" \in Webhooks!Mutations /\ "service" \in Webhooks!Mutations
        /\ m = "project" \/ m = "service"
    BY DEF Webhooks!Mutations
  <2>2. \A n \in Webhooks!Mutations : HookBusy(n)' = IF n = m THEN 0 ELSE HookBusy(n)
    BY <1>3 DEF HookBusy
  <2>3. HookBusy(m) = 1 /\ HookBusy("project") \in 0..1 /\ HookBusy("service") \in 0..1
    BY <1>1 DEF HookBusy
  <2>4. hookIds + HookBusy("project") + HookBusy("service") <= MaxHooks + 1
    BY DEF HookIInv, HookCount
  <2>5. hookIds + 1 <= MaxHooks + 1
    BY <1>20, <2>1, <2>3, <2>4, HooksAssumption
  <2>6. ASSUME hookIds' \in {hookIds, hookIds + 1}
        PROVE  hookIds' + HookBusy("project")' + HookBusy("service")' <= MaxHooks + 1
    BY <1>20, <2>1, <2>2, <2>3, <2>4, <2>6, HooksAssumption
  <2>7. QED
    BY <1>20, <2>5, <2>6, HooksAssumption DEF HookCount
<1>2. creating[m] \in Webhooks!Targets /\ new \in Hook /\ new.target = creating[m]
  BY <1>20, <1>21 DEF Hook
<1>4. \A n \in Webhooks!Mutations : creating'[n] # None => Webhooks!MutationOf(creating'[n]) = n
  BY <1>3 DEF HookIInv
<1>5. \A n \in Webhooks!Mutations : creating'[n] # None => creating'[n] # creating[m]
  BY <1>1, <1>3 DEF HookIInv
<1>6. CASE Webhooks!CreateSucceeds(m)
  <2>1. /\ hooks' = hooks \union {new} /\ hookIds' = hookIds + 1 /\ hooksStale' = TRUE
        /\ hooksFetch' = IF hooksOpen THEN hooks' ELSE hooksFetch
        /\ early' = (early \/ (~hooksOpen /\ hooksFetch # None))
    BY <1>6 DEF Webhooks!CreateSucceeds, Webhooks!InvalidateHooks, Webhooks!Created
  <2>2. early' \in BOOLEAN /\ (~early' => ~early /\ (hooksOpen \/ hooksFetch = None))
    BY <2>1 DEF HookIInv, HookTypeOK
  <2> HIDE DEF new
  <2>20. /\ hooks' \in SUBSET Hook /\ hookIds' \in Nat
         /\ creating' \in [Webhooks!Mutations -> Webhooks!Targets \union {None}]
    BY <1>1, <1>2, <2>1 DEF HookIInv, HookTypeOK
  <2>3. HookTypeOK'
    BY <1>1, <2>1, <2>2, <2>20 DEF HookIInv, HookTypeOK
  <2>30. HookCount'
    BY <1>21, <2>1
  <2>4. ~early' => HookOnce(hooks')
    BY <1>1, <1>2, <2>1, <2>2 DEF HookIInv, HookOnce, HookNewInv
  <2>5. ~early' => HookNewInv'
    BY <1>2, <1>3, <1>5, <2>1, <2>2 DEF HookIInv, HookNewInv
  <2>6. hooks' # None
    BY <2>3, HooksAssumption DEF HookTypeOK
  <2>7. ~early' => HookListInv'
    BY <1>1, <2>1, <2>2, <2>4, <2>6 DEF HookIInv, HookListInv, HookOnce
  <2>8. QED
    BY <1>4, <2>3, <2>30, <2>4, <2>5, <2>7 DEF HookIInv, HookOnce, Webhooks!MutationOf
<1>7. CASE Webhooks!CreateFails(m)
  <2>1. \/ UNCHANGED <<hooks, hookIds, early>>
        \/ hooks' = hooks \union {new} /\ hookIds' = hookIds + 1 /\ early' = TRUE
    BY <1>7 DEF Webhooks!CreateFails, Webhooks!Created
  <2>2. UNCHANGED <<hooksFetch, hooksStale>>
    BY <1>7 DEF Webhooks!CreateFails
  <2> HIDE DEF new
  <2>3. HookTypeOK'
    <3>1. hooks' \in SUBSET Hook /\ hookIds' \in Nat
      BY <1>2, <2>1 DEF HookIInv, HookTypeOK
    <3>2. creating' \in [Webhooks!Mutations -> Webhooks!Targets \union {None}]
      BY <1>1 DEF HookIInv, HookTypeOK
    <3>3. early' \in BOOLEAN
      BY <2>1 DEF HookIInv, HookTypeOK
    <3>4. QED
      BY <1>1, <2>2, <3>1, <3>2, <3>3 DEF HookIInv, HookTypeOK
  <2>30. HookCount'
    BY <1>21, <2>1
  <2>4. ~early' => ~early /\ hooks' = hooks
    BY <2>1
  <2>5. ~early' => HookOnce(hooks') /\ HookListInv' /\ HookNewInv'
    BY <1>1, <1>3, <2>2, <2>4 DEF HookIInv, HookOnce, HookListInv, HookNewInv
  <2>6. QED
    BY <1>4, <2>3, <2>30, <2>5 DEF HookIInv, HookOnce, Webhooks!MutationOf
<1>8. QED
  BY <1>6, <1>7

\* A webhook goes.
LEMMA HookDeleteStep ==
  ASSUME HookIInv, NEW h, Webhooks!DeleteSucceeds(h) \/ Webhooks!DeleteFails(h)
  PROVE  HookIInv'
<1>1. hooks' \subseteq hooks /\ UNCHANGED <<hooksSeen, hooksOpen, creating, hookIds>>
  BY DEF Webhooks!DeleteSucceeds, Webhooks!DeleteFails
<1>2. hooks' \in SUBSET Hook /\ hooks' # None
  BY <1>1, HooksAssumption DEF HookIInv, HookTypeOK
<1>3. CASE Webhooks!DeleteSucceeds(h)
  <2>1. /\ hooksStale' = TRUE /\ hooksFetch' = IF hooksOpen THEN hooks' ELSE hooksFetch
        /\ early' = (early \/ (~hooksOpen /\ hooksFetch # None))
    BY <1>3 DEF Webhooks!DeleteSucceeds, Webhooks!InvalidateHooks
  <2>2. early' \in BOOLEAN /\ (~early' => ~early /\ (hooksOpen \/ hooksFetch = None))
    BY <2>1 DEF HookIInv, HookTypeOK
  <2>3. HookTypeOK'
    BY <1>1, <1>2, <2>1, <2>2 DEF HookIInv, HookTypeOK
  <2>4. ~early' => HookOnce(hooks') /\ HookListInv' /\ HookNewInv'
    BY <1>1, <1>2, <2>1, <2>2 DEF HookIInv, HookOnce, HookListInv, HookNewInv
  <2>5. QED
    BY <1>1, <2>3, <2>4 DEF HookIInv, HookOnce, HookCount, HookBusy, Webhooks!MutationOf
<1>4. CASE Webhooks!DeleteFails(h)
  <2>1. UNCHANGED <<hooksFetch, hooksStale, early>>
    BY <1>4 DEF Webhooks!DeleteFails
  <2>2. HookTypeOK'
    BY <1>1, <1>2, <2>1 DEF HookIInv, HookTypeOK
  <2>3. ~early' => HookOnce(hooks') /\ HookListInv' /\ HookNewInv'
    BY <1>1, <2>1 DEF HookIInv, HookOnce, HookListInv, HookNewInv
  <2>4. QED
    BY <1>1, <2>2, <2>3 DEF HookIInv, HookOnce, HookCount, HookBusy, Webhooks!MutationOf
<1>5. QED
  BY <1>3, <1>4

\* Every step of the section and the server keeps the invariant.
LEMMA HookNextIInv == HookIInv /\ (Webhooks!Next \/ UNCHANGED hookVars) => HookIInv'
<1> SUFFICES ASSUME HookIInv, Webhooks!Next \/ UNCHANGED hookVars PROVE HookIInv'
  OBVIOUS
<1>1. ASSUME NEW h, Webhooks!DeleteWebhook(h) \/ UNCHANGED hookVars PROVE HookIInv'
  <2>1. UNCHANGED <<hooks, hooksSeen, hooksFetch, hooksStale, hooksOpen, creating, hookIds, early>>
    BY <1>1 DEF Webhooks!DeleteWebhook, hookVars
  <2>2. QED
    BY <2>1 DEF HookIInv, HookTypeOK, HookCount, HookBusy, HookOnce, HookListInv, HookNewInv, Webhooks!MutationOf
<1>2. QED
  BY <1>1, HookListStep, HookCreateStep, HookCreatedStep, HookDeleteStep
     DEF Webhooks!Next, Webhooks!WebhooksSection

\* OneHookEach: the page makes no second webhook for a target, unless "Create"
\* was clicked without the list or an answer was lost (WebhooksSection).
THEOREM OneHookForTarget == Spec => []OneHookEach
<1> DEFINE Inv == page = "webhooks" => HookIInv
<1>1. Init => Inv
  BY HookInitIInv DEF Init
<1>2. Inv /\ [Next]_vars => Inv'
  BY HookNextIInv, PageSteps
<1>3. HookIInv => Webhooks!OneHookEach
  BY DEF HookIInv, HookOnce, Webhooks!OneHookEach
<1>4. Inv => OneHookEach
  BY <1>3 DEF OneHookEach
<1>5. QED
  BY <1>1, <1>2, <1>4, PTL DEF Spec

-----------------------------------------------------------------------------
(***************************************************************************)
(* The secrets of a project.                                               *)
(***************************************************************************)
\* Without a race the page has the secrets of the server, or they are on their
\* way, and at most one list is being sent: the one that was asked for.
SecListInv ==
  /\ attached \in SUBSET SecretIds /\ wanted \in SUBSET SecretIds
  /\ IF attachedFetch = None THEN attachedSeen = attached ELSE attachedFetch = attached
  /\ \/ sets = <<>> /\ wanted = attached
     \/ \E twice, latest : sets = <<[list |-> wanted, twice |-> twice, latest |-> latest]>>

SecIInv ==
  /\ raced \in BOOLEAN /\ selectedSecretId \in SecretIds \union {None}
  /\ ~raced => SecListInv

\* The one list that was sent is taken from those in flight.
LEMMA SecRemoveOne ==
  ASSUME NEW x, NEW i \in DOMAIN <<x>> PROVE i = 1 /\ <<x>>[i] = x /\ Secrets!RemoveAt(<<x>>, i) = <<>>
<1>1. i = 1 /\ <<x>>[i] = x
  OBVIOUS
<1>2. SubSeq(<<x>>, 1, 0) \o SubSeq(<<x>>, 2, 1) = <<>>
  OBVIOUS
<1>3. Secrets!RemoveAt(<<x>>, 1) = SubSeq(<<x>>, 1, 0) \o SubSeq(<<x>>, 2, 1)
  BY DEF Secrets!RemoveAt
<1>4. QED
  BY <1>1, <1>2, <1>3

LEMMA AppendToEmpty == ASSUME NEW x PROVE Append(<<>>, x) = <<x>>
OBVIOUS

\* A list is sent, and without a race it is the first.
LEMMA SecMutateStep ==
  ASSUME SecIInv, NEW list \in SUBSET SecretIds, NEW twice, Secrets!Mutate(list, twice),
         ~raced => wanted' = list, selectedSecretId' \in SecretIds \union {None}
  PROVE  SecIInv'
<1>1. raced' \in BOOLEAN /\ (~raced' => ~raced /\ sets = <<>> /\ attachedFetch = None)
  BY DEF Secrets!Mutate, SecIInv
<1>2. UNCHANGED <<attached, attachedSeen, attachedFetch>>
  BY DEF Secrets!Mutate
<1>3. ASSUME ~raced' PROVE sets' = <<[list |-> list, twice |-> twice, latest |-> TRUE]>>
  <2>1. [i \in DOMAIN sets |-> [sets[i] EXCEPT !.latest = FALSE]] = <<>>
    BY <1>1, <1>3
  <2>2. sets' = Append(<<>>, [list |-> list, twice |-> twice, latest |-> TRUE])
    BY <2>1 DEF Secrets!Mutate
  <2>3. QED
    BY <2>2, AppendToEmpty
<1>4. ~raced' => SecListInv'
  BY <1>1, <1>2, <1>3 DEF SecIInv, SecListInv
<1>5. QED
  BY <1>1, <1>4 DEF SecIInv

\* The server answers a list.
LEMMA SecAnswerStep ==
  ASSUME SecIInv, NEW i \in DOMAIN sets, Secrets!SetSucceeds(i) \/ Secrets!SetFails(i)
  PROVE  SecIInv'
<1>1. UNCHANGED <<attachedSeen, selectedSecretId>> /\ sets' = Secrets!RemoveAt(sets, i)
  BY DEF Secrets!SetSucceeds, Secrets!SetFails, Secrets!addForm
<1>2. raced' \in BOOLEAN /\ (~raced' => ~raced)
  BY DEF Secrets!SetSucceeds, Secrets!SetFails, SecIInv
<1>3. ASSUME ~raced' PROVE sets' = <<>> /\ sets[i].list = wanted /\ SecListInv
  BY <1>1, <1>2, <1>3, SecRemoveOne DEF SecIInv, SecListInv
<1>4. ASSUME ~raced' PROVE SecListInv'
  <2>1. CASE Secrets!SetSucceeds(i)
    <3>1. attached' = wanted /\ attachedFetch' = wanted /\ wanted' = wanted
      BY <1>3, <1>4, <2>1 DEF Secrets!SetSucceeds
    <3>2. wanted # None
      BY <1>3, <1>4, SecretsAssumption DEF SecListInv
    <3>3. QED
      BY <1>3, <1>4, <3>1, <3>2 DEF SecListInv
  <2>2. CASE Secrets!SetFails(i)
    <3>1. attached' = attached /\ attachedFetch' = attachedFetch /\ wanted' = attached
      BY <1>4, <2>2 DEF Secrets!SetFails
    <3>2. QED
      BY <1>1, <1>3, <1>4, <3>1 DEF SecListInv
  <2>3. QED
    BY <2>1, <2>2
<1>5. QED
  BY <1>1, <1>2, <1>4 DEF SecIInv

\* Every step of the section and the server keeps the invariant.
LEMMA SecNextIInv == SecIInv /\ (Secrets!Next \/ UNCHANGED secretVars) => SecIInv'
<1> SUFFICES ASSUME SecIInv, Secrets!Next \/ UNCHANGED secretVars PROVE SecIInv'
  OBVIOUS
<1> USE DEF SecIInv
<1>1. ASSUME NEW s,
             \/ Secrets!ToggleAdding \/ Secrets!TypeEnvVarName \/ Secrets!CancelAdd
             \/ s \in SecretIds /\ Secrets!SelectSecret(s)
      PROVE  SecIInv'
  <2>1. UNCHANGED <<attached, attachedSeen, attachedFetch, sets, wanted, raced>>
    BY <1>1 DEF Secrets!ToggleAdding, Secrets!TypeEnvVarName, Secrets!CancelAdd, Secrets!SelectSecret
  <2>2. selectedSecretId' \in SecretIds \union {None}
    BY <1>1 DEF Secrets!ToggleAdding, Secrets!TypeEnvVarName, Secrets!CancelAdd, Secrets!SelectSecret
  <2>3. QED
    BY <2>1, <2>2 DEF SecListInv
<1>2. CASE Secrets!handleAdd
  <2>1. PICK twice : Secrets!Mutate(attachedSeen \union {selectedSecretId}, twice)
    BY <1>2 DEF Secrets!handleAdd
  <2>2. selectedSecretId # None /\ wanted' = wanted \union {selectedSecretId} /\ selectedSecretId' = None
    BY <1>2 DEF Secrets!handleAdd
  <2>3. CASE raced'
    BY <2>1, <2>2, <2>3
  <2>4. CASE ~raced'
    <3>1. ~raced /\ sets = <<>> /\ attachedFetch = None
      BY <2>1, <2>4 DEF Secrets!Mutate
    <3>2. attachedSeen = wanted /\ wanted \in SUBSET SecretIds
      BY <3>1 DEF SecListInv
    <3>3. QED
      BY <2>1, <2>2, <3>2, SecMutateStep
  <2>5. QED
    BY <2>3, <2>4
<1>3. ASSUME NEW s \in SecretIds, Secrets!handleRemove(s) PROVE SecIInv'
  <2>1. Secrets!Mutate(attachedSeen \ {s}, FALSE) /\ wanted' = wanted \ {s} /\ selectedSecretId' = selectedSecretId
    BY <1>3 DEF Secrets!handleRemove, Secrets!addForm
  <2>2. CASE raced'
    BY <2>1, <2>2
  <2>3. CASE ~raced'
    <3>1. ~raced /\ sets = <<>> /\ attachedFetch = None
      BY <2>1, <2>3 DEF Secrets!Mutate
    <3>2. attachedSeen = wanted /\ wanted \in SUBSET SecretIds
      BY <3>1 DEF SecListInv
    <3>3. QED
      BY <2>1, <3>2, SecMutateStep
  <2>4. QED
    BY <2>2, <2>3
<1>4. CASE Secrets!RefetchSecrets \/ Secrets!SecretsArrive
  <2>1. UNCHANGED <<attached, selectedSecretId, sets, wanted, raced>>
    BY <1>4 DEF Secrets!RefetchSecrets, Secrets!SecretsArrive, Secrets!addForm
  <2>2. \/ attachedFetch' = attached /\ attachedSeen' = attachedSeen
        \/ attachedFetch # None /\ attachedSeen' = attachedFetch /\ attachedFetch' = None
    BY <1>4 DEF Secrets!RefetchSecrets, Secrets!SecretsArrive
  <2>3. SecListInv => attached # None
    BY SecretsAssumption DEF SecListInv
  <2>4. ~raced => SecListInv'
    BY <2>1, <2>2, <2>3 DEF SecListInv
  <2>5. QED
    BY <2>1, <2>4
<1>5. CASE UNCHANGED secretVars
  BY <1>5 DEF secretVars, SecListInv
<1>6. QED
  BY <1>1, <1>2, <1>3, <1>4, <1>5, SecAnswerStep DEF Secrets!Next, Secrets!SecretsSection

\* SecretsAsAsked: assigning or removing a secret changes that secret only,
\* unless a list was made of an old one or an answer was lost (SecretsSection).
THEOREM SecretsAreAsAsked == Spec => []SecretsAsAsked
<1> DEFINE Inv == page = "secrets" => SecIInv
<1>1. Init => Inv
  BY DEF Init, Secrets!Init, SecIInv, SecListInv
<1>2. Inv /\ [Next]_vars => Inv'
  BY SecNextIInv, PageSteps
<1>3. SecIInv => Secrets!SecretsAsAsked
  BY DEF SecIInv, SecListInv, Secrets!SecretsAsAsked
<1>4. Inv => SecretsAsAsked
  BY <1>3 DEF SecretsAsAsked
<1>5. QED
  BY <1>1, <1>2, <1>4, PTL DEF Spec

-----------------------------------------------------------------------------
(***************************************************************************)
(* The form of a project.                                                  *)
(***************************************************************************)
PageTypeOK ==
  /\ proj \in PageCopies /\ detail \in PageCopies \union {None} /\ detailFetch \in PageCopies \union {None}
  /\ fields \in PageCopies /\ originalFiles \in PageFiles /\ visual \in Composes \union {""}
  /\ saveRun \in PageRun \union {None}
  /\ stale \in BOOLEAN /\ tried \in BOOLEAN /\ revised \in BOOLEAN /\ failed \in BOOLEAN /\ swept \in BOOLEAN

\* A file is the same in two sets of files.
PageSame(fs, gs, f) == (f \in DOMAIN fs <=> f \in DOMAIN gs) /\ (f \in DOMAIN fs => fs[f] = gs[f])

\* Nobody else wrote.  Before the first attempt to save, copy and originals are
\* the project.  After it every file of the project is as it was or as the form
\* has it, unless the form was changed since.
PageOriginInv ==
  ~stale =>
    /\ ~tried => /\ detail = proj /\ originalFiles = proj.files
                 /\ detailFetch # None => detailFetch = proj
    /\ tried /\ ~revised =>
         \A f \in Filenames : PageSame(proj.files, originalFiles, f) \/ PageSame(proj.files, fields.files, f)

\* What a request of a save is about.
PageTodoInv ==
  saveRun # None =>
    \A r \in saveRun.todo :
      /\ r.op = "upsert" => r.file \in DOMAIN saveRun.form.files
      /\ r.op = "delete" => r.file \notin DOMAIN saveRun.form.files

\* Where the project differs from the form of a clean save there is a request
\* still to do.
PageSaveInv ==
  saveRun # None /\ saveRun.clean =>
    /\ proj.compose = saveRun.form.compose \/ \E r \in saveRun.todo : r.op = "project"
    /\ \A f \in DOMAIN saveRun.form.files :
         \/ PageSame(proj.files, saveRun.form.files, f)
         \/ \E r \in saveRun.todo : r.op = "upsert" /\ r.file = f
    /\ \A f \in DOMAIN proj.files \ DOMAIN saveRun.form.files :
         \E r \in saveRun.todo : r.op = "delete" /\ r.file = f

\* With no save under way the project is on the page, or on its way.
PageFetchInv ==
  ~stale /\ ~failed /\ saveRun = None => IF detailFetch = None THEN detail = proj ELSE detailFetch = proj

PageBuilderInv == mode = "visual" /\ ~swept => visual = fields.compose

PageIInv == PageTypeOK /\ PageOriginInv /\ PageTodoInv /\ PageSaveInv /\ PageFetchInv /\ PageBuilderInv

LEMMA PageFilesFacts ==
  ASSUME NEW fs \in PageFiles
  PROVE  DOMAIN fs \in SUBSET Filenames /\ fs \in [DOMAIN fs -> PageText]
BY DEF PageFiles

\* A file is written.
LEMMA PageWith ==
  ASSUME NEW fs \in PageFiles, NEW f \in Filenames, NEW c \in PageText
  PROVE  LET gs == Project!With(fs, f, c)
         IN  /\ gs \in PageFiles /\ DOMAIN gs = DOMAIN fs \union {f} /\ gs[f] = c
             /\ \A g \in DOMAIN fs : g # f => gs[g] = fs[g]
<1> DEFINE S == DOMAIN fs \union {f}
           gs == Project!With(fs, f, c)
<1>1. S \in SUBSET Filenames
  BY PageFilesFacts
<1>2. gs \in [S -> PageText]
  BY PageFilesFacts DEF Project!With
<1>3. gs \in PageFiles
  BY <1>1, <1>2 DEF PageFiles
<1>4. QED
  BY <1>3 DEF Project!With

\* A file is removed.
LEMMA PageWithout ==
  ASSUME NEW fs \in PageFiles, NEW f
  PROVE  LET gs == [g \in DOMAIN fs \ {f} |-> fs[g]] IN gs \in PageFiles
<1> DEFINE S == DOMAIN fs \ {f}
           gs == [g \in S |-> fs[g]]
<1>1. S \in SUBSET Filenames /\ gs \in [S -> PageText]
  BY PageFilesFacts
<1>2. QED
  BY <1>1 DEF PageFiles

\* Two copies are one when their texts are and every file is the same.
LEMMA PageEqual ==
  ASSUME NEW p \in PageCopies, NEW q \in PageCopies, p.compose = q.compose,
         \A f \in Filenames : PageSame(p.files, q.files, f)
  PROVE  p = q
<1>1. p.files \in PageFiles /\ q.files \in PageFiles
  BY DEF PageCopies
<1>2. DOMAIN p.files = DOMAIN q.files
  BY <1>1, PageFilesFacts DEF PageSame
<1>3. p.files = q.files
  BY <1>1, <1>2, PageFilesFacts DEF PageSame
<1>4. p = [compose |-> p.compose, files |-> p.files] /\ q = [compose |-> q.compose, files |-> q.files]
  BY DEF PageCopies
<1>5. QED
  BY <1>3, <1>4

LEMMA PageInitIInv == Project!Init => PageIInv
<1> SUFFICES ASSUME Project!Init PROVE PageIInv
  OBVIOUS
<1>1. Project!First \in Composes
  BY ComposesAssumption DEF Project!First
<1>2. [f \in Filenames |-> "x"] \in PageFiles
  BY DEF PageFiles, PageText
<1>3. Project!NoFiles \in PageFiles
  <2>1. Project!NoFiles \in [{} -> PageText]
    BY DEF Project!NoFiles
  <2>2. QED
    BY <2>1 DEF PageFiles
<1>4. PageTypeOK
  BY <1>1, <1>2, <1>3 DEF Project!Init, PageTypeOK, PageCopies
<1>5. QED
  BY <1>4 DEF Project!Init, PageIInv, PageOriginInv, PageTodoInv, PageSaveInv, PageFetchInv, PageBuilderInv

\* A copy arrives or does not.
LEMMA PageFetchStep ==
  ASSUME PageIInv, Project!DetailArrives \/ Project!DetailFails \/ Project!RefetchDetail
  PROVE  PageIInv'
<1> USE ComposesAssumption
<1>1. PageTypeOK /\ None \notin PageCopies
  BY DEF PageIInv
<1>2. CASE Project!RefetchDetail
  <2>1. UNCHANGED <<proj, detail, editing, fields, originalFiles, mode, visual, saveRun, foreign, stale, tried,
                    revised, failed, swept>> /\ detailFetch' = proj
    BY <1>2 DEF Project!RefetchDetail, Project!editor, Project!marks
  <2>2. PageTypeOK'
    BY <1>1, <2>1 DEF PageTypeOK
  <2>3. PageOriginInv' /\ PageFetchInv'
    BY <1>1, <2>1 DEF PageIInv, PageTypeOK, PageOriginInv, PageFetchInv
  <2>4. PageTodoInv' /\ PageSaveInv' /\ PageBuilderInv'
    BY <2>1 DEF PageIInv, PageTodoInv, PageSaveInv, PageBuilderInv
  <2>5. QED
    BY <2>2, <2>3, <2>4 DEF PageIInv
<1>3. CASE Project!DetailFails
  <2>1. UNCHANGED <<proj, detail, editing, fields, originalFiles, mode, visual, saveRun, foreign, stale, tried,
                    revised, swept>> /\ detailFetch' = None /\ failed' = ~stale
    BY <1>3 DEF Project!DetailFails, Project!editor
  <2>2. PageTypeOK'
    BY <1>1, <2>1 DEF PageTypeOK
  <2>3. PageOriginInv' /\ PageFetchInv'
    BY <1>1, <2>1 DEF PageIInv, PageTypeOK, PageOriginInv, PageFetchInv
  <2>4. PageTodoInv' /\ PageSaveInv' /\ PageBuilderInv'
    BY <2>1 DEF PageIInv, PageTodoInv, PageSaveInv, PageBuilderInv
  <2>5. QED
    BY <2>2, <2>3, <2>4 DEF PageIInv
<1>4. CASE Project!DetailArrives
  <2>1. /\ detailFetch # None /\ detailFetch' = None /\ detail' = detailFetch /\ UNCHANGED <<proj, saveRun>>
        /\ detailFetch \in PageCopies
    BY <1>1, <1>4 DEF Project!DetailArrives, PageTypeOK
  <2>2. PageTodoInv' /\ PageSaveInv'
    BY <2>1 DEF PageIInv, PageTodoInv, PageSaveInv
  <2>3. CASE detailFetch = detail /\ UNCHANGED <<Project!editor, Project!marks>>
    <3>1. UNCHANGED <<editing, fields, originalFiles, mode, visual, foreign, stale, tried, revised, failed, swept>>
      BY <2>3 DEF Project!editor, Project!marks
    <3>2. PageTypeOK' /\ PageBuilderInv'
      BY <1>1, <2>1, <3>1 DEF PageIInv, PageTypeOK, PageBuilderInv
    <3>3. PageOriginInv' /\ PageFetchInv'
      BY <2>1, <2>3, <3>1 DEF PageIInv, PageOriginInv, PageFetchInv
    <3>4. QED
      BY <2>2, <3>2, <3>3 DEF PageIInv
  <2>4. CASE Project!Fill(detailFetch)
    <3>1. /\ fields' = detailFetch /\ originalFiles' = detailFetch.files /\ UNCHANGED <<mode, visual>>
          /\ swept' = (swept \/ (mode = "visual" /\ detailFetch.compose # visual))
      BY <2>4 DEF Project!Fill
    <3>2. PageBuilderInv'
      BY <3>1 DEF PageBuilderInv
    <3>3. detailFetch.files \in PageFiles
      BY <2>1 DEF PageCopies
    <3>4. CASE detailFetch = proj
      <4>1. ~stale' /\ ~tried' /\ ~revised' /\ ~failed' /\ stale' \in BOOLEAN /\ tried' \in BOOLEAN
            /\ revised' \in BOOLEAN /\ failed' \in BOOLEAN
        BY <2>4, <3>4 DEF Project!Fill
      <4>2. PageTypeOK'
        BY <1>1, <2>1, <3>1, <3>3, <4>1 DEF PageTypeOK
      <4>3. PageOriginInv' /\ PageFetchInv'
        BY <2>1, <3>1, <3>4, <4>1 DEF PageOriginInv, PageFetchInv
      <4>4. QED
        BY <2>2, <3>2, <4>2, <4>3 DEF PageIInv
    <3>5. CASE detailFetch # proj
      <4>1. revised' = (revised \/ tried) /\ UNCHANGED <<stale, tried, failed>>
        BY <2>4, <3>5 DEF Project!Fill
      <4>2. PageTypeOK'
        BY <1>1, <2>1, <3>1, <3>3, <4>1 DEF PageTypeOK
      <4>3. PageOriginInv' /\ PageFetchInv'
        BY <2>1, <3>1, <3>5, <4>1 DEF PageIInv, PageOriginInv, PageFetchInv
      <4>4. QED
        BY <2>2, <3>2, <4>2, <4>3 DEF PageIInv
    <3>6. QED
      BY <3>4, <3>5
  <2>5. QED
    BY <1>4, <2>3, <2>4 DEF Project!DetailArrives
<1>5. QED
  BY <1>2, <1>3, <1>4

\* Somebody else writes.
LEMMA PageRewriteStep ==
  ASSUME PageIInv, NEW p \in PageCopies, Project!Rewrite(p)
  PROVE  PageIInv'
<1>1. /\ proj' = p /\ stale' = TRUE /\ tried' = FALSE /\ revised' = FALSE /\ failed' = FALSE
      /\ UNCHANGED <<detail, detailFetch, fields, originalFiles, mode, visual, swept>>
      /\ saveRun' = IF saveRun = None THEN None ELSE [saveRun EXCEPT !.clean = FALSE]
  BY DEF Project!Rewrite, Project!query, Project!editor
<1>2. saveRun # None => /\ [saveRun EXCEPT !.clean = FALSE] \in PageRun
                        /\ ~[saveRun EXCEPT !.clean = FALSE].clean
                        /\ [saveRun EXCEPT !.clean = FALSE].todo = saveRun.todo
                        /\ [saveRun EXCEPT !.clean = FALSE].form = saveRun.form
  BY DEF PageIInv, PageTypeOK, PageRun
<1>3. PageTypeOK'
  BY <1>1, <1>2 DEF PageIInv, PageTypeOK
<1>4. PageTodoInv' /\ PageSaveInv'
  BY <1>1, <1>2 DEF PageIInv, PageTodoInv, PageSaveInv
<1>5. QED
  BY <1>1, <1>3, <1>4 DEF PageIInv, PageOriginInv, PageFetchInv, PageBuilderInv

\* The form is changed, by its user or by going back to the copy.
LEMMA PageChangeStep ==
  ASSUME PageIInv, fields' \in PageCopies, visual' \in Composes \union {""}, PageBuilderInv', swept' \in BOOLEAN,
         \/ UNCHANGED originalFiles
         \/ detail # None /\ originalFiles' = detail.files /\ revised' = (revised \/ tried),
         UNCHANGED <<proj, detail, detailFetch, saveRun, stale, tried, failed>>,
         revised' \in BOOLEAN, revised => revised', fields' # fields /\ tried => revised'
  PROVE  PageIInv'
<1>1. PageTypeOK
  BY DEF PageIInv
<1>2. originalFiles' \in PageFiles
  BY <1>1 DEF PageTypeOK, PageCopies
<1>3. PageTypeOK'
  BY <1>1, <1>2 DEF PageTypeOK
<1>4. PageTodoInv' /\ PageSaveInv' /\ PageFetchInv'
  BY DEF PageIInv, PageTodoInv, PageSaveInv, PageFetchInv
<1>5. PageOriginInv'
  BY DEF PageIInv, PageOriginInv
<1>6. QED
  BY <1>3, <1>4, <1>5 DEF PageIInv

LEMMA PageEditStep ==
  ASSUME PageIInv, Project!EditMode \/ Project!Edit \/ Project!cancelEdit
  PROVE  PageIInv'
<1>1. PageTypeOK /\ fields \in PageCopies /\ fields.files \in PageFiles
  BY DEF PageIInv, PageTypeOK, PageCopies
<1>2. ASSUME NEW form \in PageCopies, Project!Change(form), visual' \in Composes \union {""},
             mode = "visual" => form.compose = visual' \/ (form.compose = fields.compose /\ UNCHANGED visual)
      PROVE  PageIInv'
  <2>1. /\ fields' = form /\ revised' = (revised \/ tried)
        /\ UNCHANGED <<proj, detail, detailFetch, originalFiles, mode, saveRun, stale, tried, failed, swept>>
    BY <1>2 DEF Project!Change, Project!query
  <2>2. PageBuilderInv'
    BY <1>2, <2>1 DEF PageIInv, PageBuilderInv
  <2>3. QED
    BY <1>1, <1>2, <2>1, <2>2, PageChangeStep DEF PageTypeOK
<1>3. CASE \E c \in Composes : Project!TypeCompose(c) \/ Project!BuildCompose(c)
  <2>1. PICK c \in Composes : Project!TypeCompose(c) \/ Project!BuildCompose(c)
    BY <1>3
  <2> DEFINE form == [fields EXCEPT !.compose = c]
  <2>2. form \in PageCopies /\ form.compose = c
    BY <1>1 DEF PageCopies
  <2>3. CASE Project!TypeCompose(c)
    BY <1>1, <1>2, <2>2, <2>3 DEF Project!TypeCompose, PageTypeOK
  <2>4. CASE Project!BuildCompose(c)
    BY <1>1, <1>2, <2>2, <2>4 DEF Project!BuildCompose, PageTypeOK
  <2>5. QED
    BY <2>1, <2>3, <2>4
<1>4. CASE \E f \in Filenames : Project!UpdateFile(f, "y") \/ Project!RemoveFile(f)
  <2>1. PICK f \in Filenames : Project!UpdateFile(f, "y") \/ Project!RemoveFile(f)
    BY <1>4
  <2>2. ASSUME NEW fs \in PageFiles, Project!Change([fields EXCEPT !.files = fs]), UNCHANGED visual
        PROVE  PageIInv'
    <3> DEFINE form == [fields EXCEPT !.files = fs]
    <3>1. form \in PageCopies /\ form.compose = fields.compose
      BY <1>1 DEF PageCopies
    <3> HIDE DEF form
    <3>2. Project!Change(form)
      BY <2>2 DEF form
    <3>3. QED
      BY <1>1, <1>2, <2>2, <3>1, <3>2 DEF PageTypeOK
  <2>3. CASE Project!UpdateFile(f, "y")
    <3> DEFINE fs == Project!With(fields.files, f, "y")
    <3>1. fs \in PageFiles
      BY <1>1, PageWith DEF PageText
    <3> HIDE DEF fs
    <3>2. Project!Change([fields EXCEPT !.files = fs]) /\ UNCHANGED visual
      BY <2>3 DEF Project!UpdateFile, fs
    <3>3. QED
      BY <2>2, <3>1, <3>2
  <2>4. CASE Project!RemoveFile(f)
    <3> DEFINE fs == [g \in DOMAIN fields.files \ {f} |-> fields.files[g]]
    <3>1. fs \in PageFiles
      BY <1>1, PageWithout
    <3> HIDE DEF fs
    <3>2. Project!Change([fields EXCEPT !.files = fs]) /\ UNCHANGED visual
      BY <2>4 DEF Project!RemoveFile, fs
    <3>3. QED
      BY <2>2, <3>1, <3>2
  <2>5. QED
    BY <2>1, <2>3, <2>4
<1>5. CASE Project!ShowVisual
  <2>1. /\ mode' = "visual" /\ visual' = fields.compose /\ swept' = FALSE
        /\ UNCHANGED <<proj, detail, detailFetch, fields, originalFiles, saveRun, stale, tried, revised, failed>>
    BY <1>5 DEF Project!ShowVisual, Project!query
  <2>2. PageBuilderInv' /\ visual' \in Composes \union {""}
    BY <1>1, <2>1 DEF PageBuilderInv, PageCopies
  <2>3. QED
    BY <1>1, <2>1, <2>2, PageChangeStep DEF PageTypeOK
<1>6. CASE Project!ShowYaml
  <2>1. /\ mode' = "yaml" /\ visual' = "" /\ fields' = [fields EXCEPT !.compose = visual]
        /\ revised' = (revised \/ (tried /\ fields.compose # visual))
        /\ UNCHANGED <<proj, detail, detailFetch, originalFiles, saveRun, stale, tried, failed, swept>>
    BY <1>6 DEF Project!ShowYaml, Project!query
  <2>2. fields' \in PageCopies /\ PageBuilderInv'
    BY <1>1, <2>1 DEF PageBuilderInv, PageCopies, PageTypeOK
  <2>3. fields' # fields => fields.compose # visual
    BY <1>1, <2>1 DEF PageCopies
  <2>4. QED
    BY <1>1, <2>1, <2>2, <2>3, PageChangeStep DEF PageTypeOK
<1>7. CASE Project!cancelEdit
  <2>1. /\ mode' = "yaml" /\ visual' = "" /\ swept' = FALSE /\ revised' = (revised \/ tried)
        /\ IF detail = None THEN UNCHANGED <<fields, originalFiles>>
           ELSE fields' = detail /\ originalFiles' = detail.files
        /\ UNCHANGED <<proj, detail, detailFetch, saveRun, stale, tried, failed>>
    BY <1>7 DEF Project!cancelEdit, Project!query
  <2>2. fields' \in PageCopies /\ PageBuilderInv'
    BY <1>1, <2>1 DEF PageBuilderInv, PageTypeOK
  <2>3. QED
    BY <1>1, <2>1, <2>2, PageChangeStep DEF PageTypeOK
<1>8. CASE Project!Edit
  <2>1. UNCHANGED <<proj, detail, detailFetch, fields, originalFiles, mode, visual, saveRun, stale, tried, revised,
                    failed, swept>>
    BY <1>8 DEF Project!Edit, Project!query, Project!marks
  <2>2. PageTypeOK' /\ PageOriginInv' /\ PageFetchInv'
    BY <2>1 DEF PageIInv, PageTypeOK, PageOriginInv, PageFetchInv
  <2>3. PageTodoInv' /\ PageSaveInv' /\ PageBuilderInv'
    BY <2>1 DEF PageIInv, PageTodoInv, PageSaveInv, PageBuilderInv
  <2>4. QED
    BY <2>2, <2>3 DEF PageIInv
<1>9. QED
  BY <1>3, <1>4, <1>5, <1>6, <1>7, <1>8 DEF Project!EditMode

LEMMA PageHandleSaveStep ==
  ASSUME PageIInv, Project!handleSave
  PROVE  PageIInv'
<1> DEFINE todo == Project!Requests(fields, originalFiles)
<1>1. PageTypeOK /\ fields.files \in PageFiles /\ originalFiles \in PageFiles
  BY DEF PageIInv, PageTypeOK, PageCopies
<1>2. /\ saveRun' = [form |-> fields, todo |-> todo, clean |-> ~revised /\ ~stale]
      /\ UNCHANGED <<proj, detail, detailFetch, fields, originalFiles, mode, visual, stale, tried, revised,
                     failed, swept>>
  BY DEF Project!handleSave, Project!query, Project!editor, Project!marks
<1>3. /\ \A f \in Project!Removed(fields, originalFiles) : [stage |-> 2, op |-> "delete", file |-> f] \in todo
      /\ \A f \in Project!Changed(fields, originalFiles) : [stage |-> 3, op |-> "upsert", file |-> f] \in todo
      /\ [stage |-> 1, op |-> "project", file |-> ""] \in todo
  BY DEF Project!Requests, Project!Stage
<1>4. \A r \in todo :
        \/ r = [stage |-> 1, op |-> "project", file |-> ""]
        \/ \E f \in DOMAIN originalFiles \ DOMAIN fields.files : r = [stage |-> 2, op |-> "delete", file |-> f]
        \/ \E f \in DOMAIN fields.files, n \in {3, 4} : r = [stage |-> n, op |-> "upsert", file |-> f]
  BY DEF Project!Requests, Project!Stage, Project!Removed, Project!Changed, Project!Added
<1> HIDE DEF todo
<1>5. todo \in SUBSET PageRequest
  <2>1. DOMAIN fields.files \subseteq Filenames /\ DOMAIN originalFiles \subseteq Filenames
    BY <1>1, PageFilesFacts
  <2>2. ASSUME NEW r \in todo PROVE r \in PageRequest
    <3>1. \A n \in 1 .. 4, op \in {"project", "delete", "upsert"}, f \in Filenames \union {""} :
            [stage |-> n, op |-> op, file |-> f] \in PageRequest
      BY Zenon DEF PageRequest
    <3>2. 1 \in 1 .. 4 /\ 2 \in 1 .. 4 /\ 3 \in 1 .. 4 /\ 4 \in 1 .. 4
      OBVIOUS
    <3>3. /\ [stage |-> 1, op |-> "project", file |-> ""] \in PageRequest
          /\ \A f \in Filenames : [stage |-> 2, op |-> "delete", file |-> f] \in PageRequest
          /\ \A f \in Filenames, n \in {3, 4} : [stage |-> n, op |-> "upsert", file |-> f] \in PageRequest
      BY ONLY <3>1, <3>2, Zenon
    <3>4. QED
      BY ONLY <1>4, <2>1, <2>2, <3>3, Zenon
  <2>3. QED
    BY <2>2
<1>6. ASSUME NEW r \in todo
      PROVE  /\ r.op = "upsert" => r.file \in DOMAIN fields.files
             /\ r.op = "delete" => r.file \notin DOMAIN fields.files
  <2>1. CASE r = [stage |-> 1, op |-> "project", file |-> ""]
    BY <2>1
  <2>2. CASE \E f \in DOMAIN originalFiles \ DOMAIN fields.files : r = [stage |-> 2, op |-> "delete", file |-> f]
    BY <2>2
  <2>3. CASE \E f \in DOMAIN fields.files, n \in {3, 4} : r = [stage |-> n, op |-> "upsert", file |-> f]
    <3>1. PICK f \in DOMAIN fields.files, n \in {3, 4} : r = [stage |-> n, op |-> "upsert", file |-> f]
      BY <2>3
    <3>2. r.op = "upsert" /\ r.file = f
      BY <3>1
    <3>3. QED
      BY <3>2
  <2>4. QED
    BY <1>4, <2>1, <2>2, <2>3
<1>7. saveRun' \in PageRun /\ saveRun'.form = fields /\ saveRun'.todo = todo /\ saveRun'.clean = (~revised /\ ~stale)
  BY <1>1, <1>2, <1>5 DEF PageRun, PageTypeOK
<1>8. PageTypeOK'
  BY <1>1, <1>2, <1>7 DEF PageTypeOK
<1>9. PageTodoInv'
  BY <1>6, <1>7 DEF PageTodoInv
<1>10. PageOriginInv' /\ PageBuilderInv'
  BY <1>2 DEF PageIInv, PageOriginInv, PageBuilderInv
<1>11. PageFetchInv'
  BY <1>7, ComposesAssumption DEF PageFetchInv
<1>12. PageSaveInv'
  <2> SUFFICES ASSUME ~revised, ~stale
               PROVE  /\ \E r \in todo : r.op = "project"
                      /\ \A f \in DOMAIN fields.files :
                           \/ PageSame(proj.files, fields.files, f)
                           \/ \E r \in todo : r.op = "upsert" /\ r.file = f
                      /\ \A f \in DOMAIN proj.files \ DOMAIN fields.files :
                           \E r \in todo : r.op = "delete" /\ r.file = f
    BY <1>2, <1>7 DEF PageSaveInv
  <2>1. \A f \in Filenames : PageSame(proj.files, originalFiles, f) \/ PageSame(proj.files, fields.files, f)
    BY DEF PageIInv, PageOriginInv, PageSame
  <2>2. DOMAIN fields.files \subseteq Filenames /\ DOMAIN proj.files \subseteq Filenames
    BY <1>1, PageFilesFacts DEF PageTypeOK, PageCopies
  <2>3. ASSUME NEW f \in DOMAIN fields.files, ~PageSame(proj.files, fields.files, f)
        PROVE  \E r \in todo : r.op = "upsert" /\ r.file = f
    <3>1. PageSame(proj.files, originalFiles, f)
      BY <2>1, <2>2, <2>3
    <3>2. f \in Project!Changed(fields, originalFiles)
      BY <2>3, <3>1 DEF Project!Changed, PageSame
    <3>3. QED
      BY <1>3, <3>2
  <2>4. ASSUME NEW f \in DOMAIN proj.files \ DOMAIN fields.files
        PROVE  \E r \in todo : r.op = "delete" /\ r.file = f
    <3>1. f \in DOMAIN originalFiles
      BY <2>1, <2>2, <2>4 DEF PageSame
    <3>2. f \in Project!Removed(fields, originalFiles)
      BY <2>4, <3>1 DEF Project!Removed
    <3>3. QED
      BY <1>3, <3>2
  <2>5. QED
    BY <1>3, <2>3, <2>4
<1>13. QED
  BY <1>8, <1>9, <1>10, <1>11, <1>12 DEF PageIInv

\* What a request does: the text or one file becomes that of the form.
LEMMA PageApplied ==
  ASSUME PageIInv, saveRun # None, NEW r \in saveRun.todo
  PROVE  LET p == Project!Applied(r)
         IN  /\ p \in PageCopies
             /\ p.compose = IF r.op = "project" THEN saveRun.form.compose ELSE proj.compose
             /\ \A f \in Filenames : IF r.op # "project" /\ r.file = f
                                     THEN PageSame(p.files, saveRun.form.files, f)
                                     ELSE PageSame(p.files, proj.files, f)
<1> DEFINE p == Project!Applied(r)
<1>1. /\ saveRun \in PageRun /\ r \in PageRequest /\ proj \in PageCopies /\ proj.files \in PageFiles
      /\ saveRun.form \in PageCopies /\ saveRun.form.files \in PageFiles
      /\ saveRun.form.compose \in Composes \union {""}
  BY DEF PageIInv, PageTypeOK, PageRun, PageCopies
<1>2. CASE r.op = "project"
  <2>1. p = [proj EXCEPT !.compose = saveRun.form.compose]
    BY <1>2 DEF Project!Applied
  <2> HIDE DEF p
  <2>2. p \in PageCopies /\ p.files = proj.files /\ p.compose = saveRun.form.compose
    BY <1>1, <2>1 DEF PageCopies
  <2>3. QED
    BY <1>2, <2>2 DEF PageSame, p
<1>3. CASE r.op = "delete"
  <2> DEFINE fs == [g \in DOMAIN proj.files \ {r.file} |-> proj.files[g]]
  <2>1. fs \in PageFiles
    BY <1>1, PageWithout
  <2>2. /\ r.file \notin DOMAIN saveRun.form.files /\ r.file \notin DOMAIN fs
        /\ \A f \in Filenames : f # r.file => PageSame(fs, proj.files, f)
    BY <1>3 DEF PageIInv, PageTodoInv, PageSame
  <2>3. p = [proj EXCEPT !.files = fs]
    BY <1>3 DEF Project!Applied
  <2> HIDE DEF p, fs
  <2>4. p \in PageCopies /\ p.files = fs /\ p.compose = proj.compose
    BY <1>1, <2>1, <2>3 DEF PageCopies
  <2>5. QED
    BY <1>3, <2>2, <2>4 DEF PageSame, p
<1>4. CASE r.op = "upsert"
  <2> DEFINE c  == saveRun.form.files[r.file]
             fs == Project!With(proj.files, r.file, c)
  <2>1. r.file \in DOMAIN saveRun.form.files
    BY <1>4 DEF PageIInv, PageTodoInv
  <2>2. r.file \in Filenames /\ c \in PageText
    BY <1>1, <2>1, PageFilesFacts
  <2>3. p = [proj EXCEPT !.files = fs]
    BY <1>4 DEF Project!Applied
  <2> HIDE DEF p, c
  <2>4. /\ fs \in PageFiles /\ DOMAIN fs = DOMAIN proj.files \union {r.file} /\ fs[r.file] = c
        /\ \A g \in DOMAIN proj.files : g # r.file => fs[g] = proj.files[g]
    <3>1. \A g \in Filenames, d \in PageText :
            LET gs == Project!With(proj.files, g, d)
            IN  /\ gs \in PageFiles /\ DOMAIN gs = DOMAIN proj.files \union {g} /\ gs[g] = d
                /\ \A h \in DOMAIN proj.files : h # g => gs[h] = proj.files[h]
      BY <1>1, PageWith
    <3>2. QED
      BY <2>2, <3>1
  <2> HIDE DEF fs
  <2>5. p \in PageCopies /\ p.files = fs /\ p.compose = proj.compose
    BY <1>1, <2>3, <2>4 DEF PageCopies
  <2>6. QED
    BY <1>4, <2>1, <2>4, <2>5 DEF PageSame, p, c
<1>5. QED
  BY <1>1, <1>2, <1>3, <1>4 DEF PageRequest

\* A request gets through.
LEMMA PageAttempt ==
  ASSUME PageIInv, saveRun # None, NEW r \in saveRun.todo, proj' = Project!Applied(r), Project!Attempted,
         UNCHANGED <<detail, detailFetch, fields, originalFiles, mode, visual, stale, swept>>
  PROVE  /\ PageOriginInv' /\ PageBuilderInv' /\ proj' \in PageCopies
         /\ tried' \in BOOLEAN /\ revised' \in BOOLEAN
<1>1. /\ proj' \in PageCopies
      /\ \A f \in Filenames : PageSame(proj'.files, saveRun.form.files, f) \/ PageSame(proj'.files, proj.files, f)
  BY PageApplied
<1>2. /\ stale \in BOOLEAN /\ tried' \in BOOLEAN /\ revised' \in BOOLEAN
      /\ tried' = ~stale /\ revised' = (~stale /\ (revised \/ fields # saveRun.form))
  BY DEF PageIInv, PageTypeOK, Project!Attempted
<1>3. PageOriginInv'
  <2> SUFFICES ASSUME ~stale, ~revised', NEW f \in Filenames
               PROVE  PageSame(proj'.files, originalFiles, f) \/ PageSame(proj'.files, fields.files, f)
    BY <1>2 DEF PageOriginInv
  <2>1. fields = saveRun.form /\ ~revised
    BY <1>2
  <2>2. PageSame(proj.files, originalFiles, f) \/ PageSame(proj.files, fields.files, f)
    BY <2>1 DEF PageIInv, PageOriginInv, PageSame
  <2>3. QED
    BY <1>1, <2>1, <2>2 DEF PageSame
<1>4. QED
  BY <1>1, <1>2, <1>3 DEF PageIInv, PageBuilderInv

LEMMA PageSaveStep ==
  ASSUME PageIInv, saveRun # None, NEW r \in saveRun.todo, Project!SaveStep(r) \/ Project!SaveFails(r)
  PROVE  PageIInv'
<1>1. PageTypeOK /\ saveRun \in PageRun
  BY DEF PageIInv, PageTypeOK
<1>2. UNCHANGED <<detail, detailFetch, fields, originalFiles, mode, visual, stale, swept>>
  BY DEF Project!SaveStep, Project!SaveFails, Project!query, Project!editor
<1>3. CASE Project!SaveFails(r)
  <2>1. saveRun' = None /\ failed' = ~stale
    BY <1>3 DEF Project!SaveFails
  <2>2. PageTodoInv' /\ PageSaveInv' /\ PageFetchInv'
    BY <1>2, <2>1 DEF PageTodoInv, PageSaveInv, PageFetchInv
  <2>3. CASE UNCHANGED <<proj, tried, revised>>
    <3>1. PageOriginInv' /\ PageBuilderInv' /\ PageTypeOK'
      BY <1>1, <1>2, <2>1, <2>3 DEF PageIInv, PageTypeOK, PageOriginInv, PageBuilderInv
    <3>2. QED
      BY <2>2, <3>1 DEF PageIInv
  <2>4. CASE proj' = Project!Applied(r) /\ Project!Attempted
    <3>1. PageOriginInv' /\ PageBuilderInv' /\ proj' \in PageCopies /\ tried' \in BOOLEAN /\ revised' \in BOOLEAN
      BY <1>2, <2>4, PageAttempt
    <3>2. PageTypeOK'
      BY <1>1, <1>2, <2>1, <3>1 DEF PageTypeOK
    <3>3. QED
      BY <2>2, <3>1, <3>2 DEF PageIInv
  <2>5. QED
    BY <1>3, <2>3, <2>4 DEF Project!SaveFails
<1>4. CASE Project!SaveStep(r)
  <2>1. /\ proj' = Project!Applied(r) /\ Project!Attempted /\ UNCHANGED failed
        /\ saveRun' = [saveRun EXCEPT !.todo = @ \ {r}]
    BY <1>4 DEF Project!SaveStep
  <2>2. /\ saveRun' \in PageRun /\ saveRun'.form = saveRun.form /\ saveRun'.clean = saveRun.clean
        /\ saveRun'.todo = saveRun.todo \ {r} /\ saveRun' # None
    BY <1>1, <2>1, ComposesAssumption DEF PageRun
  <2>3. PageOriginInv' /\ PageBuilderInv' /\ proj' \in PageCopies /\ tried' \in BOOLEAN /\ revised' \in BOOLEAN
    BY <1>2, <2>1, PageAttempt
  <2>4. PageTypeOK'
    BY <1>1, <1>2, <2>1, <2>2, <2>3 DEF PageTypeOK
  <2>5. PageTodoInv' /\ PageFetchInv'
    BY <2>2 DEF PageIInv, PageTodoInv, PageFetchInv
  <2>6. PageSaveInv'
    <3> SUFFICES ASSUME saveRun.clean
                 PROVE  /\ \/ proj'.compose = saveRun.form.compose
                           \/ \E q \in saveRun.todo \ {r} : q.op = "project"
                        /\ \A f \in DOMAIN saveRun.form.files :
                             \/ PageSame(proj'.files, saveRun.form.files, f)
                             \/ \E q \in saveRun.todo \ {r} : q.op = "upsert" /\ q.file = f
                        /\ \A f \in DOMAIN proj'.files \ DOMAIN saveRun.form.files :
                             \E q \in saveRun.todo \ {r} : q.op = "delete" /\ q.file = f
      BY <2>2 DEF PageSaveInv
    <3>1. /\ proj'.compose = IF r.op = "project" THEN saveRun.form.compose ELSE proj.compose
          /\ \A f \in Filenames : IF r.op # "project" /\ r.file = f
                                  THEN PageSame(proj'.files, saveRun.form.files, f)
                                  ELSE PageSame(proj'.files, proj.files, f)
      BY <2>1, PageApplied
    <3>2. /\ proj.compose = saveRun.form.compose \/ \E q \in saveRun.todo : q.op = "project"
          /\ \A f \in DOMAIN saveRun.form.files :
               \/ PageSame(proj.files, saveRun.form.files, f)
               \/ \E q \in saveRun.todo : q.op = "upsert" /\ q.file = f
          /\ \A f \in DOMAIN proj.files \ DOMAIN saveRun.form.files :
               \E q \in saveRun.todo : q.op = "delete" /\ q.file = f
      BY DEF PageIInv, PageSaveInv
    <3>3. DOMAIN saveRun.form.files \subseteq Filenames /\ DOMAIN proj'.files \subseteq Filenames
      BY <1>1, <2>3, PageFilesFacts DEF PageRun, PageCopies
    <3>4. proj'.compose = saveRun.form.compose \/ \E q \in saveRun.todo \ {r} : q.op = "project"
      BY <3>1, <3>2
    <3>5. ASSUME NEW f \in DOMAIN saveRun.form.files, ~PageSame(proj'.files, saveRun.form.files, f)
          PROVE  \E q \in saveRun.todo \ {r} : q.op = "upsert" /\ q.file = f
      <4>1. PageSame(proj'.files, proj.files, f) /\ ~(r.op # "project" /\ r.file = f)
        BY <3>1, <3>3, <3>5
      <4>2. ~PageSame(proj.files, saveRun.form.files, f)
        BY <3>5, <4>1 DEF PageSame
      <4>3. QED
        BY <3>2, <4>1, <4>2
    <3>6. ASSUME NEW f \in DOMAIN proj'.files \ DOMAIN saveRun.form.files
          PROVE  \E q \in saveRun.todo \ {r} : q.op = "delete" /\ q.file = f
      <4>1. PageSame(proj'.files, proj.files, f) /\ ~(r.op # "project" /\ r.file = f)
        BY <3>1, <3>3, <3>6 DEF PageSame
      <4>2. f \in DOMAIN proj.files \ DOMAIN saveRun.form.files
        BY <3>6, <4>1 DEF PageSame
      <4>3. QED
        BY <3>2, <4>1, <4>2
    <3>7. QED
      BY <3>4, <3>5, <3>6
  <2>7. QED
    BY <2>3, <2>4, <2>5, <2>6 DEF PageIInv
<1>5. QED
  BY <1>3, <1>4

LEMMA PageNextIInv == PageIInv /\ (Project!Next \/ UNCHANGED projectVars) => PageIInv'
<1> SUFFICES ASSUME PageIInv, Project!Next \/ UNCHANGED projectVars PROVE PageIInv'
  OBVIOUS
<1>1. PageTypeOK /\ proj \in PageCopies /\ proj.files \in PageFiles
  BY DEF PageIInv, PageTypeOK, PageCopies
<1>2. CASE \E c \in Composes : Project!Rewrite([proj EXCEPT !.compose = c])
  <2>1. \A c \in Composes : [proj EXCEPT !.compose = c] \in PageCopies
    BY <1>1 DEF PageCopies
  <2>2. QED
    BY <1>2, <2>1, PageRewriteStep
<1>3. CASE \E f \in Filenames : Project!Rewrite([proj EXCEPT !.files = Project!With(@, f, "theirs")])
  <2>1. ASSUME NEW f \in Filenames PROVE [proj EXCEPT !.files = Project!With(@, f, "theirs")] \in PageCopies
    <3>1. Project!With(proj.files, f, "theirs") \in PageFiles
      BY <1>1, PageWith DEF PageText
    <3>2. QED
      BY <1>1, <3>1 DEF PageCopies
  <2>2. QED
    BY <1>3, <2>1, PageRewriteStep
<1>4. CASE Project!SaveDone
  <2>1. /\ saveRun' = None /\ detailFetch' = proj
        /\ UNCHANGED <<proj, detail, fields, originalFiles, mode, visual, stale, tried, revised, failed, swept>>
    BY <1>4 DEF Project!SaveDone, Project!marks
  <2>2. PageTypeOK'
    BY <1>1, <2>1 DEF PageTypeOK
  <2>3. PageOriginInv' /\ PageFetchInv'
    BY <1>1, <2>1, ComposesAssumption DEF PageIInv, PageOriginInv, PageFetchInv
  <2>4. PageTodoInv' /\ PageSaveInv' /\ PageBuilderInv'
    BY <2>1 DEF PageIInv, PageTodoInv, PageSaveInv, PageBuilderInv
  <2>5. QED
    BY <2>2, <2>3, <2>4 DEF PageIInv
<1>5. CASE UNCHANGED projectVars
  <2>1. UNCHANGED <<proj, detail, detailFetch, fields, originalFiles, mode, visual, saveRun, stale, tried, revised,
                    failed, swept>>
    BY <1>5 DEF projectVars
  <2>2. PageTypeOK' /\ PageOriginInv' /\ PageFetchInv'
    BY <2>1 DEF PageIInv, PageTypeOK, PageOriginInv, PageFetchInv
  <2>3. PageTodoInv' /\ PageSaveInv' /\ PageBuilderInv'
    BY <2>1 DEF PageIInv, PageTodoInv, PageSaveInv, PageBuilderInv
  <2>4. QED
    BY <2>2, <2>3 DEF PageIInv
<1>6. QED
  BY <1>2, <1>3, <1>4, <1>5, PageFetchStep, PageEditStep, PageHandleSaveStep, PageSaveStep DEF Project!Next

LEMMA PageStaysInStep == PageIInv => Project!PageInStep
<1> SUFFICES ASSUME PageIInv PROVE Project!PageInStep
  OBVIOUS
<1>1. Project!SaveComplete
  <2> SUFFICES ASSUME saveRun # None, saveRun.todo = {}, saveRun.clean PROVE proj = saveRun.form
    BY DEF Project!SaveComplete
  <2>1. proj \in PageCopies /\ saveRun.form \in PageCopies
    BY DEF PageIInv, PageTypeOK, PageRun
  <2>2. /\ proj.compose = saveRun.form.compose
        /\ \A f \in DOMAIN saveRun.form.files : PageSame(proj.files, saveRun.form.files, f)
        /\ DOMAIN proj.files \subseteq DOMAIN saveRun.form.files
    BY DEF PageIInv, PageSaveInv
  <2>3. \A f \in Filenames : PageSame(proj.files, saveRun.form.files, f)
    BY <2>2 DEF PageSame
  <2>4. QED
    BY <2>1, <2>2, <2>3, PageEqual
<1>2. Project!DetailConverges
  BY DEF PageIInv, PageFetchInv, Project!DetailConverges
<1>3. Project!BuilderInStep
  BY DEF PageIInv, PageBuilderInv, Project!BuilderInStep
<1>4. QED
  BY <1>1, <1>2, <1>3 DEF Project!PageInStep

\* PageInStep: a save that gets through leaves the project as the form had it,
\* whatever attempts failed halfway before, the page converges, and the builder
\* shows the text that is saved (ProjectDetail).
THEOREM PageIsInStep == Spec => []PageInStep
<1> DEFINE Inv == page = "project" => PageIInv
<1>1. Init => Inv
  BY PageInitIInv DEF Init
<1>2. Inv /\ [Next]_vars => Inv'
  BY PageNextIInv, PageSteps
<1>3. Inv => PageInStep
  BY PageStaysInStep DEF PageInStep
<1>4. QED
  BY <1>1, <1>2, <1>3, PTL DEF Spec

-----------------------------------------------------------------------------
(***************************************************************************)
(* The page of a new project.                                              *)
(***************************************************************************)
NewText    == Typed \union {None}
NewMade    == [exists : BOOLEAN, compose : NewText, env : SUBSET Vars, files : [NewFiles -> NewText]]
NewRequest == [loop : 0 .. 2, at : Nat]
NewRun     == [draft : {d \in NewDraft : d.name \in NewNames}, todo : SUBSET NewRequest]

NewTypeOK ==
  /\ draft \in NewDraft /\ saving \in NewRun \union {New!NoSave} /\ made \in [NewNames -> NewMade]
  /\ whole \in NewDraft \union {None}

\* The request of the second loop for a file is answered, or there is none.
NewSent(i) == [loop |-> 2, at |-> i] \notin saving.todo

\* The other requests of a save are about the files that were not removed.
NewTodoInv ==
  saving # New!NoSave =>
    \A r \in saving.todo \ {New!Create} :
      r.loop \in {1, 2} /\ r.at \in DOMAIN saving.draft.files /\ ~saving.draft.files[r.at].toDelete

\* The first request of a save made the project.
NewCreatedInv ==
  saving # New!NoSave /\ New!Create \notin saving.todo =>
    LET p == made[saving.draft.name]
    IN  p.exists /\ p.compose = saving.draft.compose /\ p.env = saving.draft.env

\* A file is sent in the second loop when all before it were sent.
NewOrderInv ==
  saving # New!NoSave =>
    \A f \in NewFiles : \A i \in New!Last(saving.draft, f) :
      NewSent(i) => \A q \in saving.todo : q.loop = 2 /\ q.at > i

\* Of the files with one name the server has the last that was sent.
NewFilesInv ==
  saving # New!NoSave =>
    \A f \in NewFiles : \A i \in New!Last(saving.draft, f) :
      NewSent(i) /\ (\A j \in New!Last(saving.draft, f) : NewSent(j) => j <= i) =>
        made[saving.draft.name].files[f] = saving.draft.files[i].content

\* The page that said "Project created" is gone.
NewWholeInv == whole # None => saving = New!NoSave /\ ~shown /\ whole.name \in NewNames

\* No text was typed, but into files that were removed.
NewClean(d) ==
  /\ d.compose = None
  /\ \A i \in DOMAIN d.files : d.files[i].toDelete \/ (d.files[i].filename = None /\ d.files[i].content = None)

\* What was typed is marked, and the page is not left with marks unasked.
NewMarkedInv ==
  whole = None => /\ dirtyTabs = {} => NewClean(draft)
                  /\ ~shown /\ ~asked => dirtyTabs = {}

NewIInv ==
  /\ NewTypeOK /\ NewTodoInv /\ NewCreatedInv /\ NewOrderInv /\ NewFilesInv
  /\ NewWholeInv /\ NewMarkedInv /\ New!SavedWhole

LEMMA NewInitIInv == New!Init => NewIInv
<1> SUFFICES ASSUME New!Init PROVE NewIInv
  OBVIOUS
<1>1. /\ draft = New!Untouched /\ saving = New!NoSave /\ made \in [NewNames -> {New!NoProject}]
      /\ whole = None /\ shown = TRUE
  BY DEF New!Init
<1>2. New!Untouched \in NewDraft /\ NewClean(New!Untouched)
  BY DEF New!Untouched, NewDraft, NewClean
<1>3. New!NoProject \in NewMade
  BY DEF New!NoProject, NewMade, NewText
<1>4. NewTypeOK
  BY <1>1, <1>2, <1>3 DEF NewTypeOK
<1>5. QED
  BY <1>1, <1>2, <1>4
     DEF NewIInv, NewTodoInv, NewCreatedInv, NewOrderInv, NewFilesInv, NewWholeInv, NewMarkedInv, New!SavedWhole

\* A save that is under way has a form, and nothing was saved before.
LEMMA NewRunFacts ==
  ASSUME NewIInv, saving # New!NoSave
  PROVE  /\ saving \in NewRun /\ whole = None
         /\ saving.draft \in NewDraft /\ saving.draft.name \in NewNames /\ saving.draft.files \in Seq(NewFile)
         /\ saving.todo \subseteq NewRequest
BY DEF NewIInv, NewTypeOK, NewWholeInv, NewRun, NewDraft

LEMMA NewIdle == New!NoSave.todo = {} /\ New!NoSave.draft = None
BY DEF New!NoSave

\* A step that keeps the form, the save and the server.
LEMMA NewKeepStep ==
  ASSUME NewIInv, UNCHANGED <<draft, dirtyTabs, saving, made, whole>>,
         whole # None => ~shown', ~shown' /\ ~asked' /\ whole = None => dirtyTabs = {}
  PROVE  NewIInv'
<1>1. NewTypeOK' /\ NewCreatedInv' /\ NewWholeInv' /\ NewMarkedInv' /\ New!SavedWhole'
  BY DEF NewIInv, NewTypeOK, NewCreatedInv, NewWholeInv, NewMarkedInv, New!SavedWhole, New!Last
<1>2. NewTodoInv' /\ NewOrderInv' /\ NewFilesInv'
  BY DEF NewIInv, NewTodoInv, NewOrderInv, NewFilesInv, NewSent, New!Last
<1>3. QED
  BY <1>1, <1>2 DEF NewIInv

\* A field is changed.
LEMMA NewChangeStep ==
  ASSUME NewIInv, NEW d \in NewDraft, NEW tabs, NEW tab, New!Edit(d, tabs, tab),
         tabs = {} => dirtyTabs = {} /\ (NewClean(draft) => NewClean(d))
  PROVE  NewIInv'
<1>1. shown /\ draft' = d /\ dirtyTabs' = tabs /\ UNCHANGED <<saving, made, shown, asked, whole>>
  BY DEF New!Edit, New!Form, New!history
<1>2. whole = None /\ shown'
  BY <1>1 DEF NewIInv, NewWholeInv
<1>3. NewTypeOK' /\ NewCreatedInv' /\ NewWholeInv' /\ New!SavedWhole'
  BY <1>1, <1>2 DEF NewIInv, NewTypeOK, NewCreatedInv, NewWholeInv, New!SavedWhole
<1>4. NewTodoInv' /\ NewOrderInv' /\ NewFilesInv'
  BY <1>1 DEF NewIInv, NewTodoInv, NewOrderInv, NewFilesInv, NewSent, New!Last
<1>5. NewMarkedInv'
  BY <1>1, <1>2 DEF NewIInv, NewMarkedInv
<1>6. QED
  BY <1>3, <1>4, <1>5 DEF NewIInv

\* The fields of the form.
LEMMA NewFormStep ==
  ASSUME NewIInv,
         \/ \E n \in NewNames : New!TypeProjectName(n)
         \/ \E t \in Typed : New!ComposeTab(t)
         \/ \E e \in SUBSET Vars : New!SetEnv(e)
  PROVE  NewIInv'
<1>1. draft \in NewDraft
  BY DEF NewIInv, NewTypeOK
<1>2. ASSUME NEW n \in NewNames, New!TypeProjectName(n)
      PROVE  NewIInv'
  <2> DEFINE d == [draft EXCEPT !.name = n]
  <2>1. d \in NewDraft /\ d.compose = draft.compose /\ d.files = draft.files
    BY <1>1 DEF NewDraft
  <2>2. New!Edit(d, dirtyTabs, activeTab)
    BY <1>2 DEF New!TypeProjectName
  <2> HIDE DEF d
  <2>3. NewClean(draft) => NewClean(d)
    BY <2>1 DEF NewClean
  <2>4. QED
    BY <2>1, <2>2, <2>3, NewChangeStep
<1>3. ASSUME NEW t \in Typed, New!ComposeTab(t)
      PROVE  NewIInv'
  <2> DEFINE d == [draft EXCEPT !.compose = t]
  <2>1. d \in NewDraft
    BY <1>1 DEF NewDraft
  <2>2. New!Edit(d, New!markDirty(0), activeTab) /\ New!markDirty(0) # {}
    BY <1>3 DEF New!ComposeTab, New!markDirty
  <2> HIDE DEF d
  <2>3. QED
    BY <2>1, <2>2, NewChangeStep
<1>4. ASSUME NEW e \in SUBSET Vars, New!SetEnv(e)
      PROVE  NewIInv'
  <2> DEFINE d == [draft EXCEPT !.env = e]
  <2>1. d \in NewDraft /\ d.compose = draft.compose /\ d.files = draft.files
    BY <1>1 DEF NewDraft
  <2>2. New!Edit(d, dirtyTabs, activeTab)
    BY <1>4 DEF New!SetEnv
  <2> HIDE DEF d
  <2>3. NewClean(draft) => NewClean(d)
    BY <2>1 DEF NewClean
  <2>4. QED
    BY <2>1, <2>2, <2>3, NewChangeStep
<1>5. QED
  BY <1>2, <1>3, <1>4

\* The files of the form.
LEMMA NewFilesStep ==
  ASSUME NewIInv,
         \/ New!addFile
         \/ \E k \in 1 .. MaxFiles : New!removeFile(k)
         \/ \E g \in NewFiles, c \in Typed : New!FileTab(g, c)
  PROVE  NewIInv'
<1>1. draft \in NewDraft /\ draft.files \in Seq(NewFile)
  BY DEF NewIInv, NewTypeOK, NewDraft
<1>2. ASSUME NEW fs \in Seq(NewFile)
      PROVE  /\ [draft EXCEPT !.files = fs] \in NewDraft
             /\ [draft EXCEPT !.files = fs].files = fs
             /\ [draft EXCEPT !.files = fs].compose = draft.compose
  BY <1>1 DEF NewDraft
<1>3. CASE New!addFile
  <2> DEFINE file == [filename |-> None, content |-> None, toDelete |-> FALSE]
             fs   == Append(draft.files, file)
             d    == [draft EXCEPT !.files = fs]
  <2>1. New!Edit(d, dirtyTabs, Len(draft.files) + 1)
    BY <1>3 DEF New!addFile
  <2>2. file \in NewFile /\ file.filename = None /\ file.content = None
    BY DEF NewFile
  <2> HIDE DEF file
  <2>3. /\ fs \in Seq(NewFile) /\ DOMAIN fs = DOMAIN draft.files \union {Len(draft.files) + 1}
        /\ fs[Len(draft.files) + 1] = file
        /\ \A i \in DOMAIN draft.files : fs[i] = draft.files[i]
    BY <1>1, <2>2
  <2> HIDE DEF fs
  <2>4. d \in NewDraft /\ d.files = fs /\ d.compose = draft.compose
    BY <1>2, <2>3
  <2> HIDE DEF d
  <2>5. NewClean(draft) => NewClean(d)
    BY <2>2, <2>3, <2>4 DEF NewClean
  <2>6. QED
    BY <2>1, <2>4, <2>5, NewChangeStep
<1>4. ASSUME NEW k \in 1 .. MaxFiles, New!removeFile(k)
      PROVE  NewIInv'
  <2> DEFINE fs == [draft.files EXCEPT ![k] = [@ EXCEPT !.toDelete = TRUE]]
             d  == [draft EXCEPT !.files = fs]
             tab == IF activeTab = k THEN 0 ELSE activeTab
  <2>1. k \in DOMAIN draft.files /\ New!Edit(d, dirtyTabs, tab)
    BY <1>4 DEF New!removeFile
  <2>2. draft.files[k] \in NewFile
    BY <1>1, <2>1
  <2>3. [draft.files[k] EXCEPT !.toDelete = TRUE] \in NewFile /\ [draft.files[k] EXCEPT !.toDelete = TRUE].toDelete
    BY <2>2 DEF NewFile
  <2>4. /\ fs \in Seq(NewFile) /\ DOMAIN fs = DOMAIN draft.files /\ fs[k].toDelete
        /\ \A i \in DOMAIN draft.files : i # k => fs[i] = draft.files[i]
    BY <1>1, <2>1, <2>3
  <2> HIDE DEF fs, tab
  <2>5. d \in NewDraft /\ d.files = fs /\ d.compose = draft.compose
    BY <1>2, <2>4
  <2> HIDE DEF d
  <2>6. NewClean(draft) => NewClean(d)
    BY <2>4, <2>5 DEF NewClean
  <2>7. QED
    BY <2>1, <2>5, <2>6, NewChangeStep
<1>5. ASSUME NEW g \in NewFiles, NEW c \in Typed, New!FileTab(g, c)
      PROVE  NewIInv'
  <2>1. activeTab \in DOMAIN draft.files /\ draft.files[activeTab] \in NewFile
    BY <1>1, <1>5 DEF New!FileTab
  <2>2. ASSUME NEW file \in NewFile,
               New!Edit([draft EXCEPT !.files = [draft.files EXCEPT ![activeTab] = file]],
                        New!markDirty(activeTab), activeTab)
        PROVE  NewIInv'
    <3> DEFINE fs == [draft.files EXCEPT ![activeTab] = file]
               d  == [draft EXCEPT !.files = fs]
    <3>1. fs \in Seq(NewFile)
      BY <1>1, <2>1
    <3>2. d \in NewDraft
      BY <1>2, <3>1
    <3>3. New!markDirty(activeTab) # {}
      BY DEF New!markDirty
    <3> HIDE DEF d
    <3>4. New!Edit(d, New!markDirty(activeTab), activeTab)
      BY <2>2 DEF d
    <3>5. QED
      BY <3>2, <3>3, <3>4, NewChangeStep
  <2>3. /\ [draft.files[activeTab] EXCEPT !.filename = g] \in NewFile
        /\ [draft.files[activeTab] EXCEPT !.content = c] \in NewFile
    BY <2>1 DEF NewFile
  <2>4. QED
    BY <1>5, <2>2, <2>3 DEF New!FileTab
<1>6. QED
  BY <1>3, <1>4, <1>5

\* Save is clicked: no request is answered yet.
LEMMA NewHandleSaveStep ==
  ASSUME NewIInv, New!handleSave
  PROVE  NewIInv'
<1> DEFINE todo == New!Requests(draft)
<1>1. /\ shown /\ draft.name # None /\ saving' = [draft |-> draft, todo |-> todo]
      /\ UNCHANGED <<draft, dirtyTabs, made, shown, asked, whole>>
  BY DEF New!handleSave, New!Form
<1>2. draft \in NewDraft /\ draft.name \in NewNames /\ draft.files \in Seq(NewFile) /\ whole = None
  BY <1>1 DEF NewIInv, NewTypeOK, NewDraft, NewWholeInv
<1>3. New!Create \in todo /\ \A f \in NewFiles : \A i \in New!Last(draft, f) : [loop |-> 2, at |-> i] \in todo
  BY DEF New!Requests, New!Uploads, New!Last
<1>4. todo \subseteq NewRequest
  <2>1. DOMAIN draft.files \subseteq Nat
    BY <1>2
  <2>2. \A n \in {0, 1, 2}, i \in Nat : [loop |-> n, at |-> i] \in NewRequest
    BY DEF NewRequest
  <2>3. New!Create \in NewRequest
    BY <2>2 DEF New!Create
  <2>4. New!Uploads(1, draft) \subseteq NewRequest /\ New!Uploads(2, draft) \subseteq NewRequest
    BY <2>1, <2>2 DEF New!Uploads
  <2>5. QED
    BY <2>3, <2>4 DEF New!Requests
<1>5. \A r \in todo \ {New!Create} :
         r.loop \in {1, 2} /\ r.at \in DOMAIN draft.files /\ ~draft.files[r.at].toDelete
  BY DEF New!Requests, New!Uploads
<1> HIDE DEF todo
<1>6. saving' \in NewRun /\ saving'.draft = draft /\ saving'.todo = todo
  BY <1>1, <1>2, <1>4 DEF NewRun
<1>7. NewTypeOK'
  BY <1>1, <1>2, <1>6 DEF NewIInv, NewTypeOK
<1>8. NewTodoInv' /\ NewCreatedInv' /\ NewOrderInv' /\ NewFilesInv'
  BY <1>3, <1>5, <1>6 DEF NewTodoInv, NewCreatedInv, NewOrderInv, NewFilesInv, NewSent, New!Last
<1>9. NewWholeInv' /\ NewMarkedInv' /\ New!SavedWhole'
  BY <1>1, <1>2 DEF NewIInv, NewWholeInv, NewMarkedInv, New!SavedWhole
<1>10. QED
  BY <1>7, <1>8, <1>9 DEF NewIInv

\* What a request does to the project.
LEMMA NewApplied ==
  ASSUME NewIInv, saving # New!NoSave, NEW r \in saving.todo
  PROVE  LET d == saving.draft
             p == made[d.name]
             q == New!Applied(r)[d.name]
         IN  /\ New!Applied(r) \in [NewNames -> NewMade]
             /\ r = New!Create => q.exists /\ q.compose = d.compose /\ q.env = d.env
             /\ r # New!Create =>
                  /\ q.exists = p.exists /\ q.compose = p.compose /\ q.env = p.env
                  /\ \A f \in NewFiles : q.files[f] = IF f = d.files[r.at].filename THEN d.files[r.at].content
                                                      ELSE p.files[f]
<1> DEFINE d == saving.draft
           k == d.files[r.at]
           p == made[d.name]
<1>1. d \in NewDraft /\ d.name \in NewNames /\ made \in [NewNames -> NewMade] /\ p \in NewMade
  BY NewRunFacts DEF NewIInv, NewTypeOK
<1>2. CASE r = New!Create
  <2> DEFINE q == [exists |-> TRUE, compose |-> d.compose, env |-> d.env, files |-> [f \in NewFiles |-> None]]
  <2>1. q \in NewMade /\ q.exists /\ q.compose = d.compose /\ q.env = d.env
    BY <1>1 DEF NewMade, NewDraft, NewText
  <2>2. New!Applied(r) = [made EXCEPT ![d.name] = q]
    BY <1>2 DEF New!Applied
  <2> HIDE DEF d, q
  <2>3. New!Applied(r) \in [NewNames -> NewMade] /\ New!Applied(r)[d.name] = q
    BY <1>1, <2>1, <2>2
  <2>4. QED
    BY <1>2, <2>1, <2>3 DEF d
<1>3. CASE r # New!Create
  <2> DEFINE fs == [p.files EXCEPT ![k.filename] = k.content]
             q  == [p EXCEPT !.files = fs]
  <2>1. k \in NewFile
    BY <1>3, NewRunFacts DEF NewIInv, NewTodoInv
  <2>2. p.files \in [NewFiles -> NewText] /\ k.content \in NewText
    BY <1>1, <2>1 DEF NewMade, NewFile, NewText
  <2>3. New!Applied(r) = [made EXCEPT ![d.name] = q]
    BY <1>3 DEF New!Applied
  <2> HIDE DEF d, k
  <2>4. /\ fs \in [NewFiles -> NewText]
        /\ \A f \in NewFiles : fs[f] = IF f = k.filename THEN k.content ELSE p.files[f]
    BY <2>2
  <2> HIDE DEF fs
  <2>5. q \in NewMade /\ q.exists = p.exists /\ q.compose = p.compose /\ q.env = p.env /\ q.files = fs
    BY <1>1, <2>4 DEF NewMade
  <2> HIDE DEF q, p
  <2>6. New!Applied(r) \in [NewNames -> NewMade] /\ New!Applied(r)[d.name] = q
    BY <1>1, <2>3, <2>5
  <2>7. QED
    BY <1>3, <2>4, <2>5, <2>6 DEF d, k, p
<1>4. QED
  BY <1>2, <1>3

\* A request gets through.
LEMMA NewRequestStep ==
  ASSUME NewIInv, NEW r \in saving.todo, New!RequestDone(r)
  PROVE  NewIInv'
<1> DEFINE d == saving.draft
           p == made[d.name]
           q == made'[d.name]
<1>1. saving # New!NoSave
  BY NewIdle
<1>2. /\ New!Sent(r) /\ made' = New!Applied(r) /\ saving' = [saving EXCEPT !.todo = @ \ {r}]
      /\ UNCHANGED <<draft, dirtyTabs, shown, asked, whole>>
  BY DEF New!RequestDone, New!editor, New!history
<1>3. /\ saving \in NewRun /\ whole = None /\ d \in NewDraft /\ d.name \in NewNames /\ d.files \in Seq(NewFile)
      /\ saving.todo \subseteq NewRequest
  BY <1>1, NewRunFacts
<1>4. saving' \in NewRun /\ saving'.draft = d /\ saving'.todo = saving.todo \ {r}
  BY <1>2, <1>3 DEF NewRun
<1>5. /\ made' \in [NewNames -> NewMade]
      /\ r = New!Create => q.exists /\ q.compose = d.compose /\ q.env = d.env
      /\ r # New!Create =>
           /\ q.exists = p.exists /\ q.compose = p.compose /\ q.env = p.env
           /\ \A f \in NewFiles : q.files[f] = IF f = d.files[r.at].filename THEN d.files[r.at].content
                                               ELSE p.files[f]
  BY <1>1, <1>2, NewApplied
<1>6. r.loop \in 0 .. 2 /\ r.at \in Nat /\ (r = New!Create => r.loop = 0)
  BY <1>3 DEF NewRequest, New!Create
<1>7. NewTypeOK' /\ NewWholeInv' /\ NewMarkedInv' /\ New!SavedWhole'
  BY <1>2, <1>3, <1>4, <1>5 DEF NewIInv, NewTypeOK, NewWholeInv, NewMarkedInv, New!SavedWhole
<1>8. NewTodoInv'
  BY <1>1, <1>4 DEF NewIInv, NewTodoInv
<1>9. NewCreatedInv'
  <2> SUFFICES ASSUME New!Create \notin saving.todo \ {r}
               PROVE  q.exists /\ q.compose = d.compose /\ q.env = d.env
    BY <1>4 DEF NewCreatedInv
  <2>1. CASE r = New!Create
    BY <1>5, <2>1
  <2>2. CASE r # New!Create
    BY <1>1, <1>5, <2>2 DEF NewIInv, NewCreatedInv
  <2>3. QED
    BY <2>1, <2>2
\* Answered in the second loop now: all the requests left are later ones of it.
<1>10. \A s \in saving.todo \ {r} : r.loop = 2 => s.loop = 2 /\ s.at > r.at
  <2> SUFFICES ASSUME NEW s \in saving.todo \ {r}, r.loop = 2 PROVE s.loop = 2 /\ s.at > r.at
    OBVIOUS
  <2>1. /\ s.loop \in 0 .. 2 /\ s.at \in Nat
        /\ s = [loop |-> s.loop, at |-> s.at] /\ r = [loop |-> r.loop, at |-> r.at]
    BY <1>3 DEF NewRequest
  <2>2. r.loop < s.loop \/ (r.loop = s.loop /\ r.at <= s.at)
    BY <1>2 DEF New!Sent
  <2>3. s.loop = 2 /\ r.at <= s.at
    BY <2>1, <2>2
  <2>4. s.at # r.at
    BY <2>1, <2>3
  <2>5. QED
    BY <1>6, <2>1, <2>3, <2>4
\* Answered in the second loop before: then this is a later request of it.
<1>11. ASSUME NEW f \in NewFiles, NEW i \in New!Last(d, f), NewSent(i)
       PROVE  \A s \in saving.todo : s.loop = 2 /\ s.at > i
  BY <1>1, <1>11 DEF NewIInv, NewOrderInv
<1>12. ASSUME NEW i, [loop |-> 2, at |-> i] \notin saving.todo \ {r}
       PROVE  NewSent(i) \/ (r.loop = 2 /\ r.at = i)
  <2>1. NewSent(i) \/ r = [loop |-> 2, at |-> i]
    BY <1>12 DEF NewSent
  <2>2. QED
    BY <2>1
<1>13. NewOrderInv'
  <2> SUFFICES ASSUME NEW f \in NewFiles, NEW i \in New!Last(d, f), [loop |-> 2, at |-> i] \notin saving.todo \ {r},
                      NEW s \in saving.todo \ {r}
               PROVE  s.loop = 2 /\ s.at > i
    BY <1>4 DEF NewOrderInv, NewSent, New!Last
  <2>1. CASE NewSent(i)
    BY <1>11, <2>1
  <2>2. CASE r.loop = 2 /\ r.at = i
    BY <1>10, <2>2
  <2>3. QED
    BY <1>12, <2>1, <2>2
<1>14. NewFilesInv'
  <2> DEFINE Sent(i) == [loop |-> 2, at |-> i] \notin saving.todo \ {r}
  <2> SUFFICES ASSUME NEW f \in NewFiles, NEW i \in New!Last(d, f), Sent(i),
                      \A j \in New!Last(d, f) : Sent(j) => j <= i
               PROVE  q.files[f] = d.files[i].content
    BY <1>4 DEF NewFilesInv, NewSent, New!Last
  <2>1. i \in Nat /\ i \in DOMAIN d.files /\ d.files[i].filename = f
    BY <1>3 DEF New!Last
  <2>2. r.loop = 2
    BY <1>11, <1>12
  <2>3. r # New!Create /\ r.at \in DOMAIN d.files /\ ~d.files[r.at].toDelete
    BY <1>1, <1>6, <2>2 DEF NewIInv, NewTodoInv
  <2>4. Sent(r.at)
    <3>1. r = [loop |-> 2, at |-> r.at]
      BY <1>3, <2>2 DEF NewRequest
    <3>2. QED
      BY <3>1
  <2>5. CASE d.files[r.at].filename = f
    <3>1. r.at \in New!Last(d, f)
      BY <2>3, <2>5 DEF New!Last
    <3>2. r.at <= i
      BY <2>4, <3>1
    <3>3. r.at = i
      BY <1>6, <1>11, <1>12, <2>1, <3>2
    <3>4. QED
      BY <1>5, <2>3, <2>5, <3>3
  <2>6. CASE d.files[r.at].filename # f
    <3>1. NewSent(i)
      BY <1>12, <2>1, <2>6
    <3>2. \A j \in New!Last(d, f) : NewSent(j) => j <= i
      BY DEF NewSent
    <3>3. p.files[f] = d.files[i].content
      BY <1>1, <3>1, <3>2 DEF NewIInv, NewFilesInv
    <3>4. QED
      BY <1>5, <2>3, <2>6, <3>3
  <2>7. QED
    BY <2>5, <2>6
<1>15. QED
  BY <1>7, <1>8, <1>9, <1>13, <1>14 DEF NewIInv

\* All is sent.
LEMMA NewSaveDoneStep ==
  ASSUME NewIInv, New!SaveDone
  PROVE  NewIInv'
<1> DEFINE d == saving.draft
<1>1. /\ saving # New!NoSave /\ saving.todo = {} /\ saving' = New!NoSave /\ shown' = FALSE /\ whole' = d
      /\ UNCHANGED <<draft, made, asked>>
  BY DEF New!SaveDone
<1>2. d \in NewDraft /\ d.name \in NewNames /\ d # None
  BY <1>1, NewRunFacts, NewAssumption
<1>3. NewTypeOK' /\ NewWholeInv' /\ NewMarkedInv'
  BY <1>1, <1>2 DEF NewIInv, NewTypeOK, NewWholeInv, NewMarkedInv
<1>4. NewTodoInv' /\ NewCreatedInv' /\ NewOrderInv' /\ NewFilesInv'
  BY <1>1 DEF NewTodoInv, NewCreatedInv, NewOrderInv, NewFilesInv
<1>5. New!SavedWhole'
  <2>1. made[d.name].exists /\ made[d.name].compose = d.compose /\ made[d.name].env = d.env
    BY <1>1 DEF NewIInv, NewCreatedInv
  <2>2. \A f \in NewFiles : \A i \in New!Last(d, f) :
          (\A j \in New!Last(d, f) : j <= i) => made[d.name].files[f] = d.files[i].content
    BY <1>1 DEF NewIInv, NewFilesInv, NewSent
  <2>3. QED
    BY <1>1, <2>1, <2>2 DEF New!SavedWhole, New!Last
<1>6. QED
  BY <1>3, <1>4, <1>5 DEF NewIInv

\* A save ends early.
LEMMA NewStopStep ==
  ASSUME NewIInv, saving' = New!NoSave, made' \in {made} \union New!InFlight, whole = None,
         UNCHANGED <<draft, dirtyTabs, whole>>, ~shown' /\ ~asked' => dirtyTabs = {}
  PROVE  NewIInv'
<1>1. made' \in [NewNames -> NewMade]
  <2>1. made \in [NewNames -> NewMade]
    BY DEF NewIInv, NewTypeOK
  <2>2. ASSUME NEW r \in saving.todo PROVE New!Applied(r) \in [NewNames -> NewMade]
    BY NewIdle, NewApplied
  <2>3. QED
    BY <2>1, <2>2 DEF New!InFlight
<1>2. NewTypeOK' /\ NewWholeInv' /\ NewMarkedInv' /\ New!SavedWhole'
  BY <1>1 DEF NewIInv, NewTypeOK, NewWholeInv, NewMarkedInv, New!SavedWhole
<1>3. NewTodoInv' /\ NewCreatedInv' /\ NewOrderInv' /\ NewFilesInv'
  BY DEF NewTodoInv, NewCreatedInv, NewOrderInv, NewFilesInv
<1>4. QED
  BY <1>2, <1>3 DEF NewIInv

LEMMA NewNextIInv == NewIInv /\ (New!Next \/ UNCHANGED newVars) => NewIInv'
<1> SUFFICES ASSUME NewIInv, New!Next \/ UNCHANGED newVars PROVE NewIInv'
  OBVIOUS
<1>1. /\ whole # None => ~shown
      /\ ~shown /\ ~asked /\ whole = None => dirtyTabs = {}
  BY DEF NewIInv, NewWholeInv, NewMarkedInv
<1>2. CASE New!SaveFails
  <2>1. /\ saving.todo # {} /\ saving' = New!NoSave /\ made' \in {made} \union New!InFlight
        /\ UNCHANGED <<draft, dirtyTabs, shown, asked, whole>>
    BY <1>2 DEF New!SaveFails, New!editor, New!history
  <2>2. whole = None
    BY <2>1, NewIdle, NewRunFacts
  <2>3. QED
    BY <1>1, <2>1, <2>2, NewStopStep
<1>3. CASE New!beforeunload
  <2>1. /\ shown /\ saving' = New!NoSave /\ made' \in {made} \union New!InFlight
        /\ asked' = (asked \/ dirtyTabs # {}) /\ UNCHANGED <<draft, dirtyTabs, whole>>
    BY <1>3 DEF New!beforeunload, New!editor, New!hasUnsavedChanges
  <2>2. QED
    BY <1>1, <2>1, NewStopStep
<1>4. CASE New!guardedNavigate
  <2>1. /\ shown /\ (shown' \/ dirtyTabs = {}) /\ UNCHANGED <<draft, dirtyTabs, saving, made, asked, whole>>
    BY <1>4 DEF New!guardedNavigate, New!Form, New!editor, New!history, New!hasUnsavedChanges
  <2>2. QED
    BY <1>1, <2>1, NewKeepStep
<1>5. CASE \E leave \in BOOLEAN : New!ConfirmLeave(leave)
  <2>1. shown /\ (shown' \/ asked') /\ UNCHANGED <<draft, dirtyTabs, saving, made, whole>>
    BY <1>5 DEF New!ConfirmLeave, New!editor
  <2>2. QED
    BY <1>1, <2>1, NewKeepStep
<1>6. CASE \E t \in 0 .. MaxFiles : New!ShowTab(t)
  <2>1. UNCHANGED <<draft, dirtyTabs, saving, made, shown, asked, whole>>
    BY <1>6 DEF New!ShowTab, New!history
  <2>2. QED
    BY <1>1, <2>1, NewKeepStep
<1>7. CASE UNCHANGED newVars
  <2>1. UNCHANGED <<draft, dirtyTabs, saving, made, shown, asked, whole>>
    BY <1>7 DEF newVars
  <2>2. QED
    BY <1>1, <2>1, NewKeepStep
<1>8. QED
  BY <1>2, <1>3, <1>4, <1>5, <1>6, <1>7, NewFormStep, NewFilesStep, NewHandleSaveStep, NewRequestStep,
     NewSaveDoneStep DEF New!Next

\* CreatedOrKept: "Project created" is said of a project with the compose text,
\* the variables and every file of the form that was saved, whatever saves failed
\* before, and text that was typed is not lost without a question (ProjectEditor).
THEOREM NewProjectIsKept == Spec => []CreatedOrKept
<1> DEFINE Inv == page = "new" => NewIInv
<1>1. Init => Inv
  BY NewInitIInv DEF Init
<1>2. Inv /\ [Next]_vars => Inv'
  BY NewNextIInv, PageSteps
<1>3. NewIInv => New!CreatedOrKept
  BY DEF NewIInv, NewMarkedInv, NewClean, New!CreatedOrKept, New!NothingLost
<1>4. Inv => CreatedOrKept
  BY <1>3 DEF CreatedOrKept
<1>5. QED
  BY <1>1, <1>2, <1>4, PTL DEF Spec

-----------------------------------------------------------------------------
(***************************************************************************)
(* The pages that follow a stream.                                         *)
(***************************************************************************)
LivePath == [pane : Streams!Panes, window : Windows \union {None}, follow : BOOLEAN,
             filter : Kinds \union {None}]
LiveRun  == [dead : BOOLEAN, timer : BOOLEAN, path : LivePath \union {Streams!NoPath},
             ws : {"none", "connecting", "open", "closing", "closed"}, cursor : Nat \ {0}]
LiveLine == [kind : Kinds, window : Windows \union {None}]

LiveTypeOK ==
  /\ pane \in Streams!Panes \union {"none"} /\ window \in Windows /\ follow \in BOOLEAN
  /\ filter \in Kinds \union {None} /\ lines \in Seq(LiveLine) /\ source \in Seq(Kinds)
  /\ wsStatus \in {"connecting", "open", "closed"}
  /\ effect \in 0 .. MaxEffects /\ hook \in [Streams!Effects -> LiveRun]

\* A run of the effect that is over is dead and has neither a socket that can
\* speak nor a timer; one that is to come has nothing.
LiveRunsInv ==
  \A e \in Streams!Effects :
    /\ e < effect => hook[e].dead
    /\ e = effect => hook[e].dead = (pane = "none")
    /\ e > effect => ~hook[e].timer /\ hook[e].ws = "none"
    /\ hook[e].dead => ~hook[e].timer /\ hook[e].ws \notin Streams!Live

\* The latest run is of the path of the page, and the page says how it stands.
LiveLatestInv ==
  pane # "none" =>
    /\ effect \in Streams!Effects
    /\ hook[effect].path = Streams!wsPath(pane, window, follow, filter)
    /\ wsStatus = "closed" => hook[effect].timer
    /\ wsStatus = "open" => hook[effect].ws \in {"open", "closing"}
    /\ wsStatus = "connecting" => hook[effect].ws \in {"connecting", "closing"}

LiveIInv == LiveTypeOK /\ LiveRunsInv /\ LiveLatestInv /\ Streams!ShownOfOptions

\* What the invariant says of a socket that can speak, and of a timer.
LEMMA LiveSpeaks ==
  ASSUME LiveIInv, NEW e \in Streams!Effects, hook[e].ws \in Streams!Live \/ hook[e].timer
  PROVE  e = effect /\ pane # "none" /\ ~hook[e].dead
<1>1. ~hook[e].dead
  BY DEF LiveIInv, LiveRunsInv
<1>2. ~(e > effect)
  BY DEF LiveIInv, LiveRunsInv, Streams!Live
<1>3. ~(e < effect)
  BY <1>1 DEF LiveIInv, LiveRunsInv
<1>4. e \in Nat /\ effect \in Nat
  BY DEF LiveIInv, LiveTypeOK, Streams!Effects
<1>5. e = effect
  BY <1>2, <1>3, <1>4
<1>6. QED
  BY <1>1, <1>5 DEF LiveIInv, LiveRunsInv

LEMMA LiveInitIInv == Streams!Init => LiveIInv
<1> SUFFICES ASSUME Streams!Init PROVE LiveIInv
  OBVIOUS
<1>1. Streams!NoRun \in LiveRun
  BY DEF Streams!NoRun, LiveRun
<1>2. <<>> \in Seq(LiveLine) /\ <<>> \in Seq(Kinds)
  OBVIOUS
<1>3. LiveTypeOK
  BY <1>1, <1>2, MaxEffectsAssumption DEF Streams!Init, LiveTypeOK
<1>4. LiveRunsInv
  BY DEF Streams!Init, LiveRunsInv, Streams!NoRun, Streams!Effects, Streams!Live
<1>5. LiveLatestInv /\ Streams!ShownOfOptions
  BY DEF Streams!Init, LiveLatestInv, Streams!ShownOfOptions
<1>6. QED
  BY <1>3, <1>4, <1>5 DEF LiveIInv

\* A run starts with a socket that connects.
LEMMA LiveConnects ==
  ASSUME NEW path \in LivePath
  PROVE  LET run == Streams!connect([Streams!NoRun EXCEPT !.path = path])
         IN  run \in LiveRun /\ ~run.dead /\ ~run.timer /\ run.path = path /\ run.ws = "connecting"
<1> DEFINE a == [Streams!NoRun EXCEPT !.path = path]
<1>1. Streams!NoRun \in LiveRun /\ ~Streams!NoRun.dead
  BY DEF Streams!NoRun, LiveRun
<1>2. a \in LiveRun /\ ~a.dead /\ a.path = path
  BY <1>1 DEF LiveRun
<1> HIDE DEF a
<1>3. LET run == Streams!connect(a)
      IN  run \in LiveRun /\ ~run.dead /\ ~run.timer /\ run.path = path /\ run.ws = "connecting"
  BY <1>2 DEF Streams!connect, LiveRun
<1>4. QED
  BY <1>3 DEF a

\* The effect runs again, or is cleaned up when the page is left.
LEMMA LiveEffectStep ==
  ASSUME LiveIInv, pane' \in Streams!Panes \union {"none"}, window' \in Windows, follow' \in BOOLEAN,
         filter' \in Kinds \union {None}, lines' \in Seq(LiveLine), UNCHANGED source,
         Streams!useEffect(Streams!wsPath(pane', window', follow', filter')), Streams!ShownOfOptions'
  PROVE  LiveIInv'
<1> DEFINE path == Streams!wsPath(pane', window', follow', filter')
           cleaned == [e \in Streams!Effects |-> IF e = effect THEN Streams!Cleanup(hook[e]) ELSE hook[e]]
<1>1. path.pane = pane'
  BY DEF Streams!wsPath
<1>2. cleaned \in [Streams!Effects -> LiveRun]
  <2>1. \A run \in LiveRun : Streams!Cleanup(run) \in LiveRun
    BY DEF LiveRun, Streams!Cleanup
  <2>2. hook \in [Streams!Effects -> LiveRun]
    BY DEF LiveIInv, LiveTypeOK
  <2>3. QED
    BY <2>1, <2>2
<1>3. \A e \in Streams!Effects :
        /\ e <= effect => cleaned[e].dead /\ ~cleaned[e].timer /\ cleaned[e].ws \notin Streams!Live
        /\ e > effect => cleaned[e] = hook[e]
        /\ cleaned[e].dead => ~cleaned[e].timer /\ cleaned[e].ws \notin Streams!Live
  <2> SUFFICES ASSUME NEW e \in Streams!Effects
               PROVE  /\ e <= effect => cleaned[e].dead /\ ~cleaned[e].timer /\ cleaned[e].ws \notin Streams!Live
                      /\ e > effect => cleaned[e] = hook[e]
                      /\ cleaned[e].dead => ~cleaned[e].timer /\ cleaned[e].ws \notin Streams!Live
    OBVIOUS
  <2>1. CASE e = effect
    <3>1. hook[e] \in LiveRun /\ cleaned[e] = Streams!Cleanup(hook[e])
      BY <2>1 DEF LiveIInv, LiveTypeOK
    <3>2. cleaned[e].dead /\ ~cleaned[e].timer /\ cleaned[e].ws \notin Streams!Live
      BY <3>1 DEF LiveRun, Streams!Cleanup, Streams!Live
    <3>3. e \in Nat
      BY DEF Streams!Effects
    <3>4. QED
      BY <2>1, <3>2, <3>3
  <2>2. CASE e # effect
    <3>1. cleaned[e] = hook[e] /\ e \in Nat /\ effect \in Nat
      BY <2>2 DEF LiveIInv, LiveTypeOK, Streams!Effects
    <3>2. QED
      BY <2>2, <3>1 DEF LiveIInv, LiveRunsInv
  <2>3. QED
    BY <2>1, <2>2
<1>4. CASE pane' = "none"
  <2>1. hook' = cleaned /\ UNCHANGED <<effect, wsStatus>>
    BY <1>1, <1>4 DEF Streams!useEffect
  <2>2. LiveTypeOK'
    BY <1>2, <2>1 DEF LiveIInv, LiveTypeOK
  <2>3. ASSUME NEW e \in Streams!Effects
        PROVE  /\ e < effect => cleaned[e].dead
               /\ e = effect => cleaned[e].dead = TRUE
               /\ e > effect => ~cleaned[e].timer /\ cleaned[e].ws = "none"
               /\ cleaned[e].dead => ~cleaned[e].timer /\ cleaned[e].ws \notin Streams!Live
    <3>1. cleaned[e] \in LiveRun /\ e \in Nat /\ effect \in Nat
      BY <1>2 DEF LiveIInv, LiveTypeOK, Streams!Effects
    <3>2. cleaned[e].dead \in BOOLEAN
      BY <3>1 DEF LiveRun
    <3>3. QED
      BY <1>3, <3>1, <3>2 DEF LiveIInv, LiveRunsInv
  <2>4. LiveRunsInv'
    BY <1>4, <2>1, <2>3 DEF LiveRunsInv
  <2>5. QED
    BY <1>4, <2>2, <2>4 DEF LiveIInv, LiveLatestInv
<1>5. CASE pane' # "none"
  <2> DEFINE n == effect + 1
             run == Streams!connect([Streams!NoRun EXCEPT !.path = path])
  <2>1. /\ effect < MaxEffects /\ effect' = n /\ wsStatus' = "connecting"
        /\ hook' = [cleaned EXCEPT ![n] = run]
    BY <1>1, <1>5 DEF Streams!useEffect
  <2>2. n \in Streams!Effects /\ effect \in Nat
    BY <2>1, MaxEffectsAssumption DEF LiveIInv, LiveTypeOK, Streams!Effects
  <2>3. path \in LivePath
    BY <1>5 DEF Streams!wsPath, LivePath
  <2>4. run \in LiveRun /\ ~run.dead /\ ~run.timer /\ run.path = path /\ run.ws = "connecting"
    BY <2>3, LiveConnects
  <2>5. hook'[n] = run /\ \A e \in Streams!Effects : e # n => hook'[e] = cleaned[e]
    BY <2>1, <2>2
  <2>6. hook' \in [Streams!Effects -> LiveRun]
    BY <1>2, <2>1, <2>4
  <2>7. LiveTypeOK'
    BY <2>1, <2>2, <2>6 DEF LiveIInv, LiveTypeOK, Streams!Effects
  <2>8. ASSUME NEW e \in Streams!Effects
        PROVE  /\ e < n => hook'[e].dead
               /\ e = n => hook'[e].dead = FALSE
               /\ e > n => ~hook'[e].timer /\ hook'[e].ws = "none"
               /\ hook'[e].dead => ~hook'[e].timer /\ hook'[e].ws \notin Streams!Live
    <3>1. CASE e = n
      BY <2>2, <2>4, <2>5, <3>1
    <3>2. CASE e # n
      <4>1. hook'[e] = cleaned[e] /\ e \in Nat
        BY <2>5, <3>2 DEF Streams!Effects
      <4>2. e > n => cleaned[e] = hook[e] /\ e > effect
        BY <2>2, <4>1
      <4>3. e < n => e <= effect
        BY <2>2, <4>1
      <4>4. QED
        BY <1>3, <3>2, <4>1, <4>2, <4>3 DEF LiveIInv, LiveRunsInv
    <3>3. QED
      BY <3>1, <3>2
  <2>9. LiveRunsInv'
    BY <1>5, <2>1, <2>8 DEF LiveRunsInv
  <2>10. LiveLatestInv'
    BY <2>1, <2>2, <2>4, <2>5 DEF LiveLatestInv
  <2>11. QED
    BY <2>7, <2>9, <2>10 DEF LiveIInv
<1>6. QED
  BY <1>4, <1>5

\* How the page says that a run stands.
LiveStands(h, s) ==
  /\ s = "closed" => h.timer
  /\ s = "open" => h.ws \in {"open", "closing"}
  /\ s = "connecting" => h.ws \in {"connecting", "closing"}

\* An event of one socket, or its timer.
LEMMA LiveRunStep ==
  ASSUME LiveIInv, NEW e \in Streams!Effects, NEW h \in LiveRun, hook' = [hook EXCEPT ![e] = h],
         h.path = hook[e].path, h.dead = hook[e].dead,
         h.dead => ~h.timer /\ h.ws \notin Streams!Live,
         ~(e > effect),
         UNCHANGED <<pane, window, follow, filter, source, effect>>,
         lines' \in Seq(LiveLine), Streams!ShownOfOptions',
         wsStatus' \in {"connecting", "open", "closed"},
         e = effect /\ pane # "none" => LiveStands(h, wsStatus'),
         e # effect => wsStatus' = wsStatus
  PROVE  LiveIInv'
<1>1. hook'[e] = h /\ \A d \in Streams!Effects : d # e => hook'[d] = hook[d]
  BY DEF LiveIInv, LiveTypeOK
<1>2. LiveTypeOK'
  BY DEF LiveIInv, LiveTypeOK
<1>3. LiveRunsInv'
  <2> SUFFICES ASSUME NEW d \in Streams!Effects
               PROVE  /\ d < effect => hook'[d].dead
                      /\ d = effect => hook'[d].dead = (pane = "none")
                      /\ d > effect => ~hook'[d].timer /\ hook'[d].ws = "none"
                      /\ hook'[d].dead => ~hook'[d].timer /\ hook'[d].ws \notin Streams!Live
    BY DEF LiveRunsInv
  <2>1. CASE d = e
    BY <1>1, <2>1 DEF LiveIInv, LiveRunsInv
  <2>2. CASE d # e
    BY <1>1, <2>2 DEF LiveIInv, LiveRunsInv
  <2>3. QED
    BY <2>1, <2>2
<1>4. LiveLatestInv'
  <2> SUFFICES ASSUME pane # "none"
               PROVE  /\ effect \in Streams!Effects
                      /\ hook'[effect].path = Streams!wsPath(pane, window, follow, filter)
                      /\ LiveStands(hook'[effect], wsStatus')
    BY DEF LiveLatestInv, LiveStands
  <2>1. /\ effect \in Streams!Effects
        /\ hook[effect].path = Streams!wsPath(pane, window, follow, filter)
        /\ LiveStands(hook[effect], wsStatus)
    BY DEF LiveIInv, LiveLatestInv, LiveStands
  <2>2. CASE e = effect
    BY <1>1, <2>1, <2>2
  <2>3. CASE e # effect
    BY <1>1, <2>1, <2>3
  <2>4. QED
    BY <2>2, <2>3
<1>5. QED
  BY <1>2, <1>3, <1>4 DEF LiveIInv

\* A new line is of the window of its stream, and the lines before stay.
LEMMA LiveAppended ==
  ASSUME LiveIInv, NEW l \in LiveLine
  PROVE  /\ Streams!Appended(l) \in Seq(LiveLine)
         /\ \A i \in DOMAIN Streams!Appended(l) :
              Streams!Appended(l)[i] = l \/ \E j \in DOMAIN lines : Streams!Appended(l)[i] = lines[j]
<1> DEFINE kept == IF Len(lines) > Keep THEN Tail(lines) ELSE lines
           next == Append(kept, l)
           Old(s) == /\ s \in Seq(LiveLine)
                     /\ \A i \in DOMAIN s : s[i] = l \/ \E j \in DOMAIN lines : s[i] = lines[j]
<1>1. lines \in Seq(LiveLine)
  BY DEF LiveIInv, LiveTypeOK
<1>2. ASSUME NEW s \in Seq(LiveLine), Old(s) PROVE Old(Append(s, l))
  <2>1. Append(s, l) \in Seq(LiveLine) /\ DOMAIN Append(s, l) = 1 .. Len(s) + 1 /\ DOMAIN s = 1 .. Len(s)
    OBVIOUS
  <2>2. Append(s, l)[Len(s) + 1] = l /\ \A i \in 1 .. Len(s) : Append(s, l)[i] = s[i]
    OBVIOUS
  <2>3. ASSUME NEW i \in DOMAIN Append(s, l)
        PROVE  Append(s, l)[i] = l \/ \E j \in DOMAIN lines : Append(s, l)[i] = lines[j]
    <3>1. i = Len(s) + 1 \/ i \in 1 .. Len(s)
      BY <2>1
    <3>2. QED
      BY <1>2, <2>1, <2>2, <3>1
  <2>4. QED
    BY <2>1, <2>3
<1>3. ASSUME NEW s \in Seq(LiveLine), Old(s), s # <<>> PROVE Old(Tail(s))
  <2>1. /\ Tail(s) \in Seq(LiveLine) /\ DOMAIN Tail(s) = 1 .. Len(s) - 1 /\ DOMAIN s = 1 .. Len(s)
        /\ \A i \in 1 .. Len(s) - 1 : Tail(s)[i] = s[i + 1]
    BY <1>3
  <2>2. \A i \in 1 .. Len(s) - 1 : i + 1 \in 1 .. Len(s)
    OBVIOUS
  <2>3. QED
    BY <1>3, <2>1, <2>2
<1>4. Old(lines)
  BY <1>1
<1>5. Len(lines) > Keep => lines # <<>>
  BY <1>1, KeepAssumption
<1>6. kept \in Seq(LiveLine) /\ Old(kept)
  <2>1. CASE Len(lines) > Keep
    <3>1. kept = Tail(lines)
      BY <2>1
    <3> HIDE DEF kept
    <3>2. QED
      BY <1>1, <1>3, <1>4, <1>5, <2>1, <3>1
  <2>2. CASE ~(Len(lines) > Keep)
    BY <1>1, <1>4, <2>2
  <2>3. QED
    BY <2>1, <2>2
<1> HIDE DEF kept
<1>7. Old(next) /\ next \in Seq(LiveLine) /\ next # <<>>
  BY <1>2, <1>6
<1> HIDE DEF next
<1>8. Old(Tail(next))
  BY <1>3, <1>7
<1>9. Streams!Appended(l) = next \/ Streams!Appended(l) = Tail(next)
  BY DEF Streams!Appended, next, kept
<1>10. QED
  BY <1>7, <1>8, <1>9

LEMMA LiveSocketStep ==
  ASSUME LiveIInv, NEW e \in Streams!Effects,
         \/ Streams!onopen(e) \/ Streams!onmessage(e) \/ Streams!Lose(e) \/ Streams!onclose(e)
         \/ Streams!TimerFires(e)
  PROVE  LiveIInv'
<1>1. hook[e] \in LiveRun /\ hook \in [Streams!Effects -> LiveRun]
  BY DEF LiveIInv, LiveTypeOK
<1>2. LiveTypeOK /\ lines \in Seq(LiveLine) /\ wsStatus \in {"connecting", "open", "closed"}
  BY DEF LiveIInv, LiveTypeOK
<1>3. e = effect /\ pane # "none" => LiveStands(hook[e], wsStatus)
  BY DEF LiveIInv, LiveLatestInv, LiveStands
<1>4. hook[e].ws # "none" \/ hook[e].timer => ~(e > effect)
  BY DEF LiveIInv, LiveRunsInv
<1>5. hook[e].dead => ~hook[e].timer /\ hook[e].ws \notin Streams!Live
  BY DEF LiveIInv, LiveRunsInv
<1>6. CASE Streams!onopen(e)
  <2>1. PICK c \in 1 .. Len(source) + 1 : hook' = [hook EXCEPT ![e].ws = "open", ![e].cursor = c]
    BY <1>6 DEF Streams!onopen
  <2> DEFINE h == [hook[e] EXCEPT !.ws = "open", !.cursor = c]
  <2>2. c \in Nat \ {0}
    BY <1>2 DEF LiveTypeOK
  <2>3. hook' = [hook EXCEPT ![e] = h]
    BY <1>1, <2>1
  <2>4. h \in LiveRun /\ h.path = hook[e].path /\ h.dead = hook[e].dead /\ h.ws = "open"
    BY <1>1, <2>2 DEF LiveRun
  <2> HIDE DEF h
  <2>5. e = effect /\ pane # "none" /\ ~hook[e].dead
    BY <1>6, LiveSpeaks DEF Streams!onopen, Streams!Live
  <2>6. /\ UNCHANGED <<pane, window, follow, filter, source, effect, lines>> /\ wsStatus' = "open"
        /\ hook[e].ws = "connecting"
    BY <1>6 DEF Streams!onopen, Streams!options
  <2>7. Streams!ShownOfOptions'
    BY <2>6 DEF LiveIInv, Streams!ShownOfOptions
  <2>8. QED
    BY <1>2, <1>4, <2>3, <2>4, <2>5, <2>6, <2>7, LiveRunStep DEF LiveStands
<1>7. CASE Streams!onmessage(e)
  <2> DEFINE h == [hook[e] EXCEPT !.cursor = @ + 1]
             l == [kind |-> source[hook[e].cursor], window |-> hook[e].path.window]
  <2>1. /\ hook' = [hook EXCEPT ![e] = h]
        /\ hook[e].ws = "open" /\ hook[e].cursor <= Len(source)
        /\ UNCHANGED <<pane, window, follow, filter, source, effect, wsStatus>>
        /\ lines' = Streams!Appended(l) \/ lines' = lines
    BY <1>1, <1>7 DEF Streams!onmessage, Streams!options
  <2>2. e = effect /\ pane # "none" /\ ~hook[e].dead
    BY <2>1, LiveSpeaks DEF Streams!Live
  <2>3. h \in LiveRun /\ h.path = hook[e].path /\ h.dead = hook[e].dead /\ h.ws = "open" /\ h.timer = hook[e].timer
    <3>1. hook[e].cursor + 1 \in Nat \ {0}
      BY <1>1 DEF LiveRun
    <3>2. \A run \in LiveRun, n \in Nat \ {0} : [run EXCEPT !.cursor = n] \in LiveRun
      BY DEF LiveRun
    <3>3. h \in LiveRun
      BY <1>1, <3>1, <3>2
    <3>4. QED
      BY <1>1, <2>1, <3>3 DEF LiveRun
  <2>4. hook[e].path = Streams!wsPath(pane, window, follow, filter)
    BY <2>2 DEF LiveIInv, LiveLatestInv
  <2> HIDE DEF h
  <2>5. hook[e].path.window = IF pane = "project" THEN window ELSE None
    BY <2>4 DEF Streams!wsPath
  <2>6. CASE lines' = lines
    <3>1. Streams!ShownOfOptions'
      BY <2>1, <2>6 DEF LiveIInv, Streams!ShownOfOptions
    <3>2. LiveStands(h, wsStatus')
      BY <1>3, <2>1, <2>2, <2>3 DEF LiveStands
    <3>3. QED
      BY <1>2, <1>4, <2>1, <2>2, <2>3, <2>6, <3>1, <3>2, LiveRunStep
  <2>7. CASE lines' = Streams!Appended(l)
    <3>1. l \in LiveLine
      <4>1. hook[e].cursor \in 1 .. Len(source)
        BY <1>1, <1>2, <2>1 DEF LiveRun, LiveTypeOK
      <4>2. source[hook[e].cursor] \in Kinds
        BY <1>2, <4>1 DEF LiveTypeOK
      <4>3. QED
        BY <1>2, <2>5, <4>2 DEF LiveLine, LiveTypeOK
    <3>2. Streams!ShownOfOptions'
      <4> SUFFICES ASSUME pane = "project", NEW i \in DOMAIN Streams!Appended(l)
                   PROVE  Streams!Appended(l)[i].window = window
        BY <2>1, <2>7 DEF Streams!ShownOfOptions
      <4>1. l.window = window
        BY <2>5
      <4> HIDE DEF l
      <4>2. Streams!Appended(l)[i] = l \/ \E j \in DOMAIN lines : Streams!Appended(l)[i] = lines[j]
        BY <3>1, LiveAppended
      <4>3. QED
        BY <4>1, <4>2 DEF LiveIInv, Streams!ShownOfOptions
    <3>3. lines' \in Seq(LiveLine)
      BY <2>7, <3>1, LiveAppended
    <3>4. LiveStands(h, wsStatus')
      BY <1>3, <2>1, <2>2, <2>3 DEF LiveStands
    <3>5. QED
      BY <1>2, <1>4, <2>1, <2>2, <2>3, <3>2, <3>3, <3>4, LiveRunStep
  <2>8. QED
    BY <2>1, <2>6, <2>7
<1>8. CASE Streams!Lose(e)
  <2> DEFINE h == [hook[e] EXCEPT !.ws = "closing"]
  <2>1. /\ hook' = [hook EXCEPT ![e] = h] /\ hook[e].ws \in Streams!Live
        /\ UNCHANGED <<pane, window, follow, filter, source, effect, lines, wsStatus>>
    BY <1>1, <1>8 DEF Streams!Lose, Streams!options
  <2>2. e = effect /\ pane # "none" /\ ~hook[e].dead
    BY <2>1, LiveSpeaks
  <2>3. h \in LiveRun /\ h.path = hook[e].path /\ h.dead = hook[e].dead /\ h.ws = "closing" /\ h.timer = hook[e].timer
    BY <1>1 DEF LiveRun
  <2> HIDE DEF h
  <2>4. Streams!ShownOfOptions'
    BY <2>1 DEF LiveIInv, Streams!ShownOfOptions
  <2>5. LiveStands(h, wsStatus')
    BY <1>3, <2>1, <2>2, <2>3 DEF LiveStands
  <2>6. ~(e > effect)
    BY <1>4, <2>1 DEF Streams!Live
  <2>7. QED
    BY <1>2, <2>1, <2>2, <2>3, <2>4, <2>5, <2>6, LiveRunStep
<1>9. CASE Streams!onclose(e)
  <2> DEFINE h == [hook[e] EXCEPT !.ws = "closed", !.timer = ~hook[e].dead]
  <2>1. /\ hook' = [hook EXCEPT ![e] = h] /\ hook[e].ws = "closing"
        /\ UNCHANGED <<pane, window, follow, filter, source, effect, lines>>
        /\ wsStatus' = IF hook[e].dead THEN wsStatus ELSE "closed"
    BY <1>1, <1>9 DEF Streams!onclose, Streams!options
  <2>2. h \in LiveRun /\ h.path = hook[e].path /\ h.dead = hook[e].dead /\ h.ws = "closed" /\ h.timer = ~hook[e].dead
    BY <1>1 DEF LiveRun
  <2> HIDE DEF h
  <2>3. Streams!ShownOfOptions'
    BY <2>1 DEF LiveIInv, Streams!ShownOfOptions
  <2>4. ~(e > effect)
    BY <1>4, <2>1
  <2>5. e = effect => hook[e].dead = (pane = "none")
    BY DEF LiveIInv, LiveRunsInv
  <2>6. e # effect => hook[e].dead
    <3>1. e \in Nat /\ effect \in Nat
      BY <1>2 DEF LiveTypeOK, Streams!Effects
    <3>2. QED
      BY <2>4, <3>1 DEF LiveIInv, LiveRunsInv
  <2>7. e = effect /\ pane # "none" => LiveStands(h, wsStatus')
    BY <2>1, <2>2, <2>5 DEF LiveStands
  <2>8. h.dead => ~h.timer /\ h.ws \notin Streams!Live
    BY <2>2 DEF Streams!Live
  <2>9. QED
    BY <1>2, <2>1, <2>2, <2>3, <2>4, <2>6, <2>7, <2>8, LiveRunStep
<1>10. CASE Streams!TimerFires(e)
  <2>1. e = effect /\ pane # "none" /\ ~hook[e].dead
    BY <1>10, LiveSpeaks DEF Streams!TimerFires
  <2> DEFINE h == Streams!connect(hook[e])
  <2>2. /\ hook' = [hook EXCEPT ![e] = h] /\ wsStatus' = "connecting" /\ hook[e].timer
        /\ UNCHANGED <<pane, window, follow, filter, source, effect, lines>>
    BY <1>1, <1>10, <2>1 DEF Streams!TimerFires, Streams!options
  <2>3. h \in LiveRun /\ h.path = hook[e].path /\ h.dead = hook[e].dead /\ h.ws = "connecting"
    BY <1>1 DEF LiveRun, Streams!connect
  <2> HIDE DEF h
  <2>4. Streams!ShownOfOptions'
    BY <2>2 DEF LiveIInv, Streams!ShownOfOptions
  <2>5. QED
    BY <1>2, <1>4, <2>1, <2>2, <2>3, <2>4, LiveRunStep DEF LiveStands
<1>11. QED
  BY <1>6, <1>7, <1>8, <1>9, <1>10

\* Lines are taken away, nothing else changes but what is not in the invariant.
LEMMA LiveLinesStep ==
  ASSUME LiveIInv, UNCHANGED <<pane, window, follow, filter, wsStatus, effect, hook>>, source' \in Seq(Kinds),
         lines' \in Seq(LiveLine),
         \A i \in DOMAIN lines' : \E j \in DOMAIN lines : lines'[i] = lines[j]
  PROVE  LiveIInv'
<1>1. LiveTypeOK'
  BY DEF LiveIInv, LiveTypeOK
<1>2. LiveRunsInv' /\ LiveLatestInv'
  BY DEF LiveIInv, LiveRunsInv, LiveLatestInv
<1>3. Streams!ShownOfOptions'
  BY DEF LiveIInv, Streams!ShownOfOptions
<1>4. QED
  BY <1>1, <1>2, <1>3 DEF LiveIInv

LEMMA LiveFilterStep ==
  ASSUME LiveIInv, pane # "project", NEW f \in Kinds \union {None}, Streams!SetFilter(f)
  PROVE  LiveIInv'
<1>1. filter' = f /\ UNCHANGED <<pane, window, follow, lines, source>>
  BY DEF Streams!SetFilter
<1>2. Streams!useEffect(Streams!wsPath(pane', window', follow', filter'))
  BY <1>1 DEF Streams!SetFilter
<1>3. Streams!ShownOfOptions'
  BY <1>1 DEF Streams!ShownOfOptions
<1>4. QED
  BY <1>1, <1>2, <1>3, LiveEffectStep DEF LiveIInv, LiveTypeOK

LEMMA LiveGoToStep ==
  ASSUME LiveIInv, NEW p \in Streams!Panes \union {"none"}, Streams!GoTo(p)
  PROVE  LiveIInv'
<1>1. pane' = p /\ window' \in Windows /\ follow' = TRUE /\ filter' = None /\ lines' = <<>> /\ UNCHANGED source
  BY DEF Streams!GoTo
<1>2. Streams!useEffect(Streams!wsPath(pane', window', follow', filter'))
  BY <1>1 DEF Streams!GoTo
<1>3. Streams!ShownOfOptions'
  BY <1>1 DEF Streams!ShownOfOptions
<1>4. QED
  BY <1>1, <1>2, <1>3, LiveEffectStep

\* The options of the log of a project, and the lines that are cleared.
LEMMA LiveProjectStep ==
  ASSUME LiveIInv, Streams!ProjectLogs
  PROVE  LiveIInv'
<1>1. LiveTypeOK /\ lines \in Seq(LiveLine)
  BY DEF LiveIInv, LiveTypeOK
<1>2. CASE \E w \in Windows : Streams!SetWindow(w)
  <2>1. PICK w \in Windows : Streams!SetWindow(w)
    BY <1>2
  <2>2. window' = w /\ lines' = <<>> /\ UNCHANGED <<pane, follow, filter, source>>
    BY <2>1 DEF Streams!SetWindow
  <2>3. Streams!useEffect(Streams!wsPath(pane', window', follow', filter'))
    BY <2>1, <2>2 DEF Streams!SetWindow
  <2>4. Streams!ShownOfOptions'
    BY <2>2 DEF Streams!ShownOfOptions
  <2>5. QED
    BY <1>1, <2>2, <2>3, <2>4, LiveEffectStep DEF LiveTypeOK
<1>3. CASE Streams!ToggleFollow
  <2>1. follow' = ~follow /\ UNCHANGED <<pane, window, filter, lines, source>>
    BY <1>3 DEF Streams!ToggleFollow
  <2>2. Streams!useEffect(Streams!wsPath(pane', window', follow', filter'))
    BY <1>3, <2>1 DEF Streams!ToggleFollow
  <2>3. Streams!ShownOfOptions'
    BY <2>1 DEF LiveIInv, Streams!ShownOfOptions
  <2>4. QED
    BY <1>1, <2>1, <2>2, <2>3, LiveEffectStep DEF LiveTypeOK
<1>4. CASE Streams!clearLogs
  <2> DEFINE keep == {i \in DOMAIN lines : selectedService # None /\ lines[i].kind # selectedService}
  <2>1. PICK p \in Streams!Filtered(lines, keep) : lines' = [i \in DOMAIN p |-> lines[p[i]]]
    BY <1>4 DEF Streams!clearLogs
  <2>2. PICK n \in 0 .. Len(lines) : p \in [1 .. n -> keep]
    BY DEF Streams!Filtered
  <2>3. \A i \in 1 .. n : p[i] \in DOMAIN lines /\ lines[p[i]] \in LiveLine
    BY <1>1, <2>2
  <2>4. n \in Nat
    BY <1>1
  <2>5. lines' = [i \in 1 .. n |-> lines[p[i]]]
    BY <2>1, <2>2
  <2>6. lines' \in Seq(LiveLine)
    BY <2>3, <2>4, <2>5
  <2>7. \A i \in DOMAIN lines' : \E j \in DOMAIN lines : lines'[i] = lines[j]
    BY <2>3, <2>5
  <2>8. UNCHANGED <<pane, window, follow, filter, wsStatus, effect, hook, source>>
    BY <1>4 DEF Streams!clearLogs, Streams!options
  <2>9. QED
    BY <1>1, <2>6, <2>7, <2>8, LiveLinesStep DEF LiveTypeOK
<1>5. CASE \E s : Streams!SelectService(s)
  <2>1. UNCHANGED <<pane, window, follow, filter, wsStatus, effect, hook, source, lines>>
    BY <1>5 DEF Streams!SelectService, Streams!options
  <2>2. QED
    BY <1>1, <2>1, LiveLinesStep DEF LiveTypeOK
<1>6. QED
  BY <1>2, <1>3, <1>4, <1>5 DEF Streams!ProjectLogs

LEMMA LiveNextIInv == LiveIInv /\ (Streams!Next \/ UNCHANGED liveVars) => LiveIInv'
<1> SUFFICES ASSUME LiveIInv, Streams!Next \/ UNCHANGED liveVars PROVE LiveIInv'
  OBVIOUS
<1>1. LiveTypeOK /\ lines \in Seq(LiveLine) /\ source \in Seq(Kinds)
  BY DEF LiveIInv, LiveTypeOK
<1>2. CASE Streams!TogglePause \/ UNCHANGED liveVars
  <2>1. UNCHANGED <<pane, window, follow, filter, wsStatus, effect, hook, source, lines>>
    BY <1>2 DEF Streams!TogglePause, Streams!options, liveVars
  <2>2. QED
    BY <1>1, <2>1, LiveLinesStep
<1>3. CASE Streams!Clear
  <2>1. UNCHANGED <<pane, window, follow, filter, wsStatus, effect, hook, source>> /\ lines' = <<>>
    BY <1>3 DEF Streams!Clear, Streams!options
  <2>2. QED
    BY <1>1, <2>1, LiveLinesStep
<1>4. CASE pane # "project" /\ \E f \in Kinds \union {None} : Streams!SetFilter(f)
  BY <1>4, LiveFilterStep
<1>5. CASE \E k \in Kinds : Streams!Emit(k)
  <2>1. /\ UNCHANGED <<pane, window, follow, filter, wsStatus, effect, hook, lines>>
        /\ \E k \in Kinds : source' = Append(source, k)
    BY <1>5 DEF Streams!Emit, Streams!options
  <2>2. QED
    BY <1>1, <2>1, LiveLinesStep
<1>6. CASE \E p \in Streams!Panes \union {"none"} : Streams!GoTo(p)
  BY <1>6, LiveGoToStep
<1>7. CASE Streams!ServerLogs
  BY <1>2, <1>3, <1>7 DEF Streams!ServerLogs
<1>8. CASE Streams!JournalLogs
  BY <1>2, <1>3, <1>4, <1>8 DEF Streams!JournalLogs
<1>9. CASE Streams!Events
  <2>1. ASSUME NEW i \in DOMAIN lines PROVE lines[i].kind \in Kinds
    <3>1. lines[i] \in LiveLine
      BY <1>1
    <3>2. QED
      BY <3>1 DEF LiveLine
  <2>2. QED
    BY <1>2, <1>3, <1>4, <1>9, <2>1 DEF Streams!Events
<1>10. CASE Streams!Logs
  BY <1>6, <1>10 DEF Streams!Logs, Streams!Panes
<1>11. QED
  BY <1>2, <1>5, <1>6, <1>7, <1>8, <1>9, <1>10, LiveSocketStep, LiveProjectStep DEF Streams!Next

LEMMA LiveFollows == LiveIInv => Streams!StreamFollowed
<1> SUFFICES ASSUME LiveIInv PROVE Streams!StreamFollowed
  OBVIOUS
<1>1. Streams!OneConnection
  BY LiveSpeaks DEF Streams!OneConnection
<1>2. Streams!NotLeftClosed
  <2> SUFFICES ASSUME pane # "none"
               PROVE  CASE wsStatus = "closed"     -> hook[effect].timer
                        [] wsStatus = "open"       -> hook[effect].ws \in {"open", "closing"}
                        [] wsStatus = "connecting" -> hook[effect].ws \in {"connecting", "closing"}
    BY DEF Streams!NotLeftClosed
  <2>1. effect \in Streams!Effects /\ wsStatus \in {"connecting", "open", "closed"} /\ hook[effect].timer \in BOOLEAN
    BY DEF LiveIInv, LiveLatestInv, LiveTypeOK, LiveRun
  <2>2. CASE wsStatus = "closed"
    BY <2>2 DEF LiveIInv, LiveLatestInv
  <2>3. CASE wsStatus = "open"
    BY <2>3 DEF LiveIInv, LiveLatestInv
  <2>4. CASE wsStatus = "connecting"
    BY <2>4 DEF LiveIInv, LiveLatestInv
  <2>5. QED
    BY <2>1, <2>2, <2>3, <2>4
<1>3. QED
  BY <1>1, <1>2 DEF LiveIInv, Streams!StreamFollowed

\* StreamFollowed: only the latest run of the effect has a socket or waits for
\* one, a stream that ended is asked for again, and the lines of a project's log
\* are those of its options (useWebSocket, ProjectLogs).
THEOREM StreamsAreFollowed == Spec => []StreamFollowed
<1> DEFINE Inv == page = "streams" => LiveIInv
<1>1. Init => Inv
  BY LiveInitIInv DEF Init
<1>2. Inv /\ [Next]_vars => Inv'
  BY LiveNextIInv, PageSteps
<1>3. Inv => StreamFollowed
  BY LiveFollows DEF StreamFollowed
<1>4. QED
  BY <1>1, <1>2, <1>3, PTL DEF Spec

-----------------------------------------------------------------------------
(***************************************************************************)
(* The compose file in the editor and in the builder.  The names here      *)
(* begin with Cf: ComposeFile, as the page calls what parseCompose reads.  *)
(***************************************************************************)
\* What a key is read to and written as is of the types; a form that is understood
\* means the same when it is written back, and a value reads back as what is shown.
CfRawKept(k, r) ==
  LET v == Builder!ParseKey(k, r)
      w == Builder!SerializeKey(k, v)
  IN  IF v = None \/ w = None THEN Builder!Means(k, r) = None ELSE Builder!Means(k, w) = Builder!Means(k, r)
CfFieldShown(k, v) ==
  LET r == Builder!SerializeKey(k, v)
      w == Builder!ParseKey(k, r)
  IN  IF r = None \/ w = None THEN Builder!Field(k, v) = None ELSE Builder!Field(k, w) = Builder!Field(k, v)
CfReads(k)  == \A r : Builder!IsRaw(k, r) /\ Builder!ParseKey(k, r) # None
    => Builder!IsModel(k, Builder!ParseKey(k, r))
CfWrites(k) == \A v : Builder!IsModel(k, v) /\ Builder!SerializeKey(k, v) # None
    => Builder!IsRaw(k, Builder!SerializeKey(k, v))
CfKeeps(k)  == \A r : Builder!IsRaw(k, r) /\ Builder!SupportedKey(k, r) => CfRawKept(k, r)
CfShows(k)  == \A v : Builder!IsModel(k, v) /\ Builder!CompleteKey(k, v) => CfFieldShown(k, v)
CfKeySound(k) == CfReads(k) /\ CfWrites(k) /\ CfKeeps(k) /\ CfShows(k)

\* Every key is of one kind.
CfOthers == {"scale", "ports", "volumes", "networks", "depends_on", "healthcheck", "deploy", "logging", "build",
            "ulimits"}
LEMMA CfKinds ==
  ASSUME NEW k
  PROVE  /\ k \in Builder!StrKeys => k \notin Builder!JoinKeys \union Builder!FlagKeys \union Builder!ArrKeys
              \union Builder!KVKeys \union CfOthers
         /\ k \in Builder!JoinKeys => k \notin Builder!FlagKeys \union Builder!ArrKeys \union Builder!KVKeys
              \union CfOthers
         /\ k \in Builder!FlagKeys => k \notin Builder!ArrKeys \union Builder!KVKeys \union CfOthers
         /\ k \in Builder!ArrKeys => k \notin Builder!KVKeys \union CfOthers
         /\ k \in Builder!KVKeys => k \notin CfOthers
         /\ k = "restart" => k \in Builder!StrKeys
BY DEF Builder!StrKeys, Builder!JoinKeys, Builder!FlagKeys, Builder!ArrKeys, Builder!KVKeys, CfOthers

\* Texts: only a number is not read, and "no" is what restart is without the key.
LEMMA CfStrings ==
  ASSUME NEW k \in Builder!StrKeys, ~Builder!IsModel(k, None), ~Builder!IsRaw(k, None)
  PROVE  CfKeySound(k)
<1>1. \A r : /\ Builder!IsRaw(k, r) <=> r \in [form : {"string", "number"}, val : Builder!Words]
             /\ Builder!ParseKey(k, r) = IF r.form = "string" THEN r.val ELSE None
             /\ Builder!Means(k, r) = IF k = "restart" /\ r.val = "no" THEN None ELSE r.val
             /\ Builder!SupportedKey(k, r) => r.form = "string"
  <2>1. \A r : Builder!IsRaw(k, r) <=> r \in [form : {"string", "number"}, val : Builder!Words]
    BY CfKinds DEF CfOthers, Builder!KVKeys, Builder!IsRaw
  <2>2. \A r : Builder!ParseKey(k, r) = IF r.form = "string" THEN r.val ELSE None
    BY CfKinds DEF CfOthers, Builder!KVKeys, Builder!ParseKey, Builder!ParseScalar
  <2>3. \A r : Builder!Means(k, r) = IF k = "restart" /\ r.val = "no" THEN None ELSE r.val
    BY CfKinds DEF CfOthers, Builder!KVKeys, Builder!Means
  <2>4. \A r : Builder!SupportedKey(k, r) => r.form = "string"
    BY CfKinds DEF CfOthers, Builder!KVKeys, Builder!SupportedKey, Builder!ParseScalar
  <2>5. QED
    BY <2>1, <2>2, <2>3, <2>4
<1>2. \A v : /\ Builder!IsModel(k, v) <=> v \in Builder!Words
             /\ Builder!SerializeKey(k, v) = IF k = "restart" /\ v = "no" THEN None ELSE Builder!Raw("string", v)
             /\ Builder!Field(k, v) = IF k = "restart" /\ v = "no" THEN None ELSE v
  <2>1. \A v : Builder!IsModel(k, v) <=> v \in Builder!Words
    BY CfKinds DEF CfOthers, Builder!KVKeys, Builder!IsModel
  <2>2. \A v : Builder!SerializeKey(k, v) = IF k = "restart" /\ v = "no" THEN None ELSE Builder!Raw("string", v)
    BY CfKinds DEF CfOthers, Builder!KVKeys, Builder!SerializeKey, Builder!SerializeScalar
  <2>3. \A v : Builder!Field(k, v) = IF k = "restart" /\ v = "no" THEN None ELSE v
    BY CfKinds DEF CfOthers, Builder!KVKeys, Builder!Field, Builder!OrAbsent
  <2>4. QED
    BY <2>1, <2>2, <2>3
<1>3. ~(None \in Builder!Words) /\ ~(None \in [form : {"string", "number"}, val : Builder!Words])
  BY <1>1, <1>2
<1>4. ASSUME NEW r, r \in [form : {"string", "number"}, val : Builder!Words], NEW v,
             v = (IF r.form = "string" THEN r.val ELSE None), v # None
      PROVE  v \in Builder!Words
  BY <1>4 DEF Builder!Raw
<1>5. ASSUME NEW v, v \in Builder!Words, NEW r,
             r = (IF k = "restart" /\ v = "no" THEN None ELSE Builder!Raw("string", v)), r # None
      PROVE  r \in [form : {"string", "number"}, val : Builder!Words]
  BY <1>5 DEF Builder!Raw
<1>6. ASSUME NEW r, r \in [form : {"string", "number"}, val : Builder!Words], r.form = "string", NEW v,
             v = (IF r.form = "string" THEN r.val ELSE None), NEW w,
             w = (IF k = "restart" /\ v = "no" THEN None ELSE Builder!Raw("string", v))
      PROVE  IF v = None \/ w = None THEN (IF k = "restart" /\ r.val = "no" THEN None ELSE r.val) = None
               ELSE (IF k = "restart" /\ w.val = "no" THEN None ELSE w.val) =
               (IF k = "restart" /\ r.val = "no" THEN None ELSE r.val)
  <2>1. (v \in Builder!Words)
    BY <1>6 DEF Builder!Raw
  <2>2. v # None
    BY <1>3, <2>1
  <2>3. ~(k = "restart" /\ v = "no") => (w \in [form : {"string", "number"}, val : Builder!Words])
    BY <1>6, <2>1, <2>2 DEF Builder!Raw
  <2>4. ~(k = "restart" /\ v = "no") => w # None
    BY <1>3, <2>3
  <2>5. QED
    BY <1>6, <2>2, <2>4 DEF Builder!Raw
<1>7. ASSUME NEW v, v \in Builder!Words, NEW r,
             r = (IF k = "restart" /\ v = "no" THEN None ELSE Builder!Raw("string", v)), NEW w,
             w = (IF r.form = "string" THEN r.val ELSE None)
      PROVE  IF r = None \/ w = None THEN (IF k = "restart" /\ v = "no" THEN None ELSE v) = None
               ELSE (IF k = "restart" /\ w = "no" THEN None ELSE w) = (IF k = "restart" /\ v = "no" THEN None ELSE v)
  <2>1. ~(k = "restart" /\ v = "no") => (r \in [form : {"string", "number"}, val : Builder!Words])
    BY <1>7 DEF Builder!Raw
  <2>2. ~(None \in Builder!Words) /\ (~(k = "restart" /\ v = "no") => r # None)
    BY <1>3, <2>1
  <2>3. QED
    BY <1>7, <2>2 DEF Builder!Raw
<1>8. CfReads(k)
  BY <1>1, <1>2, <1>4 DEF CfReads
<1>9. CfWrites(k)
  BY <1>1, <1>2, <1>5 DEF CfWrites
<1>10. CfKeeps(k)
  <2> SUFFICES ASSUME NEW r, Builder!IsRaw(k, r), Builder!SupportedKey(k, r),
                      NEW v, v = Builder!ParseKey(k, r), NEW w, w = Builder!SerializeKey(k, v)
               PROVE  IF v = None \/ w = None THEN Builder!Means(k, r) = None
                        ELSE Builder!Means(k, w) = Builder!Means(k, r)
    BY DEF CfKeeps, CfRawKept
  <2>1. (r \in [form : {"string", "number"}, val : Builder!Words]) /\ (r.form = "string")
          /\ v = (IF r.form = "string" THEN r.val ELSE None)
          /\ w = (IF k = "restart" /\ v = "no" THEN None ELSE Builder!Raw("string", v))
    BY <1>1, <1>2
  <2>2. Builder!Means(k, r) = (IF k = "restart" /\ r.val = "no" THEN None ELSE r.val)
          /\ Builder!Means(k, w) = (IF k = "restart" /\ w.val = "no" THEN None ELSE w.val)
    BY <1>1
  <2>3. QED
    BY <1>6, <2>1, <2>2
<1>11. CfShows(k)
  <2> SUFFICES ASSUME NEW v, Builder!IsModel(k, v), Builder!CompleteKey(k, v),
                      NEW r, r = Builder!SerializeKey(k, v), NEW w, w = Builder!ParseKey(k, r)
               PROVE  IF r = None \/ w = None THEN Builder!Field(k, v) = None
                        ELSE Builder!Field(k, w) = Builder!Field(k, v)
    BY DEF CfShows, CfFieldShown
  <2>1. (v \in Builder!Words) /\ r = (IF k = "restart" /\ v = "no" THEN None ELSE Builder!Raw("string", v))
          /\ w = (IF r.form = "string" THEN r.val ELSE None)
    BY <1>1, <1>2
  <2>2. Builder!Field(k, v) = (IF k = "restart" /\ v = "no" THEN None ELSE v)
          /\ Builder!Field(k, w) = (IF k = "restart" /\ w = "no" THEN None ELSE w)
    BY <1>2
  <2>3. QED
    BY <1>7, <2>1, <2>2
<1>12. QED
  BY <1>8, <1>9, <1>10, <1>11 DEF CfKeySound

\* Commands: a list is joined.
LEMMA CfCommands ==
  ASSUME NEW k \in Builder!JoinKeys, ~Builder!IsModel(k, None), ~Builder!IsRaw(k, None)
  PROVE  CfKeySound(k)
<1>1. \A r : /\ Builder!IsRaw(k, r) <=> r \in [form : {"string", "list"}, val : Builder!Words]
             /\ Builder!ParseKey(k, r) = Builder!ParseJoin(r)
             /\ Builder!Means(k, r) = r.val
             /\ Builder!SupportedKey(k, r) => r.val # "spaced"
  <2>1. \A r : Builder!IsRaw(k, r) <=> r \in [form : {"string", "list"}, val : Builder!Words]
    BY CfKinds DEF CfOthers, Builder!KVKeys, Builder!IsRaw
  <2>2. \A r : Builder!ParseKey(k, r) = Builder!ParseJoin(r)
    BY CfKinds DEF CfOthers, Builder!KVKeys, Builder!ParseKey, Builder!ParseScalar
  <2>3. \A r : Builder!Means(k, r) = r.val
    BY CfKinds DEF CfOthers, Builder!KVKeys, Builder!Means
  <2>4. \A r : Builder!SupportedKey(k, r) => r.val # "spaced"
    BY CfKinds DEF CfOthers, Builder!KVKeys, Builder!SupportedKey, Builder!ParseScalar
  <2>5. QED
    BY <2>1, <2>2, <2>3, <2>4
<1>2. \A v : /\ Builder!IsModel(k, v) <=> v \in Builder!Words
             /\ Builder!SerializeKey(k, v) = Builder!Raw("string", v)
             /\ Builder!Field(k, v) = v
  <2>1. \A v : Builder!IsModel(k, v) <=> v \in Builder!Words
    BY CfKinds DEF CfOthers, Builder!KVKeys, Builder!IsModel
  <2>2. \A v : Builder!SerializeKey(k, v) = Builder!Raw("string", v)
    BY CfKinds DEF CfOthers, Builder!KVKeys, Builder!SerializeKey, Builder!SerializeScalar
  <2>3. \A v : Builder!Field(k, v) = v
    BY CfKinds DEF CfOthers, Builder!KVKeys, Builder!Field, Builder!OrAbsent
  <2>4. QED
    BY <2>1, <2>2, <2>3
<1>3. ~(None \in Builder!Words) /\ ~(None \in [form : {"string", "list"}, val : Builder!Words])
  BY <1>1, <1>2
<1>4. "split" \in Builder!Words
  BY DEF Builder!Words
<1>5. ASSUME NEW r, r \in [form : {"string", "list"}, val : Builder!Words], NEW v, v = (Builder!ParseJoin(r)),
             v # None
      PROVE  v \in Builder!Words
  BY <1>5, <1>4 DEF Builder!Raw, Builder!ParseJoin
<1>6. ASSUME NEW v, v \in Builder!Words, NEW r, r = (Builder!Raw("string", v)), r # None
      PROVE  r \in [form : {"string", "list"}, val : Builder!Words]
  BY <1>6, <1>4 DEF Builder!Raw, Builder!ParseJoin
<1>7. ASSUME NEW r, r \in [form : {"string", "list"}, val : Builder!Words], r.val # "spaced", NEW v,
             v = (Builder!ParseJoin(r)), NEW w, w = (Builder!Raw("string", v))
      PROVE  IF v = None \/ w = None THEN (r.val) = None ELSE (w.val) = (r.val)
  <2>1. (v \in Builder!Words)
    BY <1>7, <1>4 DEF Builder!Raw, Builder!ParseJoin
  <2>2. v # None
    BY <1>3, <2>1
  <2>3. (w \in [form : {"string", "list"}, val : Builder!Words])
    BY <1>7, <2>1, <2>2, <1>4 DEF Builder!Raw, Builder!ParseJoin
  <2>4. w # None
    BY <1>3, <2>3
  <2>5. QED
    BY <1>7, <2>2, <2>4, <1>4 DEF Builder!Raw, Builder!ParseJoin
<1>8. ASSUME NEW v, v \in Builder!Words, NEW r, r = (Builder!Raw("string", v)), NEW w, w = (Builder!ParseJoin(r))
      PROVE  IF r = None \/ w = None THEN (v) = None ELSE (w) = (v)
  <2>1. (r \in [form : {"string", "list"}, val : Builder!Words])
    BY <1>8, <1>4 DEF Builder!Raw, Builder!ParseJoin
  <2>2. ~(None \in Builder!Words) /\ (r # None)
    BY <1>3, <2>1
  <2>3. QED
    BY <1>8, <2>2, <1>4 DEF Builder!Raw, Builder!ParseJoin
<1>9. CfReads(k)
  BY <1>1, <1>2, <1>5 DEF CfReads
<1>10. CfWrites(k)
  BY <1>1, <1>2, <1>6 DEF CfWrites
<1>11. CfKeeps(k)
  <2> SUFFICES ASSUME NEW r, Builder!IsRaw(k, r), Builder!SupportedKey(k, r),
                      NEW v, v = Builder!ParseKey(k, r), NEW w, w = Builder!SerializeKey(k, v)
               PROVE  IF v = None \/ w = None THEN Builder!Means(k, r) = None
                        ELSE Builder!Means(k, w) = Builder!Means(k, r)
    BY DEF CfKeeps, CfRawKept
  <2>1. (r \in [form : {"string", "list"}, val : Builder!Words]) /\ (r.val # "spaced") /\ v = (Builder!ParseJoin(r))
          /\ w = (Builder!Raw("string", v))
    BY <1>1, <1>2
  <2>2. Builder!Means(k, r) = (r.val) /\ Builder!Means(k, w) = (w.val)
    BY <1>1
  <2>3. QED
    BY <1>7, <2>1, <2>2
<1>12. CfShows(k)
  <2> SUFFICES ASSUME NEW v, Builder!IsModel(k, v), Builder!CompleteKey(k, v),
                      NEW r, r = Builder!SerializeKey(k, v), NEW w, w = Builder!ParseKey(k, r)
               PROVE  IF r = None \/ w = None THEN Builder!Field(k, v) = None
                        ELSE Builder!Field(k, w) = Builder!Field(k, v)
    BY DEF CfShows, CfFieldShown
  <2>1. (v \in Builder!Words) /\ r = (Builder!Raw("string", v)) /\ w = (Builder!ParseJoin(r))
    BY <1>1, <1>2
  <2>2. Builder!Field(k, v) = (v) /\ Builder!Field(k, w) = (w)
    BY <1>2
  <2>3. QED
    BY <1>8, <2>1, <2>2
<1>13. QED
  BY <1>9, <1>10, <1>11, <1>12 DEF CfKeySound

\* Flags: only true is read.
LEMMA CfFlags ==
  ASSUME NEW k \in Builder!FlagKeys, ~Builder!IsModel(k, None), ~Builder!IsRaw(k, None)
  PROVE  CfKeySound(k)
<1>1. \A r : /\ Builder!IsRaw(k, r) <=> r \in {Builder!Raw("true", TRUE), Builder!Raw("other", FALSE)}
             /\ Builder!ParseKey(k, r) = IF r.form = "true" THEN r.val ELSE None
             /\ Builder!Means(k, r) = IF r.val = FALSE THEN None ELSE r.val
             /\ Builder!SupportedKey(k, r) => r.val = FALSE \/ r.form = "true"
  <2>1. \A r : Builder!IsRaw(k, r) <=> r \in {Builder!Raw("true", TRUE), Builder!Raw("other", FALSE)}
    BY CfKinds DEF CfOthers, Builder!KVKeys, Builder!IsRaw
  <2>2. \A r : Builder!ParseKey(k, r) = IF r.form = "true" THEN r.val ELSE None
    BY CfKinds DEF CfOthers, Builder!KVKeys, Builder!ParseKey, Builder!ParseScalar
  <2>3. \A r : Builder!Means(k, r) = IF r.val = FALSE THEN None ELSE r.val
    BY CfKinds DEF CfOthers, Builder!KVKeys, Builder!Means
  <2>4. \A r : Builder!SupportedKey(k, r) => r.val = FALSE \/ r.form = "true"
    BY CfKinds DEF CfOthers, Builder!KVKeys, Builder!SupportedKey, Builder!ParseScalar
  <2>5. QED
    BY <2>1, <2>2, <2>3, <2>4
<1>2. \A v : /\ Builder!IsModel(k, v) <=> v \in {TRUE}
             /\ Builder!SerializeKey(k, v) = Builder!Raw("true", v)
             /\ Builder!Field(k, v) = v
  <2>1. \A v : Builder!IsModel(k, v) <=> v \in {TRUE}
    BY CfKinds DEF CfOthers, Builder!KVKeys, Builder!IsModel
  <2>2. \A v : Builder!SerializeKey(k, v) = Builder!Raw("true", v)
    BY CfKinds DEF CfOthers, Builder!KVKeys, Builder!SerializeKey, Builder!SerializeScalar
  <2>3. \A v : Builder!Field(k, v) = v
    BY CfKinds DEF CfOthers, Builder!KVKeys, Builder!Field, Builder!OrAbsent
  <2>4. QED
    BY <2>1, <2>2, <2>3
<1>3. ~(None \in {TRUE}) /\ ~(None \in {Builder!Raw("true", TRUE), Builder!Raw("other", FALSE)})
  BY <1>1, <1>2
<1>4. ASSUME NEW r, r \in {Builder!Raw("true", TRUE), Builder!Raw("other", FALSE)}
       PROVE  (r.form = "true" /\ r.val = TRUE) \/ (r.form = "other" /\ r.val = FALSE)
  BY <1>4 DEF Builder!Raw
<1>5. ASSUME NEW r, r \in {Builder!Raw("true", TRUE), Builder!Raw("other", FALSE)}, NEW v,
             v = (IF r.form = "true" THEN r.val ELSE None), v # None
      PROVE  v \in {TRUE}
  BY <1>5, <1>4 DEF Builder!Raw
<1>6. ASSUME NEW v, v \in {TRUE}, NEW r, r = (Builder!Raw("true", v)), r # None
      PROVE  r \in {Builder!Raw("true", TRUE), Builder!Raw("other", FALSE)}
  BY <1>6, <1>4 DEF Builder!Raw
<1>7. ASSUME NEW r, r \in {Builder!Raw("true", TRUE), Builder!Raw("other", FALSE)}, r.val = FALSE \/ r.form = "true",
             NEW v, v = (IF r.form = "true" THEN r.val ELSE None), NEW w, w = (Builder!Raw("true", v))
      PROVE  IF v = None \/ w = None THEN (IF r.val = FALSE THEN None ELSE r.val) = None
               ELSE (IF w.val = FALSE THEN None ELSE w.val) = (IF r.val = FALSE THEN None ELSE r.val)
  <2>1. r.val # FALSE => (v \in {TRUE})
    BY <1>7, <1>4 DEF Builder!Raw
  <2>2. r.val # FALSE => v # None
    BY <1>3, <2>1
  <2>3. v # None => (w \in {Builder!Raw("true", TRUE), Builder!Raw("other", FALSE)})
    BY <1>7, <2>1, <2>2, <1>4 DEF Builder!Raw
  <2>4. v # None => w # None
    BY <1>3, <2>3
  <2>5. QED
    BY <1>7, <2>2, <2>4, <1>4 DEF Builder!Raw
<1>8. ASSUME NEW v, v \in {TRUE}, NEW r, r = (Builder!Raw("true", v)), NEW w,
             w = (IF r.form = "true" THEN r.val ELSE None)
      PROVE  IF r = None \/ w = None THEN (v) = None ELSE (w) = (v)
  <2>1. (r \in {Builder!Raw("true", TRUE), Builder!Raw("other", FALSE)})
    BY <1>8, <1>4 DEF Builder!Raw
  <2>2. ~(None \in {TRUE}) /\ (r # None)
    BY <1>3, <2>1
  <2>3. QED
    BY <1>8, <2>2, <1>4 DEF Builder!Raw
<1>9. CfReads(k)
  BY <1>1, <1>2, <1>5 DEF CfReads
<1>10. CfWrites(k)
  BY <1>1, <1>2, <1>6 DEF CfWrites
<1>11. CfKeeps(k)
  <2> SUFFICES ASSUME NEW r, Builder!IsRaw(k, r), Builder!SupportedKey(k, r),
                      NEW v, v = Builder!ParseKey(k, r), NEW w, w = Builder!SerializeKey(k, v)
               PROVE  IF v = None \/ w = None THEN Builder!Means(k, r) = None
                        ELSE Builder!Means(k, w) = Builder!Means(k, r)
    BY DEF CfKeeps, CfRawKept
  <2>1. (r \in {Builder!Raw("true", TRUE), Builder!Raw("other", FALSE)}) /\ (r.val = FALSE \/ r.form = "true")
          /\ v = (IF r.form = "true" THEN r.val ELSE None) /\ w = (Builder!Raw("true", v))
    BY <1>1, <1>2
  <2>2. Builder!Means(k, r) = (IF r.val = FALSE THEN None ELSE r.val)
          /\ Builder!Means(k, w) = (IF w.val = FALSE THEN None ELSE w.val)
    BY <1>1
  <2>3. QED
    BY <1>7, <2>1, <2>2
<1>12. CfShows(k)
  <2> SUFFICES ASSUME NEW v, Builder!IsModel(k, v), Builder!CompleteKey(k, v),
                      NEW r, r = Builder!SerializeKey(k, v), NEW w, w = Builder!ParseKey(k, r)
               PROVE  IF r = None \/ w = None THEN Builder!Field(k, v) = None
                        ELSE Builder!Field(k, w) = Builder!Field(k, v)
    BY DEF CfShows, CfFieldShown
  <2>1. (v \in {TRUE}) /\ r = (Builder!Raw("true", v)) /\ w = (IF r.form = "true" THEN r.val ELSE None)
    BY <1>1, <1>2
  <2>2. Builder!Field(k, v) = (v) /\ Builder!Field(k, w) = (w)
    BY <1>2
  <2>3. QED
    BY <1>8, <2>1, <2>2
<1>13. QED
  BY <1>9, <1>10, <1>11, <1>12 DEF CfKeySound

\* A number.
LEMMA CfScale ==
  ASSUME NEW k, k = "scale", ~Builder!IsModel(k, None), ~Builder!IsRaw(k, None)
  PROVE  CfKeySound(k)
<1>1. \A r : /\ Builder!IsRaw(k, r) <=> r \in [form : {"number", "string"}, val : Int]
             /\ Builder!ParseKey(k, r) = IF r.form = "number" THEN r.val ELSE None
             /\ Builder!Means(k, r) = r.val
             /\ Builder!SupportedKey(k, r) => r.form = "number"
  <2>1. \A r : Builder!IsRaw(k, r) <=> r \in [form : {"number", "string"}, val : Int]
    BY CfKinds DEF CfOthers, Builder!KVKeys, Builder!IsRaw, Builder!StrKeys, Builder!JoinKeys, Builder!FlagKeys,
       Builder!ArrKeys
  <2>2. \A r : Builder!ParseKey(k, r) = IF r.form = "number" THEN r.val ELSE None
    BY CfKinds DEF CfOthers, Builder!KVKeys, Builder!ParseKey, Builder!ParseScalar, Builder!StrKeys, Builder!JoinKeys,
       Builder!FlagKeys, Builder!ArrKeys
  <2>3. \A r : Builder!Means(k, r) = r.val
    BY CfKinds DEF CfOthers, Builder!KVKeys, Builder!Means, Builder!StrKeys, Builder!JoinKeys, Builder!FlagKeys,
       Builder!ArrKeys
  <2>4. \A r : Builder!SupportedKey(k, r) => r.form = "number"
    BY CfKinds DEF CfOthers, Builder!KVKeys, Builder!SupportedKey, Builder!ParseScalar, Builder!StrKeys,
       Builder!JoinKeys, Builder!FlagKeys, Builder!ArrKeys
  <2>5. QED
    BY <2>1, <2>2, <2>3, <2>4
<1>2. \A v : /\ Builder!IsModel(k, v) <=> v \in Int
             /\ Builder!SerializeKey(k, v) = Builder!Raw("number", v)
             /\ Builder!Field(k, v) = v
  <2>1. \A v : Builder!IsModel(k, v) <=> v \in Int
    BY CfKinds DEF CfOthers, Builder!KVKeys, Builder!IsModel, Builder!StrKeys, Builder!JoinKeys, Builder!FlagKeys,
       Builder!ArrKeys
  <2>2. \A v : Builder!SerializeKey(k, v) = Builder!Raw("number", v)
    BY CfKinds DEF CfOthers, Builder!KVKeys, Builder!SerializeKey, Builder!SerializeScalar, Builder!StrKeys,
       Builder!JoinKeys, Builder!FlagKeys, Builder!ArrKeys
  <2>3. \A v : Builder!Field(k, v) = v
    BY CfKinds DEF CfOthers, Builder!KVKeys, Builder!Field, Builder!OrAbsent, Builder!StrKeys, Builder!JoinKeys,
       Builder!FlagKeys, Builder!ArrKeys
  <2>4. QED
    BY <2>1, <2>2, <2>3
<1>3. ~(None \in Int) /\ ~(None \in [form : {"number", "string"}, val : Int])
  BY <1>1, <1>2
<1>4. ASSUME NEW r, r \in [form : {"number", "string"}, val : Int], NEW v,
             v = (IF r.form = "number" THEN r.val ELSE None), v # None
      PROVE  v \in Int
  BY <1>4 DEF Builder!Raw
<1>5. ASSUME NEW v, v \in Int, NEW r, r = (Builder!Raw("number", v)), r # None
      PROVE  r \in [form : {"number", "string"}, val : Int]
  BY <1>5 DEF Builder!Raw
<1>6. ASSUME NEW r, r \in [form : {"number", "string"}, val : Int], r.form = "number", NEW v,
             v = (IF r.form = "number" THEN r.val ELSE None), NEW w, w = (Builder!Raw("number", v))
      PROVE  IF v = None \/ w = None THEN (r.val) = None ELSE (w.val) = (r.val)
  <2>1. (v \in Int)
    BY <1>6 DEF Builder!Raw
  <2>2. v # None
    BY <1>3, <2>1
  <2>3. (w \in [form : {"number", "string"}, val : Int])
    BY <1>6, <2>1, <2>2 DEF Builder!Raw
  <2>4. w # None
    BY <1>3, <2>3
  <2>5. QED
    BY <1>6, <2>2, <2>4 DEF Builder!Raw
<1>7. ASSUME NEW v, v \in Int, NEW r, r = (Builder!Raw("number", v)), NEW w,
             w = (IF r.form = "number" THEN r.val ELSE None)
      PROVE  IF r = None \/ w = None THEN (v) = None ELSE (w) = (v)
  <2>1. (r \in [form : {"number", "string"}, val : Int])
    BY <1>7 DEF Builder!Raw
  <2>2. ~(None \in Int) /\ (r # None)
    BY <1>3, <2>1
  <2>3. QED
    BY <1>7, <2>2 DEF Builder!Raw
<1>8. CfReads(k)
  BY <1>1, <1>2, <1>4 DEF CfReads
<1>9. CfWrites(k)
  BY <1>1, <1>2, <1>5 DEF CfWrites
<1>10. CfKeeps(k)
  <2> SUFFICES ASSUME NEW r, Builder!IsRaw(k, r), Builder!SupportedKey(k, r),
                      NEW v, v = Builder!ParseKey(k, r), NEW w, w = Builder!SerializeKey(k, v)
               PROVE  IF v = None \/ w = None THEN Builder!Means(k, r) = None
                        ELSE Builder!Means(k, w) = Builder!Means(k, r)
    BY DEF CfKeeps, CfRawKept
  <2>1. (r \in [form : {"number", "string"}, val : Int]) /\ (r.form = "number")
          /\ v = (IF r.form = "number" THEN r.val ELSE None) /\ w = (Builder!Raw("number", v))
    BY <1>1, <1>2
  <2>2. Builder!Means(k, r) = (r.val) /\ Builder!Means(k, w) = (w.val)
    BY <1>1
  <2>3. QED
    BY <1>6, <2>1, <2>2
<1>11. CfShows(k)
  <2> SUFFICES ASSUME NEW v, Builder!IsModel(k, v), Builder!CompleteKey(k, v),
                      NEW r, r = Builder!SerializeKey(k, v), NEW w, w = Builder!ParseKey(k, r)
               PROVE  IF r = None \/ w = None THEN Builder!Field(k, v) = None
                        ELSE Builder!Field(k, w) = Builder!Field(k, v)
    BY DEF CfShows, CfFieldShown
  <2>1. (v \in Int) /\ r = (Builder!Raw("number", v)) /\ w = (IF r.form = "number" THEN r.val ELSE None)
    BY <1>1, <1>2
  <2>2. Builder!Field(k, v) = (v) /\ Builder!Field(k, w) = (w)
    BY <1>2
  <2>3. QED
    BY <1>7, <2>1, <2>2
<1>12. QED
  BY <1>8, <1>9, <1>10, <1>11 DEF CfKeySound

\* Lists of texts.
LEMMA CfLists ==
  ASSUME NEW k \in Builder!ArrKeys, ~Builder!IsModel(k, None), ~Builder!IsRaw(k, None)
  PROVE  CfKeySound(k)
<1>1. \A r : /\ Builder!IsRaw(k, r) <=> r \in [form : {"list", "string"}, val : Seq(Builder!Items) \ {<<>>}]
             /\ Builder!ParseKey(k, r) = Builder!StrArr(r)
             /\ Builder!Means(k, r) = r.val
             /\ Builder!SupportedKey(k, r) => r.form = "list"
  <2>1. \A r : Builder!IsRaw(k, r) <=> r \in [form : {"list", "string"}, val : Seq(Builder!Items) \ {<<>>}]
    BY CfKinds DEF CfOthers, Builder!KVKeys, Builder!IsRaw
  <2>2. \A r : Builder!ParseKey(k, r) = Builder!StrArr(r)
    BY CfKinds DEF CfOthers, Builder!KVKeys, Builder!ParseKey, Builder!ParseScalar
  <2>3. \A r : Builder!Means(k, r) = r.val
    BY CfKinds DEF CfOthers, Builder!KVKeys, Builder!Means
  <2>4. \A r : Builder!SupportedKey(k, r) => r.form = "list"
    BY CfKinds DEF CfOthers, Builder!KVKeys, Builder!SupportedKey, Builder!ParseScalar
  <2>5. QED
    BY <2>1, <2>2, <2>3, <2>4
<1>2. \A v : /\ Builder!IsModel(k, v) <=> v \in Seq(Builder!Items) \ {<<>>}
             /\ Builder!SerializeKey(k, v) = IF v = <<>> THEN None ELSE Builder!Raw("list", v)
             /\ Builder!Field(k, v) = v
  <2>1. \A v : Builder!IsModel(k, v) <=> v \in Seq(Builder!Items) \ {<<>>}
    BY CfKinds DEF CfOthers, Builder!KVKeys, Builder!IsModel
  <2>2. \A v : Builder!SerializeKey(k, v) = IF v = <<>> THEN None ELSE Builder!Raw("list", v)
    BY CfKinds DEF CfOthers, Builder!KVKeys, Builder!SerializeKey, Builder!SerializeScalar
  <2>3. \A v : Builder!Field(k, v) = v
    BY CfKinds DEF CfOthers, Builder!KVKeys, Builder!Field, Builder!OrAbsent
  <2>4. QED
    BY <2>1, <2>2, <2>3
<1>3. ~(None \in Seq(Builder!Items) \ {<<>>}) /\ ~(None \in [form : {"list", "string"},
        val : Seq(Builder!Items) \ {<<>>}])
  BY <1>1, <1>2
<1>4. ASSUME NEW r, r \in [form : {"list", "string"}, val : Seq(Builder!Items) \ {<<>>}], NEW v,
             v = (Builder!StrArr(r)), v # None
      PROVE  v \in Seq(Builder!Items) \ {<<>>}
  BY <1>4 DEF Builder!Raw, Builder!StrArr
<1>5. ASSUME NEW v, v \in Seq(Builder!Items) \ {<<>>}, NEW r, r = (IF v = <<>> THEN None ELSE Builder!Raw("list", v)),
             r # None
      PROVE  r \in [form : {"list", "string"}, val : Seq(Builder!Items) \ {<<>>}]
  BY <1>5 DEF Builder!Raw, Builder!StrArr
<1>6. ASSUME NEW r, r \in [form : {"list", "string"}, val : Seq(Builder!Items) \ {<<>>}], r.form = "list", NEW v,
             v = (Builder!StrArr(r)), NEW w, w = (IF v = <<>> THEN None ELSE Builder!Raw("list", v))
      PROVE  IF v = None \/ w = None THEN (r.val) = None ELSE (w.val) = (r.val)
  <2>1. (v \in Seq(Builder!Items) \ {<<>>})
    BY <1>6 DEF Builder!Raw, Builder!StrArr
  <2>2. v # None
    BY <1>3, <2>1
  <2>3. (w \in [form : {"list", "string"}, val : Seq(Builder!Items) \ {<<>>}])
    BY <1>6, <2>1, <2>2 DEF Builder!Raw, Builder!StrArr
  <2>4. w # None
    BY <1>3, <2>3
  <2>5. QED
    BY <1>6, <2>2, <2>4 DEF Builder!Raw, Builder!StrArr
<1>7. ASSUME NEW v, v \in Seq(Builder!Items) \ {<<>>}, NEW r, r = (IF v = <<>> THEN None ELSE Builder!Raw("list", v)),
             NEW w, w = (Builder!StrArr(r))
      PROVE  IF r = None \/ w = None THEN (v) = None ELSE (w) = (v)
  <2>1. (r \in [form : {"list", "string"}, val : Seq(Builder!Items) \ {<<>>}])
    BY <1>7 DEF Builder!Raw, Builder!StrArr
  <2>2. ~(None \in Seq(Builder!Items) \ {<<>>}) /\ (r # None)
    BY <1>3, <2>1
  <2>3. QED
    BY <1>7, <2>2 DEF Builder!Raw, Builder!StrArr
<1>8. CfReads(k)
  BY <1>1, <1>2, <1>4 DEF CfReads
<1>9. CfWrites(k)
  BY <1>1, <1>2, <1>5 DEF CfWrites
<1>10. CfKeeps(k)
  <2> SUFFICES ASSUME NEW r, Builder!IsRaw(k, r), Builder!SupportedKey(k, r),
                      NEW v, v = Builder!ParseKey(k, r), NEW w, w = Builder!SerializeKey(k, v)
               PROVE  IF v = None \/ w = None THEN Builder!Means(k, r) = None
                        ELSE Builder!Means(k, w) = Builder!Means(k, r)
    BY DEF CfKeeps, CfRawKept
  <2>1. (r \in [form : {"list", "string"}, val : Seq(Builder!Items) \ {<<>>}]) /\ (r.form = "list")
          /\ v = (Builder!StrArr(r)) /\ w = (IF v = <<>> THEN None ELSE Builder!Raw("list", v))
    BY <1>1, <1>2
  <2>2. Builder!Means(k, r) = (r.val) /\ Builder!Means(k, w) = (w.val)
    BY <1>1
  <2>3. QED
    BY <1>6, <2>1, <2>2
<1>11. CfShows(k)
  <2> SUFFICES ASSUME NEW v, Builder!IsModel(k, v), Builder!CompleteKey(k, v),
                      NEW r, r = Builder!SerializeKey(k, v), NEW w, w = Builder!ParseKey(k, r)
               PROVE  IF r = None \/ w = None THEN Builder!Field(k, v) = None
                        ELSE Builder!Field(k, w) = Builder!Field(k, v)
    BY DEF CfShows, CfFieldShown
  <2>1. (v \in Seq(Builder!Items) \ {<<>>}) /\ r = (IF v = <<>> THEN None ELSE Builder!Raw("list", v))
          /\ w = (Builder!StrArr(r))
    BY <1>1, <1>2
  <2>2. Builder!Field(k, v) = (v) /\ Builder!Field(k, w) = (w)
    BY <1>2
  <2>3. QED
    BY <1>7, <2>1, <2>2
<1>12. QED
  BY <1>8, <1>9, <1>10, <1>11 DEF CfKeySound

\* Variables: one without a value gets the empty one.
LEMMA CfEnvironment ==
  ASSUME NEW k, k = "environment", ~Builder!IsModel(k, None), ~Builder!IsRaw(k, None)
  PROVE  CfKeySound(k)
<1>1. \A r : /\ Builder!IsRaw(k, r) <=> \E S \in SUBSET Builder!Variables :
                  r \in [form : {"map", "list"}, val : [S -> Builder!Values]]
             /\ Builder!ParseKey(k, r) = Builder!ParseEnvironment(r)
             /\ Builder!Means(k, r) = r.val
             /\ Builder!SupportedKey(k, r) => \A n \in DOMAIN r.val : r.val[n] # Builder!Unset
  <2>1. \A r : Builder!IsRaw(k, r) <=> \E S \in SUBSET Builder!Variables :
          r \in [form : {"map", "list"}, val : [S -> Builder!Values]]
    BY CfKinds DEF CfOthers, Builder!KVKeys, Builder!IsRaw, Builder!StrKeys, Builder!JoinKeys, Builder!FlagKeys,
       Builder!ArrKeys
  <2>2. \A r : Builder!ParseKey(k, r) = Builder!ParseEnvironment(r)
    BY CfKinds DEF CfOthers, Builder!KVKeys, Builder!ParseKey, Builder!ParseScalar, Builder!StrKeys, Builder!JoinKeys,
       Builder!FlagKeys, Builder!ArrKeys
  <2>3. \A r : Builder!Means(k, r) = r.val
    BY CfKinds DEF CfOthers, Builder!KVKeys, Builder!Means, Builder!StrKeys, Builder!JoinKeys, Builder!FlagKeys,
       Builder!ArrKeys
  <2>4. \A r : Builder!SupportedKey(k, r) => \A n \in DOMAIN r.val : r.val[n] # Builder!Unset
    BY CfKinds DEF CfOthers, Builder!KVKeys, Builder!SupportedKey, Builder!ParseScalar, Builder!StrKeys,
       Builder!JoinKeys, Builder!FlagKeys, Builder!ArrKeys
  <2>5. QED
    BY <2>1, <2>2, <2>3, <2>4
<1>2. \A v : /\ Builder!IsModel(k, v) <=> \E S \in SUBSET Builder!Variables : v \in [S -> Builder!Values \ {Builder!Unset}]
             /\ Builder!SerializeKey(k, v) = Builder!Raw("map", v)
             /\ Builder!Field(k, v) = v
  <2>1. \A v : Builder!IsModel(k, v) <=> \E S \in SUBSET Builder!Variables : v \in [S -> Builder!Values \ {Builder!Unset}]
    BY CfKinds DEF CfOthers, Builder!KVKeys, Builder!IsModel, Builder!StrKeys, Builder!JoinKeys, Builder!FlagKeys,
       Builder!ArrKeys
  <2>2. \A v : Builder!SerializeKey(k, v) = Builder!Raw("map", v)
    BY CfKinds DEF CfOthers, Builder!KVKeys, Builder!SerializeKey, Builder!SerializeScalar, Builder!StrKeys,
       Builder!JoinKeys, Builder!FlagKeys, Builder!ArrKeys
  <2>3. \A v : Builder!Field(k, v) = v
    BY CfKinds DEF CfOthers, Builder!KVKeys, Builder!Field, Builder!OrAbsent, Builder!StrKeys, Builder!JoinKeys,
       Builder!FlagKeys, Builder!ArrKeys
  <2>4. QED
    BY <2>1, <2>2, <2>3
<1>3. ~(\E S \in SUBSET Builder!Variables : None \in [S -> Builder!Values \ {Builder!Unset}])
        /\ ~(\E S \in SUBSET Builder!Variables : None \in [form : {"map", "list"}, val : [S -> Builder!Values]])
  BY <1>1, <1>2
<1>4. ASSUME NEW S, NEW r, r.val \in [S -> Builder!Values]
              PROVE Builder!ParseEnvironment(r) \in [S -> Builder!Values \ {Builder!Unset}]
  BY <1>4 DEF Builder!ParseEnvironment, Builder!Unset, Builder!Values
<1>5. ASSUME NEW S, NEW r, r.val \in [S -> Builder!Values], \A n \in DOMAIN r.val : r.val[n] # Builder!Unset
       PROVE  Builder!ParseEnvironment(r) = r.val
  BY <1>5 DEF Builder!ParseEnvironment
<1>6. ASSUME NEW r, \E S \in SUBSET Builder!Variables : r \in [form : {"map", "list"}, val : [S -> Builder!Values]], NEW v,
             v = (Builder!ParseEnvironment(r)), v # None
      PROVE  \E S \in SUBSET Builder!Variables : v \in [S -> Builder!Values \ {Builder!Unset}]
  BY <1>6, <1>4, <1>5 DEF Builder!Raw
<1>7. ASSUME NEW v, \E S \in SUBSET Builder!Variables : v \in [S -> Builder!Values \ {Builder!Unset}], NEW r,
             r = (Builder!Raw("map", v)), r # None
      PROVE  \E S \in SUBSET Builder!Variables : r \in [form : {"map", "list"}, val : [S -> Builder!Values]]
  BY <1>7, <1>4, <1>5 DEF Builder!Raw
<1>8. ASSUME NEW r, \E S \in SUBSET Builder!Variables : r \in [form : {"map", "list"}, val : [S -> Builder!Values]],
             \A n \in DOMAIN r.val : r.val[n] # Builder!Unset, NEW v, v = (Builder!ParseEnvironment(r)), NEW w,
             w = (Builder!Raw("map", v))
      PROVE  IF v = None \/ w = None THEN (r.val) = None ELSE (w.val) = (r.val)
  <2>1. (\E S \in SUBSET Builder!Variables : v \in [S -> Builder!Values \ {Builder!Unset}])
    BY <1>8, <1>4, <1>5 DEF Builder!Raw
  <2>2. v # None
    BY <1>3, <2>1
  <2>3. (\E S \in SUBSET Builder!Variables : w \in [form : {"map", "list"}, val : [S -> Builder!Values]])
    BY <1>8, <2>1, <2>2, <1>4, <1>5 DEF Builder!Raw
  <2>4. w # None
    BY <1>3, <2>3
  <2>5. QED
    BY <1>8, <2>2, <2>4, <1>4, <1>5 DEF Builder!Raw
<1>9. ASSUME NEW v, \E S \in SUBSET Builder!Variables : v \in [S -> Builder!Values \ {Builder!Unset}], NEW r,
             r = (Builder!Raw("map", v)), NEW w, w = (Builder!ParseEnvironment(r))
      PROVE  IF r = None \/ w = None THEN (v) = None ELSE (w) = (v)
  <2>1. (\E S \in SUBSET Builder!Variables : r \in [form : {"map", "list"}, val : [S -> Builder!Values]])
    BY <1>9, <1>4, <1>5 DEF Builder!Raw
  <2>2. ~(\E S \in SUBSET Builder!Variables : None \in [S -> Builder!Values \ {Builder!Unset}]) /\ (r # None)
    BY <1>3, <2>1
  <2>3. QED
    BY <1>9, <2>2, <1>4, <1>5 DEF Builder!Raw
<1>10. CfReads(k)
  BY <1>1, <1>2, <1>6 DEF CfReads
<1>11. CfWrites(k)
  BY <1>1, <1>2, <1>7 DEF CfWrites
<1>12. CfKeeps(k)
  <2> SUFFICES ASSUME NEW r, Builder!IsRaw(k, r), Builder!SupportedKey(k, r),
                      NEW v, v = Builder!ParseKey(k, r), NEW w, w = Builder!SerializeKey(k, v)
               PROVE  IF v = None \/ w = None THEN Builder!Means(k, r) = None
                        ELSE Builder!Means(k, w) = Builder!Means(k, r)
    BY DEF CfKeeps, CfRawKept
  <2>1. (\E S \in SUBSET Builder!Variables : r \in [form : {"map", "list"}, val : [S -> Builder!Values]])
          /\ (\A n \in DOMAIN r.val : r.val[n] # Builder!Unset) /\ v = (Builder!ParseEnvironment(r))
          /\ w = (Builder!Raw("map", v))
    BY <1>1, <1>2
  <2>2. Builder!Means(k, r) = (r.val) /\ Builder!Means(k, w) = (w.val)
    BY <1>1
  <2>3. QED
    BY <1>8, <2>1, <2>2
<1>13. CfShows(k)
  <2> SUFFICES ASSUME NEW v, Builder!IsModel(k, v), Builder!CompleteKey(k, v),
                      NEW r, r = Builder!SerializeKey(k, v), NEW w, w = Builder!ParseKey(k, r)
               PROVE  IF r = None \/ w = None THEN Builder!Field(k, v) = None
                        ELSE Builder!Field(k, w) = Builder!Field(k, v)
    BY DEF CfShows, CfFieldShown
  <2>1. (\E S \in SUBSET Builder!Variables : v \in [S -> Builder!Values \ {Builder!Unset}]) /\ r = (Builder!Raw("map", v))
          /\ w = (Builder!ParseEnvironment(r))
    BY <1>1, <1>2
  <2>2. Builder!Field(k, v) = (v) /\ Builder!Field(k, w) = (w)
    BY <1>2
  <2>3. QED
    BY <1>9, <2>1, <2>2
<1>14. QED
  BY <1>10, <1>11, <1>12, <1>13 DEF CfKeySound

\* Names and values.
LEMMA CfLabels ==
  ASSUME NEW k, k \in {"labels", "sysctls"}, ~Builder!IsModel(k, None), ~Builder!IsRaw(k, None)
  PROVE  CfKeySound(k)
<1>1. \A r : /\ Builder!IsRaw(k, r) <=> \E S \in SUBSET Builder!Variables :
                  r \in [form : {"map", "list"}, val : [S -> Builder!Values]]
             /\ Builder!ParseKey(k, r) = r.val
             /\ Builder!Means(k, r) = r.val
  <2>1. \A r : Builder!IsRaw(k, r) <=> \E S \in SUBSET Builder!Variables :
          r \in [form : {"map", "list"}, val : [S -> Builder!Values]]
    BY CfKinds DEF CfOthers, Builder!KVKeys, Builder!IsRaw, Builder!ParseLabels, Builder!ParseSysctls, Builder!StrKeys,
       Builder!JoinKeys, Builder!FlagKeys, Builder!ArrKeys
  <2>2. \A r : Builder!ParseKey(k, r) = r.val
    BY CfKinds DEF CfOthers, Builder!KVKeys, Builder!ParseKey, Builder!ParseScalar, Builder!ParseLabels,
       Builder!ParseSysctls, Builder!StrKeys, Builder!JoinKeys, Builder!FlagKeys, Builder!ArrKeys
  <2>3. \A r : Builder!Means(k, r) = r.val
    BY CfKinds DEF CfOthers, Builder!KVKeys, Builder!Means, Builder!ParseLabels, Builder!ParseSysctls, Builder!StrKeys,
       Builder!JoinKeys, Builder!FlagKeys, Builder!ArrKeys
  <2>4. QED
    BY <2>1, <2>2, <2>3
<1>2. \A v : /\ Builder!IsModel(k, v) <=> \E S \in SUBSET Builder!Variables : v \in [S -> Builder!Values]
             /\ Builder!SerializeKey(k, v) = Builder!Raw("map", v)
             /\ Builder!Field(k, v) = v
  <2>1. \A v : Builder!IsModel(k, v) <=> \E S \in SUBSET Builder!Variables : v \in [S -> Builder!Values]
    BY CfKinds DEF CfOthers, Builder!KVKeys, Builder!IsModel, Builder!ParseLabels, Builder!ParseSysctls,
       Builder!StrKeys, Builder!JoinKeys, Builder!FlagKeys, Builder!ArrKeys
  <2>2. \A v : Builder!SerializeKey(k, v) = Builder!Raw("map", v)
    BY CfKinds DEF CfOthers, Builder!KVKeys, Builder!SerializeKey, Builder!SerializeScalar, Builder!ParseLabels,
       Builder!ParseSysctls, Builder!StrKeys, Builder!JoinKeys, Builder!FlagKeys, Builder!ArrKeys
  <2>3. \A v : Builder!Field(k, v) = v
    BY CfKinds DEF CfOthers, Builder!KVKeys, Builder!Field, Builder!OrAbsent, Builder!ParseLabels,
       Builder!ParseSysctls, Builder!StrKeys, Builder!JoinKeys, Builder!FlagKeys, Builder!ArrKeys
  <2>4. QED
    BY <2>1, <2>2, <2>3
<1>3. ~(\E S \in SUBSET Builder!Variables : None \in [S -> Builder!Values])
        /\ ~(\E S \in SUBSET Builder!Variables : None \in [form : {"map", "list"}, val : [S -> Builder!Values]])
  BY <1>1, <1>2
<1>4. ASSUME NEW r, \E S \in SUBSET Builder!Variables : r \in [form : {"map", "list"}, val : [S -> Builder!Values]], NEW v,
             v = (r.val), v # None
      PROVE  \E S \in SUBSET Builder!Variables : v \in [S -> Builder!Values]
  BY <1>4 DEF Builder!Raw
<1>5. ASSUME NEW v, \E S \in SUBSET Builder!Variables : v \in [S -> Builder!Values], NEW r, r = (Builder!Raw("map", v)),
             r # None
      PROVE  \E S \in SUBSET Builder!Variables : r \in [form : {"map", "list"}, val : [S -> Builder!Values]]
  BY <1>5 DEF Builder!Raw
<1>6. ASSUME NEW r, \E S \in SUBSET Builder!Variables : r \in [form : {"map", "list"}, val : [S -> Builder!Values]], NEW v,
             v = (r.val), NEW w, w = (Builder!Raw("map", v))
      PROVE  IF v = None \/ w = None THEN (r.val) = None ELSE (w.val) = (r.val)
  <2>1. (\E S \in SUBSET Builder!Variables : v \in [S -> Builder!Values])
    BY <1>6 DEF Builder!Raw
  <2>2. v # None
    BY <1>3, <2>1
  <2>3. (\E S \in SUBSET Builder!Variables : w \in [form : {"map", "list"}, val : [S -> Builder!Values]])
    BY <1>6, <2>1, <2>2 DEF Builder!Raw
  <2>4. w # None
    BY <1>3, <2>3
  <2>5. QED
    BY <1>6, <2>2, <2>4 DEF Builder!Raw
<1>7. ASSUME NEW v, \E S \in SUBSET Builder!Variables : v \in [S -> Builder!Values], NEW r, r = (Builder!Raw("map", v)),
             NEW w, w = (r.val)
      PROVE  IF r = None \/ w = None THEN (v) = None ELSE (w) = (v)
  <2>1. (\E S \in SUBSET Builder!Variables : r \in [form : {"map", "list"}, val : [S -> Builder!Values]])
    BY <1>7 DEF Builder!Raw
  <2>2. ~(\E S \in SUBSET Builder!Variables : None \in [S -> Builder!Values]) /\ (r # None)
    BY <1>3, <2>1
  <2>3. QED
    BY <1>7, <2>2 DEF Builder!Raw
<1>8. CfReads(k)
  BY <1>1, <1>2, <1>4 DEF CfReads
<1>9. CfWrites(k)
  BY <1>1, <1>2, <1>5 DEF CfWrites
<1>10. CfKeeps(k)
  <2> SUFFICES ASSUME NEW r, Builder!IsRaw(k, r), Builder!SupportedKey(k, r),
                      NEW v, v = Builder!ParseKey(k, r), NEW w, w = Builder!SerializeKey(k, v)
               PROVE  IF v = None \/ w = None THEN Builder!Means(k, r) = None
                        ELSE Builder!Means(k, w) = Builder!Means(k, r)
    BY DEF CfKeeps, CfRawKept
  <2>1. (\E S \in SUBSET Builder!Variables : r \in [form : {"map", "list"}, val : [S -> Builder!Values]]) /\ v = (r.val)
          /\ w = (Builder!Raw("map", v))
    BY <1>1, <1>2
  <2>2. Builder!Means(k, r) = (r.val) /\ Builder!Means(k, w) = (w.val)
    BY <1>1
  <2>3. QED
    BY <1>6, <2>1, <2>2
<1>11. CfShows(k)
  <2> SUFFICES ASSUME NEW v, Builder!IsModel(k, v), Builder!CompleteKey(k, v),
                      NEW r, r = Builder!SerializeKey(k, v), NEW w, w = Builder!ParseKey(k, r)
               PROVE  IF r = None \/ w = None THEN Builder!Field(k, v) = None
                        ELSE Builder!Field(k, w) = Builder!Field(k, v)
    BY DEF CfShows, CfFieldShown
  <2>1. (\E S \in SUBSET Builder!Variables : v \in [S -> Builder!Values]) /\ r = (Builder!Raw("map", v)) /\ w = (r.val)
    BY <1>1, <1>2
  <2>2. Builder!Field(k, v) = (v) /\ Builder!Field(k, w) = (w)
    BY <1>2
  <2>3. QED
    BY <1>7, <2>1, <2>2
<1>12. QED
  BY <1>8, <1>9, <1>10, <1>11 DEF CfKeySound

\* Networks: a list has no settings.
LEMMA CfNetworks ==
  ASSUME NEW k, k = "networks", ~Builder!IsModel(k, None), ~Builder!IsRaw(k, None)
  PROVE  CfKeySound(k)
<1>1. \A r : /\ Builder!IsRaw(k, r) <=> \E S \in SUBSET Builder!Networks :
                  \/ r \in [form : {"list"}, val : [S -> {"empty"}]]
                  \/ r \in [form : {"map"}, val : [S -> Builder!Settings]]
             /\ Builder!ParseKey(k, r) = Builder!ParseNetworks(r)
             /\ Builder!Means(k, r) = [n \in DOMAIN r.val |-> IF r.val[n] = "set" THEN "set" ELSE "empty"]
  <2>1. \A r : Builder!IsRaw(k, r) <=> \E S \in SUBSET Builder!Networks :
          \/ r \in [form : {"list"}, val : [S -> {"empty"}]] \/ r \in [form : {"map"}, val : [S -> Builder!Settings]]
    BY CfKinds DEF CfOthers, Builder!KVKeys, Builder!IsRaw, Builder!StrKeys, Builder!JoinKeys, Builder!FlagKeys,
       Builder!ArrKeys
  <2>2. \A r : Builder!ParseKey(k, r) = Builder!ParseNetworks(r)
    BY CfKinds DEF CfOthers, Builder!KVKeys, Builder!ParseKey, Builder!ParseScalar, Builder!StrKeys, Builder!JoinKeys,
       Builder!FlagKeys, Builder!ArrKeys
  <2>3. \A r : Builder!Means(k, r) = [n \in DOMAIN r.val |-> IF r.val[n] = "set" THEN "set" ELSE "empty"]
    BY CfKinds DEF CfOthers, Builder!KVKeys, Builder!Means, Builder!StrKeys, Builder!JoinKeys, Builder!FlagKeys,
       Builder!ArrKeys
  <2>4. QED
    BY <2>1, <2>2, <2>3
<1>2. \A v : /\ Builder!IsModel(k, v) <=> \E S \in SUBSET Builder!Networks : v \in [S -> Builder!Settings]
             /\ Builder!SerializeKey(k, v) = Builder!Raw("map", v)
             /\ Builder!Field(k, v) = v
  <2>1. \A v : Builder!IsModel(k, v) <=> \E S \in SUBSET Builder!Networks : v \in [S -> Builder!Settings]
    BY CfKinds DEF CfOthers, Builder!KVKeys, Builder!IsModel, Builder!StrKeys, Builder!JoinKeys, Builder!FlagKeys,
       Builder!ArrKeys
  <2>2. \A v : Builder!SerializeKey(k, v) = Builder!Raw("map", v)
    BY CfKinds DEF CfOthers, Builder!KVKeys, Builder!SerializeKey, Builder!SerializeScalar, Builder!StrKeys,
       Builder!JoinKeys, Builder!FlagKeys, Builder!ArrKeys
  <2>3. \A v : Builder!Field(k, v) = v
    BY CfKinds DEF CfOthers, Builder!KVKeys, Builder!Field, Builder!OrAbsent, Builder!StrKeys, Builder!JoinKeys,
       Builder!FlagKeys, Builder!ArrKeys
  <2>4. QED
    BY <2>1, <2>2, <2>3
<1>3. ~(\E S \in SUBSET Builder!Networks : None \in [S -> Builder!Settings])
        /\ ~(\E S \in SUBSET Builder!Networks : \/ None \in [form : {"list"}, val : [S -> {"empty"}]]
        \/ None \in [form : {"map"}, val : [S -> Builder!Settings]])
  BY <1>1, <1>2
<1>4. ASSUME NEW r, \E S \in SUBSET Builder!Networks : \/ r \in [form : {"list"}, val : [S -> {"empty"}]]
             \/ r \in [form : {"map"}, val : [S -> Builder!Settings]], NEW v, v = (Builder!ParseNetworks(r)), v # None
      PROVE  \E S \in SUBSET Builder!Networks : v \in [S -> Builder!Settings]
  BY <1>4 DEF Builder!Raw, Builder!ParseNetworks, Builder!Settings
<1>5. ASSUME NEW v, \E S \in SUBSET Builder!Networks : v \in [S -> Builder!Settings], NEW r,
             r = (Builder!Raw("map", v)), r # None
      PROVE  \E S \in SUBSET Builder!Networks : \/ r \in [form : {"list"}, val : [S -> {"empty"}]]
               \/ r \in [form : {"map"}, val : [S -> Builder!Settings]]
  BY <1>5 DEF Builder!Raw, Builder!ParseNetworks, Builder!Settings
<1>6. ASSUME NEW r, \E S \in SUBSET Builder!Networks : \/ r \in [form : {"list"}, val : [S -> {"empty"}]]
             \/ r \in [form : {"map"}, val : [S -> Builder!Settings]], NEW v, v = (Builder!ParseNetworks(r)), NEW w,
             w = (Builder!Raw("map", v))
      PROVE  IF v = None \/ w = None THEN ([n \in DOMAIN r.val |-> IF r.val[n] = "set" THEN "set" ELSE "empty"]) =
               None ELSE ([n \in DOMAIN w.val |-> IF w.val[n] = "set" THEN "set" ELSE "empty"]) =
               ([n \in DOMAIN r.val |-> IF r.val[n] = "set" THEN "set" ELSE "empty"])
  <2>1. (\E S \in SUBSET Builder!Networks : v \in [S -> Builder!Settings])
    BY <1>6 DEF Builder!Raw, Builder!ParseNetworks, Builder!Settings
  <2>2. v # None
    BY <1>3, <2>1
  <2>3. (\E S \in SUBSET Builder!Networks : \/ w \in [form : {"list"}, val : [S -> {"empty"}]]
          \/ w \in [form : {"map"}, val : [S -> Builder!Settings]])
    BY <1>6, <2>1, <2>2 DEF Builder!Raw, Builder!ParseNetworks, Builder!Settings
  <2>4. w # None
    BY <1>3, <2>3
  <2>5. QED
    BY <1>6, <2>2, <2>4 DEF Builder!Raw, Builder!ParseNetworks, Builder!Settings
<1>7. ASSUME NEW v, \E S \in SUBSET Builder!Networks : v \in [S -> Builder!Settings], NEW r,
             r = (Builder!Raw("map", v)), NEW w, w = (Builder!ParseNetworks(r))
      PROVE  IF r = None \/ w = None THEN (v) = None ELSE (w) = (v)
  <2>1. (\E S \in SUBSET Builder!Networks : \/ r \in [form : {"list"}, val : [S -> {"empty"}]]
          \/ r \in [form : {"map"}, val : [S -> Builder!Settings]])
    BY <1>7 DEF Builder!Raw, Builder!ParseNetworks, Builder!Settings
  <2>2. ~(\E S \in SUBSET Builder!Networks : None \in [S -> Builder!Settings]) /\ (r # None)
    BY <1>3, <2>1
  <2>3. QED
    BY <1>7, <2>2 DEF Builder!Raw, Builder!ParseNetworks, Builder!Settings
<1>8. CfReads(k)
  BY <1>1, <1>2, <1>4 DEF CfReads
<1>9. CfWrites(k)
  BY <1>1, <1>2, <1>5 DEF CfWrites
<1>10. CfKeeps(k)
  <2> SUFFICES ASSUME NEW r, Builder!IsRaw(k, r), Builder!SupportedKey(k, r),
                      NEW v, v = Builder!ParseKey(k, r), NEW w, w = Builder!SerializeKey(k, v)
               PROVE  IF v = None \/ w = None THEN Builder!Means(k, r) = None
                        ELSE Builder!Means(k, w) = Builder!Means(k, r)
    BY DEF CfKeeps, CfRawKept
  <2>1. (\E S \in SUBSET Builder!Networks : \/ r \in [form : {"list"}, val : [S -> {"empty"}]]
          \/ r \in [form : {"map"}, val : [S -> Builder!Settings]]) /\ v = (Builder!ParseNetworks(r))
          /\ w = (Builder!Raw("map", v))
    BY <1>1, <1>2
  <2>2. Builder!Means(k, r) = ([n \in DOMAIN r.val |-> IF r.val[n] = "set" THEN "set" ELSE "empty"])
          /\ Builder!Means(k, w) = ([n \in DOMAIN w.val |-> IF w.val[n] = "set" THEN "set" ELSE "empty"])
    BY <1>1
  <2>3. QED
    BY <1>6, <2>1, <2>2
<1>11. CfShows(k)
  <2> SUFFICES ASSUME NEW v, Builder!IsModel(k, v), Builder!CompleteKey(k, v),
                      NEW r, r = Builder!SerializeKey(k, v), NEW w, w = Builder!ParseKey(k, r)
               PROVE  IF r = None \/ w = None THEN Builder!Field(k, v) = None
                        ELSE Builder!Field(k, w) = Builder!Field(k, v)
    BY DEF CfShows, CfFieldShown
  <2>1. (\E S \in SUBSET Builder!Networks : v \in [S -> Builder!Settings]) /\ r = (Builder!Raw("map", v))
          /\ w = (Builder!ParseNetworks(r))
    BY <1>1, <1>2
  <2>2. Builder!Field(k, v) = (v) /\ Builder!Field(k, w) = (w)
    BY <1>2
  <2>3. QED
    BY <1>7, <2>1, <2>2
<1>12. QED
  BY <1>8, <1>9, <1>10, <1>11 DEF CfKeySound

\* Healthchecks: the first word of a list is cut off.
LEMMA CfHealth ==
  ASSUME NEW k, k = "healthcheck", ~Builder!IsModel(k, None), ~Builder!IsRaw(k, None)
  PROVE  CfKeySound(k)
<1>1. \A r : /\ Builder!IsRaw(k, r) <=> r \in [form : {"string", "CMD", "NONE"}, val : Builder!Check]
             /\ Builder!ParseKey(k, r) = Builder!ParseHealthcheck(r)
             /\ Builder!Means(k, r) = Builder!HealthMeans(r)
             /\ Builder!SupportedKey(k, r) => r.form = "string"
  <2>1. \A r : Builder!IsRaw(k, r) <=> r \in [form : {"string", "CMD", "NONE"}, val : Builder!Check]
    BY CfKinds DEF CfOthers, Builder!KVKeys, Builder!IsRaw, Builder!StrKeys, Builder!JoinKeys, Builder!FlagKeys,
       Builder!ArrKeys
  <2>2. \A r : Builder!ParseKey(k, r) = Builder!ParseHealthcheck(r)
    BY CfKinds DEF CfOthers, Builder!KVKeys, Builder!ParseKey, Builder!ParseScalar, Builder!StrKeys, Builder!JoinKeys,
       Builder!FlagKeys, Builder!ArrKeys
  <2>3. \A r : Builder!Means(k, r) = Builder!HealthMeans(r)
    BY CfKinds DEF CfOthers, Builder!KVKeys, Builder!Means, Builder!StrKeys, Builder!JoinKeys, Builder!FlagKeys,
       Builder!ArrKeys
  <2>4. \A r : Builder!SupportedKey(k, r) => r.form = "string"
    BY CfKinds DEF CfOthers, Builder!KVKeys, Builder!SupportedKey, Builder!ParseScalar, Builder!StrKeys,
       Builder!JoinKeys, Builder!FlagKeys, Builder!ArrKeys
  <2>5. QED
    BY <2>1, <2>2, <2>3, <2>4
<1>2. \A v : /\ Builder!IsModel(k, v) <=> v \in Builder!Check
             /\ Builder!SerializeKey(k, v) = Builder!SerializeHealthcheck(v)
             /\ Builder!Field(k, v) = Builder!HealthShown(v)
             /\ Builder!CompleteKey(k, v) => ~v.disable
  <2>1. \A v : Builder!IsModel(k, v) <=> v \in Builder!Check
    BY CfKinds DEF CfOthers, Builder!KVKeys, Builder!IsModel, Builder!StrKeys, Builder!JoinKeys, Builder!FlagKeys,
       Builder!ArrKeys
  <2>2. \A v : Builder!SerializeKey(k, v) = Builder!SerializeHealthcheck(v)
    BY CfKinds DEF CfOthers, Builder!KVKeys, Builder!SerializeKey, Builder!SerializeScalar, Builder!StrKeys,
       Builder!JoinKeys, Builder!FlagKeys, Builder!ArrKeys
  <2>3. \A v : Builder!Field(k, v) = Builder!HealthShown(v)
    BY CfKinds DEF CfOthers, Builder!KVKeys, Builder!Field, Builder!OrAbsent, Builder!StrKeys, Builder!JoinKeys,
       Builder!FlagKeys, Builder!ArrKeys
  <2>4. \A v : Builder!CompleteKey(k, v) => ~v.disable
    BY CfKinds DEF CfOthers, Builder!KVKeys, Builder!CompleteKey, Builder!StrKeys, Builder!JoinKeys, Builder!FlagKeys,
       Builder!ArrKeys
  <2>5. QED
    BY <2>1, <2>2, <2>3, <2>4
<1>3. ~(None \in Builder!Check) /\ ~(None \in [form : {"string", "CMD", "NONE"}, val : Builder!Check])
  BY <1>1, <1>2
<1>4. ASSUME NEW r, r \in [form : {"string", "CMD", "NONE"}, val : Builder!Check], NEW v,
             v = (Builder!ParseHealthcheck(r)), v # None
      PROVE  v \in Builder!Check
  BY <1>4 DEF Builder!Raw, Builder!ParseHealthcheck, Builder!SerializeHealthcheck, Builder!HealthMeans,
     Builder!HealthShown, Builder!Check, Builder!Texts
<1>5. ASSUME NEW v, v \in Builder!Check, NEW r, r = (Builder!SerializeHealthcheck(v)), r # None
      PROVE  r \in [form : {"string", "CMD", "NONE"}, val : Builder!Check]
  BY <1>5 DEF Builder!Raw, Builder!ParseHealthcheck, Builder!SerializeHealthcheck, Builder!HealthMeans,
     Builder!HealthShown, Builder!Check, Builder!Texts
<1>6. ASSUME NEW r, r \in [form : {"string", "CMD", "NONE"}, val : Builder!Check], r.form = "string", NEW v,
             v = (Builder!ParseHealthcheck(r)), NEW w, w = (Builder!SerializeHealthcheck(v))
      PROVE  IF v = None \/ w = None THEN (Builder!HealthMeans(r)) = None
               ELSE (Builder!HealthMeans(w)) = (Builder!HealthMeans(r))
  <2>1. (v \in Builder!Check)
    BY <1>6 DEF Builder!Raw, Builder!ParseHealthcheck, Builder!SerializeHealthcheck, Builder!HealthMeans,
       Builder!HealthShown, Builder!Check, Builder!Texts
  <2>2. v # None
    BY <1>3, <2>1
  <2>3. ~(v.test = "" /\ v.opts = "" /\ ~v.disable) => (w \in [form : {"string", "CMD", "NONE"}, val : Builder!Check])
    BY <1>6, <2>1, <2>2 DEF Builder!Raw, Builder!ParseHealthcheck, Builder!SerializeHealthcheck, Builder!HealthMeans,
       Builder!HealthShown, Builder!Check, Builder!Texts
  <2>4. ~(v.test = "" /\ v.opts = "" /\ ~v.disable) => w # None
    BY <1>3, <2>3
  <2>5. QED
    BY <1>6, <2>2, <2>4 DEF Builder!Raw, Builder!ParseHealthcheck, Builder!SerializeHealthcheck, Builder!HealthMeans,
       Builder!HealthShown, Builder!Check, Builder!Texts
<1>7. ASSUME NEW v, v \in Builder!Check, ~v.disable, NEW r, r = (Builder!SerializeHealthcheck(v)), NEW w,
             w = (Builder!ParseHealthcheck(r))
      PROVE  IF r = None \/ w = None THEN (Builder!HealthShown(v)) = None
               ELSE (Builder!HealthShown(w)) = (Builder!HealthShown(v))
  <2>1. ~(v.test = "" /\ v.opts = "" /\ ~v.disable) => (r \in [form : {"string", "CMD", "NONE"}, val : Builder!Check])
    BY <1>7 DEF Builder!Raw, Builder!ParseHealthcheck, Builder!SerializeHealthcheck, Builder!HealthMeans,
       Builder!HealthShown, Builder!Check, Builder!Texts
  <2>2. ~(None \in Builder!Check) /\ (~(v.test = "" /\ v.opts = "" /\ ~v.disable) => r # None)
    BY <1>3, <2>1
  <2>3. QED
    BY <1>7, <2>2 DEF Builder!Raw, Builder!ParseHealthcheck, Builder!SerializeHealthcheck, Builder!HealthMeans,
       Builder!HealthShown, Builder!Check, Builder!Texts
<1>8. CfReads(k)
  BY <1>1, <1>2, <1>4 DEF CfReads
<1>9. CfWrites(k)
  BY <1>1, <1>2, <1>5 DEF CfWrites
<1>10. CfKeeps(k)
  <2> SUFFICES ASSUME NEW r, Builder!IsRaw(k, r), Builder!SupportedKey(k, r),
                      NEW v, v = Builder!ParseKey(k, r), NEW w, w = Builder!SerializeKey(k, v)
               PROVE  IF v = None \/ w = None THEN Builder!Means(k, r) = None
                        ELSE Builder!Means(k, w) = Builder!Means(k, r)
    BY DEF CfKeeps, CfRawKept
  <2>1. (r \in [form : {"string", "CMD", "NONE"}, val : Builder!Check]) /\ (r.form = "string")
          /\ v = (Builder!ParseHealthcheck(r)) /\ w = (Builder!SerializeHealthcheck(v))
    BY <1>1, <1>2
  <2>2. Builder!Means(k, r) = (Builder!HealthMeans(r)) /\ Builder!Means(k, w) = (Builder!HealthMeans(w))
    BY <1>1
  <2>3. QED
    BY <1>6, <2>1, <2>2
<1>11. CfShows(k)
  <2> SUFFICES ASSUME NEW v, Builder!IsModel(k, v), Builder!CompleteKey(k, v),
                      NEW r, r = Builder!SerializeKey(k, v), NEW w, w = Builder!ParseKey(k, r)
               PROVE  IF r = None \/ w = None THEN Builder!Field(k, v) = None
                        ELSE Builder!Field(k, w) = Builder!Field(k, v)
    BY DEF CfShows, CfFieldShown
  <2>1. (v \in Builder!Check) /\ (~v.disable) /\ r = (Builder!SerializeHealthcheck(v))
          /\ w = (Builder!ParseHealthcheck(r))
    BY <1>1, <1>2
  <2>2. Builder!Field(k, v) = (Builder!HealthShown(v)) /\ Builder!Field(k, w) = (Builder!HealthShown(w))
    BY <1>2
  <2>3. QED
    BY <1>7, <2>1, <2>2
<1>12. QED
  BY <1>8, <1>9, <1>10, <1>11 DEF CfKeySound

CfRawDeploy(r) ==
  r \in [form : {"plain", "plain+"}, val : Builder!Texts] /\ (r.form = "plain" => r.val # "")
CfShownDeploy(v) == IF v = "" THEN None ELSE v

\* Limits.
LEMMA CfDeploy ==
  ASSUME NEW k, k = "deploy", ~Builder!IsModel(k, None), ~Builder!IsRaw(k, None)
  PROVE  CfKeySound(k)
<1>1. \A r : /\ Builder!IsRaw(k, r) <=> CfRawDeploy(r)
             /\ Builder!ParseKey(k, r) = Builder!ParseDeploy(r)
             /\ Builder!Means(k, r) = r.val
             /\ Builder!SupportedKey(k, r) => r.form = "plain"
  <2>1. \A r : Builder!IsRaw(k, r) <=> CfRawDeploy(r)
    BY CfKinds DEF CfOthers, Builder!KVKeys, Builder!IsRaw, CfRawDeploy, Builder!StrKeys, Builder!JoinKeys,
       Builder!FlagKeys, Builder!ArrKeys
  <2>2. \A r : Builder!ParseKey(k, r) = Builder!ParseDeploy(r)
    BY CfKinds DEF CfOthers, Builder!KVKeys, Builder!ParseKey, Builder!ParseScalar, CfRawDeploy, Builder!StrKeys,
       Builder!JoinKeys, Builder!FlagKeys, Builder!ArrKeys
  <2>3. \A r : Builder!Means(k, r) = r.val
    BY CfKinds DEF CfOthers, Builder!KVKeys, Builder!Means, CfRawDeploy, Builder!StrKeys, Builder!JoinKeys,
       Builder!FlagKeys, Builder!ArrKeys
  <2>4. \A r : Builder!SupportedKey(k, r) => r.form = "plain"
    BY CfKinds DEF CfOthers, Builder!KVKeys, Builder!SupportedKey, Builder!ParseScalar, CfRawDeploy, Builder!StrKeys,
       Builder!JoinKeys, Builder!FlagKeys, Builder!ArrKeys
  <2>5. QED
    BY <2>1, <2>2, <2>3, <2>4
<1>2. \A v : /\ Builder!IsModel(k, v) <=> v \in Builder!Texts
             /\ Builder!SerializeKey(k, v) = Builder!SerializeDeploy(v)
             /\ Builder!Field(k, v) = CfShownDeploy(v)
  <2>1. \A v : Builder!IsModel(k, v) <=> v \in Builder!Texts
    BY CfKinds DEF CfOthers, Builder!KVKeys, Builder!IsModel, CfRawDeploy, Builder!StrKeys, Builder!JoinKeys,
       Builder!FlagKeys, Builder!ArrKeys
  <2>2. \A v : Builder!SerializeKey(k, v) = Builder!SerializeDeploy(v)
    BY CfKinds DEF CfOthers, Builder!KVKeys, Builder!SerializeKey, Builder!SerializeScalar, CfRawDeploy,
       Builder!StrKeys, Builder!JoinKeys, Builder!FlagKeys, Builder!ArrKeys
  <2>3. \A v : Builder!Field(k, v) = CfShownDeploy(v)
    BY CfKinds DEF CfOthers, Builder!KVKeys, Builder!Field, Builder!OrAbsent, CfShownDeploy, Builder!StrKeys,
       Builder!JoinKeys, Builder!FlagKeys, Builder!ArrKeys
  <2>4. QED
    BY <2>1, <2>2, <2>3
<1>3. ~(None \in Builder!Texts) /\ ~(CfRawDeploy(None))
  BY <1>1, <1>2
<1>4. ASSUME NEW r, CfRawDeploy(r), NEW v, v = (Builder!ParseDeploy(r)), v # None
      PROVE  v \in Builder!Texts
  BY <1>4 DEF Builder!Raw, Builder!ParseDeploy, Builder!SerializeDeploy, Builder!Texts, CfRawDeploy
<1>5. ASSUME NEW v, v \in Builder!Texts, NEW r, r = (Builder!SerializeDeploy(v)), r # None
      PROVE  CfRawDeploy(r)
  BY <1>5 DEF Builder!Raw, Builder!ParseDeploy, Builder!SerializeDeploy, Builder!Texts, CfRawDeploy
<1>6. ASSUME NEW r, CfRawDeploy(r), r.form = "plain", NEW v, v = (Builder!ParseDeploy(r)), NEW w,
             w = (Builder!SerializeDeploy(v))
      PROVE  IF v = None \/ w = None THEN (r.val) = None ELSE (w.val) = (r.val)
  <2>1. (v \in Builder!Texts)
    BY <1>6 DEF Builder!Raw, Builder!ParseDeploy, Builder!SerializeDeploy, Builder!Texts, CfRawDeploy
  <2>2. v # None
    BY <1>3, <2>1
  <2>3. (CfRawDeploy(w))
    BY <1>6, <2>1, <2>2 DEF Builder!Raw, Builder!ParseDeploy, Builder!SerializeDeploy, Builder!Texts, CfRawDeploy
  <2>4. w # None
    BY <1>3, <2>3
  <2>5. QED
    BY <1>6, <2>2, <2>4 DEF Builder!Raw, Builder!ParseDeploy, Builder!SerializeDeploy, Builder!Texts, CfRawDeploy
<1>7. ASSUME NEW v, v \in Builder!Texts, NEW r, r = (Builder!SerializeDeploy(v)), NEW w, w = (Builder!ParseDeploy(r))
      PROVE  IF r = None \/ w = None THEN CfShownDeploy(v) = None
               ELSE CfShownDeploy(w) = CfShownDeploy(v)
  <2>1. v # "" => (CfRawDeploy(r))
    BY <1>7 DEF Builder!Raw, Builder!ParseDeploy, Builder!SerializeDeploy, Builder!Texts, CfRawDeploy
  <2>2. ~(None \in Builder!Texts) /\ (v # "" => r # None)
    BY <1>3, <2>1
  <2>3. QED
    BY <1>7, <2>2 DEF Builder!Raw, Builder!ParseDeploy, Builder!SerializeDeploy, Builder!Texts, CfRawDeploy,
                      CfShownDeploy
<1>8. CfReads(k)
  BY <1>1, <1>2, <1>4 DEF CfReads
<1>9. CfWrites(k)
  BY <1>1, <1>2, <1>5 DEF CfWrites
<1>10. CfKeeps(k)
  <2> SUFFICES ASSUME NEW r, Builder!IsRaw(k, r), Builder!SupportedKey(k, r),
                      NEW v, v = Builder!ParseKey(k, r), NEW w, w = Builder!SerializeKey(k, v)
               PROVE  IF v = None \/ w = None THEN Builder!Means(k, r) = None
                        ELSE Builder!Means(k, w) = Builder!Means(k, r)
    BY DEF CfKeeps, CfRawKept
  <2>1. (CfRawDeploy(r)) /\ (r.form = "plain") /\ v = (Builder!ParseDeploy(r)) /\ w = (Builder!SerializeDeploy(v))
    BY <1>1, <1>2
  <2>2. Builder!Means(k, r) = (r.val) /\ Builder!Means(k, w) = (w.val)
    BY <1>1
  <2>3. IF v = None \/ w = None THEN (r.val) = None ELSE (w.val) = (r.val)
    BY <1>6, <2>1
  <2>4. QED
    BY <2>2, <2>3
<1>11. CfShows(k)
  <2> SUFFICES ASSUME NEW v, Builder!IsModel(k, v), Builder!CompleteKey(k, v),
                      NEW r, r = Builder!SerializeKey(k, v), NEW w, w = Builder!ParseKey(k, r)
               PROVE  IF r = None \/ w = None THEN Builder!Field(k, v) = None
                        ELSE Builder!Field(k, w) = Builder!Field(k, v)
    BY DEF CfShows, CfFieldShown
  <2>1. (v \in Builder!Texts) /\ r = (Builder!SerializeDeploy(v)) /\ w = (Builder!ParseDeploy(r))
    BY <1>1, <1>2
  <2>2. Builder!Field(k, v) = CfShownDeploy(v) /\ Builder!Field(k, w) = CfShownDeploy(w)
    BY <1>2
  <2>3. IF r = None \/ w = None THEN CfShownDeploy(v) = None
          ELSE CfShownDeploy(w) = CfShownDeploy(v)
    BY <1>7, <2>1
  <2>4. QED
    BY <2>2, <2>3
<1>12. QED
  BY <1>8, <1>9, <1>10, <1>11 DEF CfKeySound

\* Logging, which is not written without a driver.
LEMMA CfLogging ==
  ASSUME NEW k, k = "logging", ~Builder!IsModel(k, None), ~Builder!IsRaw(k, None)
  PROVE  CfKeySound(k)
<1>1. \A r : /\ Builder!IsRaw(k, r) <=> r \in [form : {"plain"}, val : Builder!Logging]
             /\ Builder!ParseKey(k, r) = Builder!ParseLogging(r)
             /\ Builder!Means(k, r) = r.val
             /\ Builder!SupportedKey(k, r) => r.val.driver # ""
  <2>1. \A r : Builder!IsRaw(k, r) <=> r \in [form : {"plain"}, val : Builder!Logging]
    BY CfKinds DEF CfOthers, Builder!KVKeys, Builder!IsRaw, Builder!StrKeys, Builder!JoinKeys, Builder!FlagKeys,
       Builder!ArrKeys
  <2>2. \A r : Builder!ParseKey(k, r) = Builder!ParseLogging(r)
    BY CfKinds DEF CfOthers, Builder!KVKeys, Builder!ParseKey, Builder!ParseScalar, Builder!StrKeys, Builder!JoinKeys,
       Builder!FlagKeys, Builder!ArrKeys
  <2>3. \A r : Builder!Means(k, r) = r.val
    BY CfKinds DEF CfOthers, Builder!KVKeys, Builder!Means, Builder!StrKeys, Builder!JoinKeys, Builder!FlagKeys,
       Builder!ArrKeys
  <2>4. \A r : Builder!SupportedKey(k, r) => r.val.driver # ""
    BY CfKinds DEF CfOthers, Builder!KVKeys, Builder!SupportedKey, Builder!ParseScalar, Builder!StrKeys,
       Builder!JoinKeys, Builder!FlagKeys, Builder!ArrKeys
  <2>5. QED
    BY <2>1, <2>2, <2>3, <2>4
<1>2. \A v : /\ Builder!IsModel(k, v) <=> v \in Builder!Logging
             /\ Builder!SerializeKey(k, v) = Builder!SerializeLogging(v)
             /\ Builder!Field(k, v) = Builder!LoggingShown(v)
  <2>1. \A v : Builder!IsModel(k, v) <=> v \in Builder!Logging
    BY CfKinds DEF CfOthers, Builder!KVKeys, Builder!IsModel, Builder!StrKeys, Builder!JoinKeys, Builder!FlagKeys,
       Builder!ArrKeys
  <2>2. \A v : Builder!SerializeKey(k, v) = Builder!SerializeLogging(v)
    BY CfKinds DEF CfOthers, Builder!KVKeys, Builder!SerializeKey, Builder!SerializeScalar, Builder!StrKeys,
       Builder!JoinKeys, Builder!FlagKeys, Builder!ArrKeys
  <2>3. \A v : Builder!Field(k, v) = Builder!LoggingShown(v)
    BY CfKinds DEF CfOthers, Builder!KVKeys, Builder!Field, Builder!OrAbsent, Builder!StrKeys, Builder!JoinKeys,
       Builder!FlagKeys, Builder!ArrKeys
  <2>4. QED
    BY <2>1, <2>2, <2>3
<1>3. ~(None \in Builder!Logging) /\ ~(None \in [form : {"plain"}, val : Builder!Logging])
  BY <1>1, <1>2
<1>4. ASSUME NEW r, r \in [form : {"plain"}, val : Builder!Logging], NEW v, v = (Builder!ParseLogging(r)), v # None
      PROVE  v \in Builder!Logging
  BY <1>4 DEF Builder!Raw, Builder!ParseLogging, Builder!SerializeLogging, Builder!LoggingShown, Builder!Logging
<1>5. ASSUME NEW v, v \in Builder!Logging, NEW r, r = (Builder!SerializeLogging(v)), r # None
      PROVE  r \in [form : {"plain"}, val : Builder!Logging]
  BY <1>5 DEF Builder!Raw, Builder!ParseLogging, Builder!SerializeLogging, Builder!LoggingShown, Builder!Logging
<1>6. ASSUME NEW r, r \in [form : {"plain"}, val : Builder!Logging], r.val.driver # "", NEW v,
             v = (Builder!ParseLogging(r)), NEW w, w = (Builder!SerializeLogging(v))
      PROVE  IF v = None \/ w = None THEN (r.val) = None ELSE (w.val) = (r.val)
  <2>1. (v \in Builder!Logging)
    BY <1>6 DEF Builder!Raw, Builder!ParseLogging, Builder!SerializeLogging, Builder!LoggingShown, Builder!Logging
  <2>2. v # None
    BY <1>3, <2>1
  <2>3. (w \in [form : {"plain"}, val : Builder!Logging])
    BY <1>6, <2>1, <2>2 DEF Builder!Raw, Builder!ParseLogging, Builder!SerializeLogging, Builder!LoggingShown,
       Builder!Logging
  <2>4. w # None
    BY <1>3, <2>3
  <2>5. QED
    BY <1>6, <2>2, <2>4 DEF Builder!Raw, Builder!ParseLogging, Builder!SerializeLogging, Builder!LoggingShown,
       Builder!Logging
<1>7. ASSUME NEW v, v \in Builder!Logging, NEW r, r = (Builder!SerializeLogging(v)), NEW w,
             w = (Builder!ParseLogging(r))
      PROVE  IF r = None \/ w = None THEN (Builder!LoggingShown(v)) = None
               ELSE (Builder!LoggingShown(w)) = (Builder!LoggingShown(v))
  <2>1. v.driver # "" => (r \in [form : {"plain"}, val : Builder!Logging])
    BY <1>7 DEF Builder!Raw, Builder!ParseLogging, Builder!SerializeLogging, Builder!LoggingShown, Builder!Logging
  <2>2. ~(None \in Builder!Logging) /\ (v.driver # "" => r # None)
    BY <1>3, <2>1
  <2>3. QED
    BY <1>7, <2>2 DEF Builder!Raw, Builder!ParseLogging, Builder!SerializeLogging, Builder!LoggingShown,
       Builder!Logging
<1>8. CfReads(k)
  BY <1>1, <1>2, <1>4 DEF CfReads
<1>9. CfWrites(k)
  BY <1>1, <1>2, <1>5 DEF CfWrites
<1>10. CfKeeps(k)
  <2> SUFFICES ASSUME NEW r, Builder!IsRaw(k, r), Builder!SupportedKey(k, r),
                      NEW v, v = Builder!ParseKey(k, r), NEW w, w = Builder!SerializeKey(k, v)
               PROVE  IF v = None \/ w = None THEN Builder!Means(k, r) = None
                        ELSE Builder!Means(k, w) = Builder!Means(k, r)
    BY DEF CfKeeps, CfRawKept
  <2>1. (r \in [form : {"plain"}, val : Builder!Logging]) /\ (r.val.driver # "") /\ v = (Builder!ParseLogging(r))
          /\ w = (Builder!SerializeLogging(v))
    BY <1>1, <1>2
  <2>2. Builder!Means(k, r) = (r.val) /\ Builder!Means(k, w) = (w.val)
    BY <1>1
  <2>3. IF v = None \/ w = None THEN (r.val) = None ELSE (w.val) = (r.val)
    BY <1>6, <2>1
  <2>4. QED
    BY <2>2, <2>3
<1>11. CfShows(k)
  <2> SUFFICES ASSUME NEW v, Builder!IsModel(k, v), Builder!CompleteKey(k, v),
                      NEW r, r = Builder!SerializeKey(k, v), NEW w, w = Builder!ParseKey(k, r)
               PROVE  IF r = None \/ w = None THEN Builder!Field(k, v) = None
                        ELSE Builder!Field(k, w) = Builder!Field(k, v)
    BY DEF CfShows, CfFieldShown
  <2>1. (v \in Builder!Logging) /\ r = (Builder!SerializeLogging(v)) /\ w = (Builder!ParseLogging(r))
    BY <1>1, <1>2
  <2>2. Builder!Field(k, v) = (Builder!LoggingShown(v)) /\ Builder!Field(k, w) = (Builder!LoggingShown(w))
    BY <1>2
  <2>3. IF r = None \/ w = None THEN (Builder!LoggingShown(v)) = None
          ELSE (Builder!LoggingShown(w)) = (Builder!LoggingShown(v))
    BY <1>7, <2>1
  <2>4. QED
    BY <2>2, <2>3
<1>12. QED
  BY <1>8, <1>9, <1>10, <1>11 DEF CfKeySound

CfRawBuild(r) ==
  r \in [form : {"short", "long", "long+"}, val : Builder!Context] /\ (r.form = "short" => r.val.rest = "")

\* Builds: nothing but a context is written in short.
LEMMA CfBuild ==
  ASSUME NEW k, k = "build", ~Builder!IsModel(k, None), ~Builder!IsRaw(k, None)
  PROVE  CfKeySound(k)
<1>1. \A r : /\ Builder!IsRaw(k, r) <=> CfRawBuild(r)
             /\ Builder!ParseKey(k, r) = Builder!ParseBuild(r)
             /\ Builder!Means(k, r) = Builder!BuildMeans(r.val)
  <2>1. \A r : Builder!IsRaw(k, r) <=> CfRawBuild(r)
    BY CfKinds DEF CfOthers, Builder!KVKeys, Builder!IsRaw, CfRawBuild, Builder!StrKeys, Builder!JoinKeys,
       Builder!FlagKeys, Builder!ArrKeys
  <2>2. \A r : Builder!ParseKey(k, r) = Builder!ParseBuild(r)
    BY CfKinds DEF CfOthers, Builder!KVKeys, Builder!ParseKey, Builder!ParseScalar, CfRawBuild, Builder!StrKeys,
       Builder!JoinKeys, Builder!FlagKeys, Builder!ArrKeys
  <2>3. \A r : Builder!Means(k, r) = Builder!BuildMeans(r.val)
    BY CfKinds DEF CfOthers, Builder!KVKeys, Builder!Means, CfRawBuild, Builder!StrKeys, Builder!JoinKeys,
       Builder!FlagKeys, Builder!ArrKeys
  <2>4. QED
    BY <2>1, <2>2, <2>3
<1>2. \A v : /\ Builder!IsModel(k, v) <=> v \in Builder!Context
             /\ Builder!SerializeKey(k, v) = Builder!SerializeBuild(v)
             /\ Builder!Field(k, v) = Builder!BuildMeans(v)
  <2>1. \A v : Builder!IsModel(k, v) <=> v \in Builder!Context
    BY CfKinds DEF CfOthers, Builder!KVKeys, Builder!IsModel, CfRawBuild, Builder!StrKeys, Builder!JoinKeys,
       Builder!FlagKeys, Builder!ArrKeys
  <2>2. \A v : Builder!SerializeKey(k, v) = Builder!SerializeBuild(v)
    BY CfKinds DEF CfOthers, Builder!KVKeys, Builder!SerializeKey, Builder!SerializeScalar, CfRawBuild,
       Builder!StrKeys, Builder!JoinKeys, Builder!FlagKeys, Builder!ArrKeys
  <2>3. \A v : Builder!Field(k, v) = Builder!BuildMeans(v)
    BY CfKinds DEF CfOthers, Builder!KVKeys, Builder!Field, Builder!OrAbsent, CfRawBuild, Builder!StrKeys,
       Builder!JoinKeys, Builder!FlagKeys, Builder!ArrKeys
  <2>4. QED
    BY <2>1, <2>2, <2>3
<1>3. ~(None \in Builder!Context) /\ ~(CfRawBuild(None))
  BY <1>1, <1>2
<1>4. ASSUME NEW r, CfRawBuild(r), NEW v, v = (Builder!ParseBuild(r)), v # None
      PROVE  v \in Builder!Context
  BY <1>4 DEF Builder!Raw, Builder!ParseBuild, Builder!SerializeBuild, Builder!BuildMeans, Builder!Context, CfRawBuild
<1>5. ASSUME NEW v, v \in Builder!Context, NEW r, r = (Builder!SerializeBuild(v)), r # None
      PROVE  CfRawBuild(r)
  BY <1>5 DEF Builder!Raw, Builder!ParseBuild, Builder!SerializeBuild, Builder!BuildMeans, Builder!Context, CfRawBuild
<1>6. ASSUME NEW r, CfRawBuild(r), NEW v, v = (Builder!ParseBuild(r)), NEW w, w = (Builder!SerializeBuild(v))
      PROVE  IF v = None \/ w = None THEN (Builder!BuildMeans(r.val)) = None
               ELSE (Builder!BuildMeans(w.val)) = (Builder!BuildMeans(r.val))
  <2>1. (v \in Builder!Context)
    BY <1>6 DEF Builder!Raw, Builder!ParseBuild, Builder!SerializeBuild, Builder!BuildMeans, Builder!Context,
       CfRawBuild
  <2>2. v # None
    BY <1>3, <2>1
  <2>3. (CfRawBuild(w))
    BY <1>6, <2>1, <2>2 DEF Builder!Raw, Builder!ParseBuild, Builder!SerializeBuild, Builder!BuildMeans,
       Builder!Context, CfRawBuild
  <2>4. w # None
    BY <1>3, <2>3
  <2>5. QED
    BY <1>6, <2>2, <2>4 DEF Builder!Raw, Builder!ParseBuild, Builder!SerializeBuild, Builder!BuildMeans,
       Builder!Context, CfRawBuild
<1>7. ASSUME NEW v, v \in Builder!Context, NEW r, r = (Builder!SerializeBuild(v)), NEW w, w = (Builder!ParseBuild(r))
      PROVE  IF r = None \/ w = None THEN (Builder!BuildMeans(v)) = None
               ELSE (Builder!BuildMeans(w)) = (Builder!BuildMeans(v))
  <2>1. (CfRawBuild(r))
    BY <1>7 DEF Builder!Raw, Builder!ParseBuild, Builder!SerializeBuild, Builder!BuildMeans, Builder!Context,
       CfRawBuild
  <2>2. ~(None \in Builder!Context) /\ (r # None)
    BY <1>3, <2>1
  <2>3. QED
    BY <1>7, <2>2 DEF Builder!Raw, Builder!ParseBuild, Builder!SerializeBuild, Builder!BuildMeans, Builder!Context,
       CfRawBuild
<1>8. CfReads(k)
  BY <1>1, <1>2, <1>4 DEF CfReads
<1>9. CfWrites(k)
  BY <1>1, <1>2, <1>5 DEF CfWrites
<1>10. CfKeeps(k)
  <2> SUFFICES ASSUME NEW r, Builder!IsRaw(k, r), Builder!SupportedKey(k, r),
                      NEW v, v = Builder!ParseKey(k, r), NEW w, w = Builder!SerializeKey(k, v)
               PROVE  IF v = None \/ w = None THEN Builder!Means(k, r) = None
                        ELSE Builder!Means(k, w) = Builder!Means(k, r)
    BY DEF CfKeeps, CfRawKept
  <2>1. (CfRawBuild(r)) /\ v = (Builder!ParseBuild(r)) /\ w = (Builder!SerializeBuild(v))
    BY <1>1, <1>2
  <2>2. Builder!Means(k, r) = (Builder!BuildMeans(r.val)) /\ Builder!Means(k, w) = (Builder!BuildMeans(w.val))
    BY <1>1
  <2>3. QED
    BY <1>6, <2>1, <2>2
<1>11. CfShows(k)
  <2> SUFFICES ASSUME NEW v, Builder!IsModel(k, v), Builder!CompleteKey(k, v),
                      NEW r, r = Builder!SerializeKey(k, v), NEW w, w = Builder!ParseKey(k, r)
               PROVE  IF r = None \/ w = None THEN Builder!Field(k, v) = None
                        ELSE Builder!Field(k, w) = Builder!Field(k, v)
    BY DEF CfShows, CfFieldShown
  <2>1. (v \in Builder!Context) /\ r = (Builder!SerializeBuild(v)) /\ w = (Builder!ParseBuild(r))
    BY <1>1, <1>2
  <2>2. Builder!Field(k, v) = (Builder!BuildMeans(v)) /\ Builder!Field(k, w) = (Builder!BuildMeans(w))
    BY <1>2
  <2>3. QED
    BY <1>7, <2>1, <2>2
<1>12. QED
  BY <1>8, <1>9, <1>10, <1>11 DEF CfKeySound

\* Limits of a process.
LEMMA CfUlimits ==
  ASSUME NEW k, k = "ulimits", ~Builder!IsModel(k, None), ~Builder!IsRaw(k, None)
  PROVE  CfKeySound(k)
<1>1. \A r : /\ Builder!IsRaw(k, r) <=> r \in [form : {"number", "pair"}, val : Builder!Limits]
             /\ Builder!ParseKey(k, r) = Builder!ParseUlimits(r)
             /\ Builder!Means(k, r) = r.val
  <2>1. \A r : Builder!IsRaw(k, r) <=> r \in [form : {"number", "pair"}, val : Builder!Limits]
    BY CfKinds DEF CfOthers, Builder!KVKeys, Builder!IsRaw, Builder!StrKeys, Builder!JoinKeys, Builder!FlagKeys,
       Builder!ArrKeys
  <2>2. \A r : Builder!ParseKey(k, r) = Builder!ParseUlimits(r)
    BY CfKinds DEF CfOthers, Builder!KVKeys, Builder!ParseKey, Builder!ParseScalar, Builder!StrKeys, Builder!JoinKeys,
       Builder!FlagKeys, Builder!ArrKeys
  <2>3. \A r : Builder!Means(k, r) = r.val
    BY CfKinds DEF CfOthers, Builder!KVKeys, Builder!Means, Builder!StrKeys, Builder!JoinKeys, Builder!FlagKeys,
       Builder!ArrKeys
  <2>4. QED
    BY <2>1, <2>2, <2>3
<1>2. \A v : /\ Builder!IsModel(k, v) <=> v \in Builder!Limits
             /\ Builder!SerializeKey(k, v) = Builder!SerializeUlimits(v)
             /\ Builder!Field(k, v) = v
  <2>1. \A v : Builder!IsModel(k, v) <=> v \in Builder!Limits
    BY CfKinds DEF CfOthers, Builder!KVKeys, Builder!IsModel, Builder!StrKeys, Builder!JoinKeys, Builder!FlagKeys,
       Builder!ArrKeys
  <2>2. \A v : Builder!SerializeKey(k, v) = Builder!SerializeUlimits(v)
    BY CfKinds DEF CfOthers, Builder!KVKeys, Builder!SerializeKey, Builder!SerializeScalar, Builder!StrKeys,
       Builder!JoinKeys, Builder!FlagKeys, Builder!ArrKeys
  <2>3. \A v : Builder!Field(k, v) = v
    BY CfKinds DEF CfOthers, Builder!KVKeys, Builder!Field, Builder!OrAbsent, Builder!StrKeys, Builder!JoinKeys,
       Builder!FlagKeys, Builder!ArrKeys
  <2>4. QED
    BY <2>1, <2>2, <2>3
<1>3. ~(None \in Builder!Limits) /\ ~(None \in [form : {"number", "pair"}, val : Builder!Limits])
  BY <1>1, <1>2
<1>4. ASSUME NEW r, r \in [form : {"number", "pair"}, val : Builder!Limits], NEW v, v = (Builder!ParseUlimits(r)),
             v # None
      PROVE  v \in Builder!Limits
  BY <1>4 DEF Builder!Raw, Builder!ParseUlimits, Builder!SerializeUlimits
<1>5. ASSUME NEW v, v \in Builder!Limits, NEW r, r = (Builder!SerializeUlimits(v)), r # None
      PROVE  r \in [form : {"number", "pair"}, val : Builder!Limits]
  BY <1>5 DEF Builder!Raw, Builder!ParseUlimits, Builder!SerializeUlimits
<1>6. ASSUME NEW r, r \in [form : {"number", "pair"}, val : Builder!Limits], NEW v, v = (Builder!ParseUlimits(r)),
             NEW w, w = (Builder!SerializeUlimits(v))
      PROVE  IF v = None \/ w = None THEN (r.val) = None ELSE (w.val) = (r.val)
  <2>1. (v \in Builder!Limits)
    BY <1>6 DEF Builder!Raw, Builder!ParseUlimits, Builder!SerializeUlimits
  <2>2. v # None
    BY <1>3, <2>1
  <2>3. (w \in [form : {"number", "pair"}, val : Builder!Limits])
    BY <1>6, <2>1, <2>2 DEF Builder!Raw, Builder!ParseUlimits, Builder!SerializeUlimits
  <2>4. w # None
    BY <1>3, <2>3
  <2>5. QED
    BY <1>6, <2>2, <2>4 DEF Builder!Raw, Builder!ParseUlimits, Builder!SerializeUlimits
<1>7. ASSUME NEW v, v \in Builder!Limits, NEW r, r = (Builder!SerializeUlimits(v)), NEW w,
             w = (Builder!ParseUlimits(r))
      PROVE  IF r = None \/ w = None THEN (v) = None ELSE (w) = (v)
  <2>1. (r \in [form : {"number", "pair"}, val : Builder!Limits])
    BY <1>7 DEF Builder!Raw, Builder!ParseUlimits, Builder!SerializeUlimits
  <2>2. ~(None \in Builder!Limits) /\ (r # None)
    BY <1>3, <2>1
  <2>3. QED
    BY <1>7, <2>2 DEF Builder!Raw, Builder!ParseUlimits, Builder!SerializeUlimits
<1>8. CfReads(k)
  BY <1>1, <1>2, <1>4 DEF CfReads
<1>9. CfWrites(k)
  BY <1>1, <1>2, <1>5 DEF CfWrites
<1>10. CfKeeps(k)
  <2> SUFFICES ASSUME NEW r, Builder!IsRaw(k, r), Builder!SupportedKey(k, r),
                      NEW v, v = Builder!ParseKey(k, r), NEW w, w = Builder!SerializeKey(k, v)
               PROVE  IF v = None \/ w = None THEN Builder!Means(k, r) = None
                        ELSE Builder!Means(k, w) = Builder!Means(k, r)
    BY DEF CfKeeps, CfRawKept
  <2>1. (r \in [form : {"number", "pair"}, val : Builder!Limits]) /\ v = (Builder!ParseUlimits(r))
          /\ w = (Builder!SerializeUlimits(v))
    BY <1>1, <1>2
  <2>2. Builder!Means(k, r) = (r.val) /\ Builder!Means(k, w) = (w.val)
    BY <1>1
  <2>3. QED
    BY <1>6, <2>1, <2>2
<1>11. CfShows(k)
  <2> SUFFICES ASSUME NEW v, Builder!IsModel(k, v), Builder!CompleteKey(k, v),
                      NEW r, r = Builder!SerializeKey(k, v), NEW w, w = Builder!ParseKey(k, r)
               PROVE  IF r = None \/ w = None THEN Builder!Field(k, v) = None
                        ELSE Builder!Field(k, w) = Builder!Field(k, v)
    BY DEF CfShows, CfFieldShown
  <2>1. (v \in Builder!Limits) /\ r = (Builder!SerializeUlimits(v)) /\ w = (Builder!ParseUlimits(r))
    BY <1>1, <1>2
  <2>2. Builder!Field(k, v) = (v) /\ Builder!Field(k, w) = (w)
    BY <1>2
  <2>3. QED
    BY <1>7, <2>1, <2>2
<1>12. QED
  BY <1>8, <1>9, <1>10, <1>11 DEF CfKeySound

LEMMA CfItems ==
  ASSUME NEW A, NEW s \in Seq(A)
  PROVE  \A i \in DOMAIN s : s[i] \in A
OBVIOUS

\* A sequence taken item by item.
LEMMA CfMapped ==
  ASSUME NEW A, NEW B, NEW s \in Seq(A), NEW f, f = [i \in DOMAIN s |-> f[i]], \A i \in DOMAIN s : f[i] \in B
  PROVE  f \in Seq(B)
<1>1. Len(s) \in Nat /\ DOMAIN s = 1 .. Len(s)
  OBVIOUS
<1>2. f \in [1 .. Len(s) -> B]
  BY <1>1
<1>3. QED
  BY <1>1, <1>2

CfRawPort == [form : {"short", "long", "long+"}, val : Builder!Port]
CfRawPorts(r) ==
  r \in [form : {"list"}, val : Seq(CfRawPort)] /\ \A i \in DOMAIN r.val : r.val[i].val.container # ""
CfModelPorts(v) == v \in Seq(Builder!Port) /\ \A i \in DOMAIN v : v[i].ip # "[::1]"
CfPortKnown(p) == IF p.form = "short" THEN p.val.ip # "[::1]" ELSE p.form = "long" /\ p.val.ip = ""

\* One port.
LEMMA CfPortRead ==
  ASSUME NEW p \in CfRawPort
  PROVE  /\ Builder!ParsePort(p) \in Builder!Port /\ Builder!ParsePort(p).ip # "[::1]"
         /\ CfPortKnown(p) => Builder!ParsePort(p) = p.val
<1>1. CASE p.form = "short" /\ p.val.ip = "[::1]"
  BY <1>1 DEF CfRawPort, CfPortKnown, Builder!ParsePort, Builder!parsePortSpec, Builder!Port
<1>2. CASE p.form = "short" /\ p.val.ip # "[::1]"
  BY <1>2 DEF CfRawPort, CfPortKnown, Builder!ParsePort, Builder!parsePortSpec
<1>3. CASE p.form # "short"
  BY <1>3 DEF CfRawPort, CfPortKnown, Builder!ParsePort, Builder!Port
<1>4. QED
  BY <1>1, <1>2, <1>3

LEMMA CfPortWritten ==
  ASSUME NEW p \in Builder!Port
  PROVE  LET w == Builder!portSpecToString(p)
         IN  /\ w \in CfRawPort /\ w.form = "short" /\ w.val.container # "" /\ w.val.ip = p.ip
             /\ p.container # "" => Builder!PortMeans(w) = [p EXCEPT !.protocol = IF @ = "tcp" THEN "" ELSE @]
             /\ p.container # "" => Builder!PortShown(w.val) = Builder!PortShown(p)
<1> DEFINE v == [p EXCEPT !.protocol = IF @ = "tcp" THEN "" ELSE @,
                          !.container = IF @ = "" THEN "undefined" ELSE @]
<1>1. Builder!portSpecToString(p) = [form |-> "short", val |-> v]
  BY DEF Builder!portSpecToString, Builder!Raw
<1>2. v \in Builder!Port /\ v.container # "" /\ v.ip = p.ip
  BY DEF Builder!Port
<1>3. p.container # "" => v = [p EXCEPT !.protocol = IF @ = "tcp" THEN "" ELSE @]
  BY DEF Builder!Port
<1>4. p.container # "" => [v EXCEPT !.protocol = IF @ = "tcp" THEN "" ELSE @] = v
  BY <1>3 DEF Builder!Port
<1>5. p.container # "" => Builder!PortShown(v) = Builder!PortShown(p)
  BY <1>3 DEF Builder!Port, Builder!PortShown
<1> HIDE DEF v
<1> DEFINE w == Builder!portSpecToString(p)
<1>6. w.form = "short" /\ w.val = v
  BY <1>1
<1> HIDE DEF w
<1>7. w = [form |-> "short", val |-> v]
  BY <1>1 DEF w
<1>8. w \in CfRawPort
  BY <1>2, <1>7 DEF CfRawPort
<1>9. Builder!PortMeans(w) = [v EXCEPT !.protocol = IF @ = "tcp" THEN "" ELSE @]
  BY <1>6 DEF Builder!PortMeans
<1>10. p.container # "" => Builder!PortMeans(w) = [p EXCEPT !.protocol = IF @ = "tcp" THEN "" ELSE @]
  BY <1>3, <1>4, <1>9
<1>11. QED
  BY <1>2, <1>5, <1>6, <1>8, <1>10 DEF w

CfWritePorts(v) == [i \in DOMAIN v |-> Builder!portSpecToString(v[i])]
CfPortsMean(s) == [i \in DOMAIN s |-> Builder!PortMeans(s[i])]
CfPortsShown(v) == [i \in DOMAIN v |-> Builder!PortShown(v[i])]

LEMMA CfPortsRead ==
  ASSUME NEW r, CfRawPorts(r)
  PROVE  /\ CfModelPorts(Builder!ParsePorts(r))
         /\ (\A i \in DOMAIN r.val : CfPortKnown(r.val[i])) =>
              CfPortsMean(CfWritePorts(Builder!ParsePorts(r))) = CfPortsMean(r.val)
<1> DEFINE v == Builder!ParsePorts(r)
<1>1. r.val \in Seq(CfRawPort) /\ v = [i \in DOMAIN r.val |-> Builder!ParsePort(r.val[i])]
  BY DEF CfRawPorts, Builder!ParsePorts, Builder!MapSeq
<1>2. \A i \in DOMAIN r.val : r.val[i] \in CfRawPort
  BY <1>1
<1> HIDE DEF v
<1>3. DOMAIN v = DOMAIN r.val /\ \A i \in DOMAIN v : v[i] \in Builder!Port /\ v[i].ip # "[::1]"
  BY <1>1, <1>2, CfPortRead
<1>4. v \in Seq(Builder!Port)
  BY <1>1, <1>3, CfMapped
<1>5. ASSUME \A i \in DOMAIN r.val : CfPortKnown(r.val[i]), NEW i \in DOMAIN r.val
      PROVE  Builder!PortMeans(Builder!portSpecToString(v[i])) = Builder!PortMeans(r.val[i])
  <2>1. v[i] = r.val[i].val /\ v[i] \in Builder!Port /\ v[i].container # ""
    BY <1>1, <1>2, <1>3, <1>5, CfPortRead DEF CfRawPorts
  <2>2. QED
    BY <2>1, CfPortWritten DEF Builder!PortMeans
<1>6. ASSUME \A i \in DOMAIN r.val : CfPortKnown(r.val[i]) PROVE CfPortsMean(CfWritePorts(v)) = CfPortsMean(r.val)
  BY <1>3, <1>5, <1>6 DEF CfPortsMean, CfWritePorts
<1>7. QED
  BY <1>3, <1>4, <1>6 DEF CfModelPorts, v

LEMMA CfPortsWritten ==
  ASSUME NEW v, CfModelPorts(v)
  PROVE  CfRawPorts(Builder!Raw("list", CfWritePorts(v)))
<1> DEFINE w == CfWritePorts(v)
<1>1. v \in Seq(Builder!Port) /\ w = [i \in DOMAIN v |-> Builder!portSpecToString(v[i])]
  BY DEF CfModelPorts, CfWritePorts
<1>2. \A i \in DOMAIN v : v[i] \in Builder!Port
  BY <1>1
<1> HIDE DEF w
<1>3. DOMAIN w = DOMAIN v /\ \A i \in DOMAIN w : w[i] \in CfRawPort /\ w[i].val.container # ""
  BY <1>1, <1>2, CfPortWritten
<1>4. w \in Seq(CfRawPort)
  BY <1>1, <1>3, CfMapped
<1>5. QED
  BY <1>3, <1>4 DEF CfRawPorts, Builder!Raw, w

LEMMA CfPortsBack ==
  ASSUME NEW v, CfModelPorts(v), \A i \in DOMAIN v : v[i].container # ""
  PROVE  CfPortsShown(Builder!ParsePorts(Builder!Raw("list", CfWritePorts(v)))) = CfPortsShown(v)
<1> DEFINE w == Builder!ParsePorts(Builder!Raw("list", CfWritePorts(v)))
<1>1. v \in Seq(Builder!Port) /\ \A i \in DOMAIN v : v[i].ip # "[::1]"
  BY DEF CfModelPorts
<1>2. \A i \in DOMAIN v : v[i] \in Builder!Port
  BY <1>1, CfItems
<1>3. w = [i \in DOMAIN v |-> Builder!ParsePort(Builder!portSpecToString(v[i]))]
  BY DEF Builder!ParsePorts, Builder!Raw, CfWritePorts, Builder!MapSeq
<1> HIDE DEF w
<1>4. ASSUME NEW i \in DOMAIN v PROVE Builder!PortShown(w[i]) = Builder!PortShown(v[i])
  <2> DEFINE p == Builder!portSpecToString(v[i])
  <2>1. p \in CfRawPort /\ p.form = "short" /\ p.val.ip # "[::1]"
          /\ Builder!PortShown(p.val) = Builder!PortShown(v[i])
    BY <1>1, <1>2, CfPortWritten
  <2>2. Builder!ParsePort(p) = p.val
    BY <2>1, CfPortRead DEF CfPortKnown
  <2>3. QED
    BY <1>3, <2>1, <2>2
<1>5. QED
  BY <1>3, <1>4 DEF CfPortsShown, w

\* Ports.
LEMMA CfPorts ==
  ASSUME NEW k, k = "ports", ~Builder!IsModel(k, None), ~Builder!IsRaw(k, None)
  PROVE  CfKeySound(k)
<1>1. \A r : /\ Builder!IsRaw(k, r) <=> CfRawPorts(r)
             /\ Builder!ParseKey(k, r) = Builder!ParsePorts(r)
             /\ Builder!Means(k, r) = CfPortsMean(r.val)
             /\ Builder!SupportedKey(k, r) => \A i \in DOMAIN r.val : CfPortKnown(r.val[i])
  <2>1. \A r : Builder!IsRaw(k, r) <=> CfRawPorts(r)
    BY CfKinds DEF CfOthers, Builder!KVKeys, Builder!IsRaw, CfRawPorts, CfRawPort, CfModelPorts, CfWritePorts,
       CfPortsMean, CfPortsShown, CfPortKnown, Builder!MapSeq, Builder!StrKeys, Builder!JoinKeys, Builder!FlagKeys,
       Builder!ArrKeys
  <2>2. \A r : Builder!ParseKey(k, r) = Builder!ParsePorts(r)
    BY CfKinds DEF CfOthers, Builder!KVKeys, Builder!ParseKey, Builder!ParseScalar, CfRawPorts, CfRawPort,
       CfModelPorts, CfWritePorts, CfPortsMean, CfPortsShown, CfPortKnown, Builder!MapSeq, Builder!StrKeys,
       Builder!JoinKeys, Builder!FlagKeys, Builder!ArrKeys
  <2>3. \A r : Builder!Means(k, r) = CfPortsMean(r.val)
    BY CfKinds DEF CfOthers, Builder!KVKeys, Builder!Means, CfRawPorts, CfRawPort, CfModelPorts, CfWritePorts,
       CfPortsMean, CfPortsShown, CfPortKnown, Builder!MapSeq, Builder!StrKeys, Builder!JoinKeys, Builder!FlagKeys,
       Builder!ArrKeys
  <2>4. \A r : Builder!SupportedKey(k, r) => \A i \in DOMAIN r.val : CfPortKnown(r.val[i])
    BY CfKinds DEF CfOthers, Builder!KVKeys, Builder!SupportedKey, Builder!ParseScalar, CfRawPorts, CfRawPort,
       CfModelPorts, CfWritePorts, CfPortsMean, CfPortsShown, CfPortKnown, Builder!MapSeq, Builder!StrKeys,
       Builder!JoinKeys, Builder!FlagKeys, Builder!ArrKeys
  <2>5. QED
    BY <2>1, <2>2, <2>3, <2>4
<1>2. \A v : /\ Builder!IsModel(k, v) <=> CfModelPorts(v)
             /\ Builder!SerializeKey(k, v) = Builder!Raw("list", CfWritePorts(v))
             /\ Builder!Field(k, v) = CfPortsShown(v)
             /\ Builder!CompleteKey(k, v) => \A i \in DOMAIN v : v[i].container # ""
  <2>1. \A v : Builder!IsModel(k, v) <=> CfModelPorts(v)
    BY CfKinds DEF CfOthers, Builder!KVKeys, Builder!IsModel, CfRawPorts, CfRawPort, CfModelPorts, CfWritePorts,
       CfPortsMean, CfPortsShown, CfPortKnown, Builder!MapSeq, Builder!StrKeys, Builder!JoinKeys, Builder!FlagKeys,
       Builder!ArrKeys
  <2>2. \A v : Builder!SerializeKey(k, v) = Builder!Raw("list", CfWritePorts(v))
    BY CfKinds DEF CfOthers, Builder!KVKeys, Builder!SerializeKey, Builder!SerializeScalar, CfRawPorts, CfRawPort,
       CfModelPorts, CfWritePorts, CfPortsMean, CfPortsShown, CfPortKnown, Builder!MapSeq, Builder!StrKeys,
       Builder!JoinKeys, Builder!FlagKeys, Builder!ArrKeys
  <2>3. \A v : Builder!Field(k, v) = CfPortsShown(v)
    BY CfKinds DEF CfOthers, Builder!KVKeys, Builder!Field, Builder!OrAbsent, CfRawPorts, CfRawPort, CfModelPorts,
       CfWritePorts, CfPortsMean, CfPortsShown, CfPortKnown, Builder!MapSeq, Builder!StrKeys, Builder!JoinKeys,
       Builder!FlagKeys, Builder!ArrKeys
  <2>4. \A v : Builder!CompleteKey(k, v) => \A i \in DOMAIN v : v[i].container # ""
    BY CfKinds DEF CfOthers, Builder!KVKeys, Builder!CompleteKey, CfRawPorts, CfRawPort, CfModelPorts, CfWritePorts,
       CfPortsMean, CfPortsShown, CfPortKnown, Builder!MapSeq, Builder!StrKeys, Builder!JoinKeys, Builder!FlagKeys,
       Builder!ArrKeys
  <2>5. QED
    BY <2>1, <2>2, <2>3, <2>4
<1>3. ~(CfModelPorts(None)) /\ ~(CfRawPorts(None))
  BY <1>1, <1>2
<1>4. ASSUME NEW r, CfRawPorts(r), NEW v, v = (Builder!ParsePorts(r)), v # None
      PROVE  CfModelPorts(v)
  BY <1>4, CfPortsRead, CfPortsWritten, CfPortsBack DEF Builder!Raw
<1>5. ASSUME NEW v, CfModelPorts(v), NEW r, r = (Builder!Raw("list", CfWritePorts(v))), r # None
      PROVE  CfRawPorts(r)
  BY <1>5, CfPortsRead, CfPortsWritten, CfPortsBack DEF Builder!Raw
<1>6. ASSUME NEW r, CfRawPorts(r), \A i \in DOMAIN r.val : CfPortKnown(r.val[i]), NEW v, v = (Builder!ParsePorts(r)),
             NEW w, w = (Builder!Raw("list", CfWritePorts(v)))
      PROVE  IF v = None \/ w = None THEN (CfPortsMean(r.val)) = None ELSE (CfPortsMean(w.val)) = (CfPortsMean(r.val))
  <2>1. (CfModelPorts(v))
    BY <1>6, CfPortsRead, CfPortsWritten, CfPortsBack DEF Builder!Raw
  <2>2. v # None
    BY <1>3, <2>1
  <2>3. (CfRawPorts(w))
    BY <1>6, <2>1, <2>2, CfPortsRead, CfPortsWritten, CfPortsBack DEF Builder!Raw
  <2>4. w # None
    BY <1>3, <2>3
  <2>5. QED
    BY <1>6, <2>2, <2>4, CfPortsRead, CfPortsWritten, CfPortsBack DEF Builder!Raw
<1>7. ASSUME NEW v, CfModelPorts(v), \A i \in DOMAIN v : v[i].container # "", NEW r,
             r = (Builder!Raw("list", CfWritePorts(v))), NEW w, w = (Builder!ParsePorts(r))
      PROVE  IF r = None \/ w = None THEN (CfPortsShown(v)) = None ELSE (CfPortsShown(w)) = (CfPortsShown(v))
  <2>1. (CfRawPorts(r))
    BY <1>7, CfPortsRead, CfPortsWritten, CfPortsBack DEF Builder!Raw
  <2>2. ~(CfModelPorts(None)) /\ (r # None)
    BY <1>3, <2>1
  <2>3. QED
    BY <1>7, <2>2, CfPortsRead, CfPortsWritten, CfPortsBack DEF Builder!Raw
<1>8. CfReads(k)
  BY <1>1, <1>2, <1>4 DEF CfReads
<1>9. CfWrites(k)
  BY <1>1, <1>2, <1>5 DEF CfWrites
<1>10. CfKeeps(k)
  <2> SUFFICES ASSUME NEW r, Builder!IsRaw(k, r), Builder!SupportedKey(k, r),
                      NEW v, v = Builder!ParseKey(k, r), NEW w, w = Builder!SerializeKey(k, v)
               PROVE  IF v = None \/ w = None THEN Builder!Means(k, r) = None
                        ELSE Builder!Means(k, w) = Builder!Means(k, r)
    BY DEF CfKeeps, CfRawKept
  <2>1. (CfRawPorts(r)) /\ (\A i \in DOMAIN r.val : CfPortKnown(r.val[i])) /\ v = (Builder!ParsePorts(r))
          /\ w = (Builder!Raw("list", CfWritePorts(v)))
    BY <1>1, <1>2
  <2>2. Builder!Means(k, r) = (CfPortsMean(r.val)) /\ Builder!Means(k, w) = (CfPortsMean(w.val))
    BY <1>1
  <2>3. IF v = None \/ w = None THEN (CfPortsMean(r.val)) = None ELSE (CfPortsMean(w.val)) = (CfPortsMean(r.val))
    BY <1>6, <2>1
  <2>4. QED
    BY <2>2, <2>3
<1>11. CfShows(k)
  <2> SUFFICES ASSUME NEW v, Builder!IsModel(k, v), Builder!CompleteKey(k, v),
                      NEW r, r = Builder!SerializeKey(k, v), NEW w, w = Builder!ParseKey(k, r)
               PROVE  IF r = None \/ w = None THEN Builder!Field(k, v) = None
                        ELSE Builder!Field(k, w) = Builder!Field(k, v)
    BY DEF CfShows, CfFieldShown
  <2>1. (CfModelPorts(v)) /\ (\A i \in DOMAIN v : v[i].container # "") /\ r = (Builder!Raw("list", CfWritePorts(v)))
          /\ w = (Builder!ParsePorts(r))
    BY <1>1, <1>2
  <2>2. Builder!Field(k, v) = (CfPortsShown(v)) /\ Builder!Field(k, w) = (CfPortsShown(w))
    BY <1>2
  <2>3. IF r = None \/ w = None THEN (CfPortsShown(v)) = None ELSE (CfPortsShown(w)) = (CfPortsShown(v))
    BY <1>7, <2>1
  <2>4. QED
    BY <2>2, <2>3
<1>12. QED
  BY <1>8, <1>9, <1>10, <1>11 DEF CfKeySound

CfRawMount == [form : {"short", "short+", "long"}, val : Builder!Mount]
CfRawVolumes(r) ==
  /\ r \in [form : {"list"}, val : Seq(CfRawMount)]
  /\ \A i \in DOMAIN r.val : r.val[i].form = "short" /\ r.val[i].val.source = "" => ~r.val[i].val.readOnly
CfMountKnown(m) == m.form = "short" \/ (m.form = "long" /\ ~m.val.readOnly)
CfMountsDone(v) == \A i \in DOMAIN v : v[i].readOnly => v[i].source # ""
CfWriteVolumes(v) == [i \in DOMAIN v |-> Builder!volumeMountToString(v[i])]
CfVolumesMean(s) == [i \in DOMAIN s |-> s[i].val]

\* One mount.
LEMMA CfMount ==
  /\ \A m \in CfRawMount : /\ Builder!parseVolumeMount(m) \in Builder!Mount
                           /\ CfMountKnown(m) => Builder!parseVolumeMount(m) = m.val
  /\ \A v \in Builder!Mount : LET w == Builder!volumeMountToString(v)
                       IN  /\ w \in CfRawMount /\ w.form = "short"
                           /\ w.val.source = "" => ~w.val.readOnly
                           /\ (v.readOnly => v.source # "") => w.val = v
<1>1. ASSUME NEW m \in CfRawMount
      PROVE  Builder!parseVolumeMount(m) \in Builder!Mount /\ (CfMountKnown(m) => Builder!parseVolumeMount(m) = m.val)
  BY <1>1 DEF CfRawMount, CfMountKnown, Builder!parseVolumeMount, Builder!Mount
<1>2. ASSUME NEW v \in Builder!Mount
      PROVE  LET w == Builder!volumeMountToString(v)
             IN  /\ w \in CfRawMount /\ w.form = "short"
                 /\ w.val.source = "" => ~w.val.readOnly
                 /\ (v.readOnly => v.source # "") => w.val = v
  <2>1. CASE v.source = ""
    BY <1>2, <2>1 DEF CfRawMount, Builder!volumeMountToString, Builder!Raw, Builder!Mount
  <2>2. CASE v.source # ""
    BY <1>2, <2>2 DEF CfRawMount, Builder!volumeMountToString, Builder!Raw
  <2>3. QED
    BY <2>1, <2>2
<1>3. QED
  BY <1>1, <1>2

LEMMA CfVolumesRead ==
  ASSUME NEW r, CfRawVolumes(r)
  PROVE  /\ Builder!ParseVolumes(r) \in Seq(Builder!Mount)
         /\ (\A i \in DOMAIN r.val : CfMountKnown(r.val[i])) =>
              CfVolumesMean(CfWriteVolumes(Builder!ParseVolumes(r))) = CfVolumesMean(r.val)
<1> DEFINE v == Builder!ParseVolumes(r)
<1>1. r.val \in Seq(CfRawMount) /\ v = [i \in DOMAIN r.val |-> Builder!parseVolumeMount(r.val[i])]
  BY DEF CfRawVolumes, Builder!ParseVolumes, Builder!MapSeq
<1>2. \A i \in DOMAIN r.val : r.val[i] \in CfRawMount
  BY <1>1, CfItems
<1> HIDE DEF v
<1>3. DOMAIN v = DOMAIN r.val /\ \A i \in DOMAIN v : v[i] \in Builder!Mount
  BY <1>1, <1>2, CfMount
<1>4. v \in Seq(Builder!Mount)
  BY <1>1, <1>3, CfMapped
<1>5. ASSUME \A i \in DOMAIN r.val : CfMountKnown(r.val[i]), NEW i \in DOMAIN r.val
      PROVE  Builder!volumeMountToString(v[i]).val = r.val[i].val
  <2>1. v[i] = r.val[i].val /\ v[i] \in Builder!Mount
    BY <1>1, <1>2, <1>3, <1>5, CfMount
  <2>2. v[i].readOnly => v[i].source # ""
    BY <1>2, <1>5, <2>1 DEF CfRawVolumes, CfMountKnown
  <2>3. QED
    BY <2>1, <2>2, CfMount
<1>6. ASSUME \A i \in DOMAIN r.val : CfMountKnown(r.val[i])
             PROVE CfVolumesMean(CfWriteVolumes(v)) = CfVolumesMean(r.val)
  BY <1>3, <1>5, <1>6 DEF CfVolumesMean, CfWriteVolumes
<1>7. QED
  BY <1>4, <1>6 DEF v

LEMMA CfVolumesWritten ==
  ASSUME NEW v \in Seq(Builder!Mount)
  PROVE  /\ CfRawVolumes(Builder!Raw("list", CfWriteVolumes(v)))
         /\ CfMountsDone(v) =>
              Builder!ParseVolumes(Builder!Raw("list", CfWriteVolumes(v))) = v
<1> DEFINE w == CfWriteVolumes(v)
<1>1. w = [i \in DOMAIN v |-> Builder!volumeMountToString(v[i])]
  BY DEF CfWriteVolumes
<1>2. \A i \in DOMAIN v : v[i] \in Builder!Mount
  BY CfItems
<1> HIDE DEF w
<1>3. DOMAIN w = DOMAIN v /\ \A i \in DOMAIN w : w[i] \in CfRawMount
  BY <1>1, <1>2, CfMount
<1>4. \A i \in DOMAIN w : w[i].form = "short" /\ (w[i].val.source = "" => ~w[i].val.readOnly)
  BY <1>1, <1>2, CfMount
<1>5. w \in Seq(CfRawMount)
  BY <1>1, <1>3, CfMapped
<1>6. CfRawVolumes(Builder!Raw("list", w))
  <2> DEFINE q == Builder!Raw("list", w)
  <2>1. q = [form |-> "list", val |-> w]
    BY DEF Builder!Raw
  <2>2. q \in [form : {"list"}, val : Seq(CfRawMount)] /\ q.val = w
    BY <1>5, <2>1
  <2> HIDE DEF q
  <2>3. CfRawVolumes(q)
    BY <1>4, <2>2 DEF CfRawVolumes
  <2>4. QED
    BY <2>3 DEF q
<1>7. ASSUME CfMountsDone(v) PROVE Builder!ParseVolumes(Builder!Raw("list", w)) = v
  <2>1. \A i \in DOMAIN v : w[i].val = v[i]
    BY <1>1, <1>2, <1>7, CfMount DEF CfMountsDone
  <2>2. \A i \in DOMAIN v : Builder!parseVolumeMount(w[i]) = w[i].val
    BY <1>3, <1>4, CfMount DEF CfMountKnown
  <2>3. v = [i \in DOMAIN v |-> v[i]]
    OBVIOUS
  <2>4. Builder!ParseVolumes(Builder!Raw("list", w)) = [i \in DOMAIN w |-> Builder!parseVolumeMount(w[i])]
    BY DEF Builder!ParseVolumes, Builder!Raw, Builder!MapSeq
  <2>5. QED
    BY <1>3, <2>1, <2>3, <2>4, <2>2
<1>8. QED
  BY <1>6, <1>7 DEF w

\* Volumes.
LEMMA CfVolumes ==
  ASSUME NEW k, k = "volumes", ~Builder!IsModel(k, None), ~Builder!IsRaw(k, None)
  PROVE  CfKeySound(k)
<1>1. \A r : /\ Builder!IsRaw(k, r) <=> CfRawVolumes(r)
             /\ Builder!ParseKey(k, r) = Builder!ParseVolumes(r)
             /\ Builder!Means(k, r) = CfVolumesMean(r.val)
             /\ Builder!SupportedKey(k, r) => \A i \in DOMAIN r.val : CfMountKnown(r.val[i])
  <2>1. \A r : Builder!IsRaw(k, r) <=> CfRawVolumes(r)
    BY CfKinds DEF CfOthers, Builder!KVKeys, Builder!IsRaw, CfMountsDone, CfRawVolumes, CfRawMount, CfWriteVolumes,
       CfVolumesMean, CfMountKnown, Builder!MapSeq, Builder!StrKeys, Builder!JoinKeys, Builder!FlagKeys,
       Builder!ArrKeys
  <2>2. \A r : Builder!ParseKey(k, r) = Builder!ParseVolumes(r)
    BY CfKinds DEF CfOthers, Builder!KVKeys, Builder!ParseKey, Builder!ParseScalar, CfMountsDone, CfRawVolumes,
       CfRawMount, CfWriteVolumes, CfVolumesMean, CfMountKnown, Builder!MapSeq, Builder!StrKeys, Builder!JoinKeys,
       Builder!FlagKeys, Builder!ArrKeys
  <2>3. \A r : Builder!Means(k, r) = CfVolumesMean(r.val)
    BY CfKinds DEF CfOthers, Builder!KVKeys, Builder!Means, CfMountsDone, CfRawVolumes, CfRawMount, CfWriteVolumes,
       CfVolumesMean, CfMountKnown, Builder!MapSeq, Builder!StrKeys, Builder!JoinKeys, Builder!FlagKeys,
       Builder!ArrKeys
  <2>4. \A r : Builder!SupportedKey(k, r) => \A i \in DOMAIN r.val : CfMountKnown(r.val[i])
    BY CfKinds DEF CfOthers, Builder!KVKeys, Builder!SupportedKey, Builder!ParseScalar, CfMountsDone, CfRawVolumes,
       CfRawMount, CfWriteVolumes, CfVolumesMean, CfMountKnown, Builder!MapSeq, Builder!StrKeys, Builder!JoinKeys,
       Builder!FlagKeys, Builder!ArrKeys
  <2>5. QED
    BY <2>1, <2>2, <2>3, <2>4
<1>2. \A v : /\ Builder!IsModel(k, v) <=> v \in Seq(Builder!Mount)
             /\ Builder!SerializeKey(k, v) = Builder!Raw("list", CfWriteVolumes(v))
             /\ Builder!Field(k, v) = v
             /\ Builder!CompleteKey(k, v) => CfMountsDone(v)
  <2>1. \A v : Builder!IsModel(k, v) <=> v \in Seq(Builder!Mount)
    BY CfKinds DEF CfOthers, Builder!KVKeys, Builder!IsModel, CfMountsDone, CfRawVolumes, CfRawMount, CfWriteVolumes,
       CfVolumesMean, CfMountKnown, Builder!MapSeq, Builder!StrKeys, Builder!JoinKeys, Builder!FlagKeys,
       Builder!ArrKeys
  <2>2. \A v : Builder!SerializeKey(k, v) = Builder!Raw("list", CfWriteVolumes(v))
    BY CfKinds DEF CfOthers, Builder!KVKeys, Builder!SerializeKey, Builder!SerializeScalar, CfMountsDone, CfRawVolumes,
       CfRawMount, CfWriteVolumes, CfVolumesMean, CfMountKnown, Builder!MapSeq, Builder!StrKeys, Builder!JoinKeys,
       Builder!FlagKeys, Builder!ArrKeys
  <2>3. \A v : Builder!Field(k, v) = v
    BY CfKinds DEF CfOthers, Builder!KVKeys, Builder!Field, Builder!OrAbsent, CfMountsDone, CfRawVolumes, CfRawMount,
       CfWriteVolumes, CfVolumesMean, CfMountKnown, Builder!MapSeq, Builder!StrKeys, Builder!JoinKeys,
       Builder!FlagKeys, Builder!ArrKeys
  <2>4. \A v : Builder!CompleteKey(k, v) => CfMountsDone(v)
    BY CfKinds DEF CfOthers, Builder!KVKeys, Builder!CompleteKey, CfMountsDone, CfRawVolumes, CfRawMount,
       CfWriteVolumes, CfVolumesMean, CfMountKnown, Builder!MapSeq, Builder!StrKeys, Builder!JoinKeys,
       Builder!FlagKeys, Builder!ArrKeys
  <2>5. QED
    BY <2>1, <2>2, <2>3, <2>4
<1>3. ~(None \in Seq(Builder!Mount)) /\ ~(CfRawVolumes(None))
  BY <1>1, <1>2
<1>4. ASSUME NEW r, CfRawVolumes(r), NEW v, v = (Builder!ParseVolumes(r)), v # None
      PROVE  v \in Seq(Builder!Mount)
  BY <1>4, CfVolumesRead, CfVolumesWritten DEF Builder!Raw
<1>5. ASSUME NEW v, v \in Seq(Builder!Mount), NEW r, r = (Builder!Raw("list", CfWriteVolumes(v))), r # None
      PROVE  CfRawVolumes(r)
  BY <1>5, CfVolumesRead, CfVolumesWritten DEF Builder!Raw
<1>6. ASSUME NEW r, CfRawVolumes(r), \A i \in DOMAIN r.val : CfMountKnown(r.val[i]), NEW v,
             v = (Builder!ParseVolumes(r)), NEW w, w = (Builder!Raw("list", CfWriteVolumes(v)))
      PROVE  IF v = None \/ w = None THEN (CfVolumesMean(r.val)) = None
               ELSE (CfVolumesMean(w.val)) = (CfVolumesMean(r.val))
  <2>1. (v \in Seq(Builder!Mount))
    BY <1>6, CfVolumesRead, CfVolumesWritten DEF Builder!Raw
  <2>2. v # None
    BY <1>3, <2>1
  <2>3. (CfRawVolumes(w))
    BY <1>6, <2>1, <2>2, CfVolumesRead, CfVolumesWritten DEF Builder!Raw
  <2>4. w # None
    BY <1>3, <2>3
  <2>5. QED
    BY <1>6, <2>2, <2>4, CfVolumesRead, CfVolumesWritten DEF Builder!Raw
<1>7. ASSUME NEW v, v \in Seq(Builder!Mount), CfMountsDone(v), NEW r, r = (Builder!Raw("list", CfWriteVolumes(v))),
             NEW w, w = (Builder!ParseVolumes(r))
      PROVE  IF r = None \/ w = None THEN (v) = None ELSE (w) = (v)
  <2>1. (CfRawVolumes(r))
    BY <1>7, CfVolumesRead, CfVolumesWritten DEF Builder!Raw
  <2>2. ~(None \in Seq(Builder!Mount)) /\ (r # None)
    BY <1>3, <2>1
  <2>3. QED
    BY <1>7, <2>2, CfVolumesRead, CfVolumesWritten DEF Builder!Raw
<1>8. CfReads(k)
  BY <1>1, <1>2, <1>4 DEF CfReads
<1>9. CfWrites(k)
  BY <1>1, <1>2, <1>5 DEF CfWrites
<1>10. CfKeeps(k)
  <2> SUFFICES ASSUME NEW r, Builder!IsRaw(k, r), Builder!SupportedKey(k, r),
                      NEW v, v = Builder!ParseKey(k, r), NEW w, w = Builder!SerializeKey(k, v)
               PROVE  IF v = None \/ w = None THEN Builder!Means(k, r) = None
                        ELSE Builder!Means(k, w) = Builder!Means(k, r)
    BY DEF CfKeeps, CfRawKept
  <2>1. (CfRawVolumes(r)) /\ (\A i \in DOMAIN r.val : CfMountKnown(r.val[i])) /\ v = (Builder!ParseVolumes(r))
          /\ w = (Builder!Raw("list", CfWriteVolumes(v)))
    BY <1>1, <1>2
  <2>2. Builder!Means(k, r) = (CfVolumesMean(r.val)) /\ Builder!Means(k, w) = (CfVolumesMean(w.val))
    BY <1>1
  <2>3. IF v = None \/ w = None THEN (CfVolumesMean(r.val)) = None
          ELSE (CfVolumesMean(w.val)) = (CfVolumesMean(r.val))
    BY <1>6, <2>1
  <2>4. QED
    BY <2>2, <2>3
<1>11. CfShows(k)
  <2> SUFFICES ASSUME NEW v, Builder!IsModel(k, v), Builder!CompleteKey(k, v),
                      NEW r, r = Builder!SerializeKey(k, v), NEW w, w = Builder!ParseKey(k, r)
               PROVE  IF r = None \/ w = None THEN Builder!Field(k, v) = None
                        ELSE Builder!Field(k, w) = Builder!Field(k, v)
    BY DEF CfShows, CfFieldShown
  <2>1. (v \in Seq(Builder!Mount)) /\ (CfMountsDone(v)) /\ r = (Builder!Raw("list", CfWriteVolumes(v)))
          /\ w = (Builder!ParseVolumes(r))
    BY <1>1, <1>2
  <2>2. Builder!Field(k, v) = (v) /\ Builder!Field(k, w) = (w)
    BY <1>2
  <2>3. IF r = None \/ w = None THEN (v) = None ELSE (w) = (v)
    BY <1>7, <2>1
  <2>4. QED
    BY <2>2, <2>3
<1>12. QED
  BY <1>8, <1>9, <1>10, <1>11 DEF CfKeySound

\* A set of naturals with a member has a least one.
LEMMA CfLeast ==
  ASSUME NEW T \in SUBSET Nat, NEW n \in T
  PROVE  \E x \in T : \A y \in T : x <= y
<1>1. PICK x \in T : \A y \in T : ~(<<y, x>> \in OpToRel(<, Nat))
  BY NatLessThanWellFounded, WFMin
<1>2. \A y \in T : ~(y < x)
  BY <1>1 DEF OpToRel
<1>3. QED
  BY <1>2

\* What enumerates the first places: n of them, in order, those up to m.
CfEnumerates(p, n, F, m) ==
  /\ p \in [1 .. n -> F]
  /\ \A i, j \in 1 .. n : i < j => p[i] < p[j]
  /\ \A i \in 1 .. n : p[i] <= m
  /\ \A k \in F : k <= m => \E i \in 1 .. n : p[i] = k

LEMMA CfEnumerated ==
  ASSUME NEW N \in Nat, NEW F \in SUBSET (1 .. N)
  PROVE  \E n \in 0 .. N : \E p : CfEnumerates(p, n, F, N)
<1> DEFINE Good(m) == \E n \in 0 .. m : \E p : CfEnumerates(p, n, F, m)
           Bad     == {m \in 0 .. N : ~Good(m)}
<1>1. \A k \in F : k \in Int
  OBVIOUS
<1>2. Good(0)
  <2>1. CfEnumerates([i \in 1 .. 0 |-> i], 0, F, 0)
    BY DEF CfEnumerates
  <2>2. QED
    BY <2>1
<1>3. ASSUME NEW m \in 1 .. N, Good(m - 1) PROVE Good(m)
  <2>1. PICK n \in 0 .. (m - 1) : \E p : CfEnumerates(p, n, F, m - 1)
    BY <1>3
  <2>2. PICK p : CfEnumerates(p, n, F, m - 1)
    BY <2>1
  <2>3. CASE m \notin F
    <3>1. n \in Nat /\ n \in 0 .. m /\ p \in [1 .. n -> F]
      BY <2>2 DEF CfEnumerates
    <3>2. \A i \in 1 .. n : p[i] \in Int /\ p[i] <= m - 1
      <4>1. \A i \in 1 .. n : p[i] \in F
        BY <3>1
      <4>2. QED
        BY <1>1, <2>2, <4>1 DEF CfEnumerates
    <3>3. \A k \in F : k <= m => k <= m - 1
      BY <2>3
    <3>4. CfEnumerates(p, n, F, m)
      BY <2>2, <3>2, <3>3 DEF CfEnumerates
    <3>5. QED
      BY <3>1, <3>4
  <2>4. CASE m \in F
    <3> DEFINE z == [i \in 1 .. (n + 1) |-> IF i <= n THEN p[i] ELSE m]
    <3>1. n \in Nat /\ m \in Nat /\ n + 1 \in 0 .. m /\ p \in [1 .. n -> F]
      BY <2>2 DEF CfEnumerates
    <3>2. /\ \A i \in 1 .. n : i \in 1 .. (n + 1) /\ z[i] = p[i] /\ p[i] \in Int /\ p[i] \in F /\ p[i] <= m - 1
          /\ n + 1 \in 1 .. (n + 1) /\ z[n + 1] = m
          /\ \A i \in 1 .. (n + 1) : i \in 1 .. n \/ i = n + 1
      <4>1. \A i \in 1 .. n : p[i] \in F
        BY <3>1
      <4>2. \A i \in 1 .. n : p[i] \in Int /\ p[i] <= m - 1
        BY <1>1, <2>2, <4>1 DEF CfEnumerates
      <4>3. /\ \A i \in 1 .. n : i \in 1 .. (n + 1) /\ z[i] = p[i]
            /\ n + 1 \in 1 .. (n + 1) /\ z[n + 1] = m
            /\ \A i \in 1 .. (n + 1) : i \in 1 .. n \/ i = n + 1
        BY <3>1
      <4>4. QED
        BY <4>1, <4>2, <4>3
    <3>3. z \in [1 .. (n + 1) -> F]
      BY <2>4, <3>2
    <3> HIDE DEF z
    <3>4. \A i, j \in 1 .. (n + 1) : i < j => z[i] < z[j]
      <4> SUFFICES ASSUME NEW i \in 1 .. (n + 1), NEW j \in 1 .. (n + 1), i < j PROVE z[i] < z[j]
        OBVIOUS
      <4>1. i \in 1 .. n
        BY <3>1
      <4>2. CASE j = n + 1
        BY <3>1, <3>2, <4>1, <4>2
      <4>3. CASE j \in 1 .. n
        BY <2>2, <3>2, <4>1, <4>3 DEF CfEnumerates
      <4>4. QED
        BY <3>2, <4>2, <4>3
    <3>5. \A i \in 1 .. (n + 1) : z[i] <= m
      BY <3>1, <3>2
    <3>6. ASSUME NEW k \in F, k <= m PROVE \E i \in 1 .. (n + 1) : z[i] = k
      <4>1. CASE k = m
        BY <3>2, <4>1
      <4>2. CASE k <= m - 1
        BY <2>2, <3>2, <4>2 DEF CfEnumerates
      <4>3. QED
        BY <3>1, <3>6, <4>1, <4>2
    <3>7. CfEnumerates(z, n + 1, F, m)
      BY <3>3, <3>4, <3>5, <3>6 DEF CfEnumerates
    <3>8. QED
      BY <3>1, <3>7
  <2>5. QED
    BY <2>3, <2>4
<1> HIDE DEF Good
<1>4. Bad = {}
  <2> SUFFICES ASSUME NEW b \in Bad PROVE FALSE
    OBVIOUS
  <2>1. Bad \in SUBSET Nat
    OBVIOUS
  <2> HIDE DEF Bad
  <2>2. PICK m \in Bad : \A y \in Bad : m <= y
    BY <2>1, CfLeast
  <2> USE DEF Bad
  <2>3. m \in 1 .. N /\ m - 1 \in 0 .. N
    BY <1>2, <2>2
  <2>4. Good(m - 1)
    BY <2>2, <2>3
  <2>5. QED
    BY <1>3, <2>3, <2>4
<1>5. QED
  BY <1>4 DEF Good

LEMMA CfPlaces ==
  ASSUME NEW S, NEW d \in Seq(S)
  PROVE  /\ Builder!Firsts(d) \in SUBSET (1 .. Len(d))
         /\ \E n \in 0 .. Len(d) : CfEnumerates(Builder!Places(d), n, Builder!Firsts(d), Len(d))
<1> DEFINE F == Builder!Firsts(d)
           Is(p) == /\ \A i, j \in DOMAIN p : i < j => p[i] < p[j]
                    /\ \A k \in F : \E i \in DOMAIN p : p[i] = k
           All == UNION {[1 .. n -> F] : n \in 0 .. Len(d)}
<1>1. Len(d) \in Nat /\ DOMAIN d = 1 .. Len(d)
  OBVIOUS
<1>2. F \in SUBSET (1 .. Len(d))
  BY <1>1 DEF Builder!Firsts
<1>3. Builder!Places(d) = CHOOSE p \in All : Is(p)
  BY DEF Builder!Places
<1> HIDE DEF F
<1>4. \E p \in All : Is(p)
  <2>1. PICK n \in 0 .. Len(d) : \E p : CfEnumerates(p, n, F, Len(d))
    BY <1>1, <1>2, CfEnumerated
  <2>2. PICK p : CfEnumerates(p, n, F, Len(d))
    BY <2>1
  <2>3. p \in [1 .. n -> F]
    BY <2>2 DEF CfEnumerates
  <2>4. p \in All /\ DOMAIN p = 1 .. n
    BY <2>3
  <2>5. Is(p)
    BY <1>1, <1>2, <2>2, <2>4 DEF CfEnumerates
  <2>6. QED
    BY <2>4, <2>5
<1> HIDE DEF All, Is
<1>5. Builder!Places(d) \in All /\ Is(Builder!Places(d))
  BY <1>3, <1>4
<1>6. PICK n \in 0 .. Len(d) : Builder!Places(d) \in [1 .. n -> F]
  BY <1>5 DEF All
<1>7. DOMAIN Builder!Places(d) = 1 .. n /\ \A i \in 1 .. n : Builder!Places(d)[i] \in F
  BY <1>6
<1>8. \A i \in 1 .. n : Builder!Places(d)[i] <= Len(d)
  <2>1. \A k \in F : k <= Len(d)
    BY <1>1, <1>2
  <2>2. QED
    BY <1>7, <2>1
<1>9. CfEnumerates(Builder!Places(d), n, F, Len(d))
  BY <1>5, <1>6, <1>7, <1>8 DEF CfEnumerates, Is
<1>10. QED
  BY <1>2, <1>9 DEF F

LEMMA CfLastOf ==
  ASSUME NEW S, NEW d \in Seq(S), NEW i \in DOMAIN d
  PROVE  Builder!LastOf(d, i) \in DOMAIN d /\ d[Builder!LastOf(d, i)].service = d[i].service
<1> DEFINE T == {n \in Nat : \E j \in DOMAIN d : d[j].service = d[i].service /\ n = Len(d) - j}
<1>1. Len(d) \in Nat /\ DOMAIN d = 1 .. Len(d)
  OBVIOUS
<1>2. Len(d) - i \in T
  BY <1>1
<1>3. PICK x \in T : \A y \in T : x <= y
  BY <1>2, CfLeast
<1>4. PICK j \in DOMAIN d : d[j].service = d[i].service /\ x = Len(d) - j
  BY <1>3
<1>5. ASSUME NEW m \in DOMAIN d, m > j, d[m].service = d[i].service PROVE FALSE
  <2>1. Len(d) - m \in T
    BY <1>1, <1>5
  <2>2. QED
    BY <1>1, <1>3, <1>4, <1>5, <2>1
<1>6. \E l \in DOMAIN d : /\ d[l].service = d[i].service
                          /\ \A m \in DOMAIN d : m > l => d[m].service # d[i].service
  BY <1>4, <1>5
<1>7. QED
  BY <1>6 DEF Builder!LastOf

\* The object of a list of services: one entry for each, and the list itself when
\* no service comes twice.
LEMMA CfObject ==
  ASSUME NEW S, NEW d \in Seq(S)
  PROVE  Builder!ToObject(d) \in Seq(S) /\ Builder!Once(Builder!ToObject(d))
<1> DEFINE p == Builder!Places(d)
           F == Builder!Firsts(d)
           o == Builder!ToObject(d)
<1>1. Len(d) \in Nat /\ DOMAIN d = 1 .. Len(d) /\ F \in SUBSET (1 .. Len(d))
  BY CfPlaces
<1>2. PICK n \in 0 .. Len(d) : CfEnumerates(p, n, F, Len(d))
  BY CfPlaces
<1>3. n \in Nat /\ DOMAIN p = 1 .. n /\ \A i \in 1 .. n : p[i] \in F /\ p[i] \in DOMAIN d /\ p[i] \in Int
  BY <1>1, <1>2 DEF CfEnumerates
<1>4. o = [i \in 1 .. n |-> d[Builder!LastOf(d, p[i])]]
  BY <1>3 DEF Builder!ToObject
<1>5. \A i \in 1 .. n : d[Builder!LastOf(d, p[i])] \in S /\ d[Builder!LastOf(d, p[i])].service = d[p[i]].service
  <2> SUFFICES ASSUME NEW i \in 1 .. n
               PROVE  d[Builder!LastOf(d, p[i])] \in S /\ d[Builder!LastOf(d, p[i])].service = d[p[i]].service
    OBVIOUS
  <2>1. p[i] \in DOMAIN d
    BY <1>3
  <2> DEFINE j == Builder!LastOf(d, p[i])
  <2>2. j \in DOMAIN d /\ d[j].service = d[p[i]].service
    BY <2>1, CfLastOf
  <2>3. d[j] \in S
    BY <2>2
  <2>4. QED
    BY <2>2, <2>3
<1>6. o \in Seq(S)
  <2>1. o \in [1 .. n -> S]
    BY <1>4, <1>5
  <2>2. QED
    BY <1>3, <2>1
<1>7. ASSUME NEW i \in 1 .. n, NEW j \in 1 .. n, o[i].service = o[j].service PROVE i = j
  <2>1. d[p[i]].service = d[p[j]].service
    BY <1>4, <1>5, <1>7
  <2>2. p[i] \in F /\ p[j] \in F /\ p[i] \in DOMAIN d /\ p[j] \in DOMAIN d /\ p[i] \in Int /\ p[j] \in Int
    BY <1>3
  <2>3. ~(p[i] < p[j]) /\ ~(p[j] < p[i])
    BY <2>1, <2>2 DEF Builder!Firsts
  <2>4. ~(i < j) /\ ~(j < i)
    BY <1>2, <2>3 DEF CfEnumerates
  <2>5. QED
    BY <1>3, <2>4
<1>8. DOMAIN o = 1 .. n
  BY <1>4
<1>9. Builder!Once(o)
  BY <1>7, <1>8 DEF Builder!Once
<1>10. QED
  BY <1>6, <1>9

LEMMA CfOnceObject ==
  ASSUME NEW S, NEW d \in Seq(S), Builder!Once(d)
  PROVE  Builder!ToObject(d) = d
<1> DEFINE p == Builder!Places(d)
           F == Builder!Firsts(d)
           N == Len(d)
<1>1. N \in Nat /\ DOMAIN d = 1 .. N
  OBVIOUS
<1>2. F = 1 .. N
  BY <1>1 DEF Builder!Firsts, Builder!Once
<1>3. PICK n \in 0 .. N : CfEnumerates(p, n, F, N)
  BY CfPlaces
<1>4. n \in Nat /\ DOMAIN p = 1 .. n /\ \A i \in 1 .. n : p[i] \in 1 .. N
  BY <1>1, <1>2, <1>3 DEF CfEnumerates
<1>5. /\ \A i, j \in 1 .. n : i < j => p[i] < p[j]
      /\ \A k \in 1 .. N : \E i \in 1 .. n : p[i] = k
  BY <1>1, <1>2, <1>3 DEF CfEnumerates
<1> HIDE DEF p
<1>6. \A i \in 1 .. n : p[i] = i
  <2> DEFINE T == {i \in 1 .. n : p[i] # i}
  <2> SUFFICES ASSUME NEW t \in T PROVE FALSE
    OBVIOUS
  <2>1. T \in SUBSET Nat
    BY <1>4
  <2> HIDE DEF T
  <2>2. PICK i \in T : \A y \in T : i <= y
    BY <2>1, CfLeast
  <2>3. i \in 1 .. n /\ p[i] # i /\ \A j \in 1 .. n : j < i => p[j] = j
    BY <1>4, <2>2 DEF T
  <2>4. p[i] >= i
    <3>1. CASE i = 1
      BY <1>1, <1>4, <2>3, <3>1
    <3>2. CASE i # 1
      <4>1. i - 1 \in 1 .. n /\ i - 1 < i
        BY <1>4, <2>3, <3>2
      <4>2. p[i - 1] = i - 1 /\ p[i - 1] < p[i]
        BY <1>5, <2>3, <4>1
      <4>3. QED
        BY <1>1, <1>4, <2>3, <4>2
    <3>3. QED
      BY <3>1, <3>2
  <2>5. i \in 1 .. N /\ p[i] > i
    BY <1>1, <1>4, <2>3, <2>4
  <2>6. PICK l \in 1 .. n : p[l] = i
    BY <1>5, <2>5
  <2>7. CASE l < i
    BY <2>3, <2>6, <2>7
  <2>8. CASE i < l
    <3>1. p[i] < p[l]
      BY <1>5, <2>3, <2>8
    <3>2. QED
      BY <1>1, <1>4, <2>3, <2>5, <2>6, <3>1
  <2>9. QED
    BY <1>4, <2>3, <2>6, <2>7, <2>8
<1>7. n = N
  <2>1. CASE N = 0
    BY <2>1
  <2>2. CASE N # 0
    <3>1. PICK l \in 1 .. n : p[l] = N
      BY <1>1, <1>5, <2>2
    <3>2. l = N
      BY <1>6, <3>1
    <3>3. n <= N /\ l <= n
      BY <1>1, <1>3, <3>1
    <3>4. n \in Int /\ N \in Int /\ N <= n
      BY <1>1, <1>4, <3>2, <3>3
    <3>5. QED
      BY <3>3, <3>4
  <2>3. QED
    BY <2>1, <2>2
<1>8. \A i \in DOMAIN d : Builder!LastOf(d, i) = i
  BY CfLastOf DEF Builder!Once
<1>9. Builder!ToObject(d) = [i \in DOMAIN d |-> d[i]]
  BY <1>1, <1>4, <1>6, <1>7, <1>8 DEF Builder!ToObject, p
<1>10. QED
  BY <1>9

CfStarted(d) == \A i \in DOMAIN d : d[i].condition = "service_started"
CfRawDeps(r) ==
  r \in [form : {"list", "map", "map+"}, val : Seq(Builder!Dep)]
    /\ (IF r.form = "list" THEN CfStarted(r.val) ELSE Builder!Once(r.val))
CfDepsMean(d) == {d[i] : i \in DOMAIN d}

LEMMA CfDepsWritten ==
  ASSUME NEW v \in Seq(Builder!Dep)
  PROVE  /\ CfRawDeps(Builder!SerializeDependsOn(v))
         /\ CfStarted(v) \/ Builder!Once(v) => Builder!SerializeDependsOn(v).val = v
<1>1. CASE CfStarted(v)
  <2> DEFINE r == Builder!SerializeDependsOn(v)
  <2>1. r = [form |-> "list", val |-> v]
    BY <1>1 DEF Builder!SerializeDependsOn, CfStarted, Builder!Raw
  <2> HIDE DEF r
  <2>2. CfRawDeps(r) /\ r.val = v
    BY <1>1, <2>1 DEF CfRawDeps
  <2>3. QED
    BY <2>2 DEF r
<1>2. CASE ~CfStarted(v)
  <2> DEFINE r == Builder!SerializeDependsOn(v)
             o == Builder!ToObject(v)
  <2>1. r = [form |-> "map", val |-> o]
    BY <1>2 DEF Builder!SerializeDependsOn, CfStarted, Builder!Raw
  <2>2. o \in Seq(Builder!Dep) /\ Builder!Once(o)
    BY CfObject
  <2>3. Builder!Once(v) => o = v
    BY CfOnceObject
  <2> HIDE DEF r, o
  <2>4. CfRawDeps(r) /\ r.val = o
    BY <2>1, <2>2 DEF CfRawDeps
  <2>5. QED
    BY <1>2, <2>3, <2>4 DEF r
<1>3. QED
  BY <1>1, <1>2

\* Services waited for.
LEMMA CfDependsOn ==
  ASSUME NEW k, k = "depends_on", ~Builder!IsModel(k, None), ~Builder!IsRaw(k, None)
  PROVE  CfKeySound(k)
<1>1. \A r : /\ Builder!IsRaw(k, r) <=> CfRawDeps(r)
             /\ Builder!ParseKey(k, r) = r.val
             /\ Builder!Means(k, r) = CfDepsMean(r.val)
             /\ Builder!SupportedKey(k, r) => r.form # "map+"
  <2>1. \A r : Builder!IsRaw(k, r) <=> CfRawDeps(r)
    BY CfKinds DEF CfOthers, Builder!KVKeys, Builder!IsRaw, CfRawDeps, CfStarted, CfDepsMean, Builder!ParseDependsOn,
       Builder!StrKeys, Builder!JoinKeys, Builder!FlagKeys, Builder!ArrKeys
  <2>2. \A r : Builder!ParseKey(k, r) = r.val
    BY CfKinds DEF CfOthers, Builder!KVKeys, Builder!ParseKey, Builder!ParseScalar, CfRawDeps, CfStarted, CfDepsMean,
       Builder!ParseDependsOn, Builder!StrKeys, Builder!JoinKeys, Builder!FlagKeys, Builder!ArrKeys
  <2>3. \A r : Builder!Means(k, r) = CfDepsMean(r.val)
    BY CfKinds DEF CfOthers, Builder!KVKeys, Builder!Means, CfRawDeps, CfStarted, CfDepsMean, Builder!ParseDependsOn,
       Builder!StrKeys, Builder!JoinKeys, Builder!FlagKeys, Builder!ArrKeys
  <2>4. \A r : Builder!SupportedKey(k, r) => r.form # "map+"
    BY CfKinds DEF CfOthers, Builder!KVKeys, Builder!SupportedKey, Builder!ParseScalar, CfRawDeps, CfStarted,
       CfDepsMean, Builder!ParseDependsOn, Builder!StrKeys, Builder!JoinKeys, Builder!FlagKeys, Builder!ArrKeys
  <2>5. QED
    BY <2>1, <2>2, <2>3, <2>4
<1>2. \A v : /\ Builder!IsModel(k, v) <=> v \in Seq(Builder!Dep)
             /\ Builder!SerializeKey(k, v) = Builder!SerializeDependsOn(v)
             /\ Builder!Field(k, v) = v
             /\ Builder!CompleteKey(k, v) => Builder!Once(v)
  <2>1. \A v : Builder!IsModel(k, v) <=> v \in Seq(Builder!Dep)
    BY CfKinds DEF CfOthers, Builder!KVKeys, Builder!IsModel, CfRawDeps, CfStarted, CfDepsMean, Builder!ParseDependsOn,
       Builder!StrKeys, Builder!JoinKeys, Builder!FlagKeys, Builder!ArrKeys
  <2>2. \A v : Builder!SerializeKey(k, v) = Builder!SerializeDependsOn(v)
    BY CfKinds DEF CfOthers, Builder!KVKeys, Builder!SerializeKey, Builder!SerializeScalar, CfRawDeps, CfStarted,
       CfDepsMean, Builder!ParseDependsOn, Builder!StrKeys, Builder!JoinKeys, Builder!FlagKeys, Builder!ArrKeys
  <2>3. \A v : Builder!Field(k, v) = v
    BY CfKinds DEF CfOthers, Builder!KVKeys, Builder!Field, Builder!OrAbsent, CfRawDeps, CfStarted, CfDepsMean,
       Builder!ParseDependsOn, Builder!StrKeys, Builder!JoinKeys, Builder!FlagKeys, Builder!ArrKeys
  <2>4. \A v : Builder!CompleteKey(k, v) => Builder!Once(v)
    BY CfKinds DEF CfOthers, Builder!KVKeys, Builder!CompleteKey, CfRawDeps, CfStarted, CfDepsMean,
       Builder!ParseDependsOn, Builder!StrKeys, Builder!JoinKeys, Builder!FlagKeys, Builder!ArrKeys
  <2>5. QED
    BY <2>1, <2>2, <2>3, <2>4
<1>3. ~(None \in Seq(Builder!Dep)) /\ ~(CfRawDeps(None))
  BY <1>1, <1>2
<1>4. ASSUME NEW r, CfRawDeps(r), NEW v, v = (r.val), v # None
      PROVE  v \in Seq(Builder!Dep)
  BY <1>4, CfDepsWritten DEF Builder!Raw, CfRawDeps, CfDepsMean
<1>5. ASSUME NEW v, v \in Seq(Builder!Dep), NEW r, r = (Builder!SerializeDependsOn(v)), r # None
      PROVE  CfRawDeps(r)
  BY <1>5, CfDepsWritten DEF Builder!Raw, CfRawDeps, CfDepsMean
<1>6. ASSUME NEW r, CfRawDeps(r), r.form # "map+", NEW v, v = (r.val), NEW w, w = (Builder!SerializeDependsOn(v))
      PROVE  IF v = None \/ w = None THEN (CfDepsMean(r.val)) = None ELSE (CfDepsMean(w.val)) = (CfDepsMean(r.val))
  <2>1. (v \in Seq(Builder!Dep))
    BY <1>6, CfDepsWritten DEF Builder!Raw, CfRawDeps, CfDepsMean
  <2>2. v # None
    BY <1>3, <2>1
  <2>3. (CfRawDeps(w))
    BY <1>6, <2>1, <2>2, CfDepsWritten DEF Builder!Raw, CfRawDeps, CfDepsMean
  <2>4. w # None
    BY <1>3, <2>3
  <2>5. QED
    BY <1>6, <2>2, <2>4, CfDepsWritten DEF Builder!Raw, CfRawDeps, CfDepsMean
<1>7. ASSUME NEW v, v \in Seq(Builder!Dep), Builder!Once(v), NEW r, r = (Builder!SerializeDependsOn(v)), NEW w,
             w = (r.val)
      PROVE  IF r = None \/ w = None THEN (v) = None ELSE (w) = (v)
  <2>1. (CfRawDeps(r))
    BY <1>7, CfDepsWritten DEF Builder!Raw, CfRawDeps, CfDepsMean
  <2>2. ~(None \in Seq(Builder!Dep)) /\ (r # None)
    BY <1>3, <2>1
  <2>3. QED
    BY <1>7, <2>2, CfDepsWritten DEF Builder!Raw, CfRawDeps, CfDepsMean
<1>8. CfReads(k)
  BY <1>1, <1>2, <1>4 DEF CfReads
<1>9. CfWrites(k)
  BY <1>1, <1>2, <1>5 DEF CfWrites
<1>10. CfKeeps(k)
  <2> SUFFICES ASSUME NEW r, Builder!IsRaw(k, r), Builder!SupportedKey(k, r),
                      NEW v, v = Builder!ParseKey(k, r), NEW w, w = Builder!SerializeKey(k, v)
               PROVE  IF v = None \/ w = None THEN Builder!Means(k, r) = None
                        ELSE Builder!Means(k, w) = Builder!Means(k, r)
    BY DEF CfKeeps, CfRawKept
  <2>1. (CfRawDeps(r)) /\ (r.form # "map+") /\ v = (r.val) /\ w = (Builder!SerializeDependsOn(v))
    BY <1>1, <1>2
  <2>2. Builder!Means(k, r) = (CfDepsMean(r.val)) /\ Builder!Means(k, w) = (CfDepsMean(w.val))
    BY <1>1
  <2>3. IF v = None \/ w = None THEN (CfDepsMean(r.val)) = None ELSE (CfDepsMean(w.val)) = (CfDepsMean(r.val))
    BY <1>6, <2>1
  <2>4. QED
    BY <2>2, <2>3
<1>11. CfShows(k)
  <2> SUFFICES ASSUME NEW v, Builder!IsModel(k, v), Builder!CompleteKey(k, v),
                      NEW r, r = Builder!SerializeKey(k, v), NEW w, w = Builder!ParseKey(k, r)
               PROVE  IF r = None \/ w = None THEN Builder!Field(k, v) = None
                        ELSE Builder!Field(k, w) = Builder!Field(k, v)
    BY DEF CfShows, CfFieldShown
  <2>1. (v \in Seq(Builder!Dep)) /\ (Builder!Once(v)) /\ r = (Builder!SerializeDependsOn(v)) /\ w = (r.val)
    BY <1>1, <1>2
  <2>2. Builder!Field(k, v) = (v) /\ Builder!Field(k, w) = (w)
    BY <1>2
  <2>3. IF r = None \/ w = None THEN (v) = None ELSE (w) = (v)
    BY <1>7, <2>1
  <2>4. QED
    BY <2>2, <2>3
<1>12. QED
  BY <1>8, <1>9, <1>10, <1>11 DEF CfKeySound

\* A key that the builder has no field for.
LEMMA CfUnknown ==
  ASSUME NEW k, k \notin Builder!StrKeys \union Builder!JoinKeys \union Builder!FlagKeys \union Builder!ArrKeys
         \union Builder!KVKeys \union CfOthers
  PROVE  CfKeySound(k)
<1>1. \A r : Builder!ParseKey(k, r) = None /\ ~Builder!SupportedKey(k, r)
  BY DEF CfOthers, Builder!KVKeys, Builder!ParseKey, Builder!SupportedKey
<1>2. \A v : ~Builder!IsModel(k, v)
  BY DEF CfOthers, Builder!KVKeys, Builder!IsModel
<1>3. QED
  BY <1>1, <1>2 DEF CfKeySound, CfReads, CfWrites, CfKeeps, CfShows

LEMMA CfKeys ==
  ASSUME NEW k, ~Builder!IsModel(k, None), ~Builder!IsRaw(k, None)
  PROVE  CfKeySound(k)
BY CfStrings, CfCommands, CfFlags, CfScale, CfLists, CfEnvironment, CfLabels, CfNetworks, CfHealth, CfDeploy,
   CfLogging, CfBuild,
   CfUlimits, CfPorts, CfVolumes, CfDependsOn, CfUnknown DEF CfOthers, Builder!KVKeys

-----------------------------------------------------------------------------
(***************************************************************************)
(* A service and a file: what is read, what is written, and back.          *)
(***************************************************************************)
\* Every key that is edited is read, written and kept as its kind is.
LEMMA CfEdited == \A k \in Builder!EditedKeys : CfKeySound(k)
BY ValuesAssumption, CfKeys DEF Builder!EditedKeys

\* A service as it is read and as it is written.
LEMMA CfBody ==
  ASSUME NEW r, Builder!IsBody(r)
  PROVE  /\ Builder!IsService(Builder!parseService(r))
         /\ DOMAIN Builder!parseService(r) = {k \in DOMAIN r : Builder!ParseKey(k, r[k]) # None}
         /\ \A k \in DOMAIN Builder!parseService(r) : Builder!parseService(r)[k] = Builder!ParseKey(k, r[k])
<1> DEFINE v == Builder!parseService(r)
<1>1. v = [k \in {j \in DOMAIN r : Builder!ParseKey(j, r[j]) # None} |-> Builder!ParseKey(k, r[k])]
  BY DEF Builder!parseService, Builder!Kept
<1> HIDE DEF v
<1>2. DOMAIN v = {k \in DOMAIN r : Builder!ParseKey(k, r[k]) # None}
        /\ \A k \in DOMAIN v : v[k] = Builder!ParseKey(k, r[k])
  BY <1>1
<1>3. DOMAIN v \subseteq Builder!EditedKeys
  BY <1>2 DEF Builder!IsBody
<1>4. \A k \in DOMAIN v : Builder!IsModel(k, v[k])
  BY <1>2, <1>3, CfEdited DEF CfKeySound, CfReads, Builder!IsBody
<1>5. Builder!IsFunction(v)
  BY <1>1, <1>2 DEF Builder!IsFunction
<1>6. Builder!IsService(v)
  BY <1>3, <1>4, <1>5 DEF Builder!IsService
<1>7. QED
  BY <1>2, <1>6 DEF v

LEMMA CfService ==
  ASSUME NEW v, Builder!IsService(v)
  PROVE  /\ Builder!IsBody(Builder!serializeService(v))
         /\ DOMAIN Builder!serializeService(v) = {k \in DOMAIN v : Builder!SerializeKey(k, v[k]) # None}
         /\ \A k \in DOMAIN Builder!serializeService(v) : Builder!serializeService(v)[k] =
              Builder!SerializeKey(k, v[k])
<1> DEFINE r == Builder!serializeService(v)
<1>1. r = [k \in {j \in DOMAIN v : Builder!SerializeKey(j, v[j]) # None} |-> Builder!SerializeKey(k, v[k])]
  BY DEF Builder!serializeService, Builder!Kept
<1> HIDE DEF r
<1>2. DOMAIN r = {k \in DOMAIN v : Builder!SerializeKey(k, v[k]) # None}
        /\ \A k \in DOMAIN r : r[k] = Builder!SerializeKey(k, v[k])
  BY <1>1
<1>3. DOMAIN r \subseteq Builder!EditedKeys
  BY <1>2 DEF Builder!IsService
<1>4. \A k \in DOMAIN r : Builder!IsRaw(k, r[k])
  BY <1>2, <1>3, CfEdited DEF CfKeySound, CfWrites, Builder!IsService
<1>5. Builder!IsFunction(r)
  BY <1>1, <1>2 DEF Builder!IsFunction
<1>6. Builder!IsBody(r)
  BY <1>3, <1>4, <1>5 DEF Builder!IsBody
<1>7. QED
  BY <1>2, <1>6 DEF r

\* A service without a body is not one with a body.
LEMMA CfNull ==
  ASSUME NEW r, Builder!IsBody(r)
  PROVE  r # Builder!Null
<1>1. DOMAIN Builder!Null = {"null"}
  BY DEF Builder!Null
<1>2. "null" \notin Builder!EditedKeys
  BY KeysAssumption DEF Builder!EditedKeys
<1>3. QED
  BY <1>1, <1>2 DEF Builder!IsBody

LEMMA CfBodyKept ==
  ASSUME NEW r, Builder!IsBody(r), \A k \in DOMAIN r : Builder!SupportedKey(k, r[k])
  PROVE  Builder!Kept(Builder!Means, Builder!serializeService(Builder!parseService(r))) =
           Builder!Kept(Builder!Means, r)
<1> DEFINE v == Builder!parseService(r)
           w == Builder!serializeService(v)
<1>1. /\ Builder!IsService(v) /\ DOMAIN v = {k \in DOMAIN r : Builder!ParseKey(k, r[k]) # None}
      /\ \A k \in DOMAIN v : v[k] = Builder!ParseKey(k, r[k])
  BY CfBody
<1> HIDE DEF v
<1>2. /\ DOMAIN w = {k \in DOMAIN v : Builder!SerializeKey(k, v[k]) # None}
      /\ \A k \in DOMAIN w : w[k] = Builder!SerializeKey(k, v[k])
  BY <1>1, CfService
<1> HIDE DEF w
<1>3. \A k \in DOMAIN r : IF k \in DOMAIN w THEN Builder!Means(k, w[k]) = Builder!Means(k, r[k])
        ELSE Builder!Means(k, r[k]) = None
  <2> SUFFICES ASSUME NEW k \in DOMAIN r
               PROVE  IF k \in DOMAIN w THEN Builder!Means(k, w[k]) = Builder!Means(k, r[k])
                        ELSE Builder!Means(k, r[k]) = None
    OBVIOUS
  <2>1. Builder!IsRaw(k, r[k]) /\ k \in Builder!EditedKeys
    BY DEF Builder!IsBody
  <2>2. CfRawKept(k, r[k])
    BY <2>1, CfEdited DEF CfKeySound, CfKeeps
  <2>3. QED
    BY <1>1, <1>2, <2>2 DEF CfRawKept
<1>4. DOMAIN w \subseteq DOMAIN r
  BY <1>1, <1>2
<1>5. {k \in DOMAIN w : Builder!Means(k, w[k]) # None} = {k \in DOMAIN r : Builder!Means(k, r[k]) # None}
  BY <1>3, <1>4
<1>6. Builder!Kept(Builder!Means, w) = Builder!Kept(Builder!Means, r)
  BY <1>3, <1>4, <1>5 DEF Builder!Kept
<1>7. QED
  BY <1>6 DEF w, v

LEMMA CfServiceShown ==
  ASSUME NEW v, Builder!IsService(v), \A k \in DOMAIN v : Builder!CompleteKey(k, v[k])
  PROVE  Builder!Kept(Builder!Field, Builder!parseService(Builder!serializeService(v))) =
           Builder!Kept(Builder!Field, v)
<1> DEFINE r == Builder!serializeService(v)
           w == Builder!parseService(r)
<1>1. /\ Builder!IsBody(r) /\ DOMAIN r = {k \in DOMAIN v : Builder!SerializeKey(k, v[k]) # None}
      /\ \A k \in DOMAIN r : r[k] = Builder!SerializeKey(k, v[k])
  BY CfService
<1> HIDE DEF r
<1>2. /\ DOMAIN w = {k \in DOMAIN r : Builder!ParseKey(k, r[k]) # None}
      /\ \A k \in DOMAIN w : w[k] = Builder!ParseKey(k, r[k])
  BY <1>1, CfBody
<1> HIDE DEF w
<1>3. \A k \in DOMAIN v : IF k \in DOMAIN w THEN Builder!Field(k, w[k]) = Builder!Field(k, v[k])
        ELSE Builder!Field(k, v[k]) = None
  <2> SUFFICES ASSUME NEW k \in DOMAIN v
               PROVE  IF k \in DOMAIN w THEN Builder!Field(k, w[k]) = Builder!Field(k, v[k])
                        ELSE Builder!Field(k, v[k]) = None
    OBVIOUS
  <2>1. Builder!IsModel(k, v[k]) /\ k \in Builder!EditedKeys
    BY DEF Builder!IsService
  <2>2. CfFieldShown(k, v[k])
    BY <2>1, CfEdited DEF CfKeySound, CfShows
  <2>3. QED
    BY <1>1, <1>2, <2>2 DEF CfFieldShown
<1>4. DOMAIN w \subseteq DOMAIN v
  BY <1>1, <1>2
<1>5. {k \in DOMAIN w : Builder!Field(k, w[k]) # None} = {k \in DOMAIN v : Builder!Field(k, v[k]) # None}
  BY <1>3, <1>4
<1>6. Builder!Kept(Builder!Field, w) = Builder!Kept(Builder!Field, v)
  BY <1>3, <1>4, <1>5 DEF Builder!Kept
<1>7. QED
  BY <1>6 DEF w, r

\* A text that does not load is not one that does.
LEMMA CfBroken ==
  ASSUME NEW t, Builder!IsText(t)
  PROVE  t # Builder!Broken
<1>1. t = [services |-> t.services, networks |-> t.networks, volumes |-> t.volumes, rest |-> t.rest]
  BY DEF Builder!IsText
<1>2. "services" \in DOMAIN t
  BY <1>1
<1>3. DOMAIN Builder!Broken = {"rest"}
  BY DEF Builder!Broken
<1>4. QED
  BY <1>2, <1>3

\* The files without anything.
LEMMA CfEmpty ==
  /\ Builder!IsFunction(Builder!EmptyMap) /\ DOMAIN Builder!EmptyMap = {}
  /\ \A names : Builder!IsTop(Builder!EmptyMap, names)
  /\ Builder!IsFile(Builder!EmptyCf) /\ Builder!IsText(Builder!EmptyText)
<1> DEFINE e == Builder!EmptyMap
<1>1. e = [n \in {} |-> None]
  BY DEF Builder!EmptyMap
<1>2. DOMAIN e = {} /\ Builder!IsFunction(e)
  BY <1>1 DEF Builder!IsFunction
<1>3. \A names : e \in [{} -> Builder!Settings] /\ {} \in SUBSET names
  BY <1>1
<1>4. \A names : Builder!IsTop(e, names)
  BY <1>3 DEF Builder!IsTop
<1> HIDE DEF e
<1>5. Builder!EmptyCf = [services |-> e, networks |-> e, volumes |-> e]
  BY DEF Builder!EmptyCf, e
<1>6. Builder!EmptyText = [services |-> e, networks |-> e, volumes |-> e, rest |-> FALSE]
  BY DEF Builder!EmptyText, e
<1>7. Builder!IsFile(Builder!EmptyCf)
  BY <1>2, <1>4, <1>5 DEF Builder!IsFile
<1>8. Builder!IsText(Builder!EmptyText)
  BY <1>2, <1>4, <1>6 DEF Builder!IsText
<1>9. QED
  BY <1>2, <1>4, <1>7, <1>8 DEF e

\* A file as it is read and as it is written.
LEMMA CfRead ==
  ASSUME NEW t, Builder!IsText(t)
  PROVE  /\ Builder!IsFile(Builder!parseCompose(t))
         /\ DOMAIN Builder!parseCompose(t).services = {s \in DOMAIN t.services : t.services[s] # Builder!Null}
         /\ \A s \in DOMAIN Builder!parseCompose(t).services :
              Builder!parseCompose(t).services[s] = Builder!parseService(t.services[s])
         /\ Builder!parseCompose(t).networks = t.networks /\ Builder!parseCompose(t).volumes = t.volumes
<1> DEFINE cf == Builder!parseCompose(t)
           sv == [s \in {j \in DOMAIN t.services :
               t.services[j] # Builder!Null} |-> Builder!parseService(t.services[s])]
<1>1. t # Builder!Broken
  BY CfBroken
<1>2. cf = [services |-> sv, networks |-> t.networks, volumes |-> t.volumes]
  BY <1>1 DEF Builder!parseCompose
<1>3. /\ DOMAIN sv = {s \in DOMAIN t.services : t.services[s] # Builder!Null}
      /\ \A s \in DOMAIN sv : sv[s] = Builder!parseService(t.services[s])
  OBVIOUS
<1>4. Builder!IsFunction(sv)
  BY <1>3 DEF Builder!IsFunction
<1> HIDE DEF cf, sv
<1>5. DOMAIN sv \subseteq Builder!ServiceIds
  BY <1>3 DEF Builder!IsText
<1>6. \A s \in DOMAIN sv : Builder!IsBody(t.services[s])
  BY <1>3 DEF Builder!IsText
<1>7. \A s \in DOMAIN sv : Builder!IsService(sv[s])
  BY <1>3, <1>6, CfBody
<1>8. cf.services = sv /\ cf.networks = t.networks /\ cf.volumes = t.volumes
      /\ cf = [services |-> cf.services, networks |-> cf.networks, volumes |-> cf.volumes]
  BY <1>2
<1>9. Builder!IsTop(t.networks, Builder!Networks) /\ Builder!IsTop(t.volumes, Builder!Volumes)
  BY DEF Builder!IsText
<1>10. Builder!IsFile(cf)
  BY <1>4, <1>5, <1>7, <1>8, <1>9 DEF Builder!IsFile
<1>11. QED
  BY <1>3, <1>8, <1>10 DEF cf

LEMMA CfFile ==
  ASSUME NEW t, t = Builder!Broken \/ Builder!IsText(t)
  PROVE  Builder!IsFile(Builder!parseCompose(t))
<1>1. CASE t = Builder!Broken
  BY <1>1, CfEmpty DEF Builder!parseCompose
<1>2. CASE Builder!IsText(t)
  BY <1>2, CfRead
<1>3. QED
  BY <1>1, <1>2

LEMMA CfText ==
  ASSUME NEW cf, Builder!IsFile(cf)
  PROVE  /\ Builder!IsText(Builder!serializeCompose(cf))
         /\ DOMAIN Builder!serializeCompose(cf).services = DOMAIN cf.services
         /\ \A s \in DOMAIN cf.services : Builder!serializeCompose(cf).services[s] =
              Builder!serializeService(cf.services[s])
         /\ Builder!serializeCompose(cf).networks = cf.networks /\ Builder!serializeCompose(cf).volumes = cf.volumes
         /\ Builder!serializeCompose(cf).rest = FALSE
<1> DEFINE t == Builder!serializeCompose(cf)
           sv == [s \in DOMAIN cf.services |-> Builder!serializeService(cf.services[s])]
<1>1. t = [services |-> sv, networks |-> cf.networks, volumes |-> cf.volumes, rest |-> FALSE]
  BY DEF Builder!serializeCompose
<1>2. DOMAIN sv = DOMAIN cf.services /\ \A s \in DOMAIN sv : sv[s] = Builder!serializeService(cf.services[s])
  OBVIOUS
<1>3. Builder!IsFunction(sv)
  BY <1>2 DEF Builder!IsFunction
<1> HIDE DEF t, sv
<1>4. DOMAIN sv \subseteq Builder!ServiceIds /\ \A s \in DOMAIN sv : Builder!IsService(cf.services[s])
  BY <1>2 DEF Builder!IsFile
<1>5. \A s \in DOMAIN sv : Builder!IsBody(sv[s])
  BY <1>2, <1>4, CfService
<1>6. t.services = sv /\ t.networks = cf.networks /\ t.volumes = cf.volumes /\ t.rest = FALSE
      /\ t = [services |-> t.services, networks |-> t.networks, volumes |-> t.volumes, rest |-> t.rest]
  BY <1>1
<1>7. Builder!IsTop(cf.networks, Builder!Networks) /\ Builder!IsTop(cf.volumes, Builder!Volumes)
  BY DEF Builder!IsFile
<1>8. Builder!IsText(t)
  BY <1>3, <1>4, <1>5, <1>6, <1>7 DEF Builder!IsText
<1>9. QED
  BY <1>2, <1>6, <1>8 DEF t

\* What is understood is written back with its meaning.
LEMMA CfRoundTrip ==
  ASSUME NEW t, Builder!IsText(t), Builder!Supported(t)
  PROVE  Builder!Meaning(Builder!serializeCompose(Builder!parseCompose(t))) = Builder!Meaning(t)
<1> DEFINE cf == Builder!parseCompose(t)
           w == Builder!serializeCompose(cf)
<1>1. ~t.rest /\ \A s \in DOMAIN t.services : t.services[s] # Builder!Null
                   /\ \A k \in DOMAIN t.services[s] : Builder!SupportedKey(k, t.services[s][k])
  BY DEF Builder!Supported
<1>2. /\ Builder!IsFile(cf) /\ DOMAIN cf.services = DOMAIN t.services
      /\ \A s \in DOMAIN t.services : cf.services[s] = Builder!parseService(t.services[s])
      /\ cf.networks = t.networks /\ cf.volumes = t.volumes
  <2>1. /\ Builder!IsFile(cf) /\ DOMAIN cf.services = {s \in DOMAIN t.services : t.services[s] # Builder!Null}
        /\ \A s \in DOMAIN cf.services : cf.services[s] = Builder!parseService(t.services[s])
        /\ cf.networks = t.networks /\ cf.volumes = t.volumes
    BY CfRead
  <2> HIDE DEF cf
  <2>2. DOMAIN cf.services = DOMAIN t.services
    BY <1>1, <2>1
  <2>3. QED
    BY <2>1, <2>2
<1> HIDE DEF cf
<1>3. /\ DOMAIN w.services = DOMAIN t.services
      /\ \A s \in DOMAIN t.services : w.services[s] = Builder!serializeService(Builder!parseService(t.services[s]))
      /\ w.networks = t.networks /\ w.volumes = t.volumes /\ w.rest = FALSE
  <2>1. /\ DOMAIN w.services = DOMAIN cf.services
        /\ \A s \in DOMAIN cf.services : w.services[s] = Builder!serializeService(cf.services[s])
        /\ w.networks = cf.networks /\ w.volumes = cf.volumes /\ w.rest = FALSE
    BY <1>2, CfText
  <2> HIDE DEF w
  <2>2. QED
    BY <1>2, <2>1
<1> HIDE DEF w
<1>4. t.rest = FALSE
  BY <1>1 DEF Builder!IsText
<1>5. \A s \in DOMAIN t.services : Builder!IsBody(t.services[s])
  BY <1>1 DEF Builder!IsText
<1>6. ASSUME NEW s \in DOMAIN t.services
      PROVE  w.services[s] # Builder!Null /\ Builder!Kept(Builder!Means, w.services[s]) =
               Builder!Kept(Builder!Means, t.services[s])
  <2>1. Builder!Kept(Builder!Means, Builder!serializeService(Builder!parseService(t.services[s]))) =
          Builder!Kept(Builder!Means, t.services[s])
    BY <1>1, <1>5, CfBodyKept
  <2>2. Builder!IsBody(Builder!serializeService(Builder!parseService(t.services[s])))
    BY <1>5, CfBody, CfService
  <2>3. QED
    BY <1>3, <2>1, <2>2, CfNull
<1> DEFINE mt == [s \in DOMAIN t.services |->
                    IF t.services[s] = Builder!Null THEN Builder!EmptyMap
                      ELSE Builder!Kept(Builder!Means, t.services[s])]
           mw == [s \in DOMAIN w.services |->
                    IF w.services[s] = Builder!Null THEN Builder!EmptyMap
                      ELSE Builder!Kept(Builder!Means, w.services[s])]
<1>7. mw = mt
  BY <1>1, <1>3, <1>6
<1>8. Builder!Meaning(w) = [services |-> mw, networks |-> w.networks, volumes |-> w.volumes, rest |-> w.rest]
  BY DEF Builder!Meaning
<1>9. Builder!Meaning(t) = [services |-> mt, networks |-> t.networks, volumes |-> t.volumes, rest |-> t.rest]
  BY DEF Builder!Meaning
<1> HIDE DEF mt, mw
<1>10. Builder!Meaning(w) = Builder!Meaning(t)
  BY <1>3, <1>4, <1>7, <1>8, <1>9
<1>11. QED
  BY <1>10 DEF w, cf

\* What is shown reads back as it is shown.
LEMMA CfSaved ==
  ASSUME NEW cf, Builder!IsFile(cf), Builder!Complete(cf)
  PROVE  Builder!Shown(Builder!parseCompose(Builder!serializeCompose(cf))) = Builder!Shown(cf)
<1> DEFINE t == Builder!serializeCompose(cf)
           w == Builder!parseCompose(t)
<1>1. /\ Builder!IsText(t) /\ DOMAIN t.services = DOMAIN cf.services
      /\ \A s \in DOMAIN cf.services : t.services[s] = Builder!serializeService(cf.services[s])
      /\ t.networks = cf.networks /\ t.volumes = cf.volumes
  BY CfText
<1> HIDE DEF t
<1>2. \A s \in DOMAIN cf.services : Builder!IsService(cf.services[s])
  BY DEF Builder!IsFile
<1>3. \A s \in DOMAIN cf.services : t.services[s] # Builder!Null
  BY <1>1, <1>2, CfService, CfNull
<1>4. /\ Builder!IsFile(w) /\ DOMAIN w.services = DOMAIN cf.services
      /\ \A s \in DOMAIN cf.services : w.services[s] = Builder!parseService(Builder!serializeService(cf.services[s]))
      /\ w.networks = cf.networks /\ w.volumes = cf.volumes
  <2>1. /\ Builder!IsFile(w) /\ DOMAIN w.services = {s \in DOMAIN t.services : t.services[s] # Builder!Null}
        /\ \A s \in DOMAIN w.services : w.services[s] = Builder!parseService(t.services[s])
        /\ w.networks = t.networks /\ w.volumes = t.volumes
    BY <1>1, CfRead
  <2> HIDE DEF w
  <2>2. DOMAIN w.services = DOMAIN cf.services
    BY <1>1, <1>3, <2>1
  <2>3. QED
    BY <1>1, <2>1, <2>2
<1> HIDE DEF w
<1>5. \A s \in DOMAIN cf.services : Builder!Kept(Builder!Field, w.services[s]) =
        Builder!Kept(Builder!Field, cf.services[s])
  BY <1>2, <1>4, CfServiceShown DEF Builder!Complete
<1> DEFINE sw == [s \in DOMAIN w.services |-> Builder!Kept(Builder!Field, w.services[s])]
           sc == [s \in DOMAIN cf.services |-> Builder!Kept(Builder!Field, cf.services[s])]
<1>6. sw = sc
  BY <1>4, <1>5
<1>7. /\ w = [services |-> w.services, networks |-> w.networks, volumes |-> w.volumes]
      /\ cf = [services |-> cf.services, networks |-> cf.networks, volumes |-> cf.volumes]
  BY <1>4 DEF Builder!IsFile
<1>8. Builder!Shown(w) = [w EXCEPT !.services = sw] /\ Builder!Shown(cf) = [cf EXCEPT !.services = sc]
  BY DEF Builder!Shown
<1> HIDE DEF sw, sc
<1>9. Builder!Shown(w) = [services |-> sw, networks |-> w.networks, volumes |-> w.volumes]
  BY <1>7, <1>8
<1>10. Builder!Shown(cf) = [services |-> sc, networks |-> cf.networks, volumes |-> cf.volumes]
  BY <1>7, <1>8
<1>11. Builder!Shown(w) = Builder!Shown(cf)
  BY <1>4, <1>6, <1>9, <1>10
<1>12. QED
  BY <1>11 DEF w, t

-----------------------------------------------------------------------------
(***************************************************************************)
(* The edits of a service card.                                            *)
(***************************************************************************)
\* Rows that are changed, removed or added stay of their set.
LEMMA CfRow ==
  ASSUME NEW S, NEW rows \in Seq(S)
  PROVE  /\ \A i \in DOMAIN rows, c \in S : [rows EXCEPT ![i] = c] \in Seq(S)
         /\ \A i \in DOMAIN rows : Builder!RemoveAt(rows, i) \in Seq(S)
         /\ \A c \in S : Append(rows, c) \in Seq(S)
         /\ \A i \in DOMAIN rows : rows[i] \in S
<1>1. ASSUME NEW i \in DOMAIN rows PROVE Builder!RemoveAt(rows, i) \in Seq(S)
  <2>1. Len(rows) \in Nat /\ i \in 1 .. Len(rows)
    OBVIOUS
  <2>2. SubSeq(rows, 1, i - 1) \in Seq(S)
    BY <2>1
  <2>3. SubSeq(rows, i + 1, Len(rows)) \in Seq(S)
    BY <2>1
  <2>4. SubSeq(rows, 1, i - 1) \o SubSeq(rows, i + 1, Len(rows)) \in Seq(S)
    BY <2>2, <2>3
  <2>5. QED
    BY <2>4 DEF Builder!RemoveAt
<1>2. QED
  BY <1>1

LEMMA CfListEdits ==
  ASSUME NEW rows \in Seq(Builder!Items), NEW v, v \in Builder!StrListEdits(rows) \/ v \in Builder!ExposeEdits(rows)
  PROVE  v \in Seq(Builder!Items)
<1>1. {"", "x", "3000"} \subseteq Builder!Items
  BY DEF Builder!Items
<1>2. \/ \E i \in DOMAIN rows, c \in {"", "x"} : v = [rows EXCEPT ![i] = c]
      \/ \E i \in DOMAIN rows : v = Builder!RemoveAt(rows, i)
      \/ \E c \in {"", "3000"} : v = Append(rows, c)
  BY DEF Builder!StrListEdits, Builder!ExposeEdits, Builder!Rows
<1>3. ASSUME NEW i \in DOMAIN rows, NEW c \in {"", "x"}, v = [rows EXCEPT ![i] = c] PROVE v \in Seq(Builder!Items)
  BY <1>1, <1>3, CfRow
<1>4. ASSUME NEW i \in DOMAIN rows, v = Builder!RemoveAt(rows, i) PROVE v \in Seq(Builder!Items)
  BY <1>4, CfRow
<1>5. ASSUME NEW c \in {"", "3000"}, v = Append(rows, c) PROVE v \in Seq(Builder!Items)
  BY <1>1, <1>5, CfRow
<1>6. QED
  BY <1>2, <1>3, <1>4, <1>5

CfPortRow == {p \in Builder!Port : p.ip # "[::1]"}
LEMMA CfPortEdits ==
  ASSUME NEW rows \in Seq(CfPortRow), NEW v \in Builder!PortEdits(rows)
  PROVE  v \in Seq(CfPortRow)
<1> DEFINE Changes(p) == {[p EXCEPT !.ip = x] : x \in {"127.0.0.1"}}
                           \union {[p EXCEPT !.host = x] : x \in {"", "8080"}}
                           \union {[p EXCEPT !.container = x] : x \in {"", "8080"}}
                           \union {[p EXCEPT !.protocol = x] : x \in {"tcp", "udp"}}
           fresh == [container |-> "8080", host |-> "8080", ip |-> "0.0.0.0", protocol |-> ""]
<1>1. \A p \in CfPortRow : \A c \in Changes(p) : c \in CfPortRow
  <2> SUFFICES ASSUME NEW p \in CfPortRow, NEW c \in Changes(p) PROVE c \in CfPortRow
    OBVIOUS
  <2>1. p = [ip |-> p.ip, host |-> p.host, container |-> p.container, protocol |-> p.protocol] /\ p \in Builder!Port
    BY DEF CfPortRow, Builder!Port
  <2>2. \/ c = [p EXCEPT !.ip = "127.0.0.1"]
        \/ \E x \in {"", "8080"} : c = [p EXCEPT !.host = x]
        \/ \E x \in {"", "8080"} : c = [p EXCEPT !.container = x]
        \/ \E x \in {"tcp", "udp"} : c = [p EXCEPT !.protocol = x]
    OBVIOUS
  <2>3. QED
    BY <2>1, <2>2 DEF CfPortRow, Builder!Port
<1>2. fresh \in CfPortRow
  BY DEF CfPortRow, Builder!Port
<1>3. \/ \E i \in DOMAIN rows : \E c \in Changes(rows[i]) : v = [rows EXCEPT ![i] = c]
      \/ \E i \in DOMAIN rows : v = Builder!RemoveAt(rows, i)
      \/ v = Append(rows, fresh)
  BY DEF Builder!PortEdits, Builder!Rows
<1> HIDE DEF Changes, fresh
<1>4. ASSUME NEW i \in DOMAIN rows, NEW c \in Changes(rows[i]), v = [rows EXCEPT ![i] = c]
      PROVE  v \in Seq(CfPortRow)
  <2>1. c \in CfPortRow
    BY <1>1, CfRow
  <2>2. QED
    BY <1>4, <2>1, CfRow
<1>5. ASSUME NEW i \in DOMAIN rows, v = Builder!RemoveAt(rows, i) PROVE v \in Seq(CfPortRow)
  BY <1>5, CfRow
<1>6. ASSUME v = Append(rows, fresh) PROVE v \in Seq(CfPortRow)
  BY <1>2, <1>6, CfRow
<1>7. QED
  BY <1>3, <1>4, <1>5, <1>6

LEMMA CfVolumeEdits ==
  ASSUME NEW rows \in Seq(Builder!Mount), NEW v \in Builder!VolumeEdits(rows)
  PROVE  v \in Seq(Builder!Mount)
<1> DEFINE Changes(p) == {[p EXCEPT !.source = x] : x \in Builder!Sources}
                           \union {[p EXCEPT !.readOnly = x] : x \in BOOLEAN}
           fresh == [source |-> "", target |-> "/data", readOnly |-> FALSE]
<1>1. \A p \in Builder!Mount : \A c \in Changes(p) : c \in Builder!Mount
  BY DEF Builder!Mount, Builder!Sources
<1>2. fresh \in Builder!Mount
  BY DEF Builder!Mount
<1>3. \/ \E i \in DOMAIN rows : \E c \in Changes(rows[i]) : v = [rows EXCEPT ![i] = c]
      \/ \E i \in DOMAIN rows : v = Builder!RemoveAt(rows, i)
      \/ v = Append(rows, fresh)
  BY DEF Builder!VolumeEdits, Builder!Rows
<1> HIDE DEF Changes, fresh
<1>4. ASSUME NEW i \in DOMAIN rows, NEW c \in Changes(rows[i]), v = [rows EXCEPT ![i] = c]
      PROVE  v \in Seq(Builder!Mount)
  <2>1. c \in Builder!Mount
    BY <1>1, CfRow
  <2>2. QED
    BY <1>4, <2>1, CfRow
<1>5. ASSUME NEW i \in DOMAIN rows, v = Builder!RemoveAt(rows, i) PROVE v \in Seq(Builder!Mount)
  BY <1>5, CfRow
<1>6. ASSUME v = Append(rows, fresh) PROVE v \in Seq(Builder!Mount)
  BY <1>2, <1>6, CfRow
<1>7. QED
  BY <1>3, <1>4, <1>5, <1>6

LEMMA CfDependsForms ==
  ASSUME NEW deps, NEW others, NEW v \in Builder!DependsOnEdits(deps, others)
  PROVE  \/ \E i \in DOMAIN deps, c \in Builder!Conditions : v = [deps EXCEPT ![i].condition = c]
         \/ \E i \in DOMAIN deps : v = Builder!RemoveAt(deps, i)
         \/ \E s \in others : /\ \A i \in DOMAIN deps : deps[i].service # s
                             /\ v = Append(deps, [service |-> s, condition |-> "service_started"])
<1> DEFINE Changed == {[deps EXCEPT ![i].condition = c] : i \in DOMAIN deps, c \in Builder!Conditions}
           Removed == {Builder!RemoveAt(deps, i) : i \in DOMAIN deps}
           Left == IF Len(deps) < MaxDeps THEN others \ {deps[i].service : i \in DOMAIN deps} ELSE {}
           Added == {Append(deps, [service |-> s, condition |-> "service_started"]) : s \in Left}
<1>1. Builder!DependsOnEdits(deps, others) = Changed \union Removed \union Added
  BY DEF Builder!DependsOnEdits
<1>2. v \in Changed => \E i \in DOMAIN deps, c \in Builder!Conditions : v = [deps EXCEPT ![i].condition = c]
  OBVIOUS
<1>3. v \in Removed => \E i \in DOMAIN deps : v = Builder!RemoveAt(deps, i)
  OBVIOUS
<1>4. \A s \in Left : s \in others /\ \A i \in DOMAIN deps : deps[i].service # s
  OBVIOUS
<1> HIDE DEF Left
<1>5. v \in Added => \E s \in others : /\ \A i \in DOMAIN deps : deps[i].service # s
                                       /\ v = Append(deps, [service |-> s, condition |-> "service_started"])
  BY <1>4
<1> HIDE DEF Changed, Removed, Added
<1>6. QED
  BY <1>1, <1>2, <1>3, <1>5

LEMMA CfDependsEdits ==
  ASSUME NEW deps \in Seq(Builder!Dep), NEW others \in SUBSET Builder!ServiceIds,
         NEW v \in Builder!DependsOnEdits(deps, others)
  PROVE  v \in Seq(Builder!Dep)
<1>1. \/ \E i \in DOMAIN deps, c \in Builder!Conditions : v = [deps EXCEPT ![i].condition = c]
      \/ \E i \in DOMAIN deps : v = Builder!RemoveAt(deps, i)
      \/ \E s \in others : v = Append(deps, [service |-> s, condition |-> "service_started"])
  BY CfDependsForms
<1>2. CASE \E i \in DOMAIN deps, c \in Builder!Conditions : v = [deps EXCEPT ![i].condition = c]
  <2>1. PICK i \in DOMAIN deps, c \in Builder!Conditions : v = [deps EXCEPT ![i].condition = c]
    BY <1>2
  <2>2. deps[i] \in Builder!Dep
    BY CfRow
  <2>3. [deps[i] EXCEPT !.condition = c] \in Builder!Dep
    BY <2>2 DEF Builder!Dep
  <2>4. v = [deps EXCEPT ![i] = [deps[i] EXCEPT !.condition = c]]
    BY <2>1
  <2>5. QED
    BY <2>3, <2>4, CfRow
<1>3. CASE \E i \in DOMAIN deps : v = Builder!RemoveAt(deps, i)
  BY <1>3, CfRow
<1>4. CASE \E s \in others : v = Append(deps, [service |-> s, condition |-> "service_started"])
  <2>1. PICK s \in others : v = Append(deps, [service |-> s, condition |-> "service_started"])
    BY <1>4
  <2>2. [service |-> s, condition |-> "service_started"] \in Builder!Dep
    BY DEF Builder!Dep, Builder!Conditions
  <2>3. QED
    BY <2>1, <2>2, CfRow
<1>5. QED
  BY <1>1, <1>2, <1>3, <1>4

\* Names that have values.
CfMaps(T, V) == UNION {[S -> V] : S \in SUBSET T}

LEMMA CfMap ==
  ASSUME NEW T, NEW V, NEW f \in CfMaps(T, V)
  PROVE  /\ \A k \in T, v \in V : Builder!Put(f, k, v) \in CfMaps(T, V)
         /\ \A k : Builder!Drop(f, k) \in CfMaps(T, V)
         /\ \A k, n \in T, v \in V : Builder!Put(Builder!Drop(f, k), n, v) \in CfMaps(T, V)
         /\ DOMAIN f \subseteq T /\ \A k \in DOMAIN f : f[k] \in V
<1>1. ASSUME NEW g \in CfMaps(T, V), NEW k \in T, NEW v \in V PROVE Builder!Put(g, k, v) \in CfMaps(T, V)
  <2>1. DOMAIN g \in SUBSET T /\ \A j \in DOMAIN g : g[j] \in V
    BY DEF CfMaps
  <2>2. Builder!Put(g, k, v) \in [DOMAIN g \union {k} -> V]
    BY <2>1 DEF Builder!Put
  <2>3. DOMAIN g \union {k} \in SUBSET T
    BY <2>1
  <2>4. QED
    BY <2>2, <2>3 DEF CfMaps
<1>2. DOMAIN f \in SUBSET T /\ \A j \in DOMAIN f : f[j] \in V
  BY DEF CfMaps
<1>3. ASSUME NEW k PROVE Builder!Drop(f, k) \in CfMaps(T, V)
  <2>1. Builder!Drop(f, k) \in [DOMAIN f \ {k} -> V]
    BY <1>2 DEF Builder!Drop
  <2>2. DOMAIN f \ {k} \in SUBSET T
    BY <1>2
  <2>3. QED
    BY <2>1, <2>2 DEF CfMaps
<1>4. \A k, n \in T, v \in V : Builder!Put(Builder!Drop(f, k), n, v) \in CfMaps(T, V)
  BY <1>1, <1>3
<1>5. QED
  BY <1>1, <1>2, <1>3, <1>4

LEMMA CfRenamed ==
  ASSUME NEW T, NEW V, NEW f \in CfMaps(T, V), NEW o, NEW n \in T, NEW v \in Builder!Renamed(f, o, n)
  PROVE  v \in CfMaps(T, V)
<1>1. PICK k \in DOMAIN f : v = Builder!Put(Builder!Drop(f, o), n, f[k])
  BY DEF Builder!Renamed
<1>2. f[k] \in V
  BY CfMap
<1>3. QED
  BY <1>1, <1>2, CfMap

LEMMA BKVEdits ==
  ASSUME NEW V, "v" \in V, "" \in V, NEW data \in CfMaps(Builder!Variables, V),
         NEW v \in Builder!KVEdits(data)
  PROVE  v \in CfMaps(Builder!Variables, V)
<1>1. \/ \E k \in DOMAIN data : v = Builder!Put(data, k, "v")
      \/ \E o \in DOMAIN data, n \in {"", "K"} : v \in Builder!Renamed(data, o, n)
      \/ \E k \in DOMAIN data : v = Builder!Drop(data, k)
      \/ v = Builder!Put(data, "", "")
  BY DEF Builder!KVEdits
<1>2. "" \in Builder!Variables /\ "K" \in Builder!Variables
  BY DEF Builder!Variables
<1>3. ASSUME NEW k \in DOMAIN data, v = Builder!Put(data, k, "v") PROVE v \in CfMaps(Builder!Variables, V)
  <2>1. k \in Builder!Variables
    BY CfMap
  <2>2. QED
    BY <1>3, <2>1, CfMap
<1>4. ASSUME NEW o \in DOMAIN data, NEW n \in {"", "K"}, v \in Builder!Renamed(data, o, n)
      PROVE  v \in CfMaps(Builder!Variables, V)
  <2>1. n \in Builder!Variables
    BY <1>2
  <2>2. QED
    BY <1>4, <2>1, CfRenamed
<1>5. ASSUME NEW k \in DOMAIN data, v = Builder!Drop(data, k) PROVE v \in CfMaps(Builder!Variables, V)
  BY <1>5, CfMap
<1>6. ASSUME v = Builder!Put(data, "", "") PROVE v \in CfMaps(Builder!Variables, V)
  BY <1>2, <1>6, CfMap
<1>7. QED
  BY <1>1, <1>3, <1>4, <1>5, <1>6

LEMMA CfNetworkEdits ==
  ASSUME NEW data \in CfMaps(Builder!Networks, Builder!Settings), NEW av \in SUBSET Builder!Networks,
         NEW v \in Builder!NetworkEdits(data, av)
  PROVE  v \in CfMaps(Builder!Networks, Builder!Settings)
<1>1. \/ \E k \in DOMAIN data, c \in {"empty", "set"} : v = Builder!Put(data, k, c)
      \/ \E k \in DOMAIN data : v = Builder!Drop(data, k)
      \/ \E k \in av : v = Builder!Put(data, k, "empty")
  BY DEF Builder!NetworkEdits
<1>2. "empty" \in Builder!Settings /\ "set" \in Builder!Settings
  BY DEF Builder!Settings
<1>3. QED
  BY <1>1, <1>2, CfMap

\* The model's own words for these sets.
LEMMA CfPortRows ==
  \A x : x \in Seq(CfPortRow) <=> x \in Seq(Builder!Port) /\ \A i \in DOMAIN x : x[i].ip # "[::1]"
<1>1. ASSUME NEW x \in Seq(CfPortRow) PROVE x \in Seq(Builder!Port) /\ \A i \in DOMAIN x : x[i].ip # "[::1]"
  <2>1. \A i \in DOMAIN x : x[i] \in CfPortRow
    BY CfItems
  <2>2. \A i \in DOMAIN x : x[i] \in Builder!Port /\ x[i].ip # "[::1]"
    BY <2>1 DEF CfPortRow
  <2>3. x = [i \in DOMAIN x |-> x[i]]
    OBVIOUS
  <2>4. x \in Seq(Builder!Port)
    BY <2>2, <2>3, CfMapped
  <2>5. QED
    BY <2>2, <2>4
<1>2. ASSUME NEW x \in Seq(Builder!Port), \A i \in DOMAIN x : x[i].ip # "[::1]" PROVE x \in Seq(CfPortRow)
  <2>1. \A i \in DOMAIN x : x[i] \in Builder!Port
    BY CfItems
  <2>2. \A i \in DOMAIN x : x[i] \in CfPortRow
    BY <1>2, <2>1 DEF CfPortRow
  <2>3. x = [i \in DOMAIN x |-> x[i]]
    OBVIOUS
  <2>4. QED
    BY <2>2, <2>3, CfMapped
<1>3. QED
  BY <1>1, <1>2

LEMMA CfMapsOf ==
  /\ \A T, V, f : f \in CfMaps(T, V) <=> \E S \in SUBSET T : f \in [S -> V]
  /\ \A T, V : Builder!EmptyMap \in CfMaps(T, V)
  /\ \A f, T : Builder!IsTop(f, T) <=> f \in CfMaps(T, Builder!Settings)
<1>1. \A T, V, f : f \in CfMaps(T, V) <=> \E S \in SUBSET T : f \in [S -> V]
  BY DEF CfMaps
<1>2. \A T, V : Builder!EmptyMap \in [{} -> V] /\ {} \in SUBSET T
  BY DEF Builder!EmptyMap
<1>3. QED
  BY <1>1, <1>2 DEF Builder!IsTop

LEMMA CfValues ==
  "" \in Builder!Values /\ "v" \in Builder!Values /\ "" \in Builder!Values \ {Builder!Unset}
    /\ "v" \in Builder!Values \ {Builder!Unset}
BY DEF Builder!Values, Builder!Unset

LEMMA CfTops ==
  ASSUME NEW cf, Builder!IsFile(cf)
  PROVE  /\ cf.networks \in CfMaps(Builder!Networks, Builder!Settings)
              /\ cf.volumes \in CfMaps(Builder!Volumes, Builder!Settings)
         /\ DOMAIN cf.networks \subseteq Builder!Networks /\ DOMAIN cf.volumes \subseteq Builder!Volumes
         /\ DOMAIN cf.services \subseteq Builder!ServiceIds
<1>1. cf.networks \in CfMaps(Builder!Networks, Builder!Settings)
        /\ cf.volumes \in CfMaps(Builder!Volumes, Builder!Settings)
  BY CfMapsOf DEF Builder!IsFile
<1>2. QED
  BY <1>1, CfMap DEF Builder!IsFile

\* What the fields of a service give is of the types of its keys.
LEMMA CfKeyEdits ==
  ASSUME NEW cf, Builder!IsFile(cf), NEW s \in DOMAIN cf.services, NEW k \in Keys,
         NEW v \in Builder!KeyEdits(cf, s, k), v # None
  PROVE  Builder!IsModel(k, v)
<1> DEFINE svc == cf.services[s]
<1>1. k \in DOMAIN svc => Builder!IsModel(k, svc[k])
  BY DEF Builder!IsFile, Builder!IsService
<1>2. \A e : Builder!Get(svc, k, e) = IF k \in DOMAIN svc THEN svc[k] ELSE e
  BY DEF Builder!Get
<1>3. "expose" \in Builder!ArrKeys /\ \A S : <<>> \in Seq(S)
  BY DEF Builder!ArrKeys
<1>4. CASE k \in Builder!StrKeys \union Builder!JoinKeys
  <2>1. Builder!KeyEdits(cf, s, k) = Builder!TextEdits(k)
    BY <1>3, <1>4, CfKinds DEF CfOthers, Builder!KVKeys, Builder!KeyEdits
  <2>2. \A x : Builder!IsModel(k, x) <=> x \in Builder!Words
    BY <1>4, CfKinds DEF CfOthers, Builder!KVKeys, Builder!IsModel
  <2>3. QED
    BY <2>1, <2>2 DEF Builder!TextEdits, Builder!Words
<1>5. CASE k \in Builder!FlagKeys
  <2>1. Builder!KeyEdits(cf, s, k) = Builder!ToggleEdits
    BY <1>3, <1>5, CfKinds DEF CfOthers, Builder!KVKeys, Builder!KeyEdits
  <2>2. \A x : Builder!IsModel(k, x) <=> x \in {TRUE}
    BY <1>5, CfKinds DEF CfOthers, Builder!KVKeys, Builder!IsModel
  <2>3. QED
    BY <2>1, <2>2 DEF Builder!ToggleEdits
<1>6. CASE k = "scale"
  <2>1. Builder!KeyEdits(cf, s, k) = Builder!NumberEdits
    BY <1>3, <1>6, CfKinds DEF CfOthers, Builder!KVKeys, Builder!KeyEdits, Builder!StrKeys, Builder!JoinKeys,
       Builder!FlagKeys, Builder!ArrKeys
  <2>2. \A x : Builder!IsModel(k, x) <=> x \in Int
    BY <1>6, CfKinds DEF CfOthers, Builder!KVKeys, Builder!IsModel, Builder!StrKeys, Builder!JoinKeys,
       Builder!FlagKeys, Builder!ArrKeys
  <2>3. QED
    BY <2>1, <2>2 DEF Builder!NumberEdits
<1>7. CASE k = "expose"
  <2>1. Builder!KeyEdits(cf, s, k) = {Builder!OrAbsent(x, <<>>) :
          x \in Builder!ExposeEdits(Builder!Get(svc, k, <<>>))}
    BY <1>3, <1>7, CfKinds DEF CfOthers, Builder!KVKeys, Builder!KeyEdits, Builder!ArrKeys
  <2>2. \A x : Builder!IsModel(k, x) <=> x \in Seq(Builder!Items) \ {<<>>}
    BY <1>7, CfKinds DEF CfOthers, Builder!KVKeys, Builder!IsModel, Builder!ArrKeys
  <2>3. Builder!Get(svc, k, <<>>) \in Seq(Builder!Items)
    BY <1>1, <1>2, <1>3, <2>2
  <2>4. PICK x \in Builder!ExposeEdits(Builder!Get(svc, k, <<>>)) : v = Builder!OrAbsent(x, <<>>)
    BY <2>1
  <2>5. v = x /\ v # <<>>
    BY <2>4 DEF Builder!OrAbsent
  <2>6. x \in Seq(Builder!Items)
    BY <2>3, CfListEdits
  <2>7. QED
    BY <2>2, <2>5, <2>6
<1>8. CASE k \in Builder!ArrKeys \ {"expose"}
  <2>1. Builder!KeyEdits(cf, s, k) = {Builder!OrAbsent(x, <<>>) :
          x \in Builder!StrListEdits(Builder!Get(svc, k, <<>>))}
    BY <1>3, <1>8, CfKinds DEF CfOthers, Builder!KVKeys, Builder!KeyEdits
  <2>2. \A x : Builder!IsModel(k, x) <=> x \in Seq(Builder!Items) \ {<<>>}
    BY <1>8, CfKinds DEF CfOthers, Builder!KVKeys, Builder!IsModel
  <2>3. Builder!Get(svc, k, <<>>) \in Seq(Builder!Items)
    BY <1>1, <1>2, <1>3, <2>2
  <2>4. PICK x \in Builder!StrListEdits(Builder!Get(svc, k, <<>>)) : v = Builder!OrAbsent(x, <<>>)
    BY <2>1
  <2>5. v = x /\ v # <<>>
    BY <2>4 DEF Builder!OrAbsent
  <2>6. x \in Seq(Builder!Items)
    BY <2>3, CfListEdits
  <2>7. QED
    BY <2>2, <2>5, <2>6
<1>9. CASE k = "ports"
  <2>1. Builder!KeyEdits(cf, s, k) = {Builder!OrAbsent(x, <<>>) : x \in Builder!PortEdits(Builder!Get(svc, k, <<>>))}
    BY <1>3, <1>9, CfKinds DEF CfOthers, Builder!KVKeys, Builder!KeyEdits, Builder!StrKeys, Builder!JoinKeys,
       Builder!FlagKeys, Builder!ArrKeys
  <2>2. \A x : Builder!IsModel(k, x) <=> x \in Seq(Builder!Port) /\ \A i \in DOMAIN x : x[i].ip # "[::1]"
    BY <1>9, CfKinds DEF CfOthers, Builder!KVKeys, Builder!IsModel, Builder!StrKeys, Builder!JoinKeys,
       Builder!FlagKeys, Builder!ArrKeys
  <2>3. Builder!Get(svc, k, <<>>) \in Seq(CfPortRow)
    BY <1>1, <1>2, <1>3, <2>2, CfPortRows
  <2>4. PICK x \in Builder!PortEdits(Builder!Get(svc, k, <<>>)) : v = Builder!OrAbsent(x, <<>>)
    BY <2>1
  <2>5. v = x /\ v # <<>>
    BY <2>4 DEF Builder!OrAbsent
  <2>6. x \in Seq(CfPortRow)
    BY <2>3, CfPortEdits
  <2>7. QED
    BY <2>2, <2>5, <2>6, CfPortRows
<1>10. CASE k = "volumes"
  <2>1. Builder!KeyEdits(cf, s, k) = {Builder!OrAbsent(x, <<>>) :
          x \in Builder!VolumeEdits(Builder!Get(svc, k, <<>>))}
    BY <1>3, <1>10, CfKinds DEF CfOthers, Builder!KVKeys, Builder!KeyEdits, Builder!StrKeys, Builder!JoinKeys,
       Builder!FlagKeys, Builder!ArrKeys
  <2>2. \A x : Builder!IsModel(k, x) <=> x \in Seq(Builder!Mount)
    BY <1>10, CfKinds DEF CfOthers, Builder!KVKeys, Builder!IsModel, Builder!StrKeys, Builder!JoinKeys,
       Builder!FlagKeys, Builder!ArrKeys
  <2>3. Builder!Get(svc, k, <<>>) \in Seq(Builder!Mount)
    BY <1>1, <1>2, <1>3, <2>2
  <2>4. PICK x \in Builder!VolumeEdits(Builder!Get(svc, k, <<>>)) : v = Builder!OrAbsent(x, <<>>)
    BY <2>1
  <2>5. v = x /\ v # <<>>
    BY <2>4 DEF Builder!OrAbsent
  <2>6. x \in Seq(Builder!Mount)
    BY <2>3, CfVolumeEdits
  <2>7. QED
    BY <2>2, <2>5, <2>6
<1>11. CASE k = "environment"
  <2>1. Builder!KeyEdits(cf, s, k) = {Builder!OrAbsent(x, Builder!EmptyMap) :
          x \in Builder!EnvEdits(Builder!Get(svc, k, Builder!EmptyMap))}
    BY <1>3, <1>11, CfKinds DEF CfOthers, Builder!KVKeys, Builder!KeyEdits, Builder!StrKeys, Builder!JoinKeys,
       Builder!FlagKeys, Builder!ArrKeys
  <2>2. \A x : Builder!IsModel(k, x) <=> \E S \in SUBSET Builder!Variables : x \in [S -> Builder!Values \ {Builder!Unset}]
    BY <1>11, CfKinds DEF CfOthers, Builder!KVKeys, Builder!IsModel, Builder!StrKeys, Builder!JoinKeys,
       Builder!FlagKeys, Builder!ArrKeys
  <2>3. Builder!Get(svc, k, Builder!EmptyMap) \in CfMaps(Builder!Variables, Builder!Values \ {Builder!Unset})
    BY <1>1, <1>2, <1>3, <2>2, CfMapsOf
  <2>4. PICK x \in Builder!EnvEdits(Builder!Get(svc, k, Builder!EmptyMap)) : v = Builder!OrAbsent(x, Builder!EmptyMap)
    BY <2>1
  <2>5. v = x /\ v # Builder!EmptyMap
    BY <2>4 DEF Builder!OrAbsent
  <2>6. x \in CfMaps(Builder!Variables, Builder!Values \ {Builder!Unset})
    BY <2>3, BKVEdits, CfValues DEF Builder!EnvEdits
  <2>7. QED
    BY <2>2, <2>5, <2>6, CfMapsOf
<1>12. CASE k \in {"labels", "sysctls"}
  <2>1. Builder!KeyEdits(cf, s, k) = {Builder!OrAbsent(x, Builder!EmptyMap) :
          x \in Builder!KVEdits(Builder!Get(svc, k, Builder!EmptyMap))}
    BY <1>3, <1>12, CfKinds DEF CfOthers, Builder!KVKeys, Builder!KeyEdits, Builder!StrKeys, Builder!JoinKeys,
       Builder!FlagKeys, Builder!ArrKeys
  <2>2. \A x : Builder!IsModel(k, x) <=> \E S \in SUBSET Builder!Variables : x \in [S -> Builder!Values]
    BY <1>12, CfKinds DEF CfOthers, Builder!KVKeys, Builder!IsModel, Builder!StrKeys, Builder!JoinKeys,
       Builder!FlagKeys, Builder!ArrKeys
  <2>3. Builder!Get(svc, k, Builder!EmptyMap) \in CfMaps(Builder!Variables, Builder!Values)
    BY <1>1, <1>2, <1>3, <2>2, CfMapsOf
  <2>4. PICK x \in Builder!KVEdits(Builder!Get(svc, k, Builder!EmptyMap)) : v = Builder!OrAbsent(x, Builder!EmptyMap)
    BY <2>1
  <2>5. v = x /\ v # Builder!EmptyMap
    BY <2>4 DEF Builder!OrAbsent
  <2>6. x \in CfMaps(Builder!Variables, Builder!Values)
    BY <2>3, BKVEdits, CfValues
  <2>7. QED
    BY <2>2, <2>5, <2>6, CfMapsOf
<1>13. CASE k = "networks"
  <2>1. Builder!KeyEdits(cf, s, k) = {Builder!OrAbsent(x, Builder!EmptyMap) :
          x \in Builder!NetworkEdits(Builder!Get(svc, k, Builder!EmptyMap), DOMAIN cf.networks)}
    BY <1>3, <1>13, CfKinds DEF CfOthers, Builder!KVKeys, Builder!KeyEdits, Builder!StrKeys, Builder!JoinKeys,
       Builder!FlagKeys, Builder!ArrKeys
  <2>2. \A x : Builder!IsModel(k, x) <=> \E S \in SUBSET Builder!Networks : x \in [S -> Builder!Settings]
    BY <1>13, CfKinds DEF CfOthers, Builder!KVKeys, Builder!IsModel, Builder!StrKeys, Builder!JoinKeys,
       Builder!FlagKeys, Builder!ArrKeys
  <2>3. Builder!Get(svc, k, Builder!EmptyMap) \in CfMaps(Builder!Networks, Builder!Settings)
    BY <1>1, <1>2, <1>3, <2>2, CfMapsOf
  <2>4. PICK x \in Builder!NetworkEdits(Builder!Get(svc, k, Builder!EmptyMap), DOMAIN cf.networks) : v =
               Builder!OrAbsent(x, Builder!EmptyMap)
    BY <2>1
  <2>5. v = x /\ v # Builder!EmptyMap
    BY <2>4 DEF Builder!OrAbsent
  <2>6. x \in CfMaps(Builder!Networks, Builder!Settings)
    BY <2>3, CfNetworkEdits, CfTops
  <2>7. QED
    BY <2>2, <2>5, <2>6, CfMapsOf
<1>14. CASE k = "depends_on"
  <2>1. Builder!KeyEdits(cf, s, k) = {Builder!OrAbsent(x, <<>>) :
          x \in Builder!DependsOnEdits(Builder!Get(svc, k, <<>>), DOMAIN cf.services \ {s})}
    BY <1>3, <1>14, CfKinds DEF CfOthers, Builder!KVKeys, Builder!KeyEdits, Builder!StrKeys, Builder!JoinKeys,
       Builder!FlagKeys, Builder!ArrKeys
  <2>2. \A x : Builder!IsModel(k, x) <=> x \in Seq(Builder!Dep)
    BY <1>14, CfKinds DEF CfOthers, Builder!KVKeys, Builder!IsModel, Builder!StrKeys, Builder!JoinKeys,
       Builder!FlagKeys, Builder!ArrKeys
  <2>3. Builder!Get(svc, k, <<>>) \in Seq(Builder!Dep)
    BY <1>1, <1>2, <1>3, <2>2
  <2>4. PICK x \in Builder!DependsOnEdits(Builder!Get(svc, k, <<>>), DOMAIN cf.services \ {s}) : v =
               Builder!OrAbsent(x, <<>>)
    BY <2>1
  <2>5. v = x /\ v # <<>>
    BY <2>4 DEF Builder!OrAbsent
  <2>6. x \in Seq(Builder!Dep)
    BY <2>3, CfDependsEdits, CfTops
  <2>7. QED
    BY <2>2, <2>5, <2>6
<1>15. CASE k = "healthcheck"
  <2>1. Builder!KeyEdits(cf, s, k) = Builder!HealthCheckEdits(Builder!Get(svc, k, None))
    BY <1>3, <1>15, CfKinds DEF CfOthers, Builder!KVKeys, Builder!KeyEdits, Builder!StrKeys, Builder!JoinKeys,
       Builder!FlagKeys, Builder!ArrKeys
  <2>2. \A x : Builder!IsModel(k, x) <=> x \in Builder!Check
    BY <1>15, CfKinds DEF CfOthers, Builder!KVKeys, Builder!IsModel, Builder!StrKeys, Builder!JoinKeys,
       Builder!FlagKeys, Builder!ArrKeys
  <2> DEFINE h == Builder!Get(svc, k, None)
  <2>3. h = None \/ h \in Builder!Check
    BY <1>1, <1>2, <2>2
  <2> HIDE DEF h
  <2>4. \/ v = [test |-> "", opts |-> "", disable |-> FALSE]
        \/ h # None /\ \E x \in {"", "x"} : v = [h EXCEPT !.test = x] \/ v = [h EXCEPT !.opts = x]
    <3>1. CASE h = None
      BY <2>1, <3>1 DEF Builder!HealthCheckEdits, h
    <3>2. CASE h # None
      <4>1. v \in {None} \union {[h EXCEPT !.test = x] : x \in {"", "x"}}
              \union {[h EXCEPT !.opts = x] : x \in {"", "x"}}
        BY <2>1, <3>2 DEF Builder!HealthCheckEdits, h
      <4>2. QED
        BY <3>2, <4>1
    <3>3. QED
      BY <3>1, <3>2
  <2>5. QED
    BY <2>2, <2>3, <2>4 DEF Builder!Check, Builder!Texts
<1>16. CASE k = "deploy"
  <2>1. Builder!KeyEdits(cf, s, k) = Builder!ResourceEdits(Builder!Get(svc, k, None))
    BY <1>3, <1>16, CfKinds DEF CfOthers, Builder!KVKeys, Builder!KeyEdits, Builder!StrKeys, Builder!JoinKeys,
       Builder!FlagKeys, Builder!ArrKeys
  <2>2. \A x : Builder!IsModel(k, x) <=> x \in Builder!Texts
    BY <1>16, CfKinds DEF CfOthers, Builder!KVKeys, Builder!IsModel, Builder!StrKeys, Builder!JoinKeys,
       Builder!FlagKeys, Builder!ArrKeys
  <2>3. v \in {None, "", "x"}
    BY <2>1 DEF Builder!ResourceEdits
  <2>4. QED
    BY <2>2, <2>3 DEF Builder!Texts
<1>17. CASE k \notin Builder!StrKeys \union Builder!JoinKeys \union Builder!FlagKeys \union Builder!ArrKeys
              \union Builder!KVKeys
                \union {"scale", "ports", "volumes", "networks", "depends_on", "healthcheck", "deploy"}
  <2>1. Builder!KeyEdits(cf, s, k) = {}
    BY <1>17 DEF Builder!KeyEdits, Builder!KVKeys, Builder!ArrKeys
  <2>2. QED
    BY <2>1
<1>18. QED
  BY <1>4, <1>5, <1>6, <1>7, <1>8, <1>9, <1>10, <1>11, <1>12, <1>13, <1>14, <1>15, <1>16, <1>17 DEF Builder!KVKeys

-----------------------------------------------------------------------------
(***************************************************************************)
(* The edits of a file.                                                    *)
(***************************************************************************)
\* A key that is put or dropped.
LEMMA CfDrop ==
  ASSUME NEW f, NEW k
  PROVE  /\ Builder!IsFunction(Builder!Drop(f, k)) /\ DOMAIN Builder!Drop(f, k) = DOMAIN f \ {k}
         /\ \A j \in DOMAIN Builder!Drop(f, k) : Builder!Drop(f, k)[j] = f[j]
BY DEF Builder!Drop, Builder!IsFunction

LEMMA CfSetKey ==
  ASSUME NEW svc, Builder!IsService(svc), NEW k \in Builder!EditedKeys, NEW v, v = None \/ Builder!IsModel(k, v)
  PROVE  Builder!IsService(Builder!SetKey(svc, k, v))
<1>1. DOMAIN svc \subseteq Builder!EditedKeys /\ \A j \in DOMAIN svc : Builder!IsModel(j, svc[j])
  BY DEF Builder!IsService
<1>2. CASE v = None
  <2> DEFINE w == Builder!Drop(svc, k)
  <2>1. Builder!IsFunction(w) /\ DOMAIN w = DOMAIN svc \ {k} /\ \A j \in DOMAIN w : w[j] = svc[j]
    BY CfDrop
  <2> HIDE DEF w
  <2>2. Builder!IsService(w)
    BY <1>1, <2>1 DEF Builder!IsService
  <2>3. QED
    BY <1>2, <2>2 DEF Builder!SetKey, w
<1>3. CASE v # None
  <2> DEFINE w == Builder!Put(svc, k, v)
  <2>1. Builder!IsFunction(w) /\ DOMAIN w = DOMAIN svc \union {k} /\ \A j \in DOMAIN w : (j = k => w[j] = v)
          /\ (j # k => w[j] = svc[j])
    BY DEF Builder!Put, Builder!IsFunction, w
  <2> HIDE DEF w
  <2>2. Builder!IsService(w)
    BY <1>1, <1>3, <2>1 DEF Builder!IsService
  <2>3. QED
    BY <1>3, <2>2 DEF Builder!SetKey, w
<1>4. QED
  BY <1>2, <1>3

\* A file with other services, networks or volumes.
CfServices(sv) == /\ Builder!IsFunction(sv) /\ DOMAIN sv \subseteq Builder!ServiceIds
                  /\ \A s \in DOMAIN sv : Builder!IsService(sv[s])

LEMMA CfReplaced ==
  ASSUME NEW cf, Builder!IsFile(cf)
  PROVE  /\ CfServices(cf.services)
         /\ \A sv : LET c == [cf EXCEPT !.services = sv]
                    IN  /\ c.services = sv /\ c.networks = cf.networks /\ c.volumes = cf.volumes
                        /\ CfServices(sv) => Builder!IsFile(c)
         /\ \A m : LET c == [cf EXCEPT !.networks = m]
                   IN  /\ c.services = cf.services /\ c.networks = m /\ c.volumes = cf.volumes
                       /\ m \in CfMaps(Builder!Networks, Builder!Settings) => Builder!IsFile(c)
         /\ \A m : LET c == [cf EXCEPT !.volumes = m]
                   IN  /\ c.services = cf.services /\ c.networks = cf.networks /\ c.volumes = m
                       /\ m \in CfMaps(Builder!Volumes, Builder!Settings) => Builder!IsFile(c)
<1>1. cf = [services |-> cf.services, networks |-> cf.networks, volumes |-> cf.volumes]
  BY DEF Builder!IsFile
<1>2. CfServices(cf.services)
  BY DEF Builder!IsFile, CfServices
<1>3. cf.networks \in CfMaps(Builder!Networks, Builder!Settings)
        /\ cf.volumes \in CfMaps(Builder!Volumes, Builder!Settings)
  BY CfTops
<1>4. \A c : /\ c = [services |-> c.services, networks |-> c.networks, volumes |-> c.volumes]
             /\ CfServices(c.services)
             /\ c.networks \in CfMaps(Builder!Networks, Builder!Settings)
                  /\ c.volumes \in CfMaps(Builder!Volumes, Builder!Settings)
             => Builder!IsFile(c)
  BY CfMapsOf DEF Builder!IsFile, CfServices
<1>5. ASSUME NEW sv PROVE LET c == [cf EXCEPT !.services = sv]
                          IN  /\ c.services = sv /\ c.networks = cf.networks /\ c.volumes = cf.volumes
                              /\ CfServices(sv) => Builder!IsFile(c)
  <2> DEFINE c == [cf EXCEPT !.services = sv]
  <2>1. c = [services |-> sv, networks |-> cf.networks, volumes |-> cf.volumes]
    BY <1>1
  <2> HIDE DEF c
  <2>2. c.services = sv /\ c.networks = cf.networks /\ c.volumes = cf.volumes
        /\ c = [services |-> c.services, networks |-> c.networks, volumes |-> c.volumes]
    BY <2>1
  <2>3. QED
    BY <1>3, <1>4, <2>2 DEF c
<1>6. ASSUME NEW m PROVE LET c == [cf EXCEPT !.networks = m]
                         IN  /\ c.services = cf.services /\ c.networks = m /\ c.volumes = cf.volumes
                             /\ m \in CfMaps(Builder!Networks, Builder!Settings) => Builder!IsFile(c)
  <2> DEFINE c == [cf EXCEPT !.networks = m]
  <2>1. c = [services |-> cf.services, networks |-> m, volumes |-> cf.volumes]
    BY <1>1
  <2> HIDE DEF c
  <2>2. c.services = cf.services /\ c.networks = m /\ c.volumes = cf.volumes
        /\ c = [services |-> c.services, networks |-> c.networks, volumes |-> c.volumes]
    BY <2>1
  <2>3. QED
    BY <1>2, <1>3, <1>4, <2>2 DEF c
<1>7. ASSUME NEW m PROVE LET c == [cf EXCEPT !.volumes = m]
                         IN  /\ c.services = cf.services /\ c.networks = cf.networks /\ c.volumes = m
                             /\ m \in CfMaps(Builder!Volumes, Builder!Settings) => Builder!IsFile(c)
  <2> DEFINE c == [cf EXCEPT !.volumes = m]
  <2>1. c = [services |-> cf.services, networks |-> cf.networks, volumes |-> m]
    BY <1>1
  <2> HIDE DEF c
  <2>2. c.services = cf.services /\ c.networks = cf.networks /\ c.volumes = m
        /\ c = [services |-> c.services, networks |-> c.networks, volumes |-> c.volumes]
    BY <2>1
  <2>3. QED
    BY <1>2, <1>3, <1>4, <2>2 DEF c
<1>8. QED
  BY <1>2, <1>5, <1>6, <1>7

\* The volumes that services mount are declared, and settings are kept.
LEMMA CfSynced ==
  ASSUME NEW cf, Builder!IsFile(cf)
  PROVE  LET c == Builder!syncTopLevelVolumes(cf)
         IN  /\ Builder!IsFile(c) /\ c.services = cf.services
             /\ Builder!getUsedVolumes(cf.services) \subseteq DOMAIN c.volumes
             /\ \A v \in DOMAIN cf.volumes :
                  cf.volumes[v] = "set" => v \in DOMAIN c.volumes /\ c.volumes[v] = "set"
<1> DEFINE used == Builder!getUsedVolumes(cf.services)
           kept == {v \in DOMAIN cf.volumes : v \in used \/ cf.volumes[v] = "set"}
           m == [v \in used \union kept |-> IF v \in DOMAIN cf.volumes THEN cf.volumes[v] ELSE "empty"]
           c == Builder!syncTopLevelVolumes(cf)
<1>1. c = [cf EXCEPT !.volumes = m]
  BY DEF Builder!syncTopLevelVolumes
<1>2. used \subseteq Builder!Volumes
  BY DEF Builder!getUsedVolumes, Builder!isNamedVolume, Builder!Sources, Builder!Volumes
<1>3. cf.volumes \in CfMaps(Builder!Volumes, Builder!Settings)
  BY CfTops
<1> HIDE DEF used
<1>4. kept \subseteq Builder!Volumes /\ \A v \in DOMAIN cf.volumes : cf.volumes[v] \in Builder!Settings
  BY <1>3, CfMap
<1>5. "empty" \in Builder!Settings
  BY DEF Builder!Settings
<1>6. m \in [used \union kept -> Builder!Settings] /\ used \union kept \in SUBSET Builder!Volumes
  BY <1>2, <1>4, <1>5
<1>7. m \in CfMaps(Builder!Volumes, Builder!Settings)
  BY <1>6 DEF CfMaps
<1>8. used \subseteq DOMAIN m /\ \A v \in DOMAIN cf.volumes : cf.volumes[v] = "set" => v \in DOMAIN m /\ m[v] = "set"
  OBVIOUS
<1> HIDE DEF m, c
<1>9. Builder!IsFile(c) /\ c.services = cf.services /\ c.volumes = m
  BY <1>1, <1>7, CfReplaced
<1>10. QED
  BY <1>8, <1>9 DEF c, used

LEMMA CfUpdated ==
  ASSUME NEW cf, Builder!IsFile(cf), NEW s \in DOMAIN cf.services, NEW svc, Builder!IsService(svc)
  PROVE  LET c == Builder!updateService(cf, s, svc)
         IN  /\ Builder!IsFile(c) /\ c.services = Builder!Put(cf.services, s, svc)
             /\ Builder!getUsedVolumes(c.services) \subseteq DOMAIN c.volumes
             /\ \A v \in DOMAIN cf.volumes :
                  cf.volumes[v] = "set" => v \in DOMAIN c.volumes /\ c.volumes[v] = "set"
<1> DEFINE b == [cf EXCEPT !.services = Builder!Put(cf.services, s, svc)]
<1>1. CfServices(cf.services)
  BY CfReplaced
<1>2. CfServices(Builder!Put(cf.services, s, svc))
  <2> DEFINE w == Builder!Put(cf.services, s, svc)
  <2>1. Builder!IsFunction(w) /\ DOMAIN w = DOMAIN cf.services \union {s}
        /\ \A j \in DOMAIN w : (j = s => w[j] = svc) /\ (j # s => w[j] = cf.services[j])
    BY DEF Builder!Put, Builder!IsFunction, w
  <2> HIDE DEF w
  <2>2. CfServices(w)
    BY <1>1, <2>1 DEF CfServices
  <2>3. QED
    BY <2>2 DEF w
<1>3. Builder!IsFile(b) /\ b.services = Builder!Put(cf.services, s, svc) /\ b.volumes = cf.volumes
  BY <1>2, CfReplaced
<1>4. Builder!updateService(cf, s, svc) = Builder!syncTopLevelVolumes(b)
  BY DEF Builder!updateService
<1> HIDE DEF b
<1>5. QED
  BY <1>3, <1>4, CfSynced

LEMMA CfRemoved ==
  ASSUME NEW cf, Builder!IsFile(cf), NEW s
  PROVE  LET c == Builder!removeService(cf, s)
         IN  Builder!IsFile(c) /\ c.services = Builder!Drop(cf.services, s) /\ c.volumes = cf.volumes
<1>1. CfServices(cf.services)
  BY CfReplaced
<1>2. CfServices(Builder!Drop(cf.services, s))
  <2> DEFINE w == Builder!Drop(cf.services, s)
  <2>1. Builder!IsFunction(w) /\ DOMAIN w = DOMAIN cf.services \ {s} /\ \A j \in DOMAIN w : w[j] = cf.services[j]
    BY CfDrop
  <2> HIDE DEF w
  <2>2. CfServices(w)
    BY <1>1, <2>1 DEF CfServices
  <2>3. QED
    BY <2>2 DEF w
<1>3. QED
  BY <1>2, CfReplaced DEF Builder!removeService

\* The first free name.
LEMMA CfFresh ==
  ASSUME NEW a, NEW b, a # b, NEW taken, ~(a \in taken /\ b \in taken)
  PROVE  Builder!Fresh(<<a, b>>, taken) \in {a, b} \ taken
<1> DEFINE names == <<a, b>>
           Is(i) == names[i] \notin taken /\ \A j \in 1 .. i - 1 : names[j] \in taken
<1>1. DOMAIN names = {1, 2} /\ names[1] = a /\ names[2] = b
  OBVIOUS
<1>2. \E i \in DOMAIN names : Is(i)
  <2>1. CASE a \notin taken
    <3>1. Is(1)
      BY <2>1
    <3>2. QED
      BY <1>1, <3>1
  <2>2. CASE a \in taken
    <3>1. \A j \in 1 .. 2 - 1 : j = 1
      OBVIOUS
    <3>2. Is(2)
      BY <1>1, <2>2, <3>1
    <3>3. QED
      BY <1>1, <3>2
  <2>3. QED
    BY <2>1, <2>2
<1>3. Builder!Fresh(names, taken) = names[CHOOSE i \in DOMAIN names : Is(i)]
  BY DEF Builder!Fresh
<1> DEFINE n == CHOOSE i \in DOMAIN names : Is(i)
<1>4. n \in DOMAIN names /\ names[n] \notin taken
  BY <1>2
<1> HIDE DEF n
<1>5. names[n] \in {a, b}
  BY <1>1, <1>4
<1>6. QED
  BY <1>3, <1>4, <1>5 DEF n

\* A service under a new name, and what waits for it.
CfFollow(svc, old, new) ==
  IF "depends_on" \notin DOMAIN svc THEN svc
  ELSE [svc EXCEPT !.depends_on =
         [i \in DOMAIN @ |-> IF @[i].service = old THEN [@[i] EXCEPT !.service = new] ELSE @[i]]]

\* The value of depends_on is a sequence of the services that are waited for.
LEMMA CfDepsModel == \A v : Builder!IsModel("depends_on", v) <=> v \in Seq(Builder!Dep)
BY CfKinds DEF Builder!IsModel, CfOthers, Builder!KVKeys, Builder!StrKeys, Builder!JoinKeys, Builder!FlagKeys,
   Builder!ArrKeys

LEMMA CfFollowed ==
  ASSUME NEW svc, Builder!IsService(svc), NEW old, NEW new \in Builder!ServiceIds
  PROVE  LET w == CfFollow(svc, old, new)
         IN  /\ Builder!IsService(w) /\ DOMAIN w = DOMAIN svc
             /\ "depends_on" \in DOMAIN svc =>
                  /\ DOMAIN w["depends_on"] = DOMAIN svc["depends_on"]
                  /\ \A i \in DOMAIN svc["depends_on"] :
                       w["depends_on"][i].service = IF svc["depends_on"][i].service = old THEN new
                                                    ELSE svc["depends_on"][i].service
<1> DEFINE w == CfFollow(svc, old, new)
<1>1. CASE "depends_on" \notin DOMAIN svc
  BY <1>1 DEF CfFollow
<1>2. CASE "depends_on" \in DOMAIN svc
  <2> DEFINE d == svc["depends_on"]
             e == [i \in DOMAIN d |-> IF d[i].service = old THEN [d[i] EXCEPT !.service = new] ELSE d[i]]
  <2>1. DOMAIN svc \subseteq Builder!EditedKeys /\ \A k \in DOMAIN svc : Builder!IsModel(k, svc[k])
    BY DEF Builder!IsService
  <2>2. d \in Seq(Builder!Dep)
    BY <1>2, <2>1, CfDepsModel
  <2>3. w = [svc EXCEPT !["depends_on"] = e]
    BY <1>2 DEF CfFollow
  <2> HIDE DEF d
  <2>4. \A i \in DOMAIN d : d[i] \in Builder!Dep
    BY <2>2, CfItems
  <2>5. \A i \in DOMAIN d : e[i] \in Builder!Dep /\ e[i].service = IF d[i].service = old THEN new ELSE d[i].service
    BY <2>4 DEF Builder!Dep
  <2>6. e = [i \in DOMAIN d |-> e[i]] /\ DOMAIN e = DOMAIN d
    OBVIOUS
  <2> HIDE DEF e
  <2>7. e \in Seq(Builder!Dep)
    BY <2>2, <2>5, <2>6, CfMapped
  <2>8. Builder!IsFunction(svc)
    BY DEF Builder!IsService
  <2>9. w = [k \in DOMAIN svc |-> IF k = "depends_on" THEN e ELSE svc[k]]
    BY <2>3, <2>8 DEF Builder!IsFunction
  <2> HIDE DEF w
  <2>10. DOMAIN w = DOMAIN svc /\ w["depends_on"] = e /\ Builder!IsFunction(w)
    BY <1>2, <2>9 DEF Builder!IsFunction
  <2>11. \A k \in DOMAIN w : Builder!IsModel(k, w[k])
    BY <2>1, <2>7, <2>9, CfDepsModel
  <2>12. Builder!IsService(w)
    BY <2>1, <2>10, <2>11 DEF Builder!IsService
  <2>13. QED
    BY <2>5, <2>6, <2>10, <2>12 DEF d, w
<1>3. QED
  BY <1>1, <1>2

LEMMA CfNamed ==
  ASSUME NEW cf, Builder!IsFile(cf), NEW old \in DOMAIN cf.services, NEW new \in Names \ DOMAIN cf.services
  PROVE  LET c == Builder!renameService(cf, old, new)
         IN  /\ Builder!IsFile(c) /\ c.volumes = cf.volumes
             /\ DOMAIN c.services = (DOMAIN cf.services \ {old}) \union {new}
             /\ \A s \in DOMAIN c.services :
                  c.services[s] = CfFollow(cf.services[IF s = new THEN old ELSE s], old, new)
<1> DEFINE m == [s \in (DOMAIN cf.services \ {old}) \union {new} |->
                   CfFollow(cf.services[IF s = new THEN old ELSE s], old, new)]
<1>1. Builder!renameService(cf, old, new) = [cf EXCEPT !.services = m]
  BY DEF Builder!renameService, CfFollow, Builder!MapSeq
<1>2. CfServices(cf.services) /\ new \in Builder!ServiceIds
  BY CfReplaced DEF Builder!ServiceIds
<1>3. \A s \in DOMAIN m : s \in Builder!ServiceIds /\ Builder!IsService(cf.services[IF s = new THEN old ELSE s])
  BY <1>2 DEF CfServices
<1>4. DOMAIN m = (DOMAIN cf.services \ {old}) \union {new} /\ Builder!IsFunction(m)
      /\ \A s \in DOMAIN m : m[s] = CfFollow(cf.services[IF s = new THEN old ELSE s], old, new)
  BY DEF Builder!IsFunction
<1> HIDE DEF m
<1>5. \A s \in DOMAIN m : Builder!IsService(m[s])
  BY <1>2, <1>3, <1>4, CfFollowed
<1>6. CfServices(m)
  BY <1>3, <1>4, <1>5 DEF CfServices
<1>7. QED
  BY <1>1, <1>4, <1>6, CfReplaced

\* A service of its own.
CfNewService == [k \in {"restart"} |-> "unless-stopped"]
LEMMA CfAdded ==
  ASSUME NEW cf, Builder!IsFile(cf), \E i \in DOMAIN Builder!ServiceNames :
         Builder!ServiceNames[i] \notin DOMAIN cf.services
  PROVE  \E n \in Builder!ServiceIds \ DOMAIN cf.services :
           LET c == Builder!addService(cf)
           IN  Builder!IsFile(c) /\ c.services = Builder!Put(cf.services, n, CfNewService) /\ c.volumes = cf.volumes
<1> DEFINE n == Builder!Fresh(Builder!ServiceNames, DOMAIN cf.services)
<1>1. ~("service" \in DOMAIN cf.services /\ "service2" \in DOMAIN cf.services)
  BY DEF Builder!ServiceNames
<1>2. n \in {"service", "service2"} \ DOMAIN cf.services
  BY <1>1, CfFresh DEF Builder!ServiceNames
<1>3. Builder!addService(cf) = [cf EXCEPT !.services = Builder!Put(cf.services, n, CfNewService)]
  BY DEF Builder!addService, CfNewService
<1> HIDE DEF n
<1>4. Builder!IsService(CfNewService)
  <2>1. DOMAIN CfNewService = {"restart"} /\ CfNewService["restart"] = "unless-stopped"
          /\ Builder!IsFunction(CfNewService)
    BY DEF CfNewService, Builder!IsFunction
  <2>2. Builder!IsModel("restart", "unless-stopped")
    BY DEF Builder!IsModel, Builder!StrKeys, Builder!JoinKeys, Builder!FlagKeys, Builder!ArrKeys, Builder!Words
  <2>3. QED
    BY <2>1, <2>2 DEF Builder!IsService, Builder!EditedKeys
<1>5. CfServices(cf.services) /\ n \in Builder!ServiceIds
  BY <1>2, CfReplaced DEF Builder!ServiceIds
<1>6. CfServices(Builder!Put(cf.services, n, CfNewService))
  <2> DEFINE w == Builder!Put(cf.services, n, CfNewService)
  <2>1. Builder!IsFunction(w) /\ DOMAIN w = DOMAIN cf.services \union {n}
        /\ \A j \in DOMAIN w : (j = n => w[j] = CfNewService) /\ (j # n => w[j] = cf.services[j])
    BY DEF Builder!Put, Builder!IsFunction, w
  <2> HIDE DEF w
  <2>2. CfServices(w)
    BY <1>4, <1>5, <2>1 DEF CfServices
  <2>3. QED
    BY <2>2 DEF w
<1>7. QED
  BY <1>2, <1>3, <1>5, <1>6, CfReplaced

\* The panels of networks and volumes.
LEMMA CfPanel ==
  ASSUME NEW T, NEW m \in CfMaps(T, Builder!Settings), NEW a \in T, NEW b \in T, a # b, NEW typed \in SUBSET T,
         NEW v \in Builder!PanelEdits(m, <<a, b>>, typed)
  PROVE  v \in CfMaps(T, Builder!Settings)
<1> DEFINE taken == {n \in DOMAIN m : m[n] # "null"}
           Free == \E i \in DOMAIN <<a, b>> : <<a, b>>[i] \notin taken
           A == {Builder!Put(m, n, c) : n \in DOMAIN m, c \in {"empty", "set"}}
           B == UNION {Builder!Renamed(m, o, n) : o \in DOMAIN m, n \in typed \ taken}
           C == {Builder!Drop(m, n) : n \in DOMAIN m}
           D == IF Free THEN {Builder!Put(m, Builder!Fresh(<<a, b>>, taken), "empty")} ELSE {}
<1>1. Builder!PanelEdits(m, <<a, b>>, typed) = A \union B \union C \union D
  BY DEF Builder!PanelEdits
<1>2. "empty" \in Builder!Settings /\ "set" \in Builder!Settings
  BY DEF Builder!Settings
<1>3. DOMAIN m \subseteq T
  BY CfMap
<1>4. ASSUME v \in A PROVE v \in CfMaps(T, Builder!Settings)
  <2>1. PICK n \in DOMAIN m, c \in {"empty", "set"} : v = Builder!Put(m, n, c)
    BY <1>4
  <2>2. QED
    BY <1>2, <1>3, <2>1, CfMap
<1>5. ASSUME v \in B PROVE v \in CfMaps(T, Builder!Settings)
  <2>1. PICK o \in DOMAIN m, n \in typed \ taken : v \in Builder!Renamed(m, o, n)
    BY <1>5
  <2>2. QED
    BY <2>1, CfRenamed
<1>6. ASSUME v \in C PROVE v \in CfMaps(T, Builder!Settings)
  <2>1. PICK n \in DOMAIN m : v = Builder!Drop(m, n)
    BY <1>6
  <2>2. QED
    BY <2>1, CfMap
<1>7. ASSUME v \in D PROVE v \in CfMaps(T, Builder!Settings)
  <2>1. ~(a \in taken /\ b \in taken) /\ v = Builder!Put(m, Builder!Fresh(<<a, b>>, taken), "empty")
    BY <1>7
  <2> HIDE DEF taken
  <2>2. Builder!Fresh(<<a, b>>, taken) \in T
    BY <2>1, CfFresh
  <2>3. QED
    BY <1>2, <2>1, <2>2, CfMap
<1> HIDE DEF A, B, C, D
<1>8. QED
  BY <1>1, <1>4, <1>5, <1>6, <1>7

LEMMA CfPanels ==
  ASSUME NEW cf, Builder!IsFile(cf), NEW c, c \in Builder!NetworksPanel(cf) \/ c \in Builder!VolumesPanel(cf)
  PROVE  Builder!IsFile(c) /\ c.services = cf.services
<1>1. CASE c \in Builder!NetworksPanel(cf)
  <2>1. PICK m \in Builder!PanelEdits(cf.networks, <<"network", "network2">>, {"front"}) : c =
               [cf EXCEPT !.networks = m]
    BY <1>1 DEF Builder!NetworksPanel, Builder!NetworkNames
  <2>2. {"front"} \in SUBSET Builder!Networks /\ "network" \in Builder!Networks /\ "network2" \in Builder!Networks
    BY DEF Builder!Networks
  <2>3. m \in CfMaps(Builder!Networks, Builder!Settings)
    BY <2>1, <2>2, CfTops, CfPanel
  <2>4. QED
    BY <2>1, <2>3, CfReplaced
<1>2. CASE c \in Builder!VolumesPanel(cf)
  <2>1. PICK m \in Builder!PanelEdits(cf.volumes, <<"volume", "volume2">>, {"data"}) : c = [cf EXCEPT !.volumes = m]
    BY <1>2 DEF Builder!VolumesPanel, Builder!VolumeNames
  <2>2. {"data"} \in SUBSET Builder!Volumes /\ "volume" \in Builder!Volumes /\ "volume2" \in Builder!Volumes
    BY DEF Builder!Volumes
  <2>3. m \in CfMaps(Builder!Volumes, Builder!Settings)
    BY <2>1, <2>2, CfTops, CfPanel
  <2>4. QED
    BY <2>1, <2>3, CfReplaced
<1>3. QED
  BY <1>1, <1>2

-----------------------------------------------------------------------------
(***************************************************************************)
(* What is typed in the YAML editor.                                       *)
(***************************************************************************)
\* What is typed for a key is of one of its forms.
LEMMA CfOne == \A S : \A c \in S : <<c>> \in Seq(S) /\ DOMAIN <<c>> = {1} /\ <<c>>[1] = c
OBVIOUS

LEMMA CfSamples ==
  ASSUME NEW k \in Builder!EditedKeys, NEW r \in Builder!Samples(k)
  PROVE  Builder!IsRaw(k, r)
<1>1. CASE k = "restart"
  <2>1. Builder!Samples(k) = {Builder!Raw("string", "no"), Builder!Raw("string", "always")}
    BY <1>1, CfKinds DEF CfOthers, Builder!KVKeys, Builder!Samples
  <2>2. \A x : Builder!IsRaw(k, x) <=> x \in [form : {"string", "number"}, val : Builder!Words]
    BY <1>1, CfKinds DEF CfOthers, Builder!KVKeys, Builder!IsRaw
  <2>3. QED
    BY <2>1, <2>2 DEF Builder!Raw, Builder!Words
<1>2. CASE k \in Builder!StrKeys \ {"restart"}
  <2>1. Builder!Samples(k) = {Builder!Raw("string", "x"), Builder!Raw("number", "x")}
    BY <1>2, CfKinds DEF CfOthers, Builder!KVKeys, Builder!Samples
  <2>2. \A x : Builder!IsRaw(k, x) <=> x \in [form : {"string", "number"}, val : Builder!Words]
    BY <1>2, CfKinds DEF CfOthers, Builder!KVKeys, Builder!IsRaw
  <2>3. QED
    BY <2>1, <2>2 DEF Builder!Raw, Builder!Words
<1>3. CASE k \in Builder!JoinKeys
  <2>1. Builder!Samples(k) = {Builder!Raw("string", "x"), Builder!Raw("list", "x"), Builder!Raw("list", "spaced")}
    BY <1>3, CfKinds DEF CfOthers, Builder!KVKeys, Builder!Samples
  <2>2. \A x : Builder!IsRaw(k, x) <=> x \in [form : {"string", "list"}, val : Builder!Words]
    BY <1>3, CfKinds DEF CfOthers, Builder!KVKeys, Builder!IsRaw
  <2>3. QED
    BY <2>1, <2>2 DEF Builder!Raw, Builder!Words
<1>4. CASE k \in Builder!FlagKeys
  <2>1. Builder!Samples(k) = {Builder!Raw("true", TRUE), Builder!Raw("other", FALSE)}
    BY <1>4, CfKinds DEF CfOthers, Builder!KVKeys, Builder!Samples
  <2>2. \A x : Builder!IsRaw(k, x) <=> x \in {Builder!Raw("true", TRUE), Builder!Raw("other", FALSE)}
    BY <1>4, CfKinds DEF CfOthers, Builder!KVKeys, Builder!IsRaw
  <2>3. QED
    BY <2>1, <2>2
<1>5. CASE k = "scale"
  <2>1. Builder!Samples(k) = {Builder!Raw("number", 2), Builder!Raw("string", 2)}
    BY <1>5, CfKinds DEF CfOthers, Builder!KVKeys, Builder!Samples, Builder!StrKeys, Builder!JoinKeys,
       Builder!FlagKeys, Builder!ArrKeys
  <2>2. \A x : Builder!IsRaw(k, x) <=> x \in [form : {"number", "string"}, val : Int]
    BY <1>5, CfKinds DEF CfOthers, Builder!KVKeys, Builder!IsRaw, Builder!StrKeys, Builder!JoinKeys, Builder!FlagKeys,
       Builder!ArrKeys
  <2>3. QED
    BY <2>1, <2>2 DEF Builder!Raw
<1>6. CASE k \in Builder!ArrKeys
  <2>1. Builder!Samples(k) = {Builder!Raw("list", <<"x">>), Builder!Raw("string", <<"x">>)}
    BY <1>6, CfKinds DEF CfOthers, Builder!KVKeys, Builder!Samples
  <2>2. \A x : Builder!IsRaw(k, x) <=> x \in [form : {"list", "string"}, val : Seq(Builder!Items) \ {<<>>}]
    BY <1>6, CfKinds DEF CfOthers, Builder!KVKeys, Builder!IsRaw
  <2>3. <<"x">> \in Seq(Builder!Items) \ {<<>>}
    BY DEF Builder!Items
  <2>4. QED
    BY <2>1, <2>2, <2>3 DEF Builder!Raw
<1>7. CASE k = "ports"
  <2>1. Builder!Samples(k) = Builder!PortSamples
    BY <1>7, CfKinds DEF CfOthers, Builder!KVKeys, Builder!Samples, Builder!StrKeys, Builder!JoinKeys,
       Builder!FlagKeys, Builder!ArrKeys, CfRawPorts, CfRawPort
  <2>2. \A x : Builder!IsRaw(k, x) <=> CfRawPorts(x)
    BY <1>7, CfKinds DEF CfOthers, Builder!KVKeys, Builder!IsRaw, Builder!StrKeys, Builder!JoinKeys, Builder!FlagKeys,
       Builder!ArrKeys, CfRawPorts, CfRawPort
  <2>3. PICK p \in [form : {"short", "long", "long+"},
               val : {Builder!SamplePort(ip) : ip \in {"", "127.0.0.1", "[::1]"}}] :
          r = Builder!Raw("list", <<p>>)
    BY <2>1 DEF Builder!PortSamples
  <2>4. p \in CfRawPort /\ p.val.container # ""
    <3>1. \A ip \in {"", "127.0.0.1", "[::1]"} : Builder!SamplePort(ip) \in Builder!Port
            /\ Builder!SamplePort(ip).container # ""
      BY DEF Builder!SamplePort, Builder!Port
    <3>2. p.val \in Builder!Port /\ p.val.container # "" /\ p = [form |-> p.form, val |-> p.val]
          /\ p.form \in {"short", "long", "long+"}
      BY <3>1
    <3>3. QED
      BY <3>2 DEF CfRawPort
  <2>5. <<p>> \in Seq(CfRawPort) /\ DOMAIN <<p>> = {1} /\ <<p>>[1] = p
    BY <2>4, CfOne
  <2>6. r = [form |-> "list", val |-> <<p>>]
    BY <2>3 DEF Builder!Raw
  <2>7. r \in [form : {"list"}, val : Seq(CfRawPort)] /\ r.val = <<p>>
    BY <2>5, <2>6
  <2>8. CfRawPorts(r)
    BY <2>4, <2>5, <2>7 DEF CfRawPorts
  <2>9. QED
    BY <2>2, <2>8
<1>8. CASE k = "environment"
  <2>1. Builder!Samples(k) = Builder!VariableSamples
    BY <1>8, CfKinds DEF CfOthers, Builder!KVKeys, Builder!Samples, Builder!StrKeys, Builder!JoinKeys,
       Builder!FlagKeys, Builder!ArrKeys
  <2>2. \A x : Builder!IsRaw(k, x) <=> \E S \in SUBSET Builder!Variables :
          x \in [form : {"map", "list"}, val : [S -> Builder!Values]]
    BY <1>8, CfKinds DEF CfOthers, Builder!KVKeys, Builder!IsRaw, Builder!StrKeys, Builder!JoinKeys, Builder!FlagKeys,
       Builder!ArrKeys
  <2>3. PICK f \in {"map", "list"}, v \in {"v", Builder!Unset} : r = Builder!Raw(f, [n \in {"K"} |-> v])
    BY <2>1 DEF Builder!VariableSamples, Builder!One
  <2>4. {"K"} \in SUBSET Builder!Variables /\ v \in Builder!Values
    BY DEF Builder!Variables, Builder!Values
  <2>5. r \in [form : {"map", "list"}, val : [{"K"} -> Builder!Values]]
    BY <2>3, <2>4 DEF Builder!Raw
  <2>6. QED
    BY <2>2, <2>4, <2>5
<1>9. CASE k \in {"labels", "sysctls"}
  <2>1. Builder!Samples(k) = Builder!LabelSamples
    BY <1>9, CfKinds DEF CfOthers, Builder!KVKeys, Builder!Samples, Builder!StrKeys, Builder!JoinKeys,
       Builder!FlagKeys, Builder!ArrKeys
  <2>2. \A x : Builder!IsRaw(k, x) <=> \E S \in SUBSET Builder!Variables :
          x \in [form : {"map", "list"}, val : [S -> Builder!Values]]
    BY <1>9, CfKinds DEF CfOthers, Builder!KVKeys, Builder!IsRaw, Builder!StrKeys, Builder!JoinKeys, Builder!FlagKeys,
       Builder!ArrKeys
  <2>3. PICK f \in {"map", "list"} : r = Builder!Raw(f, [n \in {"K"} |-> "v"])
    BY <2>1 DEF Builder!LabelSamples, Builder!One
  <2>4. {"K"} \in SUBSET Builder!Variables /\ "v" \in Builder!Values
    BY DEF Builder!Variables, Builder!Values
  <2>5. r \in [form : {"map", "list"}, val : [{"K"} -> Builder!Values]]
    BY <2>3, <2>4 DEF Builder!Raw
  <2>6. QED
    BY <2>2, <2>4, <2>5
<1>10. CASE k = "volumes"
  <2>1. Builder!Samples(k) = Builder!VolumeSamples
    BY <1>10, CfKinds DEF CfOthers, Builder!KVKeys, Builder!Samples, Builder!StrKeys, Builder!JoinKeys,
       Builder!FlagKeys, Builder!ArrKeys, CfRawVolumes, CfRawMount
  <2>2. \A x : Builder!IsRaw(k, x) <=> CfRawVolumes(x)
    BY <1>10, CfKinds DEF CfOthers, Builder!KVKeys, Builder!IsRaw, Builder!StrKeys, Builder!JoinKeys, Builder!FlagKeys,
       Builder!ArrKeys, CfRawVolumes, CfRawMount
  <2>3. PICK f \in {"short", "short+", "long"}, ro \in BOOLEAN :
          r = Builder!Raw("list", <<Builder!Raw(f, Builder!SampleMount(ro))>>)
    BY <2>1 DEF Builder!VolumeSamples
  <2> DEFINE p == Builder!Raw(f, Builder!SampleMount(ro))
  <2>4. p \in CfRawMount /\ p.val.source = "data"
    BY DEF CfRawMount, Builder!Raw, Builder!SampleMount, Builder!Mount
  <2> HIDE DEF p
  <2>5. <<p>> \in Seq(CfRawMount) /\ DOMAIN <<p>> = {1} /\ <<p>>[1] = p
    BY <2>4
  <2>6. r = [form |-> "list", val |-> <<p>>]
    BY <2>3 DEF Builder!Raw, p
  <2>7. r \in [form : {"list"}, val : Seq(CfRawMount)] /\ r.val = <<p>>
    BY <2>5, <2>6
  <2>8. CfRawVolumes(r)
    BY <2>4, <2>5, <2>7 DEF CfRawVolumes
  <2>9. QED
    BY <2>2, <2>8
<1>11. CASE k = "networks"
  <2>1. Builder!Samples(k) = Builder!NetworkSamples
    BY <1>11, CfKinds DEF CfOthers, Builder!KVKeys, Builder!Samples, Builder!StrKeys, Builder!JoinKeys,
       Builder!FlagKeys, Builder!ArrKeys
  <2>2. \A x : Builder!IsRaw(k, x) <=> \E S \in SUBSET Builder!Networks :
                              x \in [form : {"list"}, val : [S -> {"empty"}]]
                                \/ x \in [form : {"map"}, val : [S -> Builder!Settings]]
    BY <1>11, CfKinds DEF CfOthers, Builder!KVKeys, Builder!IsRaw, Builder!StrKeys, Builder!JoinKeys, Builder!FlagKeys,
       Builder!ArrKeys
  <2>3. {"front"} \in SUBSET Builder!Networks
    BY DEF Builder!Networks
  <2>4. \/ r = Builder!Raw("list", [n \in {"front"} |-> "empty"])
        \/ \E c \in {"null", "empty", "set"} : r = Builder!Raw("map", [n \in {"front"} |-> c])
    BY <2>1 DEF Builder!NetworkSamples, Builder!One
  <2>5. \/ r \in [form : {"list"}, val : [{"front"} -> {"empty"}]]
        \/ r \in [form : {"map"}, val : [{"front"} -> Builder!Settings]]
    BY <2>4 DEF Builder!Raw, Builder!Settings
  <2>6. QED
    BY <2>2, <2>3, <2>5
<1>12. CASE k = "depends_on"
  <2>1. Builder!Samples(k) = Builder!DependsSamples
    BY <1>12, CfKinds DEF CfOthers, Builder!KVKeys, Builder!Samples, Builder!StrKeys, Builder!JoinKeys,
       Builder!FlagKeys, Builder!ArrKeys, CfRawDeps, CfStarted
  <2>2. \A x : Builder!IsRaw(k, x) <=> CfRawDeps(x)
    BY <1>12, CfKinds DEF CfOthers, Builder!KVKeys, Builder!IsRaw, Builder!StrKeys, Builder!JoinKeys, Builder!FlagKeys,
       Builder!ArrKeys, CfRawDeps, CfStarted
  <2>3. \/ \E d \in Builder!SampleDeps("service_started") : r = Builder!Raw("list", d)
        \/ \E f \in {"map", "map+"}, d \in Builder!SampleDeps("service_healthy") : r = Builder!Raw(f, d)
    BY <2>1 DEF Builder!DependsSamples
  <2>4. PICK c \in Builder!Conditions, s \in Names, f \in {"list", "map", "map+"} :
          r = Builder!Raw(f, <<[service |-> s, condition |-> c]>>) /\ (f = "list" => c = "service_started")
    BY <2>3 DEF Builder!SampleDeps, Builder!Conditions
  <2> DEFINE p == [service |-> s, condition |-> c]
  <2>5. p \in Builder!Dep /\ p.condition = c
    BY DEF Builder!Dep, Builder!ServiceIds
  <2> HIDE DEF p
  <2>6. <<p>> \in Seq(Builder!Dep) /\ DOMAIN <<p>> = {1} /\ <<p>>[1] = p
    BY <2>5
  <2>7. r = [form |-> f, val |-> <<p>>]
    BY <2>4 DEF Builder!Raw, p
  <2>8. Builder!Once(<<p>>)
    BY <2>6 DEF Builder!Once
  <2>9. f = "list" => CfStarted(<<p>>)
    BY <2>4, <2>5, <2>6 DEF CfStarted
  <2>10. CfRawDeps(r)
    BY <2>6, <2>7, <2>8, <2>9 DEF CfRawDeps
  <2>11. QED
    BY <2>2, <2>10
<1>13. CASE k = "healthcheck"
  <2>1. Builder!Samples(k) = Builder!HealthSamples
    BY <1>13, CfKinds DEF CfOthers, Builder!KVKeys, Builder!Samples, Builder!StrKeys, Builder!JoinKeys,
       Builder!FlagKeys, Builder!ArrKeys
  <2>2. \A x : Builder!IsRaw(k, x) <=> x \in [form : {"string", "CMD", "NONE"}, val : Builder!Check]
    BY <1>13, CfKinds DEF CfOthers, Builder!KVKeys, Builder!IsRaw, Builder!StrKeys, Builder!JoinKeys, Builder!FlagKeys,
       Builder!ArrKeys
  <2>3. PICK f \in {"string", "CMD", "NONE"}, d \in BOOLEAN : r =
               Builder!Raw(f, [test |-> "x", opts |-> "x", disable |-> d])
    BY <2>1 DEF Builder!HealthSamples, Builder!SampleCheck
  <2>4. [test |-> "x", opts |-> "x", disable |-> d] \in Builder!Check
    BY DEF Builder!Check, Builder!Texts
  <2>5. QED
    BY <2>2, <2>3, <2>4 DEF Builder!Raw
<1>14. CASE k = "deploy"
  <2>1. Builder!Samples(k) = {Builder!Raw("plain", "x"), Builder!Raw("plain+", "x"), Builder!Raw("plain+", "")}
    BY <1>14, CfKinds DEF CfOthers, Builder!KVKeys, Builder!Samples, Builder!StrKeys, Builder!JoinKeys,
       Builder!FlagKeys, Builder!ArrKeys
  <2>2. \A x : Builder!IsRaw(k, x) <=> x \in [form : {"plain", "plain+"}, val : Builder!Texts]
          /\ (x.form = "plain" => x.val # "")
    BY <1>14, CfKinds DEF CfOthers, Builder!KVKeys, Builder!IsRaw, Builder!StrKeys, Builder!JoinKeys, Builder!FlagKeys,
       Builder!ArrKeys
  <2>3. QED
    BY <2>1, <2>2 DEF Builder!Raw, Builder!Texts
<1>15. CASE k = "logging"
  <2>1. Builder!Samples(k) = Builder!LoggingSamples
    BY <1>15, CfKinds DEF CfOthers, Builder!KVKeys, Builder!Samples, Builder!StrKeys, Builder!JoinKeys,
       Builder!FlagKeys, Builder!ArrKeys
  <2>2. \A x : Builder!IsRaw(k, x) <=> x \in [form : {"plain"}, val : Builder!Logging]
    BY <1>15, CfKinds DEF CfOthers, Builder!KVKeys, Builder!IsRaw, Builder!StrKeys, Builder!JoinKeys, Builder!FlagKeys,
       Builder!ArrKeys
  <2>3. PICK d \in {"", "x"} : r = Builder!Raw("plain", [driver |-> d, options |-> "x"])
    BY <2>1 DEF Builder!LoggingSamples
  <2>4. [driver |-> d, options |-> "x"] \in Builder!Logging
    BY DEF Builder!Logging, Builder!Texts
  <2>5. QED
    BY <2>2, <2>3, <2>4 DEF Builder!Raw
<1>16. CASE k = "build"
  <2>1. Builder!Samples(k) = Builder!BuildSamples
    BY <1>16, CfKinds DEF CfOthers, Builder!KVKeys, Builder!Samples, Builder!StrKeys, Builder!JoinKeys,
       Builder!FlagKeys, Builder!ArrKeys, CfRawBuild
  <2>2. \A x : Builder!IsRaw(k, x) <=> CfRawBuild(x)
    BY <1>16, CfKinds DEF CfOthers, Builder!KVKeys, Builder!IsRaw, Builder!StrKeys, Builder!JoinKeys, Builder!FlagKeys,
       Builder!ArrKeys, CfRawBuild
  <2>3. \/ r = Builder!Raw("short", [context |-> ".", rest |-> ""])
        \/ r \in [form : {"long", "long+"}, val : [context : {"."}, rest : {"empty", "x"}]]
    BY <2>1 DEF Builder!BuildSamples
  <2>4. ASSUME r = Builder!Raw("short", [context |-> ".", rest |-> ""]) PROVE CfRawBuild(r)
    BY <2>4 DEF CfRawBuild, Builder!Raw, Builder!Context
  <2>5. ASSUME r \in [form : {"long", "long+"}, val : [context : {"."}, rest : {"empty", "x"}]] PROVE CfRawBuild(r)
    <3>1. r.form \in {"long", "long+"} /\ r.val \in [context : {"."}, rest : {"empty", "x"}]
          /\ r = [form |-> r.form, val |-> r.val]
      BY <2>5
    <3>2. r.val \in Builder!Context
      BY <3>1 DEF Builder!Context
    <3>3. QED
      BY <3>1, <3>2 DEF CfRawBuild
  <2>6. CfRawBuild(r)
    BY <2>3, <2>4, <2>5
  <2>7. QED
    BY <2>2, <2>6
<1>17. CASE k = "ulimits"
  <2>1. Builder!Samples(k) = {Builder!Raw("number", [soft |-> 1, hard |-> 1]),
          Builder!Raw("pair", [soft |-> 1, hard |-> 2])}
    BY <1>17, CfKinds DEF CfOthers, Builder!KVKeys, Builder!Samples, Builder!StrKeys, Builder!JoinKeys,
       Builder!FlagKeys, Builder!ArrKeys
  <2>2. \A x : Builder!IsRaw(k, x) <=> x \in [form : {"number", "pair"}, val : Builder!Limits]
    BY <1>17, CfKinds DEF CfOthers, Builder!KVKeys, Builder!IsRaw, Builder!StrKeys, Builder!JoinKeys, Builder!FlagKeys,
       Builder!ArrKeys
  <2>3. QED
    BY <2>1, <2>2 DEF Builder!Raw, Builder!Limits
<1>18. CASE k \notin Builder!StrKeys \union Builder!JoinKeys \union Builder!FlagKeys \union Builder!ArrKeys
              \union Builder!KVKeys \union CfOthers
  <2>1. Builder!Samples(k) = {Builder!Raw("string", "x")}
    BY <1>18, CfKinds DEF CfOthers, Builder!KVKeys, Builder!Samples
  <2>2. Builder!IsRaw(k, r) <=> r = Builder!Raw("string", "x")
    BY <1>18 DEF CfOthers, Builder!KVKeys, Builder!IsRaw
  <2>3. QED
    BY <2>1, <2>2
<1>19. QED
  BY <1>1, <1>2, <1>3, <1>4, <1>5, <1>6, <1>7, <1>8, <1>9, <1>10, <1>11, <1>12, <1>13, <1>14, <1>15, <1>16, <1>17,
     <1>18 DEF CfOthers, Builder!KVKeys

\* A service as it is typed.
CfTyped(svc) == svc = Builder!Null \/ Builder!IsBody(svc)
LEMMA CfTypedService ==
  ASSUME NEW svc, CfTyped(svc), NEW w \in Builder!TypedService(svc)
  PROVE  CfTyped(w)
<1>1. Builder!IsBody(Builder!EmptyMap)
  BY CfEmpty DEF Builder!IsBody
<1>2. \/ w = Builder!Null \/ w = Builder!EmptyMap
      \/ svc # Builder!Null /\ \E k \in Keys : \E r \in Builder!Samples(k) : w = Builder!Put(svc, k, r)
      \/ svc # Builder!Null /\ \E k \in DOMAIN svc : w = Builder!Drop(svc, k)
  BY DEF Builder!TypedService
<1>3. ASSUME svc # Builder!Null, NEW k \in Keys, NEW r \in Builder!Samples(k), w = Builder!Put(svc, k, r)
             PROVE Builder!IsBody(w)
  <2>1. k \in Builder!EditedKeys /\ Builder!IsRaw(k, r)
    BY CfSamples DEF Builder!EditedKeys
  <2>2. DOMAIN svc \subseteq Builder!EditedKeys /\ \A j \in DOMAIN svc : Builder!IsRaw(j, svc[j])
    BY <1>3 DEF CfTyped, Builder!IsBody
  <2>3. Builder!IsFunction(w) /\ DOMAIN w = DOMAIN svc \union {k}
        /\ \A j \in DOMAIN w : (j = k => w[j] = r) /\ (j # k => w[j] = svc[j])
    BY <1>3 DEF Builder!Put, Builder!IsFunction
  <2>4. QED
    BY <2>1, <2>2, <2>3 DEF Builder!IsBody
<1>4. ASSUME svc # Builder!Null, NEW k \in DOMAIN svc, w = Builder!Drop(svc, k) PROVE Builder!IsBody(w)
  <2>1. DOMAIN svc \subseteq Builder!EditedKeys /\ \A j \in DOMAIN svc : Builder!IsRaw(j, svc[j])
    BY <1>4 DEF CfTyped, Builder!IsBody
  <2>2. Builder!IsFunction(w) /\ DOMAIN w = DOMAIN svc \ {k} /\ \A j \in DOMAIN w : w[j] = svc[j]
    BY <1>4, CfDrop
  <2>3. QED
    BY <2>1, <2>2 DEF Builder!IsBody
<1>5. QED
  BY <1>1, <1>2, <1>3, <1>4 DEF CfTyped

\* A text with other services, networks, volumes, or one more key.
CfBodies(sv) == /\ Builder!IsFunction(sv) /\ DOMAIN sv \subseteq Builder!ServiceIds
                /\ \A s \in DOMAIN sv : CfTyped(sv[s])

LEMMA CfTextOf ==
  ASSUME NEW sv, CfBodies(sv), NEW nets \in CfMaps(Builder!Networks, Builder!Settings),
         NEW vols \in CfMaps(Builder!Volumes, Builder!Settings),
         NEW rest \in BOOLEAN
  PROVE  Builder!IsText([services |-> sv, networks |-> nets, volumes |-> vols, rest |-> rest])
<1> DEFINE t == [services |-> sv, networks |-> nets, volumes |-> vols, rest |-> rest]
<1>1. t = [services |-> t.services, networks |-> t.networks, volumes |-> t.volumes, rest |-> t.rest]
      /\ t.services = sv /\ t.networks = nets /\ t.volumes = vols /\ t.rest = rest
  OBVIOUS
<1> HIDE DEF t
<1>2. Builder!IsText(t)
  BY <1>1, CfMapsOf DEF Builder!IsText, CfBodies, CfTyped
<1>3. QED
  BY <1>2 DEF t

LEMMA CfTypedText ==
  ASSUME Builder!IsText(composeContent), Builder!TypedEntry
  PROVE  Builder!IsText(composeContent')
<1> DEFINE t == composeContent
           sv == t.services
<1>1. t = [services |-> t.services, networks |-> t.networks, volumes |-> t.volumes, rest |-> t.rest]
  BY DEF Builder!IsText
<1>2. /\ CfBodies(sv)
      /\ t.networks \in CfMaps(Builder!Networks, Builder!Settings)
           /\ t.volumes \in CfMaps(Builder!Volumes, Builder!Settings)
      /\ t.rest \in BOOLEAN
  BY CfMapsOf DEF Builder!IsText, CfBodies, CfTyped
<1>3. "front" \in Builder!Networks /\ "data" \in Builder!Volumes
        /\ \A c \in {"null", "empty", "set"} : c \in Builder!Settings
  BY DEF Builder!Networks, Builder!Volumes, Builder!Settings
<1>4. ASSUME NEW s \in Names, NEW svc \in Builder!TypedService(Builder!Get(sv, s, Builder!EmptyMap)),
             t' = [t EXCEPT !.services = Builder!Put(@, s, svc)]
      PROVE  Builder!IsText(t')
  <2>1. CfTyped(Builder!Get(sv, s, Builder!EmptyMap))
    <3>1. Builder!IsBody(Builder!EmptyMap)
      BY CfEmpty DEF Builder!IsBody
    <3>2. QED
      BY <1>2, <3>1 DEF Builder!Get, CfBodies, CfTyped
  <2>2. CfTyped(svc)
    BY <2>1, CfTypedService
  <2> DEFINE w == Builder!Put(sv, s, svc)
  <2>3. Builder!IsFunction(w) /\ DOMAIN w = DOMAIN sv \union {s}
        /\ \A j \in DOMAIN w : (j = s => w[j] = svc) /\ (j # s => w[j] = sv[j])
    BY DEF Builder!Put, Builder!IsFunction, w
  <2>4. t' = [services |-> w, networks |-> t.networks, volumes |-> t.volumes, rest |-> t.rest]
    BY <1>1, <1>4
  <2> HIDE DEF w
  <2>5. CfBodies(w)
    BY <1>2, <2>2, <2>3 DEF CfBodies, Builder!ServiceIds
  <2>6. QED
    BY <1>2, <2>4, <2>5, CfTextOf
<1>5. ASSUME NEW s \in DOMAIN sv, t' = [t EXCEPT !.services = Builder!Drop(@, s)]
      PROVE  Builder!IsText(t')
  <2> DEFINE w == Builder!Drop(sv, s)
  <2>1. Builder!IsFunction(w) /\ DOMAIN w = DOMAIN sv \ {s} /\ \A j \in DOMAIN w : w[j] = sv[j]
    BY CfDrop
  <2>2. t' = [services |-> w, networks |-> t.networks, volumes |-> t.volumes, rest |-> t.rest]
    BY <1>1, <1>5
  <2> HIDE DEF w
  <2>3. CfBodies(w)
    BY <1>2, <2>1 DEF CfBodies
  <2>4. QED
    BY <1>2, <2>2, <2>3, CfTextOf
<1>6. ASSUME NEW c \in {"null", "empty", "set"}, t' = [t EXCEPT !.networks = Builder!Put(@, "front", c)]
      PROVE  Builder!IsText(t')
  <2>1. Builder!Put(t.networks, "front", c) \in CfMaps(Builder!Networks, Builder!Settings)
    BY <1>2, <1>3, CfMap
  <2>2. t' = [services |-> sv, networks |-> Builder!Put(t.networks, "front", c), volumes |-> t.volumes,
          rest |-> t.rest]
    BY <1>1, <1>6
  <2>3. QED
    BY <1>2, <2>1, <2>2, CfTextOf
<1>7. ASSUME NEW c \in {"null", "empty", "set"}, t' = [t EXCEPT !.volumes = Builder!Put(@, "data", c)]
      PROVE  Builder!IsText(t')
  <2>1. Builder!Put(t.volumes, "data", c) \in CfMaps(Builder!Volumes, Builder!Settings)
    BY <1>2, <1>3, CfMap
  <2>2. t' = [services |-> sv, networks |-> t.networks, volumes |-> Builder!Put(t.volumes, "data", c),
          rest |-> t.rest]
    BY <1>1, <1>7
  <2>3. QED
    BY <1>2, <2>1, <2>2, CfTextOf
<1>8. ASSUME t' = [t EXCEPT !.rest = ~@]
      PROVE  Builder!IsText(t')
  <2>1. (~t.rest) \in BOOLEAN
    OBVIOUS
  <2>2. t' = [services |-> sv, networks |-> t.networks, volumes |-> t.volumes, rest |-> ~t.rest]
    BY <1>1, <1>8
  <2>3. QED
    BY <1>2, <2>1, <2>2, CfTextOf
<1>9. QED
  BY <1>4, <1>5, <1>6, <1>7, <1>8 DEF Builder!TypedEntry, Builder!TypeText

-----------------------------------------------------------------------------
(***************************************************************************)
(* What is shown and what is written.                                      *)
(***************************************************************************)
\* The inductive invariant: the types, and the builder shows what was read of the
\* text or the text is what the builder wrote.
CfIInv == /\ Builder!TypeOK
          /\ composeMode = "visual" => \/ visualModel = Builder!parseCompose(composeContent)
                                       \/ composeContent = Builder!serializeCompose(visualModel)

\* An edit in the builder.
LEMMA CfBuildStep ==
  ASSUME CfIInv, NEW cf, Builder!IsFile(cf), Builder!Build(cf)
  PROVE  CfIInv'
<1>1. composeMode' = "visual" /\ visualModel' = cf /\ composeContent' = Builder!serializeCompose(cf)
  BY DEF Builder!Build
<1>2. Builder!IsText(composeContent') /\ Builder!IsFile(visualModel')
  BY <1>1, CfText
<1>3. QED
  BY <1>1, <1>2 DEF CfIInv, Builder!TypeOK

\* What an edit of a service gives.
LEMMA CfEditService ==
  ASSUME CfIInv, NEW s \in DOMAIN visualModel.services, Builder!EditService(s)
  PROVE  \E k \in Keys : \E v \in Builder!KeyEdits(visualModel, s, k) :
           LET svc == Builder!SetKey(visualModel.services[s], k, v)
               cf  == Builder!updateService(visualModel, s, svc)
           IN  Builder!IsService(svc) /\ Builder!IsFile(cf) /\ Builder!Build(cf)
<1>1. PICK k \in Keys : \E v \in Builder!KeyEdits(visualModel, s, k) :
        Builder!Build(Builder!updateService(visualModel, s, Builder!SetKey(visualModel.services[s], k, v)))
  BY DEF Builder!EditService
<1>2. PICK v \in Builder!KeyEdits(visualModel, s, k) :
        Builder!Build(Builder!updateService(visualModel, s, Builder!SetKey(visualModel.services[s], k, v)))
  BY <1>1
<1> DEFINE svc == Builder!SetKey(visualModel.services[s], k, v)
<1>3. Builder!IsFile(visualModel) /\ Builder!IsService(visualModel.services[s])
  BY DEF CfIInv, Builder!TypeOK, Builder!IsFile
<1>4. k \in Builder!EditedKeys /\ (v = None \/ Builder!IsModel(k, v))
  BY <1>3, CfKeyEdits DEF Builder!EditedKeys
<1>5. Builder!IsService(svc)
  BY <1>3, <1>4, CfSetKey
<1>6. Builder!IsFile(Builder!updateService(visualModel, s, svc))
  BY <1>3, <1>5, CfUpdated
<1>7. QED
  BY <1>2, <1>5, <1>6

\* Every step of the editor keeps the invariant.
LEMMA CfNextIInv ==
  ASSUME CfIInv, Builder!Next \/ UNCHANGED builderVars
  PROVE  CfIInv'
<1>1. /\ Builder!IsFile(visualModel) /\ composeMode \in {"yaml", "visual", "crashed"}
      /\ composeContent = Builder!Broken \/ Builder!IsText(composeContent)
  BY DEF CfIInv, Builder!TypeOK
<1>2. CASE Builder!TypeYaml
  <2>1. /\ composeMode = "yaml" /\ composeMode' = "yaml" /\ visualModel' = visualModel
        /\ composeContent' \in {Builder!Broken, Builder!EmptyText}
             \/ (composeContent # Builder!Broken /\ Builder!TypedEntry)
    BY <1>2 DEF Builder!TypeYaml
  <2>2. composeContent' = Builder!Broken \/ Builder!IsText(composeContent')
    BY <1>1, <2>1, CfEmpty, CfTypedText
  <2>3. QED
    BY <1>1, <2>1, <2>2 DEF CfIInv, Builder!TypeOK
<1>3. CASE Builder!ShowVisual
  <2>1. /\ visualModel' = Builder!parseCompose(composeContent) /\ composeContent' = composeContent
        /\ composeMode' \in {"visual", "crashed"}
    BY <1>3 DEF Builder!ShowVisual
  <2>2. Builder!IsFile(visualModel')
    BY <1>1, <2>1, CfFile
  <2>3. QED
    BY <1>1, <2>1, <2>2 DEF CfIInv, Builder!TypeOK
<1>4. CASE Builder!ShowYaml
  <2>1. composeContent' = Builder!serializeCompose(visualModel) /\ composeMode' = "yaml"
          /\ visualModel' = Builder!EmptyCf
    BY <1>4 DEF Builder!ShowYaml
  <2>2. Builder!IsText(composeContent') /\ Builder!IsFile(visualModel')
    BY <1>1, <2>1, CfText, CfEmpty
  <2>3. QED
    BY <2>1, <2>2 DEF CfIInv, Builder!TypeOK
<1>5. CASE Builder!Reload
  <2>1. composeContent' = Builder!EmptyText /\ visualModel' = Builder!EmptyCf /\ composeMode' = "yaml"
    BY <1>5 DEF Builder!Reload
  <2>2. QED
    BY <2>1, CfEmpty DEF CfIInv, Builder!TypeOK
<1>6. ASSUME NEW s \in DOMAIN visualModel.services, Builder!EditService(s) PROVE CfIInv'
  BY <1>6, CfEditService, CfBuildStep
<1>7. ASSUME NEW s \in DOMAIN visualModel.services, Builder!NameService(s) PROVE CfIInv'
  <2>1. PICK n \in Names \ DOMAIN visualModel.services : Builder!Build(Builder!renameService(visualModel, s, n))
    BY <1>7 DEF Builder!NameService
  <2>2. Builder!IsFile(Builder!renameService(visualModel, s, n))
    BY <1>1, CfNamed
  <2>3. QED
    BY <2>1, <2>2, CfBuildStep
<1>8. ASSUME NEW s \in DOMAIN visualModel.services, Builder!DeleteService(s) PROVE CfIInv'
  <2>1. Builder!IsFile(Builder!removeService(visualModel, s))
    BY <1>1, CfRemoved
  <2>2. QED
    BY <1>8, <2>1, CfBuildStep DEF Builder!DeleteService
<1>9. CASE Builder!AddService
  <2>1. Builder!IsFile(Builder!addService(visualModel))
    BY <1>1, <1>9, CfAdded DEF Builder!AddService
  <2>2. QED
    BY <1>9, <2>1, CfBuildStep DEF Builder!AddService
<1>10. CASE Builder!EditNetworks \/ Builder!EditVolumes
  <2>1. PICK cf : (cf \in Builder!NetworksPanel(visualModel) \/ cf \in Builder!VolumesPanel(visualModel))
               /\ Builder!Build(cf)
    BY <1>10 DEF Builder!EditNetworks, Builder!EditVolumes
  <2>2. Builder!IsFile(cf)
    BY <1>1, <2>1, CfPanels
  <2>3. QED
    BY <2>1, <2>2, CfBuildStep
<1>11. CASE UNCHANGED builderVars
  BY <1>11 DEF builderVars, CfIInv, Builder!TypeOK
<1>12. QED
  BY <1>2, <1>3, <1>4, <1>5, <1>6, <1>7, <1>8, <1>9, <1>10, <1>11 DEF Builder!Next, Builder!VisualEditor,
     Builder!VisualDetail

\* A new page.
LEMMA CfInitIInv ==
  ASSUME Builder!Init
  PROVE  CfIInv
BY CfEmpty DEF Builder!Init, CfIInv, Builder!TypeOK

\* What the invariant says of the two ways a file is written.
LEMMA CfSound ==
  ASSUME CfIInv
  PROVE  Builder!BuilderSound /\ Builder!VisualIsSaved
<1>1. Builder!IsFile(visualModel) /\ (composeContent = Builder!Broken \/ Builder!IsText(composeContent))
  BY DEF CfIInv, Builder!TypeOK
<1>2. ASSUME composeMode = "visual", Builder!Supported(composeContent)
      PROVE  Builder!Meaning(Builder!serializeCompose(visualModel)) = Builder!Meaning(composeContent)
  <2>1. Builder!IsText(composeContent)
    BY <1>1, <1>2 DEF Builder!Supported
  <2>2. CASE visualModel = Builder!parseCompose(composeContent)
    BY <1>2, <2>1, <2>2, CfRoundTrip
  <2>3. CASE composeContent = Builder!serializeCompose(visualModel)
    BY <2>3
  <2>4. QED
    BY <1>2, <2>2, <2>3 DEF CfIInv
<1>3. ASSUME composeMode = "visual", Builder!Complete(visualModel)
      PROVE  Builder!Shown(Builder!parseCompose(composeContent)) = Builder!Shown(visualModel)
  <2>1. CASE visualModel = Builder!parseCompose(composeContent)
    BY <2>1
  <2>2. CASE composeContent = Builder!serializeCompose(visualModel)
    BY <1>1, <1>3, <2>2, CfSaved
  <2>3. QED
    BY <1>3, <2>1, <2>2 DEF CfIInv
<1>4. QED
  BY <1>2, <1>3 DEF Builder!BuilderSound, Builder!RoundTrip, Builder!VisualIsSaved, CfIInv

-----------------------------------------------------------------------------
(***************************************************************************)
(* What services refer to.                                                 *)
(***************************************************************************)
\* Services that are waited for, each once, and all of them there.
CfDepsOk(d, O) == /\ \A i \in DOMAIN d : d[i].service \in O
                  /\ \A i, j \in DOMAIN d : d[i].service = d[j].service => i = j

LEMMA CfRemovedRow ==
  ASSUME NEW S, NEW s \in Seq(S), NEW i \in DOMAIN s
  PROVE  /\ DOMAIN Builder!RemoveAt(s, i) = 1 .. Len(s) - 1
         /\ \A j \in 1 .. Len(s) - 1 : Builder!RemoveAt(s, i)[j] = s[IF j < i THEN j ELSE j + 1]
<1> DEFINE a == SubSeq(s, 1, i - 1)
           b == SubSeq(s, i + 1, Len(s))
<1>1. Len(s) \in Nat /\ i \in 1 .. Len(s)
  OBVIOUS
<1>2. a \in Seq(S) /\ Len(a) = i - 1 /\ \A j \in 1 .. i - 1 : a[j] = s[j]
  BY <1>1
<1>3. b \in Seq(S) /\ Len(b) = Len(s) - i /\ \A j \in 1 .. Len(s) - i : b[j] = s[i + j]
  BY <1>1
<1> HIDE DEF a, b
<1>4. a \o b \in Seq(S) /\ Len(a \o b) = Len(s) - 1
  BY <1>1, <1>2, <1>3
<1>5. ASSUME NEW j \in 1 .. Len(s) - 1 PROVE (a \o b)[j] = s[IF j < i THEN j ELSE j + 1]
  <2>1. CASE j < i
    BY <1>1, <1>2, <1>3, <1>5, <2>1
  <2>2. CASE ~(j < i)
    <3>1. j - (i - 1) \in 1 .. Len(s) - i /\ i + (j - (i - 1)) = j + 1
      BY <1>1, <1>5, <2>2
    <3>2. (a \o b)[j] = b[j - (i - 1)]
      BY <1>1, <1>2, <1>3, <1>5, <2>2
    <3>3. QED
      BY <1>3, <2>2, <3>1, <3>2
  <2>3. QED
    BY <2>1, <2>2
<1>6. DOMAIN (a \o b) = 1 .. Len(s) - 1
  BY <1>4
<1>7. QED
  BY <1>5, <1>6 DEF Builder!RemoveAt, a, b

LEMMA CfDependsKept ==
  ASSUME NEW d \in Seq(Builder!Dep), NEW O, CfDepsOk(d, O), NEW v \in Builder!DependsOnEdits(d, O)
  PROVE  CfDepsOk(v, O)
<1>1. Len(d) \in Nat /\ DOMAIN d = 1 .. Len(d)
  OBVIOUS
<1>2. ASSUME NEW i \in DOMAIN d, NEW c \in Builder!Conditions, v = [d EXCEPT ![i].condition = c]
      PROVE  CfDepsOk(v, O)
  <2>1. \A j \in DOMAIN d : d[j] \in Builder!Dep
    BY CfItems
  <2>2. DOMAIN v = DOMAIN d /\ \A j \in DOMAIN d : v[j].service = d[j].service
    BY <1>2, <2>1 DEF Builder!Dep
  <2>3. QED
    BY <2>2 DEF CfDepsOk
<1>3. ASSUME NEW i \in DOMAIN d, v = Builder!RemoveAt(d, i) PROVE CfDepsOk(v, O)
  <2>1. DOMAIN v = 1 .. Len(d) - 1 /\ \A j \in DOMAIN v : v[j] = d[IF j < i THEN j ELSE j + 1]
    BY <1>3, CfRemovedRow
  <2>2. \A j \in DOMAIN v : (IF j < i THEN j ELSE j + 1) \in DOMAIN d
    BY <1>1, <2>1
  <2>3. \A j \in DOMAIN v : v[j].service \in O
    BY <2>1, <2>2 DEF CfDepsOk
  <2>4. ASSUME NEW j \in DOMAIN v, NEW l \in DOMAIN v, v[j].service = v[l].service PROVE j = l
    <3>1. (IF j < i THEN j ELSE j + 1) = (IF l < i THEN l ELSE l + 1)
      BY <2>1, <2>2, <2>4 DEF CfDepsOk
    <3>2. j \in Int /\ l \in Int /\ i \in Int
      BY <1>1, <2>1
    <3>3. QED
      BY <3>1, <3>2
  <2>5. QED
    BY <2>3, <2>4 DEF CfDepsOk
<1>4. ASSUME NEW s \in O, \A i \in DOMAIN d : d[i].service # s,
             v = Append(d, [service |-> s, condition |-> "service_started"])
      PROVE  CfDepsOk(v, O)
  <2>1. /\ DOMAIN v = 1 .. Len(d) + 1 /\ v[Len(d) + 1].service = s
        /\ \A j \in DOMAIN d : v[j] = d[j]
    BY <1>1, <1>4
  <2>2. \A j \in DOMAIN v : j \in DOMAIN d \/ j = Len(d) + 1
    BY <1>1, <2>1
  <2>3. QED
    BY <1>4, <2>1, <2>2 DEF CfDepsOk
<1>5. \/ \E i \in DOMAIN d, c \in Builder!Conditions : v = [d EXCEPT ![i].condition = c]
      \/ \E i \in DOMAIN d : v = Builder!RemoveAt(d, i)
      \/ \E s \in O : /\ \A i \in DOMAIN d : d[i].service # s
                     /\ v = Append(d, [service |-> s, condition |-> "service_started"])
  BY CfDependsForms
<1>6. QED
  BY <1>2, <1>3, <1>4, <1>5

\* What a service waits for.
LEMMA CfDepsOf ==
  /\ \A svc : Builder!DepsOf(svc) = IF "depends_on" \in DOMAIN svc THEN svc["depends_on"] ELSE <<>>
  /\ \A svc : Builder!IsService(svc) => Builder!DepsOf(svc) \in Seq(Builder!Dep)
  /\ \A O : CfDepsOk(<<>>, O)
  /\ \A cf : Builder!DepsSound(cf) <=> \A s \in DOMAIN cf.services :
                                  CfDepsOk(Builder!DepsOf(cf.services[s]), DOMAIN cf.services \ {s})
<1>1. \A svc : Builder!DepsOf(svc) = IF "depends_on" \in DOMAIN svc THEN svc["depends_on"] ELSE <<>>
  BY DEF Builder!DepsOf, Builder!Get
<1>2. ASSUME NEW svc, Builder!IsService(svc) PROVE Builder!DepsOf(svc) \in Seq(Builder!Dep)
  <2>1. "depends_on" \in DOMAIN svc => svc["depends_on"] \in Seq(Builder!Dep)
    BY <1>2, CfDepsModel DEF Builder!IsService
  <2>2. <<>> \in Seq(Builder!Dep)
    OBVIOUS
  <2>3. QED
    BY <1>1, <2>1, <2>2
<1>3. \A O : CfDepsOk(<<>>, O)
  BY DEF CfDepsOk
<1>4. \A cf : Builder!DepsSound(cf) <=> \A s \in DOMAIN cf.services :
                                  CfDepsOk(Builder!DepsOf(cf.services[s]), DOMAIN cf.services \ {s})
  BY DEF Builder!DepsSound, CfDepsOk
<1>5. QED
  BY <1>1, <1>2, <1>3, <1>4

\* What a service waits for reads back as it was written.
LEMMA CfDepsBack ==
  ASSUME NEW svc, Builder!IsService(svc), Builder!Once(Builder!DepsOf(svc))
  PROVE  Builder!DepsOf(Builder!parseService(Builder!serializeService(svc))) = Builder!DepsOf(svc)
<1> DEFINE k == "depends_on"
           r == Builder!serializeService(svc)
           w == Builder!parseService(r)
<1>1. /\ Builder!IsBody(r) /\ DOMAIN r = {j \in DOMAIN svc : Builder!SerializeKey(j, svc[j]) # None}
      /\ \A j \in DOMAIN r : r[j] = Builder!SerializeKey(j, svc[j])
  BY CfService
<1> HIDE DEF r
<1>2. /\ DOMAIN w = {j \in DOMAIN r : Builder!ParseKey(j, r[j]) # None}
      /\ \A j \in DOMAIN w : w[j] = Builder!ParseKey(j, r[j])
  BY <1>1, CfBody
<1> HIDE DEF w
<1>3. /\ Builder!DepsOf(svc) = IF k \in DOMAIN svc THEN svc[k] ELSE <<>>
      /\ Builder!DepsOf(w) = IF k \in DOMAIN w THEN w[k] ELSE <<>>
  BY CfDepsOf
<1>4. ASSUME k \notin DOMAIN svc PROVE Builder!DepsOf(w) = Builder!DepsOf(svc)
  BY <1>1, <1>2, <1>3, <1>4
<1>5. ASSUME k \in DOMAIN svc PROVE Builder!DepsOf(w) = Builder!DepsOf(svc)
  <2>1. Builder!IsModel(k, svc[k]) /\ k \in Builder!EditedKeys
    BY <1>5 DEF Builder!IsService
  <2>2. svc[k] # None
    BY <2>1, ValuesAssumption DEF Builder!EditedKeys
  <2>3. \A v : Builder!Field(k, v) = v
    BY CfKinds DEF Builder!Field
  <2>4. Builder!CompleteKey(k, svc[k])
    BY <1>3, <1>5 DEF Builder!CompleteKey
  <2>5. CfFieldShown(k, svc[k])
    BY <2>1, <2>4, CfEdited DEF CfKeySound, CfShows
  <2>6. k \in DOMAIN w /\ w[k] = svc[k]
    BY <1>1, <1>2, <1>5, <2>2, <2>3, <2>5 DEF CfFieldShown
  <2>7. QED
    BY <1>3, <1>5, <2>6
<1>6. QED
  BY <1>4, <1>5 DEF w, r

LEMMA CfDepsRead ==
  ASSUME NEW cf, Builder!IsFile(cf), Builder!DepsSound(cf)
  PROVE  Builder!DepsSound(Builder!parseCompose(Builder!serializeCompose(cf)))
<1> DEFINE t == Builder!serializeCompose(cf)
           w == Builder!parseCompose(t)
<1>1. /\ Builder!IsText(t) /\ DOMAIN t.services = DOMAIN cf.services
      /\ \A s \in DOMAIN cf.services : t.services[s] = Builder!serializeService(cf.services[s])
  BY CfText
<1> HIDE DEF t
<1>2. \A s \in DOMAIN cf.services : Builder!IsService(cf.services[s])
  BY DEF Builder!IsFile
<1>3. \A s \in DOMAIN cf.services : t.services[s] # Builder!Null
  BY <1>1, <1>2, CfService, CfNull
<1>4. /\ DOMAIN w.services = {s \in DOMAIN t.services : t.services[s] # Builder!Null}
      /\ \A s \in DOMAIN w.services : w.services[s] = Builder!parseService(t.services[s])
  BY <1>1, CfRead
<1> HIDE DEF w
<1>5. DOMAIN w.services = DOMAIN cf.services
  BY <1>1, <1>3, <1>4
<1>6. \A s \in DOMAIN cf.services : CfDepsOk(Builder!DepsOf(cf.services[s]), DOMAIN cf.services \ {s})
  BY CfDepsOf
<1>7. \A s \in DOMAIN cf.services : Builder!DepsOf(w.services[s]) = Builder!DepsOf(cf.services[s])
  BY <1>1, <1>2, <1>4, <1>5, <1>6, CfDepsBack DEF Builder!Once, CfDepsOk
<1>8. \A s \in DOMAIN w.services : CfDepsOk(Builder!DepsOf(w.services[s]), DOMAIN w.services \ {s})
  BY <1>5, <1>6, <1>7
<1>9. Builder!DepsSound(w)
  BY <1>8, CfDepsOf
<1>10. QED
  BY <1>9 DEF w, t

\* A service that is renamed is followed by the services that wait for it.
LEMMA CfDepsNamed ==
  ASSUME NEW cf, Builder!IsFile(cf), Builder!DepsSound(cf), NEW old \in DOMAIN cf.services,
         NEW new \in Names \ DOMAIN cf.services
  PROVE  Builder!DepsSound(Builder!renameService(cf, old, new))
<1> DEFINE c == Builder!renameService(cf, old, new)
           From(s) == IF s = new THEN old ELSE s
<1>1. /\ DOMAIN c.services = (DOMAIN cf.services \ {old}) \union {new}
      /\ \A s \in DOMAIN c.services : c.services[s] = CfFollow(cf.services[From(s)], old, new)
  BY CfNamed
<1> HIDE DEF c
<1>2. \A s \in DOMAIN cf.services : Builder!IsService(cf.services[s])
        /\ CfDepsOk(Builder!DepsOf(cf.services[s]), DOMAIN cf.services \ {s})
  BY CfDepsOf DEF Builder!IsFile
<1>3. new \in Builder!ServiceIds
  BY DEF Builder!ServiceIds
<1>4. ASSUME NEW s \in DOMAIN c.services PROVE CfDepsOk(Builder!DepsOf(c.services[s]), DOMAIN c.services \ {s})
  <2> DEFINE svc == cf.services[From(s)]
             w == CfFollow(svc, old, new)
             d == Builder!DepsOf(svc)
             e == Builder!DepsOf(w)
  <2>1. From(s) \in DOMAIN cf.services /\ c.services[s] = w
    BY <1>1, <1>4
  <2>2. Builder!IsService(svc) /\ CfDepsOk(d, DOMAIN cf.services \ {From(s)})
    BY <1>2, <2>1
  <2>3. /\ DOMAIN w = DOMAIN svc
        /\ "depends_on" \in DOMAIN svc =>
             /\ DOMAIN w["depends_on"] = DOMAIN svc["depends_on"]
             /\ \A i \in DOMAIN svc["depends_on"] :
                  w["depends_on"][i].service = IF svc["depends_on"][i].service = old THEN new
                                               ELSE svc["depends_on"][i].service
    BY <1>3, <2>2, CfFollowed
  <2>4. /\ d = IF "depends_on" \in DOMAIN svc THEN svc["depends_on"] ELSE <<>>
        /\ e = IF "depends_on" \in DOMAIN w THEN w["depends_on"] ELSE <<>>
    BY CfDepsOf
  <2> HIDE DEF svc, w, d, e
  <2>5. DOMAIN e = DOMAIN d /\ \A i \in DOMAIN d : e[i].service = IF d[i].service = old THEN new ELSE d[i].service
    BY <2>3, <2>4
  <2>6. \A i \in DOMAIN d : d[i].service \in DOMAIN cf.services /\ d[i].service # From(s)
    BY <2>2 DEF CfDepsOk
  <2>7. \A i \in DOMAIN e : e[i].service \in DOMAIN c.services \ {s}
    BY <1>1, <2>5, <2>6
  <2>8. ASSUME NEW i \in DOMAIN e, NEW j \in DOMAIN e, e[i].service = e[j].service PROVE i = j
    <3>1. d[i].service = d[j].service
      BY <2>5, <2>6, <2>8
    <3>2. QED
      BY <2>2, <2>5, <3>1 DEF CfDepsOk
  <2>9. CfDepsOk(e, DOMAIN c.services \ {s})
    BY <2>7, <2>8 DEF CfDepsOk
  <2>10. QED
    BY <2>1, <2>9 DEF e, w
<1>5. Builder!DepsSound(c)
  BY <1>4, CfDepsOf
<1>6. QED
  BY <1>5 DEF c

\* A new service waits for nothing, and nobody waits for it.
LEMMA CfDepsAdded ==
  ASSUME NEW cf, Builder!DepsSound(cf), NEW n, n \notin DOMAIN cf.services, NEW c,
         c.services = Builder!Put(cf.services, n, CfNewService)
  PROVE  Builder!DepsSound(c)
<1> DEFINE w == Builder!Put(cf.services, n, CfNewService)
<1>1. DOMAIN w = DOMAIN cf.services \union {n} /\ w[n] = CfNewService
        /\ \A s \in DOMAIN cf.services : w[s] = cf.services[s]
  BY DEF Builder!Put
<1> HIDE DEF w
<1>2. \A s \in DOMAIN cf.services : CfDepsOk(Builder!DepsOf(cf.services[s]), DOMAIN cf.services \ {s})
  BY CfDepsOf
<1>3. "depends_on" \notin DOMAIN CfNewService
  BY DEF CfNewService
<1>4. Builder!DepsOf(CfNewService) = <<>>
  BY <1>3, CfDepsOf
<1>5. ASSUME NEW s \in DOMAIN w PROVE CfDepsOk(Builder!DepsOf(w[s]), DOMAIN w \ {s})
  <2>1. CASE s = n
    BY <1>1, <1>4, <2>1, CfDepsOf
  <2>2. CASE s # n
    BY <1>1, <1>2, <1>5, <2>2 DEF CfDepsOk
  <2>3. QED
    BY <2>1, <2>2
<1>6. c.services = w
  BY DEF w
<1>7. QED
  BY <1>5, <1>6, CfDepsOf

\* An edit of a service leaves what it waits for sound.
LEMMA CfDepsKey ==
  ASSUME NEW cf, Builder!IsFile(cf), Builder!DepsSound(cf), NEW s \in DOMAIN cf.services, NEW k \in Keys,
         NEW v \in Builder!KeyEdits(cf, s, k)
  PROVE  CfDepsOk(Builder!DepsOf(Builder!SetKey(cf.services[s], k, v)), DOMAIN cf.services \ {s})
<1> DEFINE svc == cf.services[s]
           w == Builder!SetKey(svc, k, v)
           O == DOMAIN cf.services \ {s}
<1>1. CfDepsOk(Builder!DepsOf(svc), O) /\ Builder!DepsOf(svc) \in Seq(Builder!Dep)
  BY CfDepsOf DEF Builder!IsFile
<1>2. Builder!DepsOf(w) = IF "depends_on" \in DOMAIN w THEN w["depends_on"] ELSE <<>>
  BY CfDepsOf
<1>3. /\ v = None => w = Builder!Drop(svc, k)
      /\ v # None => w = Builder!Put(svc, k, v)
  BY DEF Builder!SetKey
<1>4. Builder!DepsOf(svc) = IF "depends_on" \in DOMAIN svc THEN svc["depends_on"] ELSE <<>>
  BY CfDepsOf
<1>5. CASE k # "depends_on"
  <2>1. Builder!DepsOf(w) = Builder!DepsOf(svc)
    <3> HIDE DEF w, svc
    <3>1. CASE v = None
      <4>1. DOMAIN w = DOMAIN svc \ {k} /\ \A j \in DOMAIN w : w[j] = svc[j]
        BY <1>3, <3>1 DEF Builder!Drop
      <4>2. QED
        BY <1>2, <1>4, <1>5, <4>1
    <3>2. CASE v # None
      <4>1. DOMAIN w = DOMAIN svc \union {k} /\ \A j \in DOMAIN w : j # k => w[j] = svc[j]
        BY <1>3, <3>2 DEF Builder!Put
      <4>2. QED
        BY <1>2, <1>4, <1>5, <4>1
    <3>3. QED
      BY <3>1, <3>2
  <2>2. QED
    BY <1>1, <2>1
<1>6. CASE k = "depends_on"
  <2>1. Builder!KeyEdits(cf, s, k) = {Builder!OrAbsent(x, <<>>) :
          x \in Builder!DependsOnEdits(Builder!Get(svc, k, <<>>), O)}
    BY <1>6, CfKinds DEF CfOthers, Builder!KVKeys, Builder!KeyEdits, Builder!ArrKeys, Builder!StrKeys,
       Builder!JoinKeys, Builder!FlagKeys
  <2>2. PICK x \in Builder!DependsOnEdits(Builder!Get(svc, k, <<>>), O) : v = Builder!OrAbsent(x, <<>>)
    BY <2>1
  <2>3. Builder!Get(svc, k, <<>>) = Builder!DepsOf(svc)
    BY <1>6 DEF Builder!DepsOf
  <2>4. CfDepsOk(x, O)
    BY <1>1, <2>2, <2>3, CfDependsKept
  <2> HIDE DEF w, svc
  <2>5. CASE v = None
    <3>1. DOMAIN w = DOMAIN svc \ {k}
      BY <1>3, <2>5, CfDrop
    <3>2. Builder!DepsOf(w) = <<>>
      BY <1>2, <1>6, <3>1
    <3>3. QED
      BY <3>2, CfDepsOf DEF w, svc
  <2>6. CASE v # None
    <3>1. v = x
      BY <2>2, <2>6 DEF Builder!OrAbsent
    <3>2. k \in DOMAIN w /\ w[k] = v
      BY <1>3, <2>6 DEF Builder!Put
    <3>3. Builder!DepsOf(w) = x
      BY <1>2, <1>6, <3>1, <3>2
    <3>4. QED
      BY <2>4, <3>3 DEF w, svc
  <2>7. QED
    BY <2>5, <2>6
<1>7. QED
  BY <1>5, <1>6

\* The volumes follow an edit of a service, and the services keep their names.
LEMMA CfServicesFollow ==
  ASSUME CfIInv, Builder!Next \/ UNCHANGED builderVars
  PROVE  Builder!ServicesFollow
<1> DEFINE cf == visualModel
<1>1. Builder!IsFile(cf)
  BY DEF CfIInv, Builder!TypeOK
<1>2. ASSUME NEW c, Builder!Build(c) PROVE visualModel' = c /\ composeMode = "visual"
  BY <1>2 DEF Builder!Build
<1> DEFINE Keeps(c) == /\ \A v \in DOMAIN cf.volumes :
                            cf.volumes[v] = "set" => v \in DOMAIN c.volumes /\ c.volumes[v] = "set"
                       /\ DOMAIN c.services = DOMAIN cf.services =>
                            Builder!getUsedVolumes(c.services) \subseteq DOMAIN c.volumes
<1>3. ASSUME NEW c, visualModel' = c, Keeps(c) \/ c.services = cf.services PROVE Builder!VolumesFollow
  BY <1>3 DEF Builder!VolumesFollow
<1>4. ASSUME NEW c, visualModel' = c, Builder!DepsSound(cf) => Builder!DepsSound(c) PROVE Builder!DepsFollow
  BY <1>4 DEF Builder!DepsFollow
<1> HIDE DEF Keeps
<1>5. ASSUME NEW s \in DOMAIN visualModel.services, Builder!EditService(s) PROVE Builder!ServicesFollow
  <2> DEFINE Card(k, v)  == Builder!SetKey(cf.services[s], k, v)
             Edited(k, v) == Builder!updateService(cf, s, Card(k, v))
  <2>1. PICK k \in Keys : \E v \in Builder!KeyEdits(cf, s, k) : Builder!IsService(Card(k, v))
               /\ Builder!Build(Edited(k, v))
    BY <1>5, CfEditService
  <2>2. PICK v \in Builder!KeyEdits(cf, s, k) : Builder!IsService(Card(k, v)) /\ Builder!Build(Edited(k, v))
    BY <2>1
  <2> DEFINE svc == Builder!SetKey(cf.services[s], k, v)
             c == Builder!updateService(cf, s, svc)
             w == Builder!Put(cf.services, s, svc)
  <2>3. Builder!IsService(svc) /\ visualModel' = c
    BY <1>2, <2>2
  <2>4. Builder!DepsSound(cf) => CfDepsOk(Builder!DepsOf(svc), DOMAIN cf.services \ {s})
    BY <1>1, CfDepsKey
  <2> HIDE DEF svc
  <2>5. /\ c.services = w /\ Builder!getUsedVolumes(c.services) \subseteq DOMAIN c.volumes
        /\ \A u \in DOMAIN cf.volumes : cf.volumes[u] = "set" => u \in DOMAIN c.volumes /\ c.volumes[u] = "set"
    BY <1>1, <2>3, CfUpdated
  <2>6. /\ DOMAIN w = DOMAIN cf.services /\ w[s] = svc
        /\ \A t \in DOMAIN w : t # s => w[t] = cf.services[t]
    BY DEF Builder!Put
  <2> HIDE DEF c, w
  <2>7. Builder!DepsSound(cf) => Builder!DepsSound(c)
    <3>1. ASSUME Builder!DepsSound(cf) PROVE \A t \in DOMAIN w : CfDepsOk(Builder!DepsOf(w[t]), DOMAIN w \ {t})
      BY <2>4, <2>6, <3>1, CfDepsOf
    <3>2. QED
      BY <2>5, <3>1, CfDepsOf
  <2>8. Keeps(c)
    BY <2>5 DEF Keeps
  <2>9. QED
    BY <1>3, <1>4, <2>3, <2>7, <2>8 DEF Builder!ServicesFollow
<1>6. ASSUME NEW s \in DOMAIN visualModel.services, Builder!NameService(s) PROVE Builder!ServicesFollow
  <2>1. PICK n \in Names \ DOMAIN cf.services : Builder!Build(Builder!renameService(cf, s, n))
    BY <1>6 DEF Builder!NameService
  <2> DEFINE c == Builder!renameService(cf, s, n)
  <2>2. visualModel' = c
    BY <1>2, <2>1
  <2>3. c.volumes = cf.volumes /\ DOMAIN c.services = (DOMAIN cf.services \ {s}) \union {n}
    BY <1>1, CfNamed
  <2>4. Builder!DepsSound(cf) => Builder!DepsSound(c)
    BY <1>1, CfDepsNamed
  <2> HIDE DEF c
  <2>5. Keeps(c)
    BY <1>6, <2>1, <2>3 DEF Keeps
  <2>6. QED
    BY <1>3, <1>4, <2>2, <2>4, <2>5 DEF Builder!ServicesFollow
<1>7. ASSUME NEW s \in DOMAIN visualModel.services, Builder!DeleteService(s) PROVE Builder!ServicesFollow
  <2> DEFINE c == Builder!removeService(cf, s)
  <2>1. visualModel' = c
    BY <1>2, <1>7 DEF Builder!DeleteService
  <2>2. c.volumes = cf.volumes /\ c.services = Builder!Drop(cf.services, s)
    BY <1>1, CfRemoved
  <2> HIDE DEF c
  <2>3. DOMAIN c.services = DOMAIN cf.services \ {s}
    BY <2>2, CfDrop
  <2>4. Keeps(c)
    BY <1>7, <2>2, <2>3 DEF Keeps
  <2>5. Builder!DepsFollow
    BY <1>7 DEF Builder!DepsFollow
  <2>6. QED
    BY <1>3, <2>1, <2>4, <2>5 DEF Builder!ServicesFollow
<1>8. CASE Builder!AddService
  <2>1. \E i \in DOMAIN Builder!ServiceNames : Builder!ServiceNames[i] \notin DOMAIN cf.services
    BY <1>8 DEF Builder!AddService
  <2> DEFINE c == Builder!addService(cf)
  <2>2. visualModel' = c
    BY <1>2, <1>8 DEF Builder!AddService
  <2>3. PICK n \in Builder!ServiceIds \ DOMAIN cf.services :
          c.services = Builder!Put(cf.services, n, CfNewService) /\ c.volumes = cf.volumes
    BY <1>1, <2>1, CfAdded
  <2> HIDE DEF c
  <2>4. DOMAIN c.services = DOMAIN cf.services \union {n}
    BY <2>3 DEF Builder!Put
  <2>5. Keeps(c)
    BY <2>3, <2>4 DEF Keeps
  <2>6. Builder!DepsSound(cf) => Builder!DepsSound(c)
    BY <2>3, CfDepsAdded
  <2>7. QED
    BY <1>3, <1>4, <2>2, <2>5, <2>6 DEF Builder!ServicesFollow
<1>9. CASE Builder!EditNetworks \/ Builder!EditVolumes
  <2>1. PICK c : (c \in Builder!NetworksPanel(cf) \/ c \in Builder!VolumesPanel(cf)) /\ Builder!Build(c)
    BY <1>9 DEF Builder!EditNetworks, Builder!EditVolumes
  <2>2. visualModel' = c /\ c.services = cf.services
    BY <1>1, <1>2, <2>1, CfPanels
  <2>3. Builder!DepsSound(cf) => Builder!DepsSound(c)
    BY <2>2 DEF Builder!DepsSound
  <2>4. QED
    BY <1>3, <1>4, <2>2, <2>3 DEF Builder!ServicesFollow
<1>10. CASE Builder!ShowVisual
  <2>1. visualModel' = Builder!parseCompose(composeContent) /\ composeContent' = composeContent
    BY <1>10 DEF Builder!ShowVisual
  <2>2. Builder!VolumesFollow
    BY <2>1 DEF Builder!VolumesFollow, Builder!Built
  <2>3. ASSUME composeMode = "visual", Builder!DepsSound(cf) PROVE Builder!DepsSound(visualModel')
    BY <1>1, <2>1, <2>3, CfDepsRead DEF CfIInv
  <2>4. QED
    BY <2>2, <2>3 DEF Builder!ServicesFollow, Builder!DepsFollow
<1>11. CASE Builder!TypeYaml \/ Builder!ShowYaml \/ Builder!Reload
  BY <1>11 DEF Builder!TypeYaml, Builder!ShowYaml, Builder!Reload, Builder!ServicesFollow, Builder!DepsFollow,
     Builder!VolumesFollow, Builder!Built
<1>12. CASE UNCHANGED builderVars
  BY <1>12 DEF builderVars, Builder!ServicesFollow, Builder!DepsFollow, Builder!VolumesFollow, Builder!DepsSound
<1>13. QED
  BY <1>5, <1>6, <1>7, <1>8, <1>9, <1>10, <1>11, <1>12 DEF Builder!Next, Builder!VisualEditor, Builder!VisualDetail

\* BuilderSound: the builder holds only keys and forms that it has fields for, and
\* a file written in the forms that it understands means the same to docker compose
\* when it is written back (parseCompose, serializeCompose, ComposeBuilder).
THEOREM BuilderIsSound == Spec => []BuilderSound
<1> DEFINE Inv == page = "builder" => CfIInv
<1>1. Init => Inv
  BY CfInitIInv DEF Init
<1>2. Inv /\ [Next]_vars => Inv'
  BY CfNextIInv, PageSteps
<1>3. Inv => BuilderSound
  BY CfSound DEF BuilderSound
<1>4. QED
  BY <1>1, <1>2, <1>3, PTL DEF Spec

\* VisualIsSaved: what the builder shows is what the text says, when every row is
\* complete: it is what Save sends and what is shown when the page is opened again
\* (onChange of ComposeBuilder, the switch of ProjectEditor and ProjectDetail).
THEOREM WhatIsShownIsSaved == Spec => []VisualIsSaved
<1> DEFINE Inv == page = "builder" => CfIInv
<1>1. Init => Inv
  BY CfInitIInv DEF Init
<1>2. Inv /\ [Next]_vars => Inv'
  BY CfNextIInv, PageSteps
<1>3. Inv => VisualIsSaved
  BY CfSound DEF VisualIsSaved
<1>4. QED
  BY <1>1, <1>2, <1>3, PTL DEF Spec

\* ServicesFollow: what services wait for stays sound under every edit but the
\* removal of a service, and the volumes follow the services (renameService,
\* updateService, syncTopLevelVolumes).
THEOREM ServicesAreFollowed == Spec => ServicesFollow
<1> DEFINE Inv == page = "builder" => CfIInv
           Follows == page = "builder" => Builder!ServicesFollow
<1>1. Init => Inv
  BY CfInitIInv DEF Init
<1>2. Inv /\ [Next]_vars => Inv'
  BY CfNextIInv, PageSteps
<1>3. Inv /\ [Next]_vars => [Follows]_vars
  BY CfServicesFollow, PageSteps
<1>4. QED
  BY <1>1, <1>2, <1>3, PTL DEF Spec, ServicesFollow

=============================================================================
