---------------------------- MODULE ProjectPages ----------------------------
(***************************************************************************)
(* The pages of a project, each with its own state, of which a browser tab *)
(* shows one: the page of a new project, the project's page with its form, *)
(* its deploys, its secrets and its webhooks, and the pages that follow a  *)
(* stream.  The page is chosen to begin with and stays.                    *)
(***************************************************************************)
EXTENDS Naturals, Sequences, TLC

CONSTANTS
  Pages,                               \* the pages that are looked at
  Composes, Filenames, MaxForeign,
  MaxSockets,
  NewNames, NewFiles, Typed, Vars, MaxFiles, MaxSaves,
  SecretIds, MaxSets,
  Services, MaxHooks,
  Kinds, Windows, MaxEffects, MaxLines, Keep,
  Keys, Names, MaxEntries, MaxItems, MaxDeps,
  None

VARIABLES
  page,
  proj, detail, detailFetch, editing, fields, originalFiles, mode, visual, saveRun, foreign, stale, tried,
  revised, failed, swept,
  deploying, logs, action, socket, job, wsRef, repullOpen, status, confirm, nameTyped, pending, late,
  draft, activeTab, dirtyTabs, pendingNav, saving, made, shown, saves, asked, whole,
  attached, attachedSeen, attachedFetch, adding, selectedSecretId, envVarName, sets, wanted, raced,
  hooks, hooksSeen, hooksFetch, hooksStale, hooksOpen, creating, dels, hookIds, early,
  pane, window, follow, filter, lines, services, selectedService, paused, wsStatus, effect, hook, source,
  composeContent, visualModel, composeMode

Project  == INSTANCE ProjectPage WITH PageNone <- None
Deploy   == INSTANCE DeployDialog
New      == INSTANCE NewProject WITH Blank <- None
Secrets  == INSTANCE ProjectSecrets WITH SecNone <- None
Webhooks == INSTANCE ProjectWebhooks WITH HookNone <- None
Streams  == INSTANCE LivePages WITH All <- None, status <- wsStatus
Builder  == INSTANCE ComposeEditor WITH Absent <- None

\* Copies of a project and the requests of a save.
PageText    == {"x", "y", "theirs"}
PageFiles   == UNION {[S -> PageText] : S \in SUBSET Filenames}
PageCopies  == [compose : Composes \union {""}, files : PageFiles]
PageRequest == [stage : 1 .. 4, op : {"project", "delete", "upsert"}, file : Filenames \union {""}]
PageRun     == [form : PageCopies, todo : SUBSET PageRequest, clean : BOOLEAN]

\* The form of a new project.
NewFile  == [filename : NewFiles \union {None}, content : Typed \union {None}, toDelete : BOOLEAN]
NewDraft == [name : NewNames \union {None}, compose : Typed \union {None}, env : SUBSET Vars, files : Seq(NewFile)]

\* Webhooks.
Hook == [id : 1..(MaxHooks + 1), target : Webhooks!Targets]

ASSUME ComposesAssumption == Composes # {} /\ None \notin PageCopies /\ None \notin PageRun
ASSUME MaxSocketsAssumption == MaxSockets \in Nat
ASSUME MaxEffectsAssumption == MaxEffects \in Nat
ASSUME KeepAssumption == Keep \in Nat
ASSUME NewAssumption == None \notin NewDraft
ASSUME SecretsAssumption == \A S \in SUBSET SecretIds : S # None
ASSUME KeysAssumption == "null" \notin Keys
ASSUME ValuesAssumption ==
  \A k \in Keys \union {"restart"} : ~Builder!IsRaw(k, None) /\ ~Builder!IsModel(k, None)
ASSUME HooksAssumption == MaxHooks \in Nat /\ None \notin Webhooks!Targets /\ \A S \in SUBSET Hook : S # None

\* The names that are typed in the builder are interchangeable.
Symmetry == Permutations(Names)

projectVars == <<proj, detail, detailFetch, editing, fields, originalFiles, mode, visual, saveRun, foreign,
                 stale, tried, revised, failed, swept>>
deployVars  == <<deploying, logs, action, socket, job, wsRef, repullOpen, status, confirm, nameTyped, pending,
                 late>>
newVars     == <<draft, activeTab, dirtyTabs, pendingNav, saving, made, shown, saves, asked, whole>>
secretVars  == <<attached, attachedSeen, attachedFetch, adding, selectedSecretId, envVarName, sets, wanted, raced>>
hookVars    == <<hooks, hooksSeen, hooksFetch, hooksStale, hooksOpen, creating, dels, hookIds, early>>
liveVars    == <<pane, window, follow, filter, lines, services, selectedService, paused, wsStatus, effect, hook,
                 source>>
builderVars == <<composeContent, visualModel, composeMode>>
vars == <<page, projectVars, deployVars, newVars, secretVars, hookVars, liveVars, builderVars>>

Init ==
  /\ page \in Pages
  /\ Project!Init /\ Deploy!Init /\ New!Init /\ Secrets!Init /\ Webhooks!Init /\ Streams!Init /\ Builder!Init
  /\ page # "secrets" => attached = {}
  /\ page # "streams" => window = CHOOSE w \in Windows : TRUE

ShowProject  == /\ page = "project" /\ Project!Next
                /\ UNCHANGED <<page, deployVars, newVars, secretVars, hookVars, liveVars, builderVars>>
ShowDeploy   == /\ page = "deploy" /\ Deploy!Next
                /\ UNCHANGED <<page, projectVars, newVars, secretVars, hookVars, liveVars, builderVars>>
ShowNew      == /\ page = "new" /\ New!Next
                /\ UNCHANGED <<page, projectVars, deployVars, secretVars, hookVars, liveVars, builderVars>>
ShowSecrets  == /\ page = "secrets" /\ Secrets!Next
                /\ UNCHANGED <<page, projectVars, deployVars, newVars, hookVars, liveVars, builderVars>>
ShowWebhooks == /\ page = "webhooks" /\ Webhooks!Next
                /\ UNCHANGED <<page, projectVars, deployVars, newVars, secretVars, liveVars, builderVars>>
ShowStreams  == /\ page = "streams" /\ Streams!Next
                /\ UNCHANGED <<page, projectVars, deployVars, newVars, secretVars, hookVars, builderVars>>

ShowBuilder  == /\ page = "builder" /\ Builder!Next
                /\ UNCHANGED <<page, projectVars, deployVars, newVars, secretVars, hookVars, liveVars>>

Next == ShowProject \/ ShowDeploy \/ ShowNew \/ ShowSecrets \/ ShowWebhooks \/ ShowStreams \/ ShowBuilder

Spec == Init /\ [][Next]_vars

-----------------------------------------------------------------------------
\* See ProjectPage: a save that gets through leaves the project as the form had
\* it, the page converges, and the builder shows the text that Save sends.
PageInStep == page = "project" => Project!PageInStep
\* See DeployDialog: a deploy that the page waits for has still to end, and the
\* page listens to one deploy at a time.
DeployFollowed == page = "deploy" => Deploy!DeployFollowed
\* See NewProject: "Project created" is said of a project with everything in it,
\* and what was typed is not lost without a question.
CreatedOrKept == page = "new" => New!CreatedOrKept
\* See ProjectSecrets: a change of the list changes the secret that was clicked.
SecretsAsAsked == page = "secrets" => Secrets!SecretsAsAsked
\* See ProjectWebhooks: one webhook for a target.
OneHookEach == page = "webhooks" => Webhooks!OneHookEach
\* See LivePages: one connection at most and none after the page was left, a
\* stream that ended is asked for again, and the lines are those of the options.
StreamFollowed == page = "streams" => Streams!StreamFollowed
\* See ComposeEditor: the builder holds only what it has a name for, and loses
\* nothing it understands.
BuilderSound == page = "builder" => Builder!BuilderSound
\* See ComposeEditor: what the builder shows is what Save sends.
VisualIsSaved == page = "builder" => Builder!VisualIsSaved
\* See ComposeEditor: what services refer to follows every edit of the services.
ServicesFollow == [][page = "builder" => Builder!ServicesFollow]_vars

=============================================================================
