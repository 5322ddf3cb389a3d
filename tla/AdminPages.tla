---------------------------- MODULE AdminPages ------------------------------
(***************************************************************************)
(* The pages of an administrator, each with its own state, of which a      *)
(* browser tab shows one: the crontabs, the dialog of a cron job, the      *)
(* pages with a list and a form, users and roles, docker's resources, the  *)
(* files, and the frame around them all with its sign-in.  The page is     *)
(* chosen to begin with and stays.                                         *)
(***************************************************************************)
EXTENDS Naturals, Sequences

CONSTANTS
  Pages,                               \* the pages that are looked at
  CronUsers, Jobs, MaxWrites, MaxEdits,
  Schedules, Presets, MaxAsks,
  MaxThings,
  MaxPerms, MaxFormEdits, MaxRequests,
  MaxDocker, MaxTasks,
  TopFile, SubDir, SubFile, MaxAsked,
  SessUsers,
  None

VARIABLES
  page,
  crontab, cronCache, cronFetch, loadFailed, selectedUser, viewMode, view, dirty, saving, base, gone, edits,
  open, expr, command, schedMode, picker, timer, asks, nextRuns, overtaken,
  kind, things, listed, listFetch, dialogOpen, editTarget, form, submit, deletingId, deletes, unheard,
  accounts, roleTable, lastRole, userRows, roleRows, userFetch, roleFetch, usersInvalid, acctPage, acctForm, requests,
  sent, others, strayed,
  dockKind, host, cache, showAll, hidden, showCreate, draft, creating, deleting, selected, confirmDelete,
  removals, tasks,
  disk, subDir, inSub, rows, rowFetch, editor, loads, save, deleteConfirm, removing, asked, crossed,
  cookie, route, me, meFetch, storeUser, pages, pageFetch, signin, signout, kept, untold

Cron     == INSTANCE CronPage
Job      == INSTANCE CronDialog WITH NoSchedule <- None
Forms    == INSTANCE FormPages WITH FormNone <- None
Accounts == INSTANCE AccountPages WITH AcctNone <- None
Docker   == INSTANCE DockerPages WITH DockNone <- None
Browser  == INSTANCE FilesPage WITH FileNone <- None
Login    == INSTANCE Session WITH NoUser <- None

ASSUME CronAssumption ==
  Jobs # {} /\ None \notin CronUsers /\ None \notin [ver : Nat, jobs : SUBSET Jobs]
ASSUME SessUsersAssumption == None \notin SessUsers
ASSUME FormsAssumption ==
  /\ MaxThings \in Nat \ {0}
  /\ \A S \in SUBSET (1 .. MaxThings) : \A names \in [S -> {"old", "new", "blank"}] : names # None
ASSUME AccountsAssumption ==
  \A S \in SUBSET {"bob", "eve"} :
    None \notin [S -> [disabled : BOOLEAN, roles : SUBSET Nat,
                      custom : Seq([project : {"*", "app"}, actions : SUBSET {"view", "users"}])]]
ASSUME DockerAssumption ==
  /\ MaxDocker \in Nat /\ MaxDocker >= 2
  /\ \A S \in SUBSET (1 .. MaxDocker) : \A list \in [S -> BOOLEAN] : list # None
ASSUME FilesAssumption == None \notin {"text", "edited", "replaced", "torn", "binary"}
ASSUME SchedulesAssumption ==
  Schedules # {} /\ None \notin Job!Exprs /\ Presets \subseteq Job!Exprs

cronVars    == <<crontab, cronCache, cronFetch, loadFailed, selectedUser, viewMode, view, dirty, saving, base,
                 gone, edits>>
jobVars     == <<open, expr, command, schedMode, picker, timer, asks, nextRuns, overtaken>>
formsVars   == <<kind, things, listed, listFetch, dialogOpen, editTarget, form, submit, deletingId,
                 deletes, unheard>>
acctVars    == <<accounts, roleTable, lastRole, userRows, roleRows, userFetch, roleFetch, usersInvalid, acctPage,
                 acctForm, requests, sent, others, strayed>>
dockVars    == <<dockKind, host, cache, showAll, hidden, showCreate, draft, creating, deleting, selected,
                 confirmDelete, removals, tasks>>
fileVars    == <<disk, subDir, inSub, rows, rowFetch, editor, loads, save, deleteConfirm, removing, asked, crossed>>
sessVars    == <<cookie, route, me, meFetch, storeUser, pages, pageFetch, signin, signout, kept, untold>>
vars == <<page, cronVars, jobVars, formsVars, acctVars, dockVars, fileVars, sessVars>>

Init ==
  /\ page \in Pages
  /\ Cron!Init /\ Job!Init /\ Forms!Init /\ Accounts!Init /\ Docker!Init /\ Browser!Init /\ Login!Init
  /\ page # "forms" => kind = "secret"
  /\ page # "docker" => dockKind = "images"
  /\ page # "session" => cookie = None /\ route = "login"

ShowCron ==
  page = "cron" /\ Cron!Next /\ UNCHANGED <<page, jobVars, formsVars, acctVars, dockVars, fileVars, sessVars>>
ShowJob ==
  page = "job" /\ Job!Next /\ UNCHANGED <<page, cronVars, formsVars, acctVars, dockVars, fileVars, sessVars>>
ShowForms ==
  page = "forms" /\ Forms!Next /\ UNCHANGED <<page, cronVars, jobVars, acctVars, dockVars, fileVars, sessVars>>
ShowAccounts ==
  page = "accounts" /\ Accounts!Next /\ UNCHANGED <<page, cronVars, jobVars, formsVars, dockVars, fileVars, sessVars>>
ShowDocker ==
  page = "docker" /\ Docker!Next /\ UNCHANGED <<page, cronVars, jobVars, formsVars, acctVars, fileVars, sessVars>>
ShowBrowser ==
  page = "files" /\ Browser!Next /\ UNCHANGED <<page, cronVars, jobVars, formsVars, acctVars, dockVars, sessVars>>
ShowLogin ==
  page = "session" /\ Login!Next /\ UNCHANGED <<page, cronVars, jobVars, formsVars, acctVars, dockVars, fileVars>>

Next ==
  \/ ShowCron \/ ShowJob \/ ShowForms \/ ShowAccounts
  \/ ShowDocker \/ ShowBrowser \/ ShowLogin

Spec == Init /\ [][Next]_vars

-----------------------------------------------------------------------------
\* See CronPage: a save of a crontab drops no job that was read, and no job of
\* another user reaches it unless its own could not be loaded.
CrontabSafe == page = "cron" => Cron!CrontabSafe
\* See CronDialog: the next runs shown are those of the schedule in the form.
RunsOfSchedule == page = "job" => Job!RunsOfSchedule
\* See FormPages: the list is what the server has once everything is answered.
ListConverges == page = "forms" => Forms!ListConverges
\* See AccountPages: a save of a user's access changes only what was ticked, and
\* the list of users is what the server has once everything is answered.
AccessAsShown == page = "accounts" => Accounts!AccessAsShown
\* See DockerPages: the list is what the host has once everything is answered.
DockerConverges == page = "docker" => Docker!DockerConverges
\* See FilesPage: a text that is not marked "Unsaved" is the one in the file.
UnsavedMarked == page = "files" => Browser!UnsavedMarked
\* See Session: the application is shown exactly to the user of the session, and
\* after a sign-out nothing of the user before is shown.
SessionFollowed == page = "session" => Login!SessionFollowed
\* See AccountPages and DockerPages: custom permissions take no role away, and
\* an image that the page shows in use is never asked to be removed.
NothingElseTaken ==
  [][(page = "accounts" => Accounts!RolesKept) /\ (page = "docker" => Docker!OnlyShownUnused)]_vars

=============================================================================
