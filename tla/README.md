# vps-pilot: TLA+ models, checks and proofs

vps-pilot is a Go server (`internal/`, `cmd/server/`) with a React front end
(`web/src/`) that manages Docker Compose projects on one machine: it keeps
projects, users, secrets and settings in SQLite, mirrors projects to
directories, runs `docker compose` in them, and streams logs and progress to
browsers. This directory holds TLA+ modules that model the core of the server
and the pages of the browser, TLC configurations that check them on small
instances, and TLAPS proofs.

Every definition that models code is listed with its source lines in
`PROJECT.json` under `map`; the hazards of the code, with the properties that
would catch them, under `hazards`.

## 1. Inventory

The server:

| Part | State it keeps | Operations | What is hard |
|---|---|---|---|
| Projects (`docker/compose.go`, `api/jsonapi.go`, `api/projects.go`) | row, extra files and secrets in SQLite; a directory; containers | create, save, delete, deploy, stop, update images with rollback | three copies without a lock per project; dropped errors; crashes in the middle of an update |
| Server log (`logbuffer/`, `wsServerLogs`) | ring, subscribers, one channel each | store, read the tail, subscribe, stream | wrap-around, slow viewers, close racing send |
| Accounts (`api/users.go`, `roles.go`, `setup.go`, `auth/`, `db/users.go`, `db/roles.go`, `install`, `adduser`) | users, roles, links between them, session cookies | login, CRUD of users and roles, first-run setup | handlers of several statements that interleave or stop half way; personal roles found by name and effective by link |
| Image builds (`docker/build.go`, `api/build.go`, `Images.tsx`) | store of builds, bounded channels, the dialog | start, stream, watch, leave | blocking sends, a client that comes late or leaves |
| Settings (`config/`, `config_handler.go`, `reloader.go`) | file, configuration in memory, reloadable components, the metrics recorder | load, save, hot reload, restart | read-modify-write in place without a lock; values adopted but not in force |
| Backup (`backup/`, `api/backup.go`, `db.Open`) | database files, project directories, archives | download, restore, restart | a snapshot followed by slow reads; partial writes |

The browser:

| Part | State it keeps | Operations | What is hard |
|---|---|---|---|
| Compose builder (`components/compose/`, the toggle of `ProjectEditor.tsx`) | the YAML text and the model of the builder | parse, serialise, edit, rename, switch | two copies of one file; forms that do not read back as what was shown |
| Crontabs (`CronJobs.tsx`, `CronEntryDialog.tsx`, `api/cron.go`, `cron/manager.go`) | entries shown, edits, a crontab per user | select, edit, save, check a schedule | read-modify-write of a whole file; answers about an earlier schedule |
| Secrets, registries, channels (`Secrets.tsx`, `Registries.tsx`, `Notifications.tsx`) | a cached list, a form, a question | create, edit, delete, refetch | fetches that overtake changes |
| Users and roles (`Users.tsx`, `Roles.tsx`) | two cached lists, one dialog | create, edit access, disable, delete | dialogs filled from old rows, two requests in flight |
| Docker resources (`Images.tsx`, `Containers.tsx`, `Networks.tsx`, `Volumes.tsx`) | a cached list, ticks, a question | create, remove one or many, filter | batches that fail half way, resources put in use meanwhile |
| Files (`Files.tsx`, `files/browser.go`) | a listing, one editor | list, open, save, delete | late answers to another file |
| Session (`App.tsx`, `AppLayout.tsx`, `Login.tsx`, `useAuth.ts`) | cookie, query `["me"]`, auth store, cache | guard, sign in, sign out | a cookie that changes elsewhere, answers for the previous user |
| Project page (`ProjectDetail.tsx`) | form, cached project, mode, sockets of deploys, secrets, webhooks | edit, save, cancel, deploy, update, stop, delete, attach, create hooks | saves of several requests, close events of earlier sockets, whole lists sent from a cache |
| New project (`ProjectEditor.tsx`) | draft, marks, a save | type, upload, save, leave | a save of several requests that fails in the middle |
| Live panes (`useWebSocket.ts`, `Logs.tsx`, `ProjectLogs.tsx`, `Events.tsx`) | lines, options, one socket and one timer per run of the effect | connect, reconnect, change options, leave | stale sockets and timers |

Listed in `PROJECT.json` but not modelled: the hub of metrics, audit log, update
check, router, dashboard and settings pages.

How the parts interact: handlers share one SQLite connection
(`SetMaxOpenConns(1)`), so a statement or a transaction is atomic and handlers
are not; project handlers, webhooks and the deploy socket meet in the project
directory and in docker; the settings page reaches the log handler, the login
handler, the docker manager, the file browser and the metrics recorder through
`Reloader.Apply`; the backup reads what the project handlers write; the log ring
is fed by every component through `slog`. A page reaches the server by requests
whose answers may come in any order, by queries that react-query caches and
fetches again after a change, and by sockets.

What makes each part correct: a project's row, directory and containers agree
unless something failed, and a rollback restores them; the tail of the log is
exact and viewers get lines in order; grants never dangle and a server keeps an
administrator; what the build dialog shows happened; settings are in force or
listed for a restart and the file always loads; a backup is what the server has
and no partial database is ever put in place; a page ends up showing what the
server has, sends what its user sees, and never drops or removes anything else.

## 2. Modules

| Module | Models |
|---|---|
| `ProjectStore`, `MCProjectStore` | one project: row, files and secrets rows, directory, containers, and the requests in flight on it |
| `LogTail` | abstract: the last `Size` lines that were logged |
| `LogBuffer` | the ring, subscribers and viewers; implements `LogTail` |
| `Accounts`, `MCAccounts` | users, roles, sessions, setup, installer, `adduser` |
| `BuildStream` | build goroutine, channel, stream handler, dialog |
| `Settings`, `MCSettings` | configuration file, memory, components, overlapping saves |
| `Backup`, `MCBackup` | export, import, restarts, projects that change meanwhile |
| `ComposeFile` | `serializer.ts`: a compose file, the builder's model of it, and the way there and back |
| `ComposeEditor` | the builder, the YAML text and the toggle between them |
| `CronPage`, `CronDialog` | the page of crontabs with another editor; the dialog of an entry |
| `FormPages` | the pages with a list, a form and a deletion: secrets, registries, channels |
| `AccountPages` | users and roles in the browser, against handlers that answer in any order |
| `DockerPages` | containers, images, networks, volumes |
| `FilesPage` | the file browser with its editor |
| `Session` | cookie, guards, sign-in and sign-out, cache |
| `ProjectPage`, `DeployDialog`, `ProjectSecrets`, `ProjectWebhooks` | the parts of the project page |
| `NewProject` | the page that creates a project |
| `LivePages` | the reconnecting socket and the panes over it |
| `AdminPages`, `ProjectPages` | a tab that shows one of these pages, the editor of a compose file among them; the modules the runs check |
| `ProjectStoreProofs`, `LogBufferProofs`, `AccountsProofs`, `BuildStreamProofs`, `SettingsProofs`, `BackupProofs`, `AdminPagesProofs`, `ProjectPagesProofs` | inductive invariants and theorems |

How state and actions correspond to code:

* **ProjectStore.** A request is a handler between two of its database
  statements, file writes or docker commands. `CreateProject`, `UpdateProject`
  and `UpsertProjectFile` write a row and then take the steps of `SyncProject`
  (`GetProject` … `SyncFiles`); `DeleteProject`, `Destroy`, `DeleteProjectFiles`
  are `deleteProject`; `PullNewImages` … `RollbackRecord` are
  `PullNewImagesStream` and `performRollback`. Which failures may happen is the
  constant `Faults`. The data source name of `db.Open` asks for foreign keys in
  a syntax that belongs to another driver, so whether cascades are enforced is
  the constant `ForeignKeys` and both values are checked. `clean` and `dirty`
  are history variables: they say whether a request ran alone without a failure
  and whether something happened that no clean save has repaired.
* **LogBuffer.** Each action is a critical section of `RingBuffer.mu` or a write
  to a socket. Line number n is the n-th line logged.
* **Accounts.** A request is a handler between two statements, the middleware
  included. `personal` and `linked` separate the two ways a personal role is
  looked up. `CutShort` ends a handler anywhere (a failing statement, the end
  of the process).
* **BuildStream.** `job` is the goroutine of `apiBuildImage`, `conn` the socket
  of `wsBuildStream`, `dialog` the React state of `BuildImageDialog`.
* **Settings.** A save is `updateConfig` cut at the points another save can see:
  read, truncate, write, load, the steps of `Apply`, adopting the new values.
  Interval and retention of the metrics are the one setting `metrics`, the two
  TLS files the one setting `tls`, as in the code's comparisons. The secret
  comes from the file, not from the environment.
* **Backup.** Row and directory of a project are one value here, because
  `ProjectStore` already covers how they are kept together.
* **ComposeFile, ComposeEditor.** A file gives every key of a service one of a
  few forms (a string, a number, a list, a map, the forms the parser does not
  know); `Parse…` and `Serialize…` say per kind of key what `serializer.ts` makes
  of it. An edit of the builder replaces one key by another value of the model.
  `ToObject` is the JavaScript object that dependencies are written to: a key is
  where it was first set and has the value that was set last.
* **The pages.** The variables are the `useState`s of the component, the data of
  its queries, the requests in flight and the part of the server they change. An
  answer is an action, so it comes at any time and, where the code allows
  several requests, in any order. `invalidateQueries` fetches what is shown and
  marks what is not; a fetch carries what the server had when it was sent. Other
  users, tabs and editors are actions (`OtherEditor`, `CookieChanges` …). History
  variables (`gone`, `overtaken`, `late`, `kept`, `raced` …) record that one of
  the code's known races happened, so that the properties can say that nothing
  else goes wrong.
  A batch of removals is the set of what is left of it: the properties do not
  depend on the order in which docker is asked. Roles are numbers that are never
  given out twice, as `roles.id` is `AUTOINCREMENT`: with names instead, a role
  that is deleted and made again would be taken for the old one, and the list of
  users would not converge.
* **AdminPages, ProjectPages.** A tab shows one page at a time and pages share
  only the cache, whose clearing is in `Session`: the roots choose a page in the
  initial state and leave the variables of the others alone. They compose the
  modules in one run; interactions between pages are inside the modules.

## 3. Runs

| Run | Instance | Shows |
|---|---|---|
| `project_faults` | 1 request, 2 compose contents, every fault, no foreign keys | the copies agree unless something failed, a clean save repairs them, a rollback is complete |
| `project_overlap` | 2 requests, an extra file, foreign keys, docker failures, crashes | deleted rows stay deleted and leave no orphans, updates keep variables, copies drift only under an overlap or failure |
| `log_buffer` | ring of 3, channel of 2, 2 viewers, 5 lines | exact tail, order, no send on a closed channel, no silent gap, refinement of `LogTail` |
| `accounts_alone` | 2 names (one a Linux user), 1 custom role, 1 request | grants live, an administrator remains, only administrators promote, permissions take effect |
| `accounts_overlap` | 2 names, 3 ids, 2 requests, the admin role | roles reach the user they were decided for, no grant outlives its user |
| `build_dialog` | 2 builds of up to 3 lines, channel of 1 | the dialog is truthful, watched builds and streams end, a dialog is told how a started build ended |
| `settings` | a reloadable, a restart-only and the metrics setting, 2 saves | components follow, the file loads, changes are applied or listed, recording never stops |
| `backup_cycle` | 2 projects | archives faithful, restores complete, no partial database |
| `compose_editor` | `ProjectPages` showing the editor of a compose file; 2 services, 17 kinds of key, up to 3 entries, 2 dependencies | what the builder writes reads back, what is saved is what is shown, dependencies and volumes follow |
| `admin_pages` | 2 crontab users, 1 job, 3 schedules and 2 specials, 2 things per list, 3 docker resources, 3 paths, 2 users | one property per page, below |
| `project_pages` | 1 extra file, 3 deploys, 2 secrets, 2 services, 2 runs of the socket's effect | one property per page, below |
| `backup_restart` | 2 projects | **violation**: the restored database is not the one that is opened at the next start |

The properties of the pages:

| Property | Says |
|---|---|
| `CrontabSafe` | a save drops no entry its view had read unless it was edited away there or the crontab was written since, and it writes one user's entries for another only after the other's crontab could not be loaded |
| `RunsOfSchedule` | the next runs that are shown are those of the schedule in the form, unless answers overtook each other |
| `ListConverges` | when nothing is in flight and no answer was lost, a list is what the server has |
| `AccessAsShown` | a save changes only what was ticked, while the row is the one that was listed, and the list of users converges |
| `NothingElseTaken` | custom permissions take no roles away, and a batch asks only for images that are listed as unused |
| `DockerConverges` | the four lists converge, except for changes made elsewhere or answered with a failure since the last fetch |
| `UnsavedMarked` | text that is not marked is the one in the file, unless it was typed during a save, a failed request did its work, or the directory went |
| `SessionFollowed` | the application is shown exactly to the user of the cookie, and nothing outlives a sign-out |
| `PageInStep` | a save that got through after failed ones is complete, the page converges, and the builder is on the text that is saved |
| `DeployFollowed` | a page that waits has a socket that will end, and one deploy at a time unless a late close event hid one |
| `CreatedOrKept` | "Project created" is said of a whole project, and typed text is not lost without a question |
| `SecretsAsAsked` | a change of the attached secrets changes the one that was clicked, unless it raced another |
| `OneHookEach` | a target has one webhook, unless Create was clicked before the list arrived |
| `StreamFollowed` | one connection at most, none after the page is left, a lost one comes back, lines are those of the options |

Several invariants of one component are one conjunction in its run
(`StoreSound`, `RingSound`, `GrantsSound`, `DialogSound`, `SettingsSound`,
`BuilderSound`); the parts are named in the module and TLC's trace says which
one fails.

**Bounds.** Two requests give every pairwise interleaving of handlers that
share no further state; a third adds only more of the same overlap, which
`dirty`, `disturbed` and `overlapped` already record, and the theorems of
section 5 hold for any number. Two compose contents are the old and
the updated one. A ring of 3 with 5 lines wraps and is read at every position of
the head. A channel of 1 for 3 lines plus the closing event fills up and empties again. `MaxId` 3
lets a user be deleted and two others be created; `MaxGen` 3 lets each of two
saves start a recorder after a boot. In the pages two things are one that is
changed and one that must not be (of crontab jobs one is enough: it is there or
not, per user); two answers in flight are the least that can
overtake each other; three sockets are a stale one, the current one and the one
after, and two runs of the hook's effect a stale and a current one; three docker resources are one in use, one unused
and one that changes; one or two changes by others are enough to make every
cached value stale. After the last request, write or save of a bound nothing is
opened that could only lead to another one. Named bounds: `MaxLines`, `MaxId`, `MaxGen`, `MaxEntries`,
`MaxItems`, `MaxDeps`, `MaxWrites`, `MaxEdits`, `MaxAsks`, `MaxThings`,
`MaxPerms`, `MaxFormEdits`, `MaxRequests`, `MaxDocker`, `MaxTasks`,
`MaxAsked`, `MaxForeign`, `MaxSockets`, `MaxFiles`, `MaxSaves`, `MaxSets`,
`MaxHooks`, `MaxEffects`.

**Deadlock** is switched off where a bound ends the behaviour (all lines logged,
all ids, recorders or changes used, all builds done), not where the system could
hang.

**Symmetry** is used for the requests, in `Accounts` for the names when no name
is a Linux user, in `Backup` for the projects and in `compose_editor` for the
names of services; the properties of those runs are safety properties.

**Fairness** is stated only in `BuildStream`: goroutines that can run do
(`Server`, `Job`: Go schedules them, and docker is taken to make progress) and
the answer to the POST arrives or is lost (`Answer`). Nothing is assumed of the
user or of the network. The convergence properties of the pages need none: they
say what is shown once nothing is in flight.

## 4. Behaviours of the code the models show

Most properties are weaker than one would like, because the code takes no locks
and the pages do not look whose answer arrives: they say what holds when nothing
overlapped or failed, and the history variables keep that honest. What the
models do, because the code does:

Server

* a failed `docker compose pull` is not rolled back (`docker/compose.go:938`
  against the comment at `api/ws.go:205`);
* overlapping saves of the settings can erase the cookie secret from the file
  (`config_handler.go:101`, `:208` against the comment at `:163`);
* secrets attached after the last save do not reach a deploy: `.env` is written
  only by `SyncProject` (`db/secrets.go:21` against `docker/compose.go:406`);
* `vps-pilot adduser` on an empty database closes the setup page and makes no
  administrator (`web/src/pages/Setup.tsx:28` against `cmd/server/main.go:318`);
* the list of users shows custom permissions by name, also when the link that
  puts them in force is gone (`db/roles.go:168`);
* a build that docker refuses sends no event, so its dialog waits
  (`api/build.go:81` against `docker/build.go:53-92`), and a build leaves the
  store as soon as it is over (`api/build.go:23` against `:75`);
* a pending restart is listed by the save that causes it and by no later one
  (`api/reloader.go:33` against `api/config_handler.go:237`);
* the documented log sink `db` is none that the handler knows
  (`config/config.go:272` against `logbuffer/handler.go:80`);
* "Cancel update" closes the socket of a deploy and the server goes on.

Compose builder

* keys, options and forms the builder does not know are dropped when it writes
  the file: `env_file`, `dns` and `tmpfs` given as one string, numbers where
  strings are expected, volume options other than `ro`, `host_ip` and `mode` of a
  port, `deploy` other than limits, `logging` without a driver, a disabled
  health check;
* a text that is not YAML shows an empty builder, and switching back replaces it;
* a list command with blanks is split again, a health check `CMD` becomes
  `CMD-SHELL`, a variable without a value becomes an empty one;
* renaming a variable onto another destroys that one; removing a service leaves
  the dependencies on it; a path that starts with `~` or `${` is taken for a
  named volume.

Pages

* crontabs: an entry added elsewhere since the page was read is dropped by a
  save; when a crontab cannot be loaded the entries of the user before stay and
  can be saved for the other user; "Custom" after a special schedule has no fields;
* files: text typed during a save is marked as saved, and opening another file
  replaces unsaved text;
* session: when it ends by itself, in another tab, or because the server cannot
  be reached, the cache is not emptied and the next user sees it; a sign-in
  during an older question shows the login page again;
* docker: a batch that fails leaves removed resources listed until the next
  fetch; a late success closes the question about another resource;
* new project: a failure after the project was made lets every retry fail, and
  name, variables and added files carry no mark;
* project page: edits made during a save are dropped; a late close event hides a
  running deploy; two clicks on Create make two webhooks of which one is hidden;
* live panes: a reconnect replays lines, a journal filter keeps the old ones, and
  without "follow" the pane reconnects for ever.

## 5. Proofs

The theorems are about the specifications the runs check, for every value of the
constants that satisfies the named `ASSUME`s. Every safety property of the
passing runs, invariant or action property, is proved.

`ProjectStoreProofs`, for every set of requests, contents, files, secrets and
faults:

* `Invariance`: the inductive invariant `IInv` (end of `ProjectStore`). Type
  correctness alone says nothing about a request in the middle of its steps, so
  `IInv` adds who is alone (`CleanAlone`), what a request holds (`Loaded`), what
  a clean request has achieved at each program counter even on a project that
  was in disorder (`CleanProgress`), and where a request on a project in order
  stands (`OrderProgress`). The step lemmas go by the bookkeeping operators
  (`Arrive`, `Goto`, `Finish` …) first and then action by action.
* `StoreStaysSound` follows from it; `RollbackIsComplete`,
  `DeletedRowStaysDeleted`, `EnvOnlyEdited` are action properties: under the
  invariant, or from the list of actions that write the row.

`LogBufferProofs`, for every ring size, channel capacity, set of viewers and
bound on the lines:

* `RingInvariance`: `TypeOK` does not say which slot holds which line, so the
  invariant adds `RingInv` (the i-th slot before `head` holds the i-th newest
  line, and `count` is the number of lines up to the size) and `ChannelInv` (a
  registered channel belongs to a handler that has not unsubscribed it).
  `ModOnce` and `ModTwice` turn the code's two modulo expressions into `Wrap`,
  with which the provers can calculate; `StorePreservesRing` is the step that
  matters, because it shifts every index.
* `OrderInvariance`: for the order of lines at a viewer `OrderInv` adds that what
  waits for it ascends (`Ascends`), ends with the newest line it was offered
  (`Newest`) and lies after the line it was handed last (`InStep`).
* `RingStaysSound` and `NoLineSkipped` follow; `RingImplementsTail` shows that
  the window `Lines(Size)` starts empty, that a store is a `Log` step of
  `LogTail` and that everything else is a stutter.

`SettingsProofs`, for every set of settings, values, environment overrides and
saves in flight: `ComponentsStayInStep` (`SettingsSound`), `ServerCanRestart`
(`CanRestart`), `RecordingGoesOn` (`RecorderAlive`) and
`ChangesAreAppliedOrListed` (`AppliedOrListed`). Neither of the first two is
inductive: they speak of the moments between saves. `IInv` adds that without an
overlap one save is under way at most (`Alone`); that during a write the file is
empty and what will be written loads (`FileInv`); that components use the
setting in memory up to `Apply` and that of the save after it (`LiveInv`); that
the recorder does too and is missing only at `start` (`RecorderInv`); and that
a setting of the metrics that was loaded can be recorded (`LoadedMetrics`).
`RecorderAlive` needs no such exception: it holds for saves that overlap.

`BackupProofs`, for every set of projects and contents: `DatabaseStaysWhole`,
`ArchivesAreFaithful` and `RestoresAreComplete`. The properties speak of the end
of a download or restore; the invariant says how far one has come: what a calm
download has passed is as it was read (`ExportSoFar`), the temporary file about
to be renamed is the archive's database (`TmpIsWhole`), every project of the
archive is written or still to be written (`ImportSoFar`), and of two that
overlap neither is calm (`OneOfTwo`).

`AccountsProofs`, for every set of names, roles, actions and requests in flight,
any of which may be cut short: `AccountsSound` (`GrantsSound`), `AccountsFollow`
(`GrantsFollow`), `AdministratorLeft` (`AdminRemains`), `AdministratorsPromote`
(`OnlyAdminsPromote`), `PermissionsInForce` (`PermissionsTakeEffect`). Links that
lead to live users are inductive only with `FreshIds` (no id above the last one
is in use). That roles reach the user they were decided for needs `AimKept`: the
id a request chose is given to no other name, whatever happens between its
statements. The properties of requests that do not overlap need `Alone`: one
request is under way, and what it checked before (the actor is an administrator,
the target is another account, the server has no administrator during the setup)
still holds at its last statement. One lemma per statement says what it does to
the tables; the handlers are then put together from these.

`BuildStreamProofs`, for any number of builds, lines and places in the channel:
`BuildDialogSound` (`DialogSound`). `QueueInv` says which event is at which
place: what waits in the channel are the events after those that were taken.
`UpToDate` ties the dialog to it: as long as its stream is open it has shown
exactly the events that were taken.

`AdminPagesProofs` and `ProjectPagesProofs`: a step of the root is a step of the
page that is shown and leaves the others alone, so the invariant of each page has
the form "when this page is shown, ...". What the invariants add to the
properties, which speak of moments when nothing is in flight:

| Theorem (property) | Inductive invariant |
|---|---|
| `RunsAreOfSchedule` (`RunsOfSchedule`) | the schedule in the form waits, is the last one asked about, or its runs are shown (`JobCheckInv`) |
| `SessionIsFollowed` (`SessionFollowed`) | what a question in flight will answer (`SessCookieInv`), a fetch is under way until the guard agrees with the answer (`SessGuardInv`), what is in the cache or on its way there belongs to the user of the cookie (`SessCacheInv`) |
| `ListsConverge` (`ListConverges`) | the server's list is on the page or on its way (`FormListInv`) |
| `DockerListsConverge` (`DockerConverges`) | of both lists, shown or hidden: it is what docker has, is on its way, is marked or missing (`DockListsInv`); the one on the screen is neither marked nor missing (`DockShownInv`) |
| `UnsavedIsMarked` (`UnsavedMarked`) | the original text of the editor is the one in the file and a save under way sends what the editor holds (`FileOpenInv`) |
| `CrontabsAreSafe` (`CrontabSafe`) | every copy of a crontab is of the version it names (`CronCopiesInv`), a view is its base with the edits made on it (`CronViewInv`), a save is of its view (`CronSaveInv`), and views belong to the selected user but for a load that failed or is under way (`CronSelectedInv`) |
| `AccessIsAsShown` (`AccessAsShown`) | rows and fetches agree with the server but for roles that are gone (`AcctListInv`), no role above the last id is mentioned (`AcctRolesInv`), and form and requests differ from their row only in what was ticked (`AcctFormInv`, `AcctReqInv`) |
| `NothingElseIsTaken` (`NothingElseTaken`) | an action property, from the two invariants before |
| `DeployIsFollowed` (`DeployFollowed`) | unless a close event hid a deploy, the only one that reports is the latest and the page says so (`DeployOnlyLatest`) |
| `OneHookForTarget` (`OneHookEach`) | the list on the page or on its way has every webhook there is (`HookListInv`), and a target for which one is being created has none (`HookNewInv`) |
| `SecretsAreAsAsked` (`SecretsAsAsked`) | without a race at most one list is being sent, the one that was asked for (`SecListInv`) |
| `PageIsInStep` (`PageInStep`) | unless somebody else wrote, every file of the project is as it was loaded or as the form has it (`PageOriginInv`), where the project differs from the form of a clean save a request is still to do (`PageTodoInv`, `PageSaveInv`), the project is on the page or on its way (`PageFetchInv`), and the builder stands for the text of the form (`PageBuilderInv`) |
| `NewProjectIsKept` (`CreatedOrKept`) | once the first request is answered the project is there with the text and variables of the form (`NewTodoInv`, `NewCreatedInv`), a file is sent for the second time when all before it were (`NewOrderInv`), so of the files with one name the server has the last that was sent (`NewFilesInv`); text that was typed is marked, and the page is not left with marks unasked (`NewMarkedInv`), and after "Project created" nothing is sent (`NewWholeInv`) |
| `StreamsAreFollowed` (`StreamFollowed`) | a run of the effect that is over is dead and has neither a socket that can speak nor a timer (`LiveRunsInv`); the latest is of the options of the page, and the page says how it stands (`LiveLatestInv`) |

The compose editor is a page of `ProjectPages` too, and the longest proof. Its
theorems hold for every set of keys and service names and every bound; the
values of a key are the alternatives `ComposeFile` tells apart, in rows of any
number and maps over any of the names.

* `BuilderIsSound` (`BuilderSound`) and `WhatIsShownIsSaved` (`VisualIsSaved`).
  The properties speak of a model and a text that came about in many ways. The
  invariant `CfIInv` says how they hang together: while the builder is shown,
  either it is what `parseCompose` makes of the text (it was just opened), or
  the text is what `serializeCompose` makes of it (it was edited). With the
  types, which every edit must keep (`CfKeyEdits`, `CfSamples`, one case per
  kind of key), each half gives one direction of the round trip.
* That trip is proved per kind of key: what is parsed is a value of the builder
  (`CfReads`), what is written is text (`CfWrites`), a supported form keeps its
  meaning (`CfKeeps`) and a complete value reads back as what the field shows
  (`CfShows`); `CfKeySound` is the four together, `CfBody` and `CfFile` lift them
  to a service and to the file.
* The hard kind is `depends_on`, which may hold a service twice and is then
  written to an object. `CfEnumerated` shows that the places where services come
  first can be listed in ascending order, by taking the shortest prefix for which
  that fails (`WFMin` of `WellFoundedInduction` has no operator as a parameter,
  so it can be used where the induction theorems cannot). `CfOnceObject` follows:
  rows that name each service once are written as they are.
* `ServicesAreFollowed` (`ServicesFollow`) is an action property: `CfDepsRead`,
  `CfDepsNamed`, `CfDepsAdded` and `CfDepsKey` say for opening the builder,
  renaming, adding and editing that dependencies stay sound, and volumes follow
  from what `syncTopLevelVolumes` keeps.

For these proofs `BuilderSound` was made stronger: the types of `ComposeEditor`
used to say which keys the builder holds and now say which values. The
proofs about `depends_on` also showed that the model listed the keys of the
written object in another order than the source, which is corrected.

Two of the invariants in the table are not inductive over what an earlier version of the
modules said, and the modules were made more precise: roles needed ids, and a
hidden list of docker resources that is being fetched when something changes is
now kept apart from one that is fetched afterwards. For the proofs of the saves
requests are a set with the rule that says which is sent next, and the lines that
`clearLogs` leaves are given by their places: sequences built by folding or
filtering are known only by induction over data. In `ProjectPage` the files of
one loop have no order: the requests of a loop are about different files, so the
order changes nothing but which of them are done when one fails, and all cases of
that are kept. In `NewProject`, where two files may have one name, they have one.
The proof of `CreatedOrKept` also showed that an exception it made for text typed
while a save was in flight was not needed, and the exception is gone.

Assumptions are the named `ASSUME`s of the modules, which TLC evaluates in the
runs: the value that stands for "nothing" differs from the real values, sizes are
positive, docker has a container in use and one that is not at the start
(`DockerAssumption`), the presets of a schedule are schedules
(`SchedulesAssumption`), there is a compose text (`ComposesAssumption`), "null" is no key of a service
(`KeysAssumption`), a key that is absent has none of the values of a key
(`ValuesAssumption`), and the bounds the proofs use are natural numbers.

Only model-checked: the liveness properties `WatchedEnds` and `DialogIsTold`,
because the prover reaches neither fairness nor ENABLED. What `RestartCompletesRestore`
says is false of the code (the run `backup_restart`).

## 6. Not modelled, and the plan

Not modelled: pure I/O (metrics collection, registry HTTP, mail), one-call
wrappers of the docker client, static files, the text of files and messages,
passwords, cookies and encryption (libraries); the hub, whose every message
replaces the last; version tags and the textual rewriting of a compose file,
whose outcome `ProjectStore` takes as an input; the round trip of a crontab
through text; dashboard, system, settings, backup, audit and setup pages, which
show one query or send one request; the widget library. See `components`.

Next, in this order:

1. `PullServiceStream` and per-service containers in `ProjectStore`.
2. Version comparison and `UpdateServiceImages` as operators against reference
   definitions, then used for `ProjectStore`'s `Newer`.
