------------------------------ MODULE CronPage ------------------------------
(***************************************************************************)
(* The cron page (CronJobs) of one browser tab: the crontab of a system    *)
(* user is fetched, edited as rows ("visual") or as text ("raw"), and put  *)
(* back as a whole.  Somebody else may write the same crontab meanwhile.   *)
(*                                                                         *)
(* A crontab is the set of its jobs.  Whether a job is commented out, the   *)
(* layout of its line and the lines that are no jobs are left out.         *)
(***************************************************************************)
EXTENDS Naturals, Functions

CONSTANTS
  CronUsers,   \* system users with a crontab
  Jobs,        \* job lines
  MaxWrites,   \* bound: writes of crontabs
  MaxEdits,    \* bound: edits between two loads
  None

VARIABLES
  crontab,      \* per user: the crontab on the machine and its version
  cronCache,    \* per user: the copy of the query cache, or None
  cronFetch,    \* per user: the copy an unanswered fetch will bring, or None
  loadFailed,   \* the users whose crontab could not be loaded when there was no copy of it
  selectedUser,
  viewMode,     \* "visual" or "raw"
  view,         \* per mode: entries and rawContent
  dirty,
  saving,       \* the save in flight, or None
  base,         \* per mode: the user and version the content was loaded as
  gone,         \* per mode: the jobs edited away since the load
  edits

vars == <<crontab, cronCache, cronFetch, loadFailed, selectedUser, viewMode, view, dirty, saving, base, gone, edits>>

Modes == {"visual", "raw"}

Init ==
  /\ crontab = [u \in CronUsers |-> [ver |-> 0, jobs |-> {CHOOSE j \in Jobs : TRUE}]]
  /\ cronCache = [u \in CronUsers |-> None] /\ cronFetch = [u \in CronUsers |-> None]
  /\ loadFailed = {} /\ selectedUser = None
  /\ viewMode = "visual" /\ view = [m \in Modes |-> {}]
  /\ dirty = FALSE /\ saving = None
  /\ base = [m \in Modes |-> [user |-> None, ver |-> 0]] /\ gone = [m \in Modes |-> {}]
  /\ edits = 0

-----------------------------------------------------------------------------
(***************************************************************************)
(* Loading.                                                                *)
(***************************************************************************)
server == <<crontab, loadFailed>>
editor == <<viewMode, view, dirty, base, gone, edits, saving>>

\* A save in flight no longer tells what the editors hold.
Overtaken == IF saving = None THEN None ELSE [saving EXCEPT !.kept = FALSE]

\* Mutant: a copy that arrives does not disturb unsaved edits.
ShowCrontab_KeepEdits(u, copy) ==
  /\ view'  = IF dirty THEN view ELSE [m \in Modes |-> copy.jobs]
  /\ dirty' = dirty
  /\ base'  = [m \in Modes |-> [user |-> u, ver |-> copy.ver]]
  /\ gone'  = [m \in Modes |-> {}]
  /\ edits' = 0
  /\ saving' = Overtaken

\* The effect on new data: it takes the place of what the editors hold.
ShowCrontab(u, copy) ==
  /\ view'  = [m \in Modes |-> copy.jobs]
  /\ dirty' = FALSE
  /\ base'  = [m \in Modes |-> [user |-> u, ver |-> copy.ver]]
  /\ gone'  = [m \in Modes |-> {}]
  /\ edits' = 0
  /\ saving' = Overtaken

\* The crontab of u is asked for; the answer is what the machine has now.
Ask(u) == cronFetch' = [cronFetch EXCEPT ![u] = crontab[u]]

\* The list of users arrives and root, or the first, is selected.
LoadUsers ==
  /\ selectedUser = None
  /\ \E u \in CronUsers : ("root" \in CronUsers => u = "root") /\ selectedUser' = u /\ Ask(u)
  /\ UNCHANGED <<server, cronCache, editor>>

\* The user of the menu.  A copy that is younger than 30 s is not fetched again.
SelectUser(u) ==
  /\ selectedUser # None
  /\ selectedUser' = u
  /\ \/ Ask(u) /\ cronFetch[u] = None
     \/ (cronCache[u] # None \/ cronFetch[u] # None) /\ UNCHANGED cronFetch
  /\ IF u # selectedUser /\ cronCache[u] # None
     THEN ShowCrontab(u, cronCache[u]) /\ UNCHANGED viewMode
     ELSE dirty' = FALSE /\ UNCHANGED <<viewMode, view, base, gone, edits, saving>>
  /\ UNCHANGED <<server, cronCache>>

\* The window gets the focus again.
Focus ==
  /\ selectedUser # None /\ cronFetch[selectedUser] = None
  /\ Ask(selectedUser)
  /\ UNCHANGED <<server, cronCache, selectedUser, editor>>

\* Data that equals the cached data is no new data; the next run of a job,
\* which the page shows, makes it new whenever one has passed.
CrontabArrives(u) ==
  LET copy == cronFetch[u]
  IN  /\ copy # None
      /\ cronFetch' = [cronFetch EXCEPT ![u] = None]
      /\ cronCache' = [cronCache EXCEPT ![u] = copy]
      /\ \/ u = selectedUser /\ ShowCrontab(u, copy) /\ UNCHANGED viewMode
         \/ u = selectedUser /\ cronCache[u] # None /\ cronCache[u].jobs = copy.jobs /\ UNCHANGED editor
         \/ u # selectedUser /\ UNCHANGED editor
      /\ UNCHANGED <<server, selectedUser>>

\* Without a copy the editors stay as they were, under the new name.
CrontabFails(u) ==
  /\ cronFetch[u] # None
  /\ cronFetch' = [cronFetch EXCEPT ![u] = None]
  /\ loadFailed' = IF cronCache[u] = None THEN loadFailed \union {u} ELSE loadFailed
  /\ UNCHANGED <<crontab, cronCache, selectedUser, editor>>

-----------------------------------------------------------------------------
(***************************************************************************)
(* Editing.                                                                *)
(***************************************************************************)

isLoading == cronCache[selectedUser] = None /\ cronFetch[selectedUser] # None
Editing(mode) == selectedUser # None /\ ~isLoading /\ viewMode = mode /\ edits < MaxEdits

SetView(mode, jobs) ==
  /\ view' = [view EXCEPT ![mode] = jobs]
  /\ gone' = [gone EXCEPT ![mode] = (@ \union view[mode]) \ jobs]
  /\ dirty' = TRUE /\ edits' = edits + 1
  /\ UNCHANGED <<server, cronCache, cronFetch, selectedUser, viewMode, saving, base>>

\* The dialog of a row: j becomes k.  A row that a load has removed meanwhile is
\* not found, and the edit is dropped.
handleEntryDialogSave(j, k) ==
  /\ Editing("visual")
  /\ SetView("visual", IF j \in view["visual"] THEN (view["visual"] \ {j}) \union {k} ELSE view["visual"])

\* "Add cron job".
AddEntry(k) == Editing("visual") /\ SetView("visual", view["visual"] \union {k})

\* A job is commented out, or in again.
handleToggle(j) == Editing("visual") /\ SetView("visual", view["visual"])

\* The confirmed deletion of a row.
handleDelete(j) == Editing("visual") /\ SetView("visual", view["visual"] \ {j})

\* A row with its switch and its buttons; the dialog and the question of the
\* last two may outlive the row.
CronJobRow(j) ==
  \/ j \in view["visual"] /\ handleToggle(j)
  \/ handleDelete(j)
  \/ \E k \in Jobs : handleEntryDialogSave(j, k)

\* The text editor.
TypeRaw(text) == Editing("raw") /\ SetView("raw", text)

\* The other view, which shows what it held before.
SetViewMode(mode) ==
  /\ selectedUser # None /\ viewMode # mode
  /\ viewMode' = mode
  /\ UNCHANGED <<server, cronCache, cronFetch, selectedUser, view, dirty, saving, base, gone, edits>>

-----------------------------------------------------------------------------
(***************************************************************************)
(* Saving.                                                                 *)
(***************************************************************************)
\* Save sends the view that is shown.
handleSave ==
  /\ selectedUser # None /\ dirty /\ saving = None
  /\ saving' = [user |-> selectedUser, mode |-> viewMode, jobs |-> view[viewMode],
                base |-> base[viewMode], gone |-> gone[viewMode], kept |-> TRUE]
  /\ UNCHANGED <<server, cronCache, cronFetch, selectedUser, viewMode, view, dirty, base, gone, edits>>

WriteCrontab(u, jobs) ==
  /\ FoldFunction(+, 0, [v \in CronUsers |-> crontab[v].ver]) < MaxWrites
  /\ crontab' = [crontab EXCEPT ![u] = [ver |-> @.ver + 1, jobs |-> jobs]]

\* The crontab is replaced and the answer arrives.  Nothing is fetched again.
SaveSucceeds ==
  /\ saving # None
  /\ WriteCrontab(saving.user, saving.jobs)
  /\ saving' = None /\ dirty' = FALSE
  /\ base' = IF saving.kept /\ saving.base.user = saving.user
             THEN [base EXCEPT ![saving.mode].ver = crontab[saving.user].ver + 1] ELSE base
  /\ UNCHANGED <<loadFailed, cronCache, cronFetch, selectedUser, viewMode, view, gone, edits>>

\* The write fails, or it succeeds and its answer is lost.
SaveFails ==
  /\ saving # None
  /\ saving' = None
  /\ UNCHANGED crontab \/ WriteCrontab(saving.user, saving.jobs)
  /\ UNCHANGED <<loadFailed, cronCache, cronFetch, selectedUser, viewMode, view, dirty, base, gone, edits>>

\* crontab -e, or another tab.
OtherEditor(u, jobs) ==
  /\ WriteCrontab(u, jobs)
  /\ UNCHANGED <<loadFailed, cronCache, cronFetch, selectedUser, editor>>

Next ==
  \/ LoadUsers \/ Focus \/ handleSave \/ SaveSucceeds \/ SaveFails
  \/ \E u \in CronUsers : SelectUser(u) \/ CrontabArrives(u) \/ CrontabFails(u)
  \/ \E j \in Jobs : CronJobRow(j) \/ AddEntry(j)
  \/ \E j \in Jobs : TypeRaw(view["raw"] \union {j}) \/ TypeRaw(view["raw"] \ {j})
  \/ \E m \in Modes : SetViewMode(m)
  \/ \E u \in CronUsers, j \in Jobs : \/ OtherEditor(u, crontab[u].jobs \union {j})
                                      \/ OtherEditor(u, crontab[u].jobs \ {j})

Spec == Init /\ [][Next]_vars

-----------------------------------------------------------------------------
\* A save loses no job that its view had read: when nobody has written the
\* crontab since the view was loaded or saved, what is missing from it was
\* edited away there.  (A view that was loaded before the last write, by
\* another editor or by the other view, does lose it.)
NothingDropped ==
  saving # None /\ saving.base = [user |-> saving.user, ver |-> crontab[saving.user].ver]
    => crontab[saving.user].jobs \subseteq saving.jobs \union saving.gone

\* The jobs of one user are written into the crontab of another only after the
\* other's crontab could not be loaded.
OwnJobs == saving # None => saving.base.user = saving.user \/ saving.user \in loadFailed

\* What handleSave sends is the crontab of its user as it was read, with the
\* edits of the page.
CrontabSafe == NothingDropped /\ OwnJobs

=============================================================================
