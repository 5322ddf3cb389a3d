----------------------------- MODULE NewProject -----------------------------
(***************************************************************************)
(* The page of a new project (ProjectEditor, routed at /projects/new): the *)
(* name, the compose text, the variables and the extra files, the marks of *)
(* unsaved tabs, the question before the page is left, and Save, which     *)
(* creates the project and then sends its files one by one while the form  *)
(* can still be changed.  How the compose text is edited is ComposeEditor. *)
(* Variables stand for their rows with a key; a compose text is Blank or   *)
(* one of the texts of Typed.                                              *)
(***************************************************************************)
EXTENDS Naturals, Sequences

CONSTANTS
  NewNames,   \* names of projects
  NewFiles,   \* names of files
  Typed,      \* what can be typed into an editor
  Vars,       \* environment variables
  MaxFiles,   \* bound: files that are added
  MaxSaves,   \* bound: clicks on Save
  Blank       \* an empty field

VARIABLES
  draft,      \* the form: name, compose, env, files
  activeTab,  \* 0 for the compose text, or the index of a file
  dirtyTabs, pendingNav,
  saving,     \* the save in flight: the form it was clicked with and its requests to do
  made,       \* the projects of the server
  shown,      \* whether the page is shown
  saves, asked, whole
              \* how often Save was clicked, whether leaving was confirmed, the form
              \* that was saved last

vars == <<draft, activeTab, dirtyTabs, pendingNav, saving, made, shown, saves, asked, whole>>
editor  == <<draft, activeTab, dirtyTabs>>
history == <<saves, asked, whole>>

NoProject == [exists |-> FALSE, compose |-> Blank, env |-> {}, files |-> [f \in NewFiles |-> Blank]]
NoSave    == [draft |-> Blank, todo |-> {}]
Untouched == [name |-> Blank, compose |-> Blank, env |-> {}, files |-> <<>>]

Init ==
  /\ draft = Untouched /\ activeTab = 0
  /\ dirtyTabs = {} /\ pendingNav = FALSE /\ saving = NoSave
  /\ made \in [NewNames -> {NoProject}] /\ shown = TRUE
  /\ saves = 0 /\ asked = FALSE /\ whole = Blank

-----------------------------------------------------------------------------
(***************************************************************************)
(* The form.                                                               *)
(***************************************************************************)
Form == shown /\ ~pendingNav

Edit(d, tabs, tab) ==
  /\ Form /\ draft' = d /\ dirtyTabs' = tabs /\ activeTab' = tab
  /\ UNCHANGED <<pendingNav, saving, made, shown, history>>

markDirty(tab) == dirtyTabs \union {tab}

TypeProjectName(n) == n # draft.name /\ Edit([draft EXCEPT !.name = n], dirtyTabs, activeTab)

\* The editor of the compose text, or the visual one.
ComposeTab(t) ==
  /\ activeTab = 0 /\ t # draft.compose
  /\ Edit([draft EXCEPT !.compose = t], markDirty(0), activeTab)

SetEnv(e) == e # draft.env /\ Edit([draft EXCEPT !.env = e], dirtyTabs, activeTab)

addFile ==
  /\ Len(draft.files) < MaxFiles
  /\ Edit([draft EXCEPT !.files = Append(@, [filename |-> Blank, content |-> Blank, toDelete |-> FALSE])],
          dirtyTabs, Len(draft.files) + 1)

removeFile(i) ==
  /\ i \in DOMAIN draft.files /\ ~draft.files[i].toDelete
  /\ Edit([draft EXCEPT !.files[i].toDelete = TRUE], dirtyTabs, IF activeTab = i THEN 0 ELSE activeTab)

\* The name and the content of the file whose tab is shown.
FileTab(f, c) ==
  /\ activeTab \in DOMAIN draft.files
  /\ \/ f # draft.files[activeTab].filename
        /\ Edit([draft EXCEPT !.files[activeTab].filename = f], markDirty(activeTab), activeTab)
     \/ c # draft.files[activeTab].content
        /\ Edit([draft EXCEPT !.files[activeTab].content = c], markDirty(activeTab), activeTab)

ShowTab(t) ==
  /\ Form /\ t # activeTab
  /\ t = 0 \/ (t \in DOMAIN draft.files /\ ~draft.files[t].toDelete)
  /\ activeTab' = t
  /\ UNCHANGED <<draft, dirtyTabs, pendingNav, saving, made, shown, history>>

-----------------------------------------------------------------------------
(***************************************************************************)
(* Save.                                                                   *)
(***************************************************************************)
\* The requests of one of the loops over the files.
Uploads(loop, d) == {[loop |-> loop, at |-> i] : i \in {j \in DOMAIN d.files : ~d.files[j].toDelete}}

Create == [loop |-> 0, at |-> 0]

\* Mutant: the files are sent from the second on.
Requests_SkipsFirst(d) ==
  {Create} \union {r \in Uploads(1, d) \union Uploads(2, d) : r.at # 1}

\* The project, every file of the form, and, as none is on the server yet, every
\* file once more.
Requests(d) == {Create} \union Uploads(1, d) \union Uploads(2, d)

\* The request in flight is the first that was not answered.
Sent(r) == \A q \in saving.todo : r.loop < q.loop \/ (r.loop = q.loop /\ r.at <= q.at)

handleSave ==
  /\ Form /\ saving = NoSave /\ saves < MaxSaves
  /\ draft.name # Blank /\ draft.compose # Blank
  /\ saving' = [draft |-> draft, todo |-> Requests(draft)] /\ saves' = saves + 1
  /\ UNCHANGED <<draft, activeTab, dirtyTabs, pendingNav, made, shown, asked, whole>>

\* What the server refuses: a project that is there, a file without a name.
Refused(r) ==
  IF r = Create THEN made[saving.draft.name].exists ELSE saving.draft.files[r.at].filename = Blank

Applied(r) ==
  LET d == saving.draft
  IN  [made EXCEPT ![d.name] =
         IF r = Create
         THEN [exists |-> TRUE, compose |-> d.compose, env |-> d.env, files |-> [f \in NewFiles |-> Blank]]
         ELSE [@ EXCEPT !.files[d.files[r.at].filename] = d.files[r.at].content]]

RequestDone(r) ==
  /\ Sent(r) /\ ~Refused(r)
  /\ made' = Applied(r) /\ saving' = [saving EXCEPT !.todo = @ \ {r}]
  /\ UNCHANGED <<editor, pendingNav, shown, history>>

\* All is sent: the marks are taken away and the list of projects is shown.
SaveDone ==
  /\ saving # NoSave /\ saving.todo = {}
  /\ saving' = NoSave /\ dirtyTabs' = {} /\ shown' = FALSE /\ whole' = saving.draft
  /\ UNCHANGED <<draft, activeTab, pendingNav, made, saves, asked>>

\* What the server may have become although no answer came.
InFlight == {Applied(r) : r \in {q \in saving.todo : Sent(q) /\ ~Refused(q)}}

\* A request is refused, or fails, or its answer is lost: the rest is not sent.
SaveFails ==
  /\ saving.todo # {} /\ saving' = NoSave
  /\ made' \in {made} \union InFlight
  /\ UNCHANGED <<editor, pendingNav, shown, history>>

-----------------------------------------------------------------------------
(***************************************************************************)
(* Leaving.                                                                *)
(***************************************************************************)
hasUnsavedChanges == dirtyTabs # {}

\* "Back to projects".
guardedNavigate ==
  /\ Form
  /\ IF hasUnsavedChanges THEN pendingNav' = TRUE /\ UNCHANGED shown
                          ELSE shown' = FALSE /\ UNCHANGED pendingNav
  /\ UNCHANGED <<editor, saving, made, history>>

\* A reload or the closing of the tab, which the browser asks about; the request
\* in flight may still get through.
beforeunload ==
  /\ shown /\ shown' = FALSE /\ saving' = NoSave /\ asked' = (asked \/ hasUnsavedChanges)
  /\ made' \in {made} \union InFlight
  /\ UNCHANGED <<editor, pendingNav, saves, whole>>

ConfirmLeave(leave) ==
  /\ shown /\ pendingNav /\ pendingNav' = FALSE
  /\ shown' = ~leave /\ asked' = (asked \/ leave)
  /\ UNCHANGED <<editor, saving, made, saves, whole>>

\* A field that was filled is changed or left, never emptied again.
Next ==
  \/ \E n \in NewNames : TypeProjectName(n)
  \/ \E t \in Typed : ComposeTab(t)
  \/ \E e \in SUBSET Vars : SetEnv(e)
  \/ addFile \/ \E i \in 1 .. MaxFiles : removeFile(i)
  \/ \E f \in NewFiles, c \in Typed : FileTab(f, c)
  \/ \E t \in 0 .. MaxFiles : ShowTab(t)
  \/ handleSave \/ (\E r \in saving.todo : RequestDone(r)) \/ SaveDone \/ SaveFails
  \/ guardedNavigate \/ beforeunload \/ \E leave \in BOOLEAN : ConfirmLeave(leave)

Spec == Init /\ [][Next]_vars

-----------------------------------------------------------------------------
\* "Project created" (ProjectEditor.tsx:215) is true: the server has the project
\* with the compose text, the variables and every file of the form that was
\* saved, of two files with one name the later, whatever failed before.
Last(d, f) == {i \in DOMAIN d.files : ~d.files[i].toDelete /\ d.files[i].filename = f}
SavedWhole ==
  whole # Blank =>
    LET p == made[whole.name]
    IN  /\ p.exists /\ p.compose = whole.compose /\ p.env = whole.env
        /\ \A f \in NewFiles : \A i \in Last(whole, f) :
             (\A j \in Last(whole, f) : j <= i) => p.files[f] = whole.files[i].content

\* "You have unsaved changes. Are you sure you want to leave?"
\* (ProjectEditor.tsx:666): no text that was typed is lost by leaving the page
\* unless the question was answered or a save got through, which says nothing of
\* what was typed while it was in flight.  The name, the variables and a file that
\* was removed are not asked about.
NothingLost ==
  ~shown /\ ~asked /\ whole = Blank =>
    /\ draft.compose = Blank
    /\ \A i \in DOMAIN draft.files :
         draft.files[i].toDelete \/ (draft.files[i].filename = Blank /\ draft.files[i].content = Blank)

\* What was typed is on the server once the page says so, and in the form
\* before.
CreatedOrKept == SavedWhole /\ NothingLost

=============================================================================
