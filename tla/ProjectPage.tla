---------------------------- MODULE ProjectPage -----------------------------
(***************************************************************************)
(* Editing a project on its page (ProjectDetail): the copy of the project  *)
(* that the page fetched, the form, and the save, which is a sequence of   *)
(* requests: the project, then every file that was removed, every file     *)
(* that was changed, every file that is new.  The image update of the same *)
(* page, or another user, may rewrite the compose file meanwhile.          *)
(*                                                                         *)
(* Compose texts are opaque here: what the visual builder does to them is  *)
(* ComposeEditor's subject.  The description and the variables, which are  *)
(* typed and sent with the text, are not told apart from it.               *)
(***************************************************************************)
EXTENDS Naturals

CONSTANTS
  Composes,    \* compose texts
  Filenames,   \* extra files
  MaxForeign,  \* bound: rewrites by the image update or another user
  PageNone

VARIABLES
  proj,         \* the project on the server
  detail,       \* the copy of the query cache, or PageNone
  detailFetch,  \* the copy an unanswered fetch will bring, or PageNone
  editing,
  fields,       \* composeContent and files
  originalFiles,
  mode,         \* composeMode
  visual,       \* the text the builder's model stands for, while it is shown
  saveRun,      \* the save in progress, or PageNone
  foreign,      \* rewrites so far
  stale,        \* the form is not filled, or somebody else changed the project since
  tried,        \* not stale, and a save changed the project after the form was filled
  revised,      \* the form was changed after that
  failed,       \* not stale, and a request failed after the form was filled
  swept         \* a copy that arrived changed the text under the builder

vars == <<proj, detail, detailFetch, editing, fields, originalFiles, mode, visual, saveRun,
          foreign, stale, tried, revised, failed, swept>>
query  == <<detail, detailFetch>>
marks  == <<foreign, stale, tried, revised, failed, swept>>
editor == <<editing, fields, originalFiles, mode, visual>>

NoFiles == [f \in {} |-> ""]
First   == CHOOSE c \in Composes : TRUE

Init ==
  /\ proj = [compose |-> First, files |-> [f \in Filenames |-> "x"]]
  /\ detail = PageNone /\ detailFetch = proj
  /\ editing = FALSE /\ fields = [compose |-> "", files |-> NoFiles] /\ originalFiles = NoFiles
  /\ mode = "yaml" /\ visual = "" /\ saveRun = PageNone
  /\ foreign = 0 /\ stale = TRUE /\ tried = FALSE /\ revised = FALSE /\ failed = FALSE /\ swept = FALSE

-----------------------------------------------------------------------------
(***************************************************************************)
(* The copy of the page.                                                   *)
(***************************************************************************)
\* The effect on new data fills the form, also while it is being edited.  The
\* builder's model is left alone.
Fill(copy) ==
  /\ fields' = copy /\ originalFiles' = copy.files
  /\ swept' = (swept \/ (mode = "visual" /\ copy.compose # visual))
  /\ IF copy = proj
     THEN stale' = FALSE /\ tried' = FALSE /\ revised' = FALSE /\ failed' = FALSE
     ELSE revised' = (revised \/ tried) /\ UNCHANGED <<stale, tried, failed>>
  /\ UNCHANGED <<editing, mode, visual, foreign>>

\* A copy that equals the cached one is no new data, unless its date changed.
DetailArrives ==
  /\ detailFetch # PageNone /\ detailFetch' = PageNone /\ detail' = detailFetch
  /\ Fill(detailFetch) \/ (detailFetch = detail /\ UNCHANGED <<editor, marks>>)
  /\ UNCHANGED <<proj, saveRun>>

DetailFails ==
  /\ detailFetch # PageNone /\ detailFetch' = PageNone /\ failed' = ~stale
  /\ UNCHANGED <<proj, detail, editor, saveRun, foreign, stale, tried, revised, swept>>

\* The window gets the focus; or the box "Remove stale images" was ticked.
RefetchDetail ==
  /\ detailFetch = PageNone /\ detailFetch' = proj
  /\ UNCHANGED <<proj, detail, editor, saveRun, marks>>

\* The image update writes new tags into the compose file, or another user
\* saves.  Nothing tells this page.
Rewrite(p) ==
  /\ foreign < MaxForeign /\ p # proj
  /\ proj' = p /\ foreign' = foreign + 1
  /\ stale' = TRUE /\ tried' = FALSE /\ revised' = FALSE /\ failed' = FALSE
  /\ saveRun' = IF saveRun = PageNone THEN PageNone ELSE [saveRun EXCEPT !.clean = FALSE]
  /\ UNCHANGED <<query, editor, swept>>

-----------------------------------------------------------------------------
(***************************************************************************)
(* The form.                                                               *)
(***************************************************************************)
Edit ==
  /\ ~editing /\ editing' = TRUE
  /\ UNCHANGED <<proj, query, fields, originalFiles, mode, visual, saveRun, marks>>

Change(form) ==
  /\ editing /\ form # fields /\ fields' = form
  /\ revised' = (revised \/ tried)
  /\ UNCHANGED <<proj, query, editing, originalFiles, mode, saveRun, foreign, stale, tried, failed, swept>>

TypeCompose(c)  == mode = "yaml" /\ Change([fields EXCEPT !.compose = c]) /\ UNCHANGED visual
BuildCompose(c) == mode = "visual" /\ visual' = c /\ Change([fields EXCEPT !.compose = c])

With(files, f, content) == [g \in DOMAIN files \union {f} |-> IF g = f THEN content ELSE files[g]]
UpdateFile(f, content) == Change([fields EXCEPT !.files = With(@, f, content)]) /\ UNCHANGED visual
RemoveFile(f) ==
  /\ f \in DOMAIN fields.files
  /\ Change([fields EXCEPT !.files = [g \in DOMAIN @ \ {f} |-> @[g]]]) /\ UNCHANGED visual

ShowVisual ==
  /\ editing /\ mode = "yaml" /\ mode' = "visual" /\ visual' = fields.compose /\ swept' = FALSE
  /\ UNCHANGED <<proj, query, editing, fields, originalFiles, saveRun, foreign, stale, tried, revised, failed>>

ShowYaml ==
  /\ editing /\ mode = "visual" /\ mode' = "yaml" /\ visual' = ""
  /\ fields' = [fields EXCEPT !.compose = visual]
  /\ revised' = (revised \/ (tried /\ fields.compose # visual))
  /\ UNCHANGED <<proj, query, editing, originalFiles, saveRun, foreign, stale, tried, failed, swept>>

\* Back to the cached copy.  A save in progress goes on.
cancelEdit ==
  /\ editing /\ editing' = FALSE
  /\ IF detail = PageNone THEN UNCHANGED <<fields, originalFiles>>
     ELSE fields' = detail /\ originalFiles' = detail.files
  /\ mode' = "yaml" /\ visual' = "" /\ swept' = FALSE
  /\ revised' = (revised \/ tried)
  /\ UNCHANGED <<proj, query, saveRun, foreign, stale, tried, failed>>

-----------------------------------------------------------------------------
(***************************************************************************)
(* handleSave.                                                             *)
(***************************************************************************)
Removed(form, orig) == DOMAIN orig \ DOMAIN form.files
Changed(form, orig) == {f \in DOMAIN form.files : f \notin DOMAIN orig \/ orig[f] # form.files[f]}
Added(form, orig)   == DOMAIN form.files \ DOMAIN orig

\* The requests of one of the loops.
Stage(n, op, fs) == {[stage |-> n, op |-> op, file |-> f] : f \in fs}

\* Mutant: only the files that are new are sent.
Requests_NewOnly(form, orig) ==
  Stage(1, "project", {""}) \union Stage(2, "delete", Removed(form, orig)) \union Stage(4, "upsert", Added(form, orig))

\* The project, then a loop over the files that are gone, one over the files that
\* are new or changed, and one over the new ones, which are sent twice.
Requests(form, orig) ==
  Stage(1, "project", {""}) \union Stage(2, "delete", Removed(form, orig))
    \union Stage(3, "upsert", Changed(form, orig)) \union Stage(4, "upsert", Added(form, orig))

\* The request in flight is one of the earliest loop; the files of a loop have no
\* order here.
Sent(r) == \A q \in saveRun.todo : r.stage <= q.stage

handleSave ==
  /\ editing /\ saveRun = PageNone /\ fields.compose # ""
  /\ saveRun' = [form |-> fields, todo |-> Requests(fields, originalFiles), clean |-> ~revised /\ ~stale]
  /\ UNCHANGED <<proj, query, editor, marks>>

\* The server: a file that is not there cannot be deleted.
Accepted(r) == r.op = "delete" => r.file \in DOMAIN proj.files
Applied(r) ==
  CASE r.op = "project" -> [proj EXCEPT !.compose = saveRun.form.compose]
    [] r.op = "delete"  -> [proj EXCEPT !.files = [g \in DOMAIN @ \ {r.file} |-> @[g]]]
    [] r.op = "upsert"  -> [proj EXCEPT !.files = With(@, r.file, saveRun.form.files[r.file])]

\* The project changed after the form was filled.
Attempted == tried' = ~stale /\ revised' = (~stale /\ (revised \/ fields # saveRun.form))

SaveStep(r) ==
  /\ Sent(r) /\ Accepted(r) /\ proj' = Applied(r) /\ Attempted
  /\ saveRun' = [saveRun EXCEPT !.todo = @ \ {r}]
  /\ UNCHANGED <<query, editor, foreign, stale, failed, swept>>

\* A request fails, before or after it had its effect: the rest is not sent, the
\* form stays open, and the next attempt starts from the same originals.
SaveFails(r) ==
  /\ Sent(r)
  /\ \/ UNCHANGED <<proj, tried, revised>>
     \/ Accepted(r) /\ proj' = Applied(r) /\ Attempted
  /\ saveRun' = PageNone /\ failed' = ~stale
  /\ UNCHANGED <<query, editor, foreign, stale, swept>>

SaveDone ==
  /\ saveRun # PageNone /\ saveRun.todo = {} /\ saveRun' = PageNone
  /\ detailFetch' = proj /\ editing' = FALSE
  /\ UNCHANGED <<proj, detail, fields, originalFiles, mode, visual, marks>>

\* The editor: tabs, views, and the panel of variables and files.
EditMode ==
  \/ ShowVisual \/ ShowYaml
  \/ \E c \in Composes : TypeCompose(c) \/ BuildCompose(c)
  \/ \E f \in Filenames : UpdateFile(f, "y") \/ RemoveFile(f)

Next ==
  \/ DetailArrives \/ DetailFails \/ RefetchDetail
  \/ \E c \in Composes : Rewrite([proj EXCEPT !.compose = c])
  \/ \E f \in Filenames : Rewrite([proj EXCEPT !.files = With(@, f, "theirs")])
  \/ Edit \/ EditMode \/ cancelEdit
  \/ handleSave \/ SaveDone
  \/ saveRun # PageNone /\ \E r \in saveRun.todo : SaveStep(r) \/ SaveFails(r)

Spec == Init /\ [][Next]_vars

-----------------------------------------------------------------------------
\* A save that gets through leaves the project as the form had it, whatever
\* attempts failed halfway before it: nobody else wrote meanwhile, and the form
\* was not changed between the attempts.  (The second condition is needed: a
\* file that a failed attempt has already added is not removed when the form
\* drops it again, for the originals are those from before that attempt.)
SaveComplete ==
  saveRun # PageNone /\ saveRun.todo = {} /\ saveRun.clean => proj = saveRun.form

\* Once everything is answered the page has the project as it is, unless
\* somebody else wrote it or a request failed.
DetailConverges ==
  detailFetch = PageNone /\ saveRun = PageNone /\ ~stale /\ ~failed => detail = proj

\* The builder shows the text that Save sends, unless a copy that arrived has
\* replaced the text under it.
BuilderInStep == editing /\ mode = "visual" /\ ~swept => visual = fields.compose

\* Form, builder, copy and project stay in step over failed and repeated saves.
PageInStep == SaveComplete /\ DetailConverges /\ BuilderInStep

=============================================================================
