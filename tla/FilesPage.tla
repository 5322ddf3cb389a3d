----------------------------- MODULE FilesPage ------------------------------
(***************************************************************************)
(* The page of the server's files: the entries of one directory, one open  *)
(* editor, and the requests that read, write and delete.  There are two    *)
(* directories: the root, which has TopFile and SubDir, and SubDir, which  *)
(* has SubFile.  A file that is not text reaches the editor with its bytes *)
(* replaced.                                                               *)
(***************************************************************************)
EXTENDS Naturals, FiniteSets

CONSTANTS
  TopFile, SubDir, SubFile,
  MaxAsked,    \* bound: files opened, saved and deleted
  FileNone

VARIABLES
  disk,           \* what each file holds, FileNone when it is not there
  subDir,         \* whether the directory is there
  inSub,          \* whether the page shows the directory or the root
  rows, rowFetch, \* per directory: the entries in the cache, and those of an unanswered fetch
  editor,         \* [path, originalContent, content] or FileNone
  loads,          \* files being read: the path, and what it held when asked
  save,           \* the [path, content] being written, or FileNone
  deleteConfirm,  \* the entry of the question, or FileNone
  removing,       \* deletions in flight: entry, directory, and whether the editor had it open
  asked,          \* counted for the bound
  crossed         \* history: the open text was changed in a way the page was not told of

vars  == <<disk, subDir, inSub, rows, rowFetch, editor, loads, save, deleteConfirm, removing, asked, crossed>>
files == <<disk, subDir>>
list  == <<inSub, rows, rowFetch>>

Files   == {TopFile, SubFile}
Entries == {TopFile, SubDir, SubFile}

\* What a directory has.
Entry(inside) == IF inside THEN {e \in {SubFile} : disk[SubFile] # FileNone}
                 ELSE {e \in {TopFile} : disk[TopFile] # FileNone} \union {e \in {SubDir} : subDir}

\* A JSON string cannot hold what is not UTF-8.
Decoded(text) == IF text = "binary" THEN "replaced" ELSE text

Init ==
  /\ disk = [f \in Files |-> IF f = TopFile THEN "text" ELSE "binary"] /\ subDir = TRUE
  /\ inSub = FALSE
  /\ rows = [d \in BOOLEAN |-> IF d THEN {} ELSE {TopFile, SubDir}]
  /\ rowFetch = [d \in BOOLEAN |-> FileNone]
  /\ editor = FileNone /\ loads = {} /\ save = FileNone
  /\ deleteConfirm = FileNone /\ removing = {} /\ asked = 0 /\ crossed = FALSE

Ask == asked < MaxAsked /\ asked' = asked + 1

-----------------------------------------------------------------------------
(***************************************************************************)
(* The list.                                                               *)
(***************************************************************************)
\* setPath; another directory is fetched.
SetPath ==
  /\ deleteConfirm = FileNone
  /\ IF inSub THEN TRUE ELSE SubDir \in rows[FALSE]
  /\ inSub' = ~inSub
  /\ rowFetch' = [rowFetch EXCEPT ![~inSub] = Entry(~inSub)]
  /\ UNCHANGED <<files, rows, editor, loads, save, deleteConfirm, removing, asked, crossed>>

RowsArrive(d) ==
  /\ rowFetch[d] # FileNone
  /\ \E found \in {rowFetch[d], Entry(d)} : rows' = [rows EXCEPT ![d] = found]
  /\ rowFetch' = [rowFetch EXCEPT ![d] = FileNone]
  /\ UNCHANGED <<files, inSub, editor, loads, save, deleteConfirm, removing, asked, crossed>>

-----------------------------------------------------------------------------
(***************************************************************************)
(* The editor.                                                             *)
(***************************************************************************)
openEditor(f) ==
  /\ f \in rows[inSub] \ {SubDir} /\ deleteConfirm = FileNone /\ Ask
  /\ loads' = loads \union {[path |-> f, text |-> disk[f]]}
  /\ UNCHANGED <<files, list, editor, save, deleteConfirm, removing, crossed>>

\* The server reads the file some time between the question and the answer.
\* The text takes the place of the one in the editor, saved or not.
ContentArrives(l) ==
  /\ loads' = loads \ {l}
  /\ \E text \in {l.text, disk[l.path]} \ {FileNone} :
       /\ editor' = [path |-> l.path, originalContent |-> Decoded(text), content |-> Decoded(text)]
       /\ crossed' = (text # disk[l.path] \/ save # FileNone \/ removing # {})
  /\ UNCHANGED <<files, list, save, deleteConfirm, removing, asked>>

ContentFails(l) ==
  /\ loads' = loads \ {l}
  /\ UNCHANGED <<files, list, editor, save, deleteConfirm, removing, asked, crossed>>

\* onChange.  Text that is typed during a save will be taken for saved.
Type ==
  /\ editor # FileNone /\ deleteConfirm = FileNone
  /\ \E text \in {"text", "edited"} : editor' = [editor EXCEPT !.content = text]
  /\ crossed' = (crossed \/ save # FileNone)
  /\ UNCHANGED <<files, list, loads, save, deleteConfirm, removing, asked>>

CloseEditor ==
  /\ editor # FileNone /\ deleteConfirm = FileNone /\ editor' = FileNone
  /\ UNCHANGED <<files, list, loads, save, deleteConfirm, removing, asked, crossed>>

isDirty == editor # FileNone /\ editor.content # editor.originalContent

handleSave ==
  /\ isDirty /\ save = FileNone /\ deleteConfirm = FileNone /\ Ask
  /\ save' = [path |-> editor.path, content |-> editor.content]
  /\ UNCHANGED <<files, list, editor, loads, deleteConfirm, removing, crossed>>

\* Whatever the editor holds by now.
MarkSaved == editor' = IF editor = FileNone THEN FileNone
                       ELSE [editor EXCEPT !.originalContent = editor.content]

\* A file that is not there any more is not written.
SaveSucceeds ==
  /\ save # FileNone /\ disk[save.path] # FileNone
  /\ disk' = [disk EXCEPT ![save.path] = save.content]
  /\ MarkSaved /\ save' = FileNone
  /\ UNCHANGED <<subDir, list, loads, deleteConfirm, removing, asked, crossed>>

\* Mutant: the mark is set in finally.
SaveFails_Marked ==
  /\ save # FileNone /\ save' = FileNone /\ MarkSaved
  /\ UNCHANGED <<files, list, loads, deleteConfirm, removing, asked, crossed>>

\* Refused; or written in part or whole, and the page is told of a failure.
SaveFails ==
  /\ save # FileNone /\ save' = FileNone
  /\ \/ UNCHANGED <<disk, crossed>>
     \/ /\ disk[save.path] # FileNone
        /\ \E text \in {save.content, "torn"} : disk' = [disk EXCEPT ![save.path] = text]
        /\ crossed' = TRUE
  /\ UNCHANGED <<subDir, list, editor, loads, deleteConfirm, removing, asked>>

-----------------------------------------------------------------------------
(***************************************************************************)
(* Deleting.                                                               *)
(***************************************************************************)
AskDelete(e) ==
  /\ deleteConfirm = FileNone /\ e \in rows[inSub]
  /\ \A r \in removing : r.entry # e
  /\ deleteConfirm' = e
  /\ UNCHANGED <<files, list, editor, loads, save, removing, asked, crossed>>

CancelDelete ==
  /\ deleteConfirm # FileNone /\ deleteConfirm' = FileNone
  /\ UNCHANGED <<files, list, editor, loads, save, removing, asked, crossed>>

\* The open editor is compared now, not when the answer comes.
handleDelete ==
  /\ deleteConfirm # FileNone /\ Ask /\ deleteConfirm' = FileNone
  /\ removing' = removing \union
       {[entry |-> deleteConfirm, inside |-> inSub,
         open |-> editor # FileNone /\ editor.path = deleteConfirm]}
  /\ UNCHANGED <<files, list, editor, loads, save, crossed>>

\* Is the open file among what goes with e?
Loses(e) == editor # FileNone /\ (editor.path = e \/ (e = SubDir /\ editor.path = SubFile))

Gone(e) ==
  /\ disk' = [f \in Files |-> IF f = e \/ (e = SubDir /\ f = SubFile) THEN FileNone ELSE disk[f]]
  /\ subDir' = (subDir /\ e # SubDir)
There(e) == IF e = SubDir THEN subDir ELSE disk[e] # FileNone

CloseDeleted(r) == editor' = IF r.open THEN FileNone ELSE editor

\* The directory the question was asked in is fetched again.  An editor that
\* has the file of a deleted directory, or opened it meanwhile, stays.
DeleteSucceeds(r) ==
  /\ There(r.entry) /\ Gone(r.entry)
  /\ removing' = removing \ {r} /\ CloseDeleted(r)
  /\ rowFetch' = [rowFetch EXCEPT ![r.inside] = Entry(r.inside)']
  /\ crossed' = (crossed \/ (~r.open /\ Loses(r.entry)))
  /\ UNCHANGED <<inSub, rows, loads, save, deleteConfirm, asked>>

DeleteFails(r) ==
  /\ removing' = removing \ {r}
  /\ \/ UNCHANGED <<files, crossed>>
     \/ There(r.entry) /\ Gone(r.entry) /\ crossed' = (crossed \/ Loses(r.entry))
  /\ UNCHANGED <<list, editor, loads, save, deleteConfirm, asked>>

-----------------------------------------------------------------------------
\* The parts of the page.
Listing      == \E e \in Entries : AskDelete(e) \/ (e \in Files /\ openEditor(e))
EditorPanel  == Type \/ CloseEditor \/ handleSave
DeleteDialog == CancelDelete \/ handleDelete

Next ==
  \/ SetPath \/ Listing \/ EditorPanel \/ DeleteDialog
  \/ \E d \in BOOLEAN : RowsArrive(d)
  \/ \E l \in loads : ContentArrives(l) \/ ContentFails(l)
  \/ SaveSucceeds \/ SaveFails
  \/ \E r \in removing : DeleteSucceeds(r) \/ DeleteFails(r)

Spec == Init /\ [][Next]_vars

-----------------------------------------------------------------------------
(***************************************************************************)
(* A text that is not marked "Unsaved" is the one in the file; except when *)
(* it was typed while another version was being saved, when a failed       *)
(* request did its work, or when the file went with its directory.         *)
(***************************************************************************)
UnsavedMarked ==
  editor # FileNone /\ ~isDirty /\ save = FileNone /\ ~crossed =>
    /\ disk[editor.path] # FileNone
    /\ Decoded(disk[editor.path]) = editor.content

=============================================================================
