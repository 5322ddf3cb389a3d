----------------------------- MODULE FormPages ------------------------------
(***************************************************************************)
(* Three pages that list things and edit them in a dialog: secrets,        *)
(* registries and notification channels.  A thing has a name, which the    *)
(* page lists, and a secret (the value, the password, the configuration),  *)
(* which a secret's and a registry's page never show.                      *)
(*                                                                         *)
(* The dialogs stay mounted and their useState is evaluated once, with no  *)
(* thing to edit: what the fields hold stays from one opening to the next. *)
(***************************************************************************)
EXTENDS Naturals

CONSTANTS
  MaxThings,  \* bound: things ever created
  FormNone

VARIABLES
  kind,       \* the page: "secret", "registry" or "channel"
  things,     \* the rows of the server
  listed,     \* the rows the page shows
  listFetch,  \* the rows, as listed, an unanswered fetch will bring, or FormNone
  dialogOpen, editTarget,
  form,       \* the fields of the dialog
  submit,     \* the submission in flight, or FormNone
  deletingId, \* the thing whose deletion is to be confirmed, or FormNone
  deletes,    \* deletions in flight
  unheard     \* a change was made and its answer was lost

vars == <<kind, things, listed, listFetch, dialogOpen, editTarget, form, submit,
          deletingId, deletes, unheard>>
dialog == <<dialogOpen, editTarget, form, submit>>
rows   == <<things, listed, listFetch, unheard>>

Ids == 1 .. MaxThings
Names(rs) == [i \in DOMAIN rs |-> rs[i].name]

BlankForm(k) == [name |-> "blank", secret |-> IF k = "channel" THEN "template" ELSE "blank"]

Init ==
  /\ kind \in {"secret", "registry", "channel"}
  /\ things = [i \in {1} |-> [name |-> "old", secret |-> "old"]]
  /\ listed = Names(things) /\ listFetch = FormNone
  /\ dialogOpen = FALSE /\ editTarget = FormNone /\ form = BlankForm(kind)
  /\ submit = FormNone /\ deletingId = FormNone /\ deletes = {} /\ unheard = FALSE

-----------------------------------------------------------------------------
(***************************************************************************)
(* The dialog.                                                             *)
(***************************************************************************)
Idle == ~dialogOpen /\ deletingId = FormNone

OpenDialog(target) ==
  /\ Idle /\ dialogOpen' = TRUE /\ editTarget' = target
  /\ UNCHANGED <<kind, rows, form, submit, deletingId, deletes>>

OpenCreate  == OpenDialog(FormNone)
OpenEdit(i) == OpenDialog(i)

\* The name of a secret cannot be changed.
TypeName ==
  /\ dialogOpen /\ ~(kind = "secret" /\ editTarget # FormNone)
  /\ form' = [form EXCEPT !.name = "new"]
  /\ UNCHANGED <<kind, rows, dialogOpen, editTarget, submit, deletingId, deletes>>

TypeSecret ==
  /\ dialogOpen
  /\ form' = [form EXCEPT !.secret = "new"]
  /\ UNCHANGED <<kind, rows, dialogOpen, editTarget, submit, deletingId, deletes>>

\* Another type of channel; a new channel gets the template of the type.
handleTypeChange ==
  /\ dialogOpen /\ kind = "channel"
  /\ form' = IF editTarget = FormNone THEN [form EXCEPT !.secret = "template"] ELSE form
  /\ UNCHANGED <<kind, rows, dialogOpen, editTarget, submit, deletingId, deletes>>

\* onClose; the page of channels also forgets what was edited.
ClosedTarget == IF kind = "channel" THEN FormNone ELSE editTarget

CloseDialog ==
  /\ dialogOpen /\ dialogOpen' = FALSE /\ editTarget' = ClosedTarget
  /\ UNCHANGED <<kind, rows, form, submit, deletingId, deletes>>

\* What the fields must hold.
SecretReady   == form.name # "blank" /\ (editTarget = FormNone => form.secret # "blank")
RegistryReady == form.name # "blank" /\ (editTarget = FormNone => form.secret # "blank")
ChannelReady  == form.name # "blank"

Submit ==
  /\ dialogOpen /\ submit = FormNone
  /\ submit' = [target |-> editTarget, form |-> form]
  /\ UNCHANGED <<kind, rows, dialogOpen, editTarget, form, deletingId, deletes>>

SubmitSecret   == kind = "secret"   /\ SecretReady   /\ Submit
SubmitRegistry == kind = "registry" /\ RegistryReady /\ Submit
SubmitChannel  == kind = "channel"  /\ ChannelReady  /\ Submit

-----------------------------------------------------------------------------
(***************************************************************************)
(* The server, and the list.                                               *)
(***************************************************************************)
\* A new row; an update keeps the name of a secret, and the secret of a secret
\* or a registry when it is blank.
Created(f) ==
  LET i == CHOOSE i \in Ids \ DOMAIN things : TRUE
  IN  [j \in DOMAIN things \union {i} |-> IF j = i THEN f ELSE things[j]]
UpdatedSecret(old, f)   == [old EXCEPT !.secret = IF f.secret = "blank" THEN @ ELSE f.secret]
UpdatedRegistry(old, f) == [f EXCEPT !.secret = IF f.secret = "blank" THEN old.secret ELSE f.secret]
UpdatedChannel(old, f)  == f
Updated(old, f) ==
  CASE kind = "secret"   -> UpdatedSecret(old, f)
    [] kind = "registry" -> UpdatedRegistry(old, f)
    [] kind = "channel"  -> UpdatedChannel(old, f)

\* What the submission writes; a thing that is no longer there is not updated.
Submitted ==
  IF submit.target = FormNone THEN Created(submit.form)
  ELSE [i \in DOMAIN things |-> IF i = submit.target THEN Updated(things[i], submit.form) ELSE things[i]]
CanWrite == IF submit.target = FormNone THEN Ids \ DOMAIN things # {}
            ELSE submit.target \in DOMAIN things

\* Mutant: a fetch that is under way is not started again.
Invalidate_KeepsFetch(after) == listFetch' = IF listFetch = FormNone THEN Names(after) ELSE listFetch

\* The list is fetched again; a fetch under way is given up.
Invalidate(after) == listFetch' = Names(after)

\* onSubmit resolves: the list is invalidated and the dialog, whichever thing
\* it shows by now, is closed.
SubmitSucceeds ==
  /\ submit # FormNone /\ CanWrite
  /\ things' = Submitted /\ Invalidate(things')
  /\ submit' = FormNone /\ dialogOpen' = FALSE /\ editTarget' = ClosedTarget
  /\ UNCHANGED <<kind, listed, form, deletingId, deletes, unheard>>

\* The dialog stays open.  The server may have made the change.
SubmitFails ==
  /\ submit # FormNone /\ submit' = FormNone
  /\ \/ UNCHANGED <<things, unheard>>
     \/ CanWrite /\ things' = Submitted /\ unheard' = TRUE
  /\ UNCHANGED <<kind, listed, listFetch, dialogOpen, editTarget, form, deletingId, deletes>>

AskDelete(i) ==
  /\ Idle /\ deletingId' = i
  /\ UNCHANGED <<kind, rows, dialog, deletes>>

CancelDelete ==
  /\ deletingId # FormNone /\ deletingId' = FormNone
  /\ UNCHANGED <<kind, rows, dialog, deletes>>

\* The button stays enabled while the deletion runs.
ConfirmDelete ==
  /\ deletingId # FormNone /\ deletes' = deletes \union {deletingId}
  /\ UNCHANGED <<kind, rows, dialog, deletingId>>

Without(i) == [j \in DOMAIN things \ {i} |-> things[j]]

\* Whatever deletion is being confirmed by now, the question goes away.
DeleteSucceeds(i) ==
  /\ i \in deletes /\ i \in DOMAIN things
  /\ things' = Without(i) /\ Invalidate(things')
  /\ deletes' = deletes \ {i} /\ deletingId' = FormNone
  /\ UNCHANGED <<kind, listed, unheard, dialog>>

DeleteFails(i) ==
  /\ i \in deletes /\ deletes' = deletes \ {i}
  /\ \/ UNCHANGED <<things, unheard>>
     \/ things' = Without(i) /\ unheard' = TRUE
  /\ UNCHANGED <<kind, listed, listFetch, deletingId, dialog>>

\* The window gets the focus.
RefetchList ==
  /\ listFetch = FormNone /\ listFetch' = Names(things)
  /\ UNCHANGED <<kind, things, listed, unheard, dialog, deletingId, deletes>>

ListArrives ==
  /\ listFetch # FormNone /\ listFetch' = FormNone /\ listed' = listFetch
  /\ UNCHANGED <<kind, things, unheard, dialog, deletingId, deletes>>

\* The dialogs.
SecretFormDialog   == TypeName \/ TypeSecret \/ SubmitSecret \/ CloseDialog
RegistryFormDialog == TypeName \/ TypeSecret \/ SubmitRegistry \/ CloseDialog
ChannelDialog      == TypeName \/ TypeSecret \/ handleTypeChange \/ SubmitChannel \/ CloseDialog

\* The rows with their buttons, the question, and what is answered.
List ==
  \/ OpenCreate \/ \E i \in DOMAIN listed : OpenEdit(i) \/ AskDelete(i)
  \/ CancelDelete \/ ConfirmDelete \/ \E i \in deletes : DeleteSucceeds(i) \/ DeleteFails(i)
  \/ SubmitSucceeds \/ SubmitFails \/ RefetchList \/ ListArrives

\* The pages.
Secrets       == kind = "secret"   /\ (List \/ SecretFormDialog)
Registries    == kind = "registry" /\ (List \/ RegistryFormDialog)
Notifications == kind = "channel"  /\ (List \/ ChannelDialog)

Next == Secrets \/ Registries \/ Notifications

Spec == Init /\ [][Next]_vars

-----------------------------------------------------------------------------
\* The page converges: once everything is answered the list is what the server
\* has, whatever fetches and changes overlapped, unless an answer was lost (an
\* error does not fetch the list again).
ListConverges ==
  submit = FormNone /\ deletes = {} /\ listFetch = FormNone /\ ~unheard
    => listed = Names(things)

=============================================================================
