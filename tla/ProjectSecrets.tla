--------------------------- MODULE ProjectSecrets ---------------------------
(***************************************************************************)
(* The secrets that are assigned to a project (SecretsSection of the page  *)
(* ProjectDetail).  Every change sends the whole list, as the page has it. *)
(* The names of the variables of the secrets are left out.                 *)
(***************************************************************************)
EXTENDS Naturals, Sequences, SequencesExt

CONSTANTS
  SecretIds,  \* the secrets that can be assigned
  MaxSets,    \* bound: lists in flight
  SecNone

VARIABLES
  attached,       \* the secrets of the project on the server
  attachedSeen,   \* projectSecrets: as the page has them
  attachedFetch,  \* what an unanswered fetch will bring, or SecNone
  adding, selectedSecretId,
  envVarName,     \* whether the name of the variable is typed
  sets,           \* the lists being sent, the oldest first
  wanted, raced   \* what was asked for; a list was sent that was made of an old one

vars == <<attached, attachedSeen, attachedFetch, adding, selectedSecretId, envVarName, sets, wanted, raced>>
addForm == <<adding, selectedSecretId, envVarName>>

Init ==
  /\ attached \in SUBSET SecretIds /\ attachedSeen = attached /\ attachedFetch = SecNone
  /\ adding = FALSE /\ selectedSecretId = SecNone /\ envVarName = FALSE
  /\ sets = <<>> /\ wanted = attached /\ raced = FALSE

-----------------------------------------------------------------------------
\* The latest list is still being sent.
isPending == \E i \in DOMAIN sets : sets[i].latest

\* A list is sent, whatever else is under way.
Mutate(list, twice) ==
  /\ Len(sets) < MaxSets
  /\ sets' = Append([i \in DOMAIN sets |-> [sets[i] EXCEPT !.latest = FALSE]],
                    [list |-> list, twice |-> twice, latest |-> TRUE])
  /\ raced' = (raced \/ sets # <<>> \/ attachedFetch # SecNone)
  /\ UNCHANGED <<attached, attachedSeen, attachedFetch>>

ToggleAdding ==
  /\ adding' = ~adding
  /\ UNCHANGED <<attached, attachedSeen, attachedFetch, selectedSecretId, envVarName, sets, wanted, raced>>

\* One of the secrets that are not assigned.
SelectSecret(s) ==
  /\ adding /\ s \notin attachedSeen /\ selectedSecretId' = s
  /\ UNCHANGED <<attached, attachedSeen, attachedFetch, adding, envVarName, sets, wanted, raced>>

TypeEnvVarName ==
  /\ adding /\ ~envVarName /\ envVarName' = TRUE
  /\ UNCHANGED <<attached, attachedSeen, attachedFetch, adding, selectedSecretId, sets, wanted, raced>>

\* Mutant: the new secret is sent without those that are assigned.
handleAdd_OnlyNew ==
  /\ adding /\ selectedSecretId # SecNone /\ envVarName /\ ~isPending
  /\ Mutate({selectedSecretId}, selectedSecretId \in attachedSeen)
  /\ wanted' = wanted \union {selectedSecretId}
  /\ adding' = FALSE /\ selectedSecretId' = SecNone /\ envVarName' = FALSE

handleAdd ==
  /\ adding /\ selectedSecretId # SecNone /\ envVarName /\ ~isPending
  /\ Mutate(attachedSeen \union {selectedSecretId}, selectedSecretId \in attachedSeen)
  /\ wanted' = wanted \union {selectedSecretId}
  /\ adding' = FALSE /\ selectedSecretId' = SecNone /\ envVarName' = FALSE

CancelAdd ==
  /\ adding /\ adding' = FALSE /\ selectedSecretId' = SecNone /\ envVarName' = FALSE
  /\ UNCHANGED <<attached, attachedSeen, attachedFetch, sets, wanted, raced>>

\* The button of a row is never disabled.
handleRemove(s) ==
  /\ s \in attachedSeen /\ Mutate(attachedSeen \ {s}, FALSE)
  /\ wanted' = wanted \ {s}
  /\ UNCHANGED addForm

\* The server replaces the list in one transaction, and refuses a list that has
\* a secret twice.
SetSucceeds(i) ==
  /\ ~sets[i].twice
  /\ attached' = sets[i].list /\ attachedFetch' = attached' /\ sets' = RemoveAt(sets, i)
  /\ UNCHANGED <<attachedSeen, addForm, wanted, raced>>

SetFails(i) ==
  /\ \/ UNCHANGED <<attached, raced>>
     \/ ~sets[i].twice /\ attached' = sets[i].list /\ raced' = TRUE
  /\ sets' = RemoveAt(sets, i) /\ wanted' = attached'
  /\ UNCHANGED <<attachedSeen, attachedFetch, addForm>>

\* The window gets the focus.
RefetchSecrets ==
  /\ attachedFetch = SecNone /\ attachedFetch' = attached
  /\ UNCHANGED <<attached, attachedSeen, addForm, sets, wanted, raced>>

SecretsArrive ==
  /\ attachedFetch # SecNone /\ attachedSeen' = attachedFetch /\ attachedFetch' = SecNone
  /\ UNCHANGED <<attached, addForm, sets, wanted, raced>>

SecretsSection ==
  \/ ToggleAdding \/ TypeEnvVarName \/ handleAdd \/ CancelAdd
  \/ \E s \in SecretIds : SelectSecret(s) \/ handleRemove(s)
  \/ \E i \in DOMAIN sets : SetSucceeds(i) \/ SetFails(i)
  \/ RefetchSecrets \/ SecretsArrive

Next == SecretsSection

Spec == Init /\ [][Next]_vars

-----------------------------------------------------------------------------
\* Assigning or removing a secret changes that secret only: once the lists that
\* were sent are answered, the project has the secrets that were asked for,
\* unless a list was sent before the answer to the one before had been fetched
\* (the buttons of the rows allow it) or an answer was lost.
SecretsAsAsked == sets = <<>> /\ ~raced => attached = wanted

=============================================================================
