---------------------------- MODULE DockerPages -----------------------------
(***************************************************************************)
(* The pages of docker's containers, networks, volumes and images: a list, *)
(* a dialog that creates, a question before a deletion; images are ticked  *)
(* and removed one after the other, in an order that is left out.  The     *)
(* containers have two lists, of all and of the running ones, each with    *)
(* its own entry in the query cache.                                       *)
(***************************************************************************)
EXTENDS Naturals

CONSTANTS
  MaxDocker,    \* bound: resources of the host
  MaxTasks,     \* bound: creations and removals asked for here, and changes made elsewhere
  DockNone

VARIABLES
  dockKind,      \* the page: "containers", "networks", "volumes" or "images"
  host,          \* the resources of the host: whether each is in use (a container: running)
  cache,         \* the two lists: list, fetch (what an unanswered one brings), invalid, behind
  showAll,
  hidden,        \* resources that do not match the search
  showCreate, draft, creating,
  deleting,      \* the resource of the question, or DockNone
  selected, confirmDelete,  \* the images ticked, and the question about them
  removals,      \* in flight, with a number: what is left to remove, and whether some is removed
  tasks          \* counted for the bound

vars  == <<dockKind, host, cache, showAll, hidden, showCreate, draft, creating, deleting, selected,
           confirmDelete, removals, tasks>>
forms == <<showCreate, draft, deleting, selected, confirmDelete>>
rest  == <<dockKind, host, cache, showAll, hidden, creating, removals, tasks>>

Ids == 1 .. MaxDocker

\* What a list would hold now.
Listed(all, h) == IF all THEN h ELSE [i \in {i \in DOMAIN h : h[i]} |-> TRUE]
Cell(l) == [list |-> l, fetch |-> DockNone, invalid |-> FALSE, behind |-> FALSE]
Shown   == IF cache[showAll].list = DockNone THEN [i \in {} |-> FALSE] ELSE cache[showAll].list
Rows    == {i \in DOMAIN Shown : i \notin hidden}

NoDialog == ~showCreate /\ deleting = DockNone /\ ~confirmDelete

Init ==
  /\ dockKind \in {"containers", "networks", "volumes", "images"}
  /\ host = [i \in {1, 2} |-> i = 2]
  /\ cache = [all \in BOOLEAN |-> Cell(IF all THEN host ELSE DockNone)]
  /\ showAll = TRUE /\ hidden = {}
  /\ showCreate = FALSE /\ draft = "blank" /\ creating = FALSE
  /\ deleting = DockNone /\ selected = {} /\ confirmDelete = FALSE /\ removals = {}
  /\ tasks = 0

-----------------------------------------------------------------------------
(***************************************************************************)
(* The lists.                                                              *)
(***************************************************************************)
Fetching(all, h, c) == [c EXCEPT !.fetch = Listed(all, h), !.behind = FALSE]

\* Mutant: the query key names the list on the screen.
Invalidate_ShownOnly(h) == cache' = [cache EXCEPT ![showAll] = Fetching(showAll, h, cache[showAll])]

\* The list on the screen is fetched again, giving up a fetch under way; the
\* other one is marked, and a fetch of it goes on with what it was to bring.
Invalidate(h) ==
  cache' = [all \in BOOLEAN |->
              IF all = showAll THEN Fetching(all, h, cache[all])
              ELSE [cache[all] EXCEPT !.invalid = TRUE, !.behind = @ \/ cache[all].fetch # DockNone]]

\* The host changed and no list was told.
Unheard == [all \in BOOLEAN |-> [cache[all] EXCEPT !.behind = TRUE]]

\* The answer is of the moment the fetch began or of a later one, and takes the
\* mark from the list.
ListArrives(all) ==
  /\ cache[all].fetch # DockNone
  /\ \E l \in {cache[all].fetch, Listed(all, host)} :
       cache' = [cache EXCEPT ![all] = [list |-> l, fetch |-> DockNone, invalid |-> FALSE,
                                        behind |-> cache[all].behind]]
  /\ UNCHANGED <<dockKind, host, showAll, hidden, forms, creating, removals, tasks>>

\* The button, the interval of the containers, the return to the window.
Refetch ==
  /\ cache[showAll].fetch = DockNone
  /\ cache' = [cache EXCEPT ![showAll] = Fetching(showAll, host, cache[showAll])]
  /\ UNCHANGED <<dockKind, host, showAll, hidden, forms, creating, removals, tasks>>

\* The other list of containers, fetched unless the cache has it and it is
\* neither marked nor old.
ToggleAll ==
  /\ NoDialog
  /\ showAll' = ~showAll
  /\ LET c == cache[~showAll]
     IN  \/ cache' = [cache EXCEPT ![~showAll] = IF c.fetch = DockNone THEN Fetching(~showAll, host, c) ELSE c]
         \/ c.list # DockNone /\ ~c.invalid /\ UNCHANGED cache
  /\ UNCHANGED <<dockKind, host, hidden, forms, creating, removals, tasks>>

Search ==
  /\ NoDialog
  /\ hidden' = IF hidden = {} THEN {1} ELSE {}
  /\ UNCHANGED <<dockKind, host, cache, showAll, forms, creating, removals, tasks>>

\* docker, used from elsewhere.
SomebodyElse ==
  /\ tasks < MaxTasks /\ tasks' = tasks + 1
  /\ \/ \E i \in DOMAIN host : host' = [host EXCEPT ![i] = ~@]
     \/ \E i \in DOMAIN host : host' = [j \in DOMAIN host \ {i} |-> host[j]]
  /\ cache' = Unheard
  /\ UNCHANGED <<dockKind, showAll, hidden, forms, creating, removals>>

-----------------------------------------------------------------------------
(***************************************************************************)
(* Creating.                                                               *)
(***************************************************************************)
OpenCreate ==
  /\ NoDialog /\ showCreate' = TRUE
  /\ UNCHANGED <<rest, draft, deleting, selected, confirmDelete>>

TypeDraft ==
  /\ showCreate /\ draft' = "filled"
  /\ UNCHANGED <<rest, showCreate, deleting, selected, confirmDelete>>

CloseCreate ==
  /\ showCreate /\ showCreate' = FALSE
  /\ UNCHANGED <<rest, draft, deleting, selected, confirmDelete>>

Submit ==
  /\ showCreate /\ ~creating
  /\ tasks < MaxTasks /\ tasks' = tasks + 1
  /\ creating' = TRUE
  /\ UNCHANGED <<dockKind, host, cache, showAll, hidden, forms, removals>>

With(i, used) == [j \in DOMAIN host \union {i} |-> IF j = i THEN used ELSE host[j]]
NewIds == Ids \ DOMAIN host

\* A container is started; a volume of that name may be there already.
Created(h) ==
  \/ \E i \in NewIds : h = With(i, dockKind = "containers")
  \/ dockKind = "volumes" /\ h = host

\* The dialog is closed, though it may be another opening of it; all but the
\* containers' is emptied.
CreateSucceeds ==
  /\ creating /\ creating' = FALSE
  /\ Created(host') /\ Invalidate(host')
  /\ showCreate' = FALSE /\ draft' = IF dockKind = "containers" THEN draft ELSE "blank"
  /\ UNCHANGED <<dockKind, showAll, hidden, deleting, selected, confirmDelete, removals, tasks>>

\* Refused; or done, and the answer is lost; or a container was made, did not
\* start, and its removal, in the same cancelled request, failed too.
CreateFails ==
  /\ creating /\ creating' = FALSE
  /\ \/ UNCHANGED <<host, cache>>
     \/ Created(host') /\ cache' = Unheard
     \/ dockKind = "containers" /\ (\E i \in NewIds : host' = With(i, FALSE)) /\ cache' = Unheard
  /\ UNCHANGED <<dockKind, showAll, hidden, forms, removals, tasks>>

-----------------------------------------------------------------------------
(***************************************************************************)
(* Deleting.                                                               *)
(***************************************************************************)
AskDelete(i) ==
  /\ NoDialog /\ i \in Rows
  /\ deleting' = i
  /\ UNCHANGED <<rest, showCreate, draft, selected, confirmDelete>>

CancelDelete ==
  /\ deleting # DockNone \/ confirmDelete
  /\ deleting' = DockNone /\ confirmDelete' = FALSE
  /\ UNCHANGED <<rest, showCreate, draft, selected>>

StartRemoval(ids) ==
  /\ tasks < MaxTasks /\ tasks' = tasks + 1
  /\ removals' = removals \union {[n |-> tasks', todo |-> ids, some |-> FALSE]}

\* The question stays until the answer, and its button can be pressed again.
ConfirmDelete ==
  /\ deleting # DockNone
  /\ StartRemoval({deleting})
  /\ UNCHANGED <<dockKind, host, cache, showAll, hidden, forms, creating>>

Unused == {i \in Rows : ~Shown[i]}

toggleSelect(i) ==
  /\ NoDialog /\ i \in Unused
  /\ selected' = IF i \in selected THEN selected \ {i} ELSE selected \union {i}
  /\ UNCHANGED <<rest, showCreate, draft, deleting, confirmDelete>>

toggleAll ==
  /\ NoDialog
  /\ selected' = IF Unused \subseteq selected THEN selected \ Unused ELSE selected \union Unused
  /\ UNCHANGED <<rest, showCreate, draft, deleting, confirmDelete>>

\* Mutant: everything that was ticked.
deletableSelected_Ticked == selected

\* The ticked images that are still listed, and listed as unused.
deletableSelected == {i \in selected : i \in DOMAIN Shown /\ ~Shown[i]}

AskRemove ==
  /\ NoDialog /\ deletableSelected # {} /\ removals = {}
  /\ confirmDelete' = TRUE
  /\ UNCHANGED <<rest, showCreate, draft, deleting, selected>>

ConfirmRemove ==
  /\ confirmDelete /\ confirmDelete' = FALSE
  /\ StartRemoval(deletableSelected)
  /\ UNCHANGED <<dockKind, host, cache, showAll, hidden, showCreate, draft, creating, deleting, selected>>

\* docker removes one more; only a container goes while it is in use.
RemoveNext(r) ==
  /\ \E i \in r.todo \intersect DOMAIN host :
       /\ dockKind = "containers" \/ ~host[i]
       /\ host' = [j \in DOMAIN host \ {i} |-> host[j]]
       /\ removals' = (removals \ {r}) \union {[r EXCEPT !.todo = @ \ {i}, !.some = TRUE]}
  /\ UNCHANGED <<dockKind, cache, showAll, hidden, forms, creating, tasks>>

\* All are removed: whatever question is asked by now is withdrawn, whatever
\* is ticked by now is not any more.
RemovalSucceeds(r) ==
  /\ r.todo = {}
  /\ removals' = removals \ {r} /\ Invalidate(host)
  /\ deleting' = DockNone
  /\ selected' = {}
  /\ UNCHANGED <<dockKind, host, showAll, hidden, showCreate, draft, creating, confirmDelete, tasks>>

\* The first that fails ends it, and no list is fetched: those removed so far
\* stay on the page.
RemovalFails(r) ==
  /\ removals' = removals \ {r}
  /\ cache' = IF r.some THEN Unheard ELSE cache
  /\ UNCHANGED <<dockKind, host, showAll, hidden, forms, creating, tasks>>

-----------------------------------------------------------------------------
(***************************************************************************)
(* The components.                                                         *)
(***************************************************************************)
\* A container needs an image, a network a name; a volume may go without.
CreateContainerDialog == TypeDraft \/ CloseCreate \/ (draft = "filled" /\ Submit)
CreateNetworkDialog   == TypeDraft \/ CloseCreate \/ (draft = "filled" /\ Submit)
CreateVolumeDialog    == TypeDraft \/ CloseCreate \/ Submit

ListPage ==
  \/ OpenCreate \/ CreateSucceeds \/ CreateFails
  \/ \E i \in Ids : AskDelete(i)
  \/ CancelDelete \/ ConfirmDelete

Containers == dockKind = "containers" /\ (ToggleAll \/ ListPage \/ CreateContainerDialog)
Networks   == dockKind = "networks"   /\ (Search \/ ListPage \/ CreateNetworkDialog)
Volumes    == dockKind = "volumes"    /\ (Search \/ ListPage \/ CreateVolumeDialog)
Images ==
  /\ dockKind = "images"
  /\ \/ Search \/ toggleAll \/ AskRemove \/ ConfirmRemove \/ CancelDelete
     \/ \E i \in Ids : toggleSelect(i)

Next ==
  \/ Containers \/ Networks \/ Volumes \/ Images
  \/ Refetch \/ SomebodyElse
  \/ \E all \in BOOLEAN : ListArrives(all)
  \/ \E r \in removals : RemoveNext(r) \/ RemovalSucceeds(r) \/ RemovalFails(r)

Spec == Init /\ [][Next]_vars

-----------------------------------------------------------------------------
(***************************************************************************)
(* Once everything the page asked for is answered, the list on the screen  *)
(* is what the host has, whichever list it was on when it asked; except    *)
(* for changes that were made elsewhere, or whose answer was a failure,    *)
(* since it was last fetched.                                              *)
(***************************************************************************)
DockerConverges ==
  LET c == cache[showAll]
  IN  removals = {} /\ c.fetch = DockNone /\ ~c.behind => c.list = Listed(showAll, host)

(***************************************************************************)
(* No image that the page shows in use, or that has left the list since it *)
(* was ticked, is asked to be removed.                                     *)
(***************************************************************************)
OnlyShownUnused ==
  dockKind = "images" =>
    \A r \in removals' \ removals : ~r.some => \A i \in r.todo : i \in DOMAIN Shown /\ ~Shown[i]
UnusedOnly == [][OnlyShownUnused]_vars

=============================================================================
