-------------------------- MODULE ProjectWebhooks ---------------------------
(***************************************************************************)
(* The webhooks of a project and of its services (WebhooksSection of the   *)
(* page ProjectDetail).  Copying a webhook's address is left out.          *)
(***************************************************************************)
EXTENDS Naturals

CONSTANTS
  Services,  \* the services of the project
  MaxHooks,  \* bound: webhooks created, when another is asked for
  HookNone

VARIABLES
  hooks,          \* the webhooks of the server: id and target
  hooksSeen,      \* as the page has them, or HookNone before they came
  hooksFetch,     \* what an unanswered fetch will bring, or HookNone
  hooksStale,     \* the list is to be fetched when the section is opened
  hooksOpen,
  creating,       \* per mutation, the target of the webhook being created, or HookNone
  dels,           \* webhooks being deleted
  hookIds, early  \* webhooks created; one was created with no list, or an old one, to look at

vars == <<hooks, hooksSeen, hooksFetch, hooksStale, hooksOpen, creating, dels, hookIds, early>>

Targets   == {"project"} \union Services
Mutations == {"project", "service"}

Init ==
  /\ hooks = {} /\ hooksSeen = HookNone /\ hooksFetch = HookNone /\ hooksStale = TRUE /\ hooksOpen = FALSE
  /\ creating = [m \in Mutations |-> HookNone] /\ dels = {} /\ hookIds = 0 /\ early = FALSE

-----------------------------------------------------------------------------
\* The webhook of a target that the page finds.
FoundHook(t) == {h \in hooksSeen : h.target = t /\ \A g \in hooksSeen : g.target = t => h.id <= g.id}
Found(t)     == IF hooksSeen = HookNone THEN {} ELSE FoundHook(t)

ToggleOpen ==
  /\ hooksOpen' = ~hooksOpen
  /\ hooksFetch' = IF hooksOpen' /\ hooksStale /\ hooksFetch = HookNone THEN hooks ELSE hooksFetch
  /\ UNCHANGED <<hooks, hooksSeen, hooksStale, creating, dels, hookIds, early>>

\* Mutant: a webhook that was created is not fetched.
InvalidateHooks_Skipped(after) == UNCHANGED <<hooksFetch, hooksStale, early>>

\* The list is fetched again, or, when the section is closed, when it is opened;
\* a fetch that was under way then takes the mark away.
InvalidateHooks(after) ==
  /\ hooksStale' = TRUE /\ hooksFetch' = IF hooksOpen THEN after ELSE hooksFetch
  /\ early' = (early \/ (~hooksOpen /\ hooksFetch # HookNone))

MutationOf(t) == IF t = "project" THEN "project" ELSE "service"

CreateWebhook(t) ==
  /\ hooksOpen /\ Found(t) = {} /\ creating[MutationOf(t)] = HookNone /\ hookIds < MaxHooks
  /\ creating' = [creating EXCEPT ![MutationOf(t)] = t]
  /\ early' = (early \/ hooksSeen = HookNone \/ hooksFetch # HookNone)
  /\ UNCHANGED <<hooks, hooksSeen, hooksFetch, hooksStale, hooksOpen, dels, hookIds>>

Created(m) == hooks \union {[id |-> hookIds + 1, target |-> creating[m]]}

CreateSucceeds(m) ==
  /\ creating[m] # HookNone /\ hooks' = Created(m) /\ hookIds' = hookIds + 1
  /\ InvalidateHooks(hooks') /\ creating' = [creating EXCEPT ![m] = HookNone]
  /\ UNCHANGED <<hooksSeen, hooksOpen, dels>>

CreateFails(m) ==
  /\ creating[m] # HookNone /\ creating' = [creating EXCEPT ![m] = HookNone]
  /\ \/ UNCHANGED <<hooks, hookIds, early>>
     \/ hooks' = Created(m) /\ hookIds' = hookIds + 1 /\ early' = TRUE
  /\ UNCHANGED <<hooksSeen, hooksFetch, hooksStale, hooksOpen, dels>>

DeleteWebhook(h) ==
  /\ hooksOpen /\ dels' = dels \union {h}
  /\ UNCHANGED <<hooks, hooksSeen, hooksFetch, hooksStale, hooksOpen, creating, hookIds, early>>

DeleteSucceeds(h) ==
  /\ h \in hooks /\ hooks' = hooks \ {h} /\ dels' = dels \ {h} /\ InvalidateHooks(hooks')
  /\ UNCHANGED <<hooksSeen, hooksOpen, creating, hookIds>>

\* A webhook that is gone is not found.
DeleteFails(h) ==
  /\ dels' = dels \ {h} /\ hooks' \in {hooks, hooks \ {h}}
  /\ UNCHANGED <<hooksSeen, hooksFetch, hooksStale, hooksOpen, creating, hookIds, early>>

HooksArrive ==
  /\ hooksFetch # HookNone /\ hooksSeen' = hooksFetch /\ hooksFetch' = HookNone /\ hooksStale' = FALSE
  /\ UNCHANGED <<hooks, hooksOpen, creating, dels, hookIds, early>>

HooksFail ==
  /\ hooksFetch # HookNone /\ hooksFetch' = HookNone
  /\ early' = (early \/ hooksStale)
  /\ UNCHANGED <<hooks, hooksSeen, hooksStale, hooksOpen, creating, dels, hookIds>>

WebhooksSection ==
  \/ ToggleOpen \/ HooksArrive \/ HooksFail
  \/ \E t \in Targets : CreateWebhook(t) \/ \E h \in Found(t) : DeleteWebhook(h)
  \/ \E m \in Mutations : CreateSucceeds(m) \/ CreateFails(m)
  \/ \E h \in dels : DeleteSucceeds(h) \/ DeleteFails(h)

Next == WebhooksSection

Spec == Init /\ [][Next]_vars

-----------------------------------------------------------------------------
\* There is one webhook for a target, so none that can be called is hidden
\* behind another on the page, unless "Create" was clicked before the list had
\* come (the page offers it with no list) or an answer was lost.
OneHookEach == ~early => \A g, h \in hooks : g.target = h.target => g = h

=============================================================================
