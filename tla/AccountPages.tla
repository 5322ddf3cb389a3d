---------------------------- MODULE AccountPages ----------------------------
(***************************************************************************)
(* The pages of users and of roles (Users.tsx, Roles.tsx) in the browser   *)
(* of an administrator, with the handlers they call.  The pages share the  *)
(* lists of the query cache; leaving a page drops its dialogs but not its  *)
(* requests.  Somebody else may change the same rows.                      *)
(*                                                                         *)
(* A user is a flag, a set of roles and the rows of custom permissions; a  *)
(* role is the rows of its permissions.  Roles are known by their ids,     *)
(* which are never used again.  One dialog is open at a time: all of them  *)
(* are modal.  The administrator's own row, which cannot be disabled or    *)
(* removed, is left out: Accounts has the rules for it.                    *)
(***************************************************************************)
EXTENDS Naturals, Sequences, SequencesExt

CONSTANTS
  MaxPerms,     \* bound: rows of permissions in a dialog
  MaxFormEdits, \* bound: ticks and edits of permissions in a dialog
  MaxRequests,  \* bound: requests of the pages and of somebody else
  AcctNone

VARIABLES
  accounts, roleTable,    \* the rows of the server
  lastRole,               \* the id of the newest role
  userRows, roleRows,     \* the lists the pages show
  userFetch, roleFetch,   \* the lists unanswered fetches will bring, or AcctNone
  usersInvalid,           \* the list of users was invalidated while its page was left
  acctPage,               \* "users" or "roles"
  acctForm,               \* the open dialog, or AcctNone
  requests, sent,         \* the requests in flight, and how many were sent
  others,                 \* how many changes somebody else made
  strayed                 \* an answer was lost, or a page was left with something unanswered

vars == <<accounts, roleTable, lastRole, userRows, roleRows, userFetch, roleFetch, usersInvalid, acctPage, acctForm,
          requests, sent, others, strayed>>
tables == <<accounts, roleTable, lastRole, others>>
lists  == <<userRows, roleRows, userFetch, roleFetch, usersInvalid>>

Account(roles, custom) == [disabled |-> FALSE, roles |-> roles, custom |-> custom]
NoPerms == <<>>

AdminRole == 1   \* the built-in role
DevRole   == 2
Builder   == 0   \* among the boxes of roles: the custom permissions

Init ==
  /\ accounts = [u \in {"bob"} |-> Account({DevRole}, NoPerms)]
  /\ roleTable = [r \in {AdminRole, DevRole} |-> <<[project |-> "*", actions |-> {"view"}]>>]
  /\ lastRole = DevRole
  /\ userRows = accounts /\ roleRows = roleTable
  /\ userFetch = AcctNone /\ roleFetch = AcctNone /\ usersInvalid = FALSE
  /\ acctPage = "users" /\ acctForm = AcctNone
  /\ requests = {} /\ sent = 0 /\ others = 0 /\ strayed = FALSE

-----------------------------------------------------------------------------
(***************************************************************************)
(* The dialogs.                                                            *)
(***************************************************************************)
Form(what, target, mode, roles, perms, row) ==
  [what |-> what, target |-> target, mode |-> mode, roles |-> roles,
   perms |-> perms, row |-> row, ticked |-> {}, save |-> 0, edits |-> 0]

NoDialog == acctForm = AcctNone

\* No dialog is followed that is opened after the last request of the bound.
Opens(form) ==
  /\ NoDialog /\ sent < MaxRequests /\ acctForm' = form
  /\ UNCHANGED <<tables, lists, acctPage, requests, sent, strayed>>

\* The effect of opening resets the fields.
OpenCreateUser == acctPage = "users" /\ Opens(Form("create", AcctNone, "role", {}, NoPerms, AcctNone))

\* EditAccessDialog is mounted with the row as it is listed now.
OpenEditAccess(u) ==
  /\ acctPage = "users" /\ u \in DOMAIN userRows
  /\ Opens(Form("access", u, IF userRows[u].custom # NoPerms THEN "custom" ELSE "role",
                userRows[u].roles, userRows[u].custom, userRows[u]))

OpenNewRole == acctPage = "roles" /\ Opens(Form("role", AcctNone, "custom", {}, NoPerms, AcctNone))
OpenRole(r) ==
  /\ acctPage = "roles" /\ r \in DOMAIN roleRows
  /\ Opens(Form("role", r, "custom", {}, roleRows[r], AcctNone))

CloseForm ==
  /\ acctForm' = AcctNone
  /\ UNCHANGED <<tables, lists, acctPage, requests, sent, strayed>>

SetForm(form) ==
  /\ acctForm' = form
  /\ UNCHANGED <<tables, lists, acctPage, requests, sent, strayed>>
Edits(form) == acctForm.edits < MaxFormEdits /\ SetForm([form EXCEPT !.edits = @ + 1])

InDialog(what) == acctForm # AcctNone /\ acctForm.what = what

\* "Assign role" or "Custom permissions".
SetMode(mode) == acctForm.mode # mode /\ SetForm([acctForm EXCEPT !.mode = mode])

\* What was changed is kept for a user's access only.
Tick(box) == IF acctForm.what = "access" THEN acctForm.ticked \union {box} ELSE {}

\* A box of the roles of the cache.
RoleSelector(r) ==
  /\ acctForm.mode = "role" /\ r \in DOMAIN roleRows
  /\ Edits([acctForm EXCEPT !.roles = IF r \in @ THEN @ \ {r} ELSE @ \union {r}, !.ticked = Tick(r)])

SetPerms(perms) ==
  /\ acctForm.mode = "custom"
  /\ Edits([acctForm EXCEPT !.perms = perms, !.ticked = Tick(Builder)])

AddPermission == Len(acctForm.perms) < MaxPerms /\ SetPerms(Append(acctForm.perms, [project |-> "*", actions |-> {}]))
RemovePermission(i) == SetPerms(RemoveAt(acctForm.perms, i))
\* An option; what is typed only filters the options.
ProjectSelect(i, p) == p # acctForm.perms[i].project /\ SetPerms([acctForm.perms EXCEPT ![i].project = p])
\* The section actions are offered for "*" only; they stay when the project changes.
ToggleAction(i, a) ==
  /\ a = "users" => acctForm.perms[i].project = "*"
  /\ SetPerms([acctForm.perms EXCEPT ![i].actions = IF a \in @ THEN @ \ {a} ELSE @ \union {a}])

PermissionBuilder ==
  \/ AddPermission
  \/ \E i \in DOMAIN acctForm.perms :
       \/ RemovePermission(i)
       \/ \E p \in {"*", "app"} : ProjectSelect(i, p)
       \/ \E a \in {"view", "users"} : ToggleAction(i, a)

-----------------------------------------------------------------------------
(***************************************************************************)
(* Requests.                                                               *)
(***************************************************************************)
Request(op, target) ==
  [n |-> sent + 1, op |-> op, target |-> target, mounted |-> TRUE, roles |-> {}, perms |-> NoPerms,
   clear |-> FALSE, disabled |-> FALSE, row |-> AcctNone, ticked |-> {}]
Send(request) ==
  /\ sent < MaxRequests /\ sent' = sent + 1
  /\ requests' = requests \union {request}
  /\ UNCHANGED <<tables, lists, acctPage, strayed>>

\* What the open dialog sends: roles in role mode, permissions in custom mode.
FormRequest(op, target) ==
  [Request(op, target) EXCEPT !.roles = IF acctForm.mode = "role" THEN acctForm.roles ELSE {},
                              !.perms = IF acctForm.mode = "custom" THEN acctForm.perms ELSE NoPerms,
                              !.clear = (acctForm.mode = "role"),
                              !.row = acctForm.row,
                              !.ticked = IF op = "access" THEN acctForm.ticked ELSE {}]

\* With a name and a password.
CreateUser ==
  /\ ~ \E r \in requests : r.op = "create" /\ r.mounted
  /\ Send(FormRequest("create", "eve"))
  /\ UNCHANGED acctForm

SaveAccess ==
  /\ acctForm.save = 0
  /\ Send(FormRequest("access", acctForm.target))
  /\ acctForm' = [acctForm EXCEPT !.save = sent']

\* With a name.
SaveRole ==
  /\ acctForm.save = 0
  /\ Send(IF acctForm.target = AcctNone THEN FormRequest("createRole", AcctNone)
           ELSE FormRequest("role", acctForm.target))
  /\ acctForm' = [acctForm EXCEPT !.save = sent']

\* The button of the status asks for the opposite of what it shows.
ToggleDisabled(u) ==
  /\ acctPage = "users" /\ NoDialog /\ u \in DOMAIN userRows
  /\ Send([Request("toggle", u) EXCEPT !.disabled = ~userRows[u].disabled])
  /\ UNCHANGED acctForm

\* The confirmed removal of a row.
RemoveUser(u) ==
  /\ acctPage = "users" /\ NoDialog /\ Send(Request("remove", u))
  /\ UNCHANGED acctForm
RemoveRole(r) ==
  /\ acctPage = "roles" /\ NoDialog /\ Send(Request("removeRole", r))
  /\ UNCHANGED acctForm

\* The built-in role has no buttons.
RoleCard(r) == r # AdminRole /\ (OpenRole(r) \/ RemoveRole(r))

\* The dialogs.
AccessFields ==
  \/ \E m \in {"role", "custom"} : SetMode(m)
  \/ \E r \in DOMAIN roleRows : RoleSelector(r)
  \/ PermissionBuilder
CreateUserDialog == InDialog("create") /\ (AccessFields \/ CreateUser \/ CloseForm)
EditAccessDialog == InDialog("access") /\ (AccessFields \/ SaveAccess \/ CloseForm)
RoleEditor       == InDialog("role") /\ (PermissionBuilder \/ SaveRole \/ CloseForm)

-----------------------------------------------------------------------------
(***************************************************************************)
(* The handlers.                                                           *)
(***************************************************************************)

\* update: an empty list replaces the roles in role mode only.
AssignsRoles(r) == r.roles # {} \/ r.clear

UpdateAccess(r) ==
  /\ r.op = "access" /\ r.target \in DOMAIN accounts
  /\ AssignsRoles(r) => r.roles \subseteq DOMAIN roleTable
  /\ accounts' = [accounts EXCEPT ![r.target].roles = IF AssignsRoles(r) THEN r.roles ELSE @,
                                  ![r.target].custom = r.perms]
  /\ UNCHANGED <<roleTable, lastRole>>

UpdateDisabled(r) ==
  /\ r.op = "toggle"
  /\ accounts' = [u \in DOMAIN accounts |->
                    IF u = r.target THEN [accounts[u] EXCEPT !.disabled = r.disabled] ELSE accounts[u]]
  /\ UNCHANGED <<roleTable, lastRole>>

\* Roles that cannot be assigned are not an error.
CreateAccount(r) ==
  /\ r.op = "create" /\ r.target \notin DOMAIN accounts
  /\ accounts' = [u \in DOMAIN accounts \union {r.target} |->
                    IF u = r.target THEN Account(IF r.roles \subseteq DOMAIN roleTable THEN r.roles ELSE {}, r.perms)
                    ELSE accounts[u]]
  /\ UNCHANGED <<roleTable, lastRole>>

DeleteAccount(r) ==
  /\ r.op = "remove"
  /\ accounts' = [u \in DOMAIN accounts \ {r.target} |-> accounts[u]]
  /\ UNCHANGED <<roleTable, lastRole>>

CreateOrUpdateRole(r) ==
  LET id == IF r.op = "createRole" THEN lastRole + 1 ELSE r.target
  IN  /\ r.op = "createRole" \/ (r.op = "role" /\ id \in DOMAIN roleTable)
      /\ roleTable' = [t \in DOMAIN roleTable \union {id} |-> IF t = id THEN r.perms ELSE roleTable[t]]
      /\ lastRole' = IF r.op = "createRole" THEN id ELSE lastRole
      /\ UNCHANGED accounts

\* The links of the users go with the role.
DeleteRole(r) ==
  /\ r.op = "removeRole" /\ r.target \in DOMAIN roleTable
  /\ roleTable' = [t \in DOMAIN roleTable \ {r.target} |-> roleTable[t]]
  /\ accounts' = [u \in DOMAIN accounts |-> [accounts[u] EXCEPT !.roles = @ \ {r.target}]]
  /\ UNCHANGED lastRole

Handle(r) == UpdateAccess(r) \/ UpdateDisabled(r) \/ CreateAccount(r) \/ DeleteAccount(r)
             \/ CreateOrUpdateRole(r) \/ DeleteRole(r)

\* Mutant: the list of users is not fetched again.
InvalidateUsers_Skipped == UNCHANGED <<userFetch, usersInvalid>>

\* The list is fetched again, now or when its page is shown.
InvalidateUsers ==
  IF acctPage = "users" THEN userFetch' = accounts' /\ UNCHANGED usersInvalid
  ELSE usersInvalid' = TRUE /\ UNCHANGED userFetch

\* A request on users invalidates the users, one on roles the roles only.
OnUsers(r) == r.op \in {"create", "access", "toggle", "remove"}
Invalidate(r) ==
  IF OnUsers(r) THEN InvalidateUsers /\ UNCHANGED roleFetch
  ELSE roleFetch' = roleTable' /\ UNCHANGED <<userFetch, usersInvalid>>

\* onSuccess closes the dialog of its kind that is open on the same page by now.
Closes(r) ==
  /\ acctForm # AcctNone /\ r.mounted
  /\ acctForm.what = CASE r.op \in {"role", "createRole"} -> "role" [] OTHER -> r.op

RequestSucceeds(r) ==
  /\ r \in requests /\ requests' = requests \ {r}
  /\ Handle(r) /\ Invalidate(r)
  /\ acctForm' = IF Closes(r) THEN AcctNone ELSE acctForm
  /\ UNCHANGED <<others, userRows, roleRows, acctPage, sent, strayed>>

\* An error, before or after the change was made.
RequestFails(r) ==
  /\ r \in requests /\ requests' = requests \ {r}
  /\ \/ UNCHANGED <<accounts, roleTable, lastRole, strayed>>
     \/ Handle(r) /\ strayed' = TRUE
  /\ acctForm' = IF acctForm # AcctNone /\ acctForm.save = r.n THEN [acctForm EXCEPT !.save = 0] ELSE acctForm
  /\ UNCHANGED <<others, lists, acctPage, sent>>

\* Another administrator gives or takes a role, or deletes one.
SomebodyElse ==
  /\ sent < MaxRequests /\ sent' = sent + 1 /\ others' = others + 1
  /\ \/ /\ "bob" \in DOMAIN accounts /\ DevRole \in DOMAIN roleTable
        /\ accounts' = [accounts EXCEPT !["bob"].roles = IF DevRole \in @ THEN @ \ {DevRole} ELSE @ \union {DevRole}]
        /\ UNCHANGED <<roleTable, lastRole>>
     \/ DeleteRole(Request("removeRole", DevRole))
  /\ UNCHANGED <<lists, acctPage, acctForm, requests, strayed>>

-----------------------------------------------------------------------------
(***************************************************************************)
(* The lists, and the way from one page to the other.                      *)
(***************************************************************************)
UsersArrive ==
  /\ userFetch # AcctNone /\ userFetch' = AcctNone
  /\ userRows' = userFetch /\ usersInvalid' = FALSE
  /\ UNCHANGED <<tables, roleRows, roleFetch, acctPage, acctForm, requests, sent, strayed>>

RolesArrive ==
  /\ roleFetch # AcctNone /\ roleFetch' = AcctNone /\ roleRows' = roleFetch
  /\ UNCHANGED <<tables, userRows, userFetch, usersInvalid, acctPage, acctForm, requests, sent, strayed>>

\* The window gets the focus and the lists are older than 30 s.
FocusRefetch ==
  /\ userFetch = AcctNone /\ roleFetch = AcctNone
  /\ userFetch' = IF acctPage = "users" THEN accounts ELSE AcctNone
  /\ roleFetch' = roleTable
  /\ UNCHANGED <<tables, userRows, roleRows, usersInvalid, acctPage, acctForm, requests, sent, strayed>>

\* Both pages use the list of roles.  The list of users is fetched again when
\* it was invalidated or has become old.
GoTo(page) ==
  /\ NoDialog /\ acctPage # page /\ acctPage' = page
  /\ requests' = {[r EXCEPT !.mounted = FALSE] : r \in requests}
  /\ strayed' = (strayed \/ requests # {} \/ userFetch # AcctNone)
  /\ \/ page = "users" /\ userFetch = AcctNone /\ userFetch' = accounts
     \/ (page = "users" => ~usersInvalid \/ userFetch # AcctNone) /\ UNCHANGED userFetch
  /\ UNCHANGED <<tables, userRows, roleRows, roleFetch, usersInvalid, acctForm, sent>>

Users ==
  \/ OpenCreateUser \/ CreateUserDialog \/ EditAccessDialog
  \/ \E u \in DOMAIN userRows : OpenEditAccess(u) \/ ToggleDisabled(u) \/ RemoveUser(u)
Roles ==
  \/ OpenNewRole \/ RoleEditor
  \/ \E r \in DOMAIN roleRows : RoleCard(r)

Next ==
  \/ Users \/ Roles
  \/ \E r \in requests : RequestSucceeds(r) \/ RequestFails(r)
  \/ SomebodyElse \/ UsersArrive \/ RolesArrive \/ FocusRefetch \/ \E p \in {"users", "roles"} : GoTo(p)

Spec == Init /\ [][Next]_vars

-----------------------------------------------------------------------------
\* A save of a user's access changes what its dialog was opened with only where
\* the administrator changed it: while the row of the server is still the row
\* that was listed, a role is given or taken only by its box, and custom
\* permissions are changed only by the builder or by choosing the mode.
OnlyTicked ==
  \A r \in requests :
    r.op = "access" /\ r.target \in DOMAIN accounts /\ accounts[r.target] = r.row =>
      /\ r.clear => (r.roles \ r.row.roles) \union (r.row.roles \ r.roles) \subseteq r.ticked
      /\ ~r.clear => r.perms = r.row.custom \/ Builder \in r.ticked

\* users.go:168-169: custom permissions never take a role away.  The roles of a
\* user change by a save in role mode or by the deletion of a role.
RolesKept ==
  others' = others =>
    \A u \in DOMAIN accounts : u \in DOMAIN accounts' /\ accounts'[u].roles # accounts[u].roles =>
      \E r \in requests \ requests' : (r.op = "access" /\ r.clear /\ r.target = u) \/ r.op = "removeRole"
CustomKeepsRoles == [][RolesKept]_vars

\* Once everything is answered the page of users shows what the server has, but
\* for roles that were deleted: their deletion does not fetch the users again.
UsersConverge ==
  acctPage = "users" /\ requests = {} /\ userFetch = AcctNone /\ ~strayed /\ others = 0 =>
    /\ DOMAIN userRows = DOMAIN accounts
    /\ \A u \in DOMAIN accounts :
         [userRows[u] EXCEPT !.roles = @ \intersect DOMAIN roleTable] = accounts[u]

\* The pages of users and roles change what was asked and show what is stored.
AccessAsShown == OnlyTicked /\ UsersConverge

=============================================================================
