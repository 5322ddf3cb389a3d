------------------------------ MODULE Accounts ------------------------------
(***************************************************************************)
(* Users, roles, sessions and the first-run setup of vps-pilot.            *)
(*                                                                         *)
(* The handlers of /api/users, /api/roles, /api/setup and /api/login, the  *)
(* middleware in front of them and the two command-line tools that write   *)
(* the same tables are requests whose database statements interleave; a    *)
(* statement or a transaction is one step.  Foreign keys are enforced, as  *)
(* the data source name of db.Open asks for (ProjectStore has both cases). *)
(*                                                                         *)
(* A personal role is found by its name, which holds the user's name, but  *)
(* it takes effect through a row of user_roles: `personal' and `linked'.   *)
(***************************************************************************)
EXTENDS Integers, FiniteSets

CONSTANTS
  Names,        \* user names
  Linux,        \* names that can log in to the host and so through PAM
  CustomRoles,  \* roles an administrator may create
  Actions,      \* permission actions
  Reqs,         \* requests and command-line runs in flight together
  MaxId,        \* bound: users ever created
  NoUser, NoRole, Unborn, Null

ASSUME NamesAssumption == Linux \subseteq Names
ASSUME RolesAssumption == "admin" \notin CustomRoles
ASSUME MaxIdAssumption == MaxId \in Nat

Ids     == 1 .. MaxId
Roles   == {"admin"} \union CustomRoles
User    == [name : Names, auth : {"pam", "local"}, disabled : BOOLEAN]
Granted == SUBSET Actions

ASSUME NullsAssumption ==
  /\ NoUser \notin User /\ NoUser \notin Names
  /\ \A P \in Granted : P # NoRole /\ P # Unborn /\ P # Null
  /\ \A R \in SUBSET Roles : R # Null
  /\ \A d \in BOOLEAN : d # Null
  /\ NoRole # Unborn

VARIABLES
  users,     \* rows of users; ids come from AUTOINCREMENT
  seq,       \* the last id given out
  grants,    \* rows of user_roles that name a system or custom role
  roles,     \* the custom roles and their permissions
  personal,  \* the personal role of a name
  linked,    \* users with a row of user_roles that names their personal role
  sessions,  \* users who hold a session cookie
  req,       \* requests in flight
  disturbed  \* history: requests have overlapped, or one was cut short

tables == <<users, seq, grants, roles, personal, linked>>
vars   == <<users, seq, grants, roles, personal, linked, sessions, req, disturbed>>

(***************************************************************************)
(* A request: the user it acts for and acts on, the roles and permissions  *)
(* still to be stored, and the name its target had when it was chosen.     *)
(***************************************************************************)
PCs == {"idle", "admin", "serve",
        "list", "createGet", "createRoles", "createPerms",
        "updRoles", "updAssign", "updGet", "updPerms", "disable", "delete",
        "roleWrite", "roleDelete",
        "setupInsert", "setupGet", "setupAssign", "installFind", "installAssign"}

Request == [pc : PCs, actor : 0 .. MaxId, target : 0 .. MaxId, aim : Names \union {NoUser},
            roleIds : {Null} \union SUBSET Roles, perms : {Null} \union Granted,
            role : CustomRoles \union {Null}]

Idle == [pc |-> "idle", actor |-> 0, target |-> 0, aim |-> NoUser,
         roleIds |-> Null, perms |-> Null, role |-> Null]
Quiet == \A r \in Reqs : req[r] = Idle

Init ==
  /\ users = [i \in Ids |-> NoUser] /\ seq = 0
  /\ grants = [i \in Ids |-> {}]
  /\ roles = [c \in CustomRoles |-> Unborn]
  /\ personal = [n \in Names |-> NoRole] /\ linked = {}
  /\ sessions = {} /\ disturbed = FALSE
  /\ req = [r \in Reqs |-> Idle]

Arrive(r, q) ==
  /\ req[r] = Idle
  /\ req' = [req EXCEPT ![r] = q]
  /\ disturbed' = (disturbed \/ ~Quiet)
Goto(r, q)     == req' = [req EXCEPT ![r] = q] /\ UNCHANGED disturbed
At(r, pc)      == Goto(r, [req[r] EXCEPT !.pc = pc])
Finish(r)      == Goto(r, Idle)
Serve(r)       == req[r] = Idle /\ disturbed' = (disturbed \/ ~Quiet) /\ UNCHANGED req

-----------------------------------------------------------------------------
(***************************************************************************)
(* Statements and transactions of internal/db.                             *)
(***************************************************************************)
Live(i)    == i \in Ids /\ users[i] # NoUser
NoUsers    == \A i \in Ids : users[i] = NoUser
Named(n)   == {i \in Ids : Live(i) /\ users[i].name = n}
IsAdmin(i) == i \in Ids /\ "admin" \in grants[i]
Admins     == {i \in Ids : IsAdmin(i)}
Exists(c)  == c \in CustomRoles => roles[c] # NoRole /\ roles[c] # Unborn

\* Mutant: ids without AUTOINCREMENT, the largest in use plus one.
NextId_Reused == 1 + Cardinality({i \in Ids : \E j \in i .. MaxId : Live(j)})

NextId == seq + 1

InsertUser(n, auth) ==
  /\ Named(n) = {} /\ seq < MaxId
  /\ users' = [users EXCEPT ![NextId] = [name |-> n, auth |-> auth, disabled |-> FALSE]]
  /\ seq' = IF NextId > seq THEN NextId ELSE seq

SetUserDisabled(i, d) ==
  users' = IF Live(i) THEN [users EXCEPT ![i].disabled = d] ELSE users

\* DELETE FROM users; the rows of user_roles go with it, the personal role stays.
DeleteUser(i) ==
  /\ users' = [users EXCEPT ![i] = NoUser]
  /\ grants' = [grants EXCEPT ![i] = {}]
  /\ linked' = linked \ {i}

\* One transaction: every row of the user goes, the link to the personal role
\* included, and the new ones come.  A missing user or role rolls it back.
CanAssign(i, R) == Live(i) /\ \A c \in R : Exists(c)
AssignRolesToUser(i, R) ==
  /\ grants' = [grants EXCEPT ![i] = R]
  /\ linked' = linked \ {i}

\* Mutant: an existing personal role is not linked again.
UpsertPersonalRole_NoRelink(i, n, P) ==
  /\ personal' = [personal EXCEPT ![n] = IF P = {} THEN NoRole ELSE P]
  /\ linked' = IF P = {} THEN linked \ Named(n)
               ELSE IF personal[n] = NoRole THEN linked \union {i} ELSE linked

\* Without permissions the role goes, and the rows that link to it.
UpsertPersonalRole(i, n, P) ==
  /\ personal' = [personal EXCEPT ![n] = IF P = {} THEN NoRole ELSE P]
  /\ linked' = IF P = {} THEN linked \ Named(n) ELSE linked \union {i}

-----------------------------------------------------------------------------
(***************************************************************************)
(* Signing in and out, and the middleware.                                 *)
(***************************************************************************)
\* authenticate with PAM: the first login of a Linux user creates its row.
LoginPAM(r, n) ==
  /\ n \in Linux
  /\ \/ /\ InsertUser(n, "pam")
        /\ sessions' = sessions \union {NextId}
     \/ /\ \E i \in Named(n) : ~users[i].disabled /\ sessions' = sessions \union {i}
        /\ UNCHANGED <<users, seq>>
  /\ Serve(r)
  /\ UNCHANGED <<grants, roles, personal, linked>>

LoginLocal(r, n) ==
  /\ \E i \in Named(n) : /\ users[i].auth = "local" /\ ~users[i].disabled
                         /\ sessions' = sessions \union {i}
  /\ Serve(r)
  /\ UNCHANGED tables

Logout(r, i) ==
  /\ i \in sessions
  /\ sessions' = sessions \ {i}
  /\ Serve(r)
  /\ UNCHANGED tables

\* A cookie of a user who is gone is cleared; nothing else of the user is read.
RequireAuth(r, i) ==
  /\ i \in sessions
  /\ \/ /\ Live(i)
        /\ Arrive(r, [Idle EXCEPT !.pc = "admin", !.actor = i])
        /\ UNCHANGED sessions
     \/ ~Live(i) /\ Serve(r) /\ sessions' = sessions \ {i}
  /\ UNCHANGED tables

RequireAdmin(r) ==
  /\ req[r].pc = "admin"
  /\ \/ IsAdmin(req[r].actor) /\ At(r, "serve")
     \/ ~IsAdmin(req[r].actor) /\ Finish(r)
  /\ UNCHANGED <<tables, sessions>>

-----------------------------------------------------------------------------
(***************************************************************************)
(* /api/users                                                              *)
(***************************************************************************)
\* The listing gives every Linux user a row, one insert at a time.
List(r) ==
  /\ req[r].pc \in {"serve", "list"}
  /\ \/ \E n \in Linux : InsertUser(n, "pam") /\ At(r, "list")
     \/ (\A n \in Linux : Named(n) # {}) /\ Finish(r) /\ UNCHANGED <<users, seq>>
  /\ UNCHANGED <<grants, roles, personal, linked, sessions>>

Create(r) ==
  /\ req[r].pc = "serve"
  /\ \E n \in Names, R \in SUBSET Roles, P \in Granted :
       \/ /\ InsertUser(n, "local")
          /\ Goto(r, [req[r] EXCEPT !.pc = "createGet", !.target = NextId, !.aim = n,
                        !.roleIds = R, !.perms = P])
       \/ Named(n) # {} /\ Finish(r) /\ UNCHANGED <<users, seq>>
  /\ UNCHANGED <<grants, roles, personal, linked, sessions>>

CreateGet(r) ==
  /\ req[r].pc = "createGet"
  /\ \/ Live(req[r].target) /\ At(r, "createRoles")
     \/ ~Live(req[r].target) /\ Finish(r)
  /\ UNCHANGED <<tables, sessions>>

\* The errors of the last two steps are dropped.
CreateRoles(r) ==
  LET q == req[r]
      assigns == q.roleIds # {} /\ CanAssign(q.target, q.roleIds)
  IN  /\ q.pc = "createRoles"
      /\ \/ assigns /\ AssignRolesToUser(q.target, q.roleIds)
         \/ ~assigns /\ UNCHANGED <<grants, linked>>
      /\ Goto(r, [q EXCEPT !.pc = "createPerms", !.roleIds = Null])
      /\ UNCHANGED <<users, seq, roles, personal, sessions>>

CreatePerms(r) ==
  LET q == req[r]
      stores == q.perms # {} /\ Live(q.target)
  IN  /\ q.pc = "createPerms"
      /\ \/ stores /\ UpsertPersonalRole(q.target, q.aim, q.perms)
         \/ ~stores /\ UNCHANGED <<personal, linked>>
      /\ Finish(r)
      /\ UNCHANGED <<users, seq, grants, roles, sessions>>

\* The body of an update: each part may be missing.
Body == [disabled : {Null} \union BOOLEAN, roleIds : {Null} \union SUBSET Roles,
         perms : {Null} \union Granted, clear : BOOLEAN]

\* An empty list changes the roles only together with clearPermissions.
NewRoles(b) == IF b.roleIds # {} \/ b.clear THEN b.roleIds ELSE Null
NewPerms(b) == IF b.perms = Null /\ b.clear THEN {} ELSE b.perms

\* What the bodies ask for; many ask for the same.
Asked == {[disabled |-> b.disabled, roleIds |-> NewRoles(b), perms |-> NewPerms(b)] : b \in Body}

Decided(r, t, a) ==
  [req[r] EXCEPT !.pc = "updRoles", !.target = t, !.roleIds = a.roleIds,
     !.perms = a.perms, !.aim = IF Live(t) THEN users[t].name ELSE NoUser]

Update(r) ==
  /\ req[r].pc = "serve"
  /\ \E t \in Ids, a \in Asked :
       \/ /\ req[r].actor = t /\ a.disabled = TRUE
          /\ Finish(r) /\ UNCHANGED users
       \/ /\ ~(req[r].actor = t /\ a.disabled = TRUE)
          /\ IF a.disabled = Null THEN UNCHANGED users ELSE SetUserDisabled(t, a.disabled)
          /\ Goto(r, Decided(r, t, a))
  /\ UNCHANGED <<seq, grants, roles, personal, linked, sessions>>

\* Mutant: no check against giving up one's own admin role.
UpdateRoles_SelfDemote(r) ==
  /\ req[r].pc = "updRoles"
  /\ At(r, IF req[r].roleIds = Null THEN "updGet" ELSE "updAssign")
  /\ UNCHANGED <<tables, sessions>>

UpdateRoles(r) ==
  LET q == req[r]
      demotesSelf == q.actor = q.target /\ IsAdmin(q.target) /\ "admin" \notin q.roleIds
  IN  /\ q.pc = "updRoles"
      /\ \/ q.roleIds = Null /\ At(r, "updGet")
         \/ q.roleIds # Null /\ demotesSelf /\ Finish(r)
         \/ q.roleIds # Null /\ ~demotesSelf /\ At(r, "updAssign")
      /\ UNCHANGED <<tables, sessions>>

UpdateAssign(r) ==
  LET q == req[r] IN
  /\ q.pc = "updAssign"
  /\ \/ /\ CanAssign(q.target, q.roleIds)
        /\ AssignRolesToUser(q.target, q.roleIds)
        /\ Goto(r, [q EXCEPT !.pc = "updGet", !.roleIds = Null])
     \/ /\ ~CanAssign(q.target, q.roleIds)
        /\ Finish(r) /\ UNCHANGED <<grants, linked>>
  /\ UNCHANGED <<users, seq, roles, personal, sessions>>

UpdateGet(r) ==
  LET q == req[r]
      reads == q.perms # Null /\ Live(q.target)
  IN  /\ q.pc = "updGet"
      /\ \/ reads /\ Goto(r, [q EXCEPT !.pc = "updPerms", !.aim = users[q.target].name])
         \/ ~reads /\ Finish(r)
      /\ UNCHANGED <<tables, sessions>>

\* A user deleted meanwhile cannot be linked; removing the role needs no user.
UpdatePerms(r) ==
  LET q == req[r]
      stores == Live(q.target) \/ q.perms = {}
  IN  /\ q.pc = "updPerms"
      /\ \/ stores /\ UpsertPersonalRole(q.target, q.aim, q.perms)
         \/ ~stores /\ UNCHANGED <<personal, linked>>
      /\ Finish(r)
      /\ UNCHANGED <<users, seq, grants, roles, sessions>>

\* A PAM user is disabled instead of deleted.
Delete(r) ==
  /\ req[r].pc = "serve"
  /\ \E t \in Ids :
       \/ (req[r].actor = t \/ ~Live(t)) /\ Finish(r)
       \/ /\ req[r].actor # t /\ Live(t)
          /\ Goto(r, [req[r] EXCEPT !.target = t, !.aim = users[t].name,
                        !.pc = IF users[t].auth = "pam" THEN "disable" ELSE "delete"])
  /\ UNCHANGED <<tables, sessions>>

DeleteWrite(r) ==
  /\ \/ /\ req[r].pc = "disable"
        /\ SetUserDisabled(req[r].target, TRUE)
        /\ UNCHANGED <<grants, linked>>
     \/ /\ req[r].pc = "delete"
        /\ DeleteUser(req[r].target)
  /\ Finish(r)
  /\ UNCHANGED <<seq, roles, personal, sessions>>

-----------------------------------------------------------------------------
(***************************************************************************)
(* /api/roles.  Updating and deleting first read the role; the system role *)
(* is refused.                                                             *)
(***************************************************************************)
CreateRole(r) ==
  /\ req[r].pc = "serve"
  /\ \E c \in CustomRoles, P \in Granted :
       roles[c] = Unborn /\ roles' = [roles EXCEPT ![c] = P]
  /\ Finish(r)
  /\ UNCHANGED <<users, seq, grants, personal, linked, sessions>>

ReadRole(r) ==
  /\ req[r].pc = "serve"
  /\ \E c \in CustomRoles, pc \in {"roleWrite", "roleDelete"} :
       \/ Exists(c) /\ Goto(r, [req[r] EXCEPT !.pc = pc, !.role = c])
       \/ ~Exists(c) /\ Finish(r)
  /\ UNCHANGED <<tables, sessions>>

\* UPDATE of a role deleted meanwhile changes nothing; its permissions then
\* reference a missing row and the transaction is rolled back.
UpdateRole(r) ==
  LET c == req[r].role IN
  /\ req[r].pc = "roleWrite"
  /\ \/ Exists(c) /\ \E P \in Granted : roles' = [roles EXCEPT ![c] = P]
     \/ ~Exists(c) /\ UNCHANGED roles
  /\ Finish(r)
  /\ UNCHANGED <<users, seq, grants, personal, linked, sessions>>

\* Mutant: user_roles without its ON DELETE CASCADE.
DeleteRole_NoCascade(r) ==
  /\ req[r].pc = "roleDelete"
  /\ roles' = [roles EXCEPT ![req[r].role] = NoRole]
  /\ Finish(r)
  /\ UNCHANGED <<users, seq, grants, personal, linked, sessions>>

DeleteRole(r) ==
  /\ req[r].pc = "roleDelete"
  /\ roles' = [roles EXCEPT ![req[r].role] = NoRole]
  /\ grants' = [i \in Ids |-> grants[i] \ {req[r].role}]
  /\ Finish(r)
  /\ UNCHANGED <<users, seq, personal, linked, sessions>>

-----------------------------------------------------------------------------
(***************************************************************************)
(* The first account: the setup page, the installer and adduser.           *)
(***************************************************************************)
\* Mutant: a setup that does not look whether there are users.
PostSetup_Always(r) ==
  /\ Arrive(r, [Idle EXCEPT !.pc = "setupInsert"])
  /\ UNCHANGED <<tables, sessions>>

PostSetup(r) ==
  /\ NoUsers
  /\ Arrive(r, [Idle EXCEPT !.pc = "setupInsert"])
  /\ UNCHANGED <<tables, sessions>>

SetupInsert(r) ==
  /\ req[r].pc = "setupInsert"
  /\ \E n \in Names :
       \/ /\ InsertUser(n, "local")
          /\ Goto(r, [req[r] EXCEPT !.pc = "setupGet", !.target = NextId, !.aim = n])
       \/ Named(n) # {} /\ Finish(r) /\ UNCHANGED <<users, seq>>
  /\ UNCHANGED <<grants, roles, personal, linked, sessions>>

SetupGet(r) ==
  /\ req[r].pc = "setupGet"
  /\ \/ Live(req[r].target) /\ At(r, "setupAssign")
     \/ ~Live(req[r].target) /\ Finish(r)
  /\ UNCHANGED <<tables, sessions>>

SetupAssign(r) ==
  LET t == req[r].target IN
  /\ req[r].pc \in {"setupAssign", "installAssign"}
  /\ \/ CanAssign(t, {"admin"}) /\ AssignRolesToUser(t, {"admin"})
     \/ ~CanAssign(t, {"admin"}) /\ UNCHANGED <<grants, linked>>
  /\ Finish(r)
  /\ UNCHANGED <<users, seq, roles, personal, sessions>>

\* vps-pilot install: a new local user, or a Linux user with or without a row.
Install(r, n) ==
  /\ \/ InsertUser(n, "local")
     \/ n \in Linux /\ InsertUser(n, "pam")
     \/ n \in Linux /\ Named(n) # {} /\ UNCHANGED <<users, seq>>
  /\ Arrive(r, [Idle EXCEPT !.pc = "installFind", !.aim = n])
  /\ UNCHANGED <<grants, roles, personal, linked, sessions>>

InstallFind(r) ==
  /\ req[r].pc = "installFind"
  /\ \/ \E i \in Named(req[r].aim) :
          Goto(r, [req[r] EXCEPT !.pc = "installAssign", !.target = i])
     \/ Named(req[r].aim) = {} /\ Finish(r)
  /\ UNCHANGED <<tables, sessions>>

\* vps-pilot adduser: a row and no role.
AddUser(r, n) ==
  /\ InsertUser(n, "local")
  /\ Serve(r)
  /\ UNCHANGED <<grants, roles, personal, linked, sessions>>

\* A statement fails and the handler returns, or the process ends.
CutShort(r) ==
  /\ req[r] # Idle
  /\ req' = [req EXCEPT ![r] = Idle]
  /\ disturbed' = TRUE
  /\ UNCHANGED <<tables, sessions>>

-----------------------------------------------------------------------------
Arrival(r) ==
  \/ \E n \in Names : LoginPAM(r, n) \/ LoginLocal(r, n) \/ Install(r, n) \/ AddUser(r, n)
  \/ \E i \in Ids : Logout(r, i) \/ RequireAuth(r, i)
  \/ PostSetup(r)

Step(r) ==
  \/ RequireAdmin(r) \/ List(r)
  \/ Create(r) \/ CreateGet(r) \/ CreateRoles(r) \/ CreatePerms(r)
  \/ Update(r) \/ UpdateRoles(r) \/ UpdateAssign(r) \/ UpdateGet(r) \/ UpdatePerms(r)
  \/ Delete(r) \/ DeleteWrite(r)
  \/ CreateRole(r) \/ ReadRole(r) \/ UpdateRole(r) \/ DeleteRole(r)
  \/ SetupInsert(r) \/ SetupGet(r) \/ SetupAssign(r) \/ InstallFind(r)

Next == \E r \in Reqs : Arrival(r) \/ Step(r) \/ CutShort(r)

Spec == Init /\ [][Next]_vars

-----------------------------------------------------------------------------
\* The types of the variables; a personal role has at least one permission.
TypeOK ==
  /\ users \in [Ids -> User \union {NoUser}] /\ seq \in 0 .. MaxId
  /\ grants \in [Ids -> SUBSET Roles]
  /\ roles \in [CustomRoles -> {NoRole, Unborn} \union Granted]
  /\ personal \in [Names -> {NoRole} \union (Granted \ {{}})]
  /\ linked \in SUBSET Ids /\ sessions \in SUBSET Ids
  /\ req \in [Reqs -> Request] /\ disturbed \in BOOLEAN

\* What user_roles holds names a user, a role and a personal role that exist,
\* whatever deletions and assignments overlap: a deleted role or user grants
\* nothing, and two users never share a name.
LinksLive ==
  \A i \in Ids :
    /\ grants[i] # {} => Live(i) /\ \A c \in grants[i] : Exists(c)
    /\ i \in linked => Live(i) /\ personal[users[i].name] # NoRole
    /\ Live(i) => Named(users[i].name) = {i}

\* A server that has an administrator keeps one: the checks of update and
\* delete against the own account suffice as long as requests do not overlap
\* (two administrators may still demote each other at the same moment).
AdminRemains == [][ Admins # {} => Admins' # {} \/ disturbed' ]_vars

\* Roles and permissions reach the user they were decided for, even when that
\* user is deleted and others are created while the request is under way.
RightUser ==
  [][ \A r \in Reqs, i \in Ids :
        /\ req[r].pc \in {"updAssign", "updPerms", "createRoles", "createPerms",
                          "setupAssign", "installAssign"}
        /\ req[r].target = i /\ req[r] # req'[r] /\ req[r].aim # NoUser
        /\ grants'[i] # grants[i] \/ i \in linked' \ linked
        => users[i].name = req[r].aim ]_vars

\* Only an administrator or the installer makes an administrator, once there is
\* one: the setup page is closed by then, unless two setups ran at once.
OnlyAdminsPromote ==
  [][ Admins # {} /\ ~(Admins' \subseteq Admins)
        => \/ disturbed
           \/ \E r \in Reqs : req[r].actor \in Admins \/ req[r].pc = "installAssign" ]_vars

\* Permissions that create or update was asked for are in force when it is done,
\* although the assignment of roles before them has cut the link to the
\* personal role.
PermissionsTakeEffect ==
  [][ \A r \in Reqs :
        LET q == req[r] IN
        /\ q.pc \in {"updPerms", "createPerms"} /\ q.perms # {}
        /\ req'[r] # q /\ ~disturbed'
        => q.target \in linked' /\ personal'[users[q.target].name] = q.perms ]_vars

\* Types and grants.
GrantsSound == TypeOK /\ LinksLive

\* Grants neither dangle nor go astray when requests overlap.
GrantsFollow == []LinksLive /\ RightUser

=============================================================================
