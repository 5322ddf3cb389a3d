--------------------------- MODULE AccountsProofs ---------------------------
(***************************************************************************)
(* Grants are sound, reach the user they were decided for and leave the    *)
(* server an administrator, for every set of users, roles and requests.    *)
(***************************************************************************)
EXTENDS Accounts, TLAPS

-----------------------------------------------------------------------------
(***************************************************************************)
(* The inductive invariant.  The tables first.                             *)
(***************************************************************************)
TablesTyped ==
  /\ users \in [Ids -> User \union {NoUser}] /\ seq \in 0 .. MaxId
  /\ grants \in [Ids -> SUBSET Roles]
  /\ roles \in [CustomRoles -> {NoRole, Unborn} \union Granted]
  /\ personal \in [Names -> {NoRole} \union (Granted \ {{}})]
  /\ linked \in SUBSET Ids

\* No id above the last one given out is in use: AUTOINCREMENT.
FreshIds == \A i \in Ids : i > seq => users[i] = NoUser

RowsSound == TablesTyped /\ LinksLive /\ FreshIds

\* The fields a request needs have been filled in by the time it uses them.
Filled(q) ==
  /\ q.pc \in {"createGet", "createRoles", "createPerms", "updPerms", "delete",
               "setupGet", "setupAssign", "installAssign"} => q.aim \in Names
  /\ q.pc \in {"createGet", "createRoles", "updAssign"} => q.roleIds # Null
  /\ q.pc \in {"createGet", "createRoles", "createPerms", "updPerms"} => q.perms # Null
  /\ q.pc = "roleDelete" => q.role \in CustomRoles

\* An id chosen for a name is never given to another name.
AimKept(q) ==
  q.aim # NoUser /\ q.pc # "installFind" =>
    /\ q.target \in Ids /\ q.target <= seq
    /\ users[q.target] # NoUser => users[q.target].name = q.aim

RequestsSound ==
  /\ req \in [Reqs -> Request] /\ sessions \in SUBSET Ids /\ disturbed \in BOOLEAN
  /\ \A r \in Reqs : Filled(req[r]) /\ AimKept(req[r])

\* What a request has checked still holds when nothing else runs.
Checked(q) ==
  /\ q.pc \notin {"idle", "admin", "setupInsert", "setupGet", "setupAssign",
                  "installFind", "installAssign"} => IsAdmin(q.actor)
  /\ q.pc \in {"createGet", "createRoles", "createPerms"} => Live(q.target) /\ q.target # q.actor
  /\ q.pc = "updPerms" => Live(q.target)
  /\ q.pc = "updAssign" /\ q.target = q.actor => "admin" \in q.roleIds
  /\ q.pc = "delete" => q.target # q.actor
  /\ q.pc \in {"setupInsert", "setupGet", "setupAssign"} => Admins = {}

Alone ==
  ~disturbed =>
    /\ \A r, s \in Reqs : r = s \/ req[r] = Idle \/ req[s] = Idle
    /\ \A r \in Reqs : Checked(req[r])

IInv == RowsSound /\ RequestsSound /\ Alone

-----------------------------------------------------------------------------
(***************************************************************************)
(* What the statements do to the tables.                                   *)
(***************************************************************************)
\* No step gives an id in use to another name.
NamesKept ==
  /\ seq <= seq'
  /\ \A i \in Ids : i <= seq /\ users'[i] # NoUser =>
       users[i] # NoUser /\ users'[i].name = users[i].name

\* A statement that leaves the tables alone.
LEMMA NoRows ==
  ASSUME RowsSound, UNCHANGED tables
  PROVE  RowsSound' /\ NamesKept
<1>1. /\ users' = users /\ seq' = seq /\ grants' = grants /\ roles' = roles
      /\ personal' = personal /\ linked' = linked
  BY DEF tables
<1>2. TablesTyped' /\ FreshIds'
  BY <1>1 DEF RowsSound, TablesTyped, FreshIds
<1>3. LinksLive'
  BY <1>1 DEF RowsSound, LinksLive, Live, Exists, Named
<1>4. NamesKept
  BY <1>1, MaxIdAssumption DEF RowsSound, TablesTyped, NamesKept
<1>5. QED
  BY <1>2, <1>3, <1>4 DEF RowsSound

\* Inserting a user takes an id nobody had and a name nobody has.
LEMMA InsertRows ==
  ASSUME RowsSound, NEW n \in Names, NEW a \in {"pam", "local"}, InsertUser(n, a),
         UNCHANGED <<grants, roles, personal, linked>>
  PROVE  /\ RowsSound' /\ NamesKept
         /\ NextId \in Ids /\ NextId > seq /\ seq' = NextId
         /\ users'[NextId] # NoUser /\ users'[NextId].name = n
<1> DEFINE u == [name |-> n, auth |-> a, disabled |-> FALSE]
<1>1. /\ Named(n) = {} /\ NextId \in Ids /\ NextId > seq /\ seq' = NextId
      /\ users' = [users EXCEPT ![NextId] = u]
  BY MaxIdAssumption DEF RowsSound, TablesTyped, InsertUser, NextId, Ids
<1>2. u \in User /\ u # NoUser /\ u.name = n
  <2>1. u \in User
    BY DEF User
  <2>2. QED
    BY <2>1, NullsAssumption
<1>3. /\ users'[NextId] = u
      /\ \A i \in Ids : i # NextId => users'[i] = users[i]
  BY <1>1 DEF RowsSound, TablesTyped
<1> HIDE DEF u
<1>4. TablesTyped'
  BY <1>1, <1>2, MaxIdAssumption DEF RowsSound, TablesTyped, Ids
<1>5. FreshIds'
  BY <1>1, <1>3, MaxIdAssumption DEF RowsSound, TablesTyped, FreshIds, Ids, NextId
<1>6. users[NextId] = NoUser
  BY <1>1 DEF RowsSound, FreshIds
<1>7. LinksLive'
  <2> SUFFICES ASSUME NEW i \in Ids
               PROVE  /\ grants'[i] # {} => Live(i)' /\ \A c \in grants'[i] : Exists(c)'
                      /\ i \in linked' => Live(i)' /\ personal'[users'[i].name] # NoRole
                      /\ Live(i)' => Named(users[i].name)' = {i}
    BY DEF LinksLive
  <2>1. CASE i = NextId
    BY <1>1, <1>2, <1>3, <1>6, <2>1 DEF RowsSound, LinksLive, Live, Named
  <2>2. CASE i # NextId
    BY <1>1, <1>2, <1>3, <1>6, <2>2 DEF RowsSound, LinksLive, Live, Named, Exists
  <2>3. QED
    BY <2>1, <2>2
<1>8. NamesKept
  BY <1>1, <1>3, MaxIdAssumption DEF RowsSound, TablesTyped, NamesKept, NextId, Ids
<1>9. QED
  BY <1>1, <1>2, <1>3, <1>4, <1>5, <1>7, <1>8 DEF RowsSound

\* Disabling a user leaves its name.
LEMMA DisableRows ==
  ASSUME RowsSound, NEW i, NEW d \in BOOLEAN, SetUserDisabled(i, d),
         UNCHANGED <<seq, grants, roles, personal, linked>>
  PROVE  RowsSound' /\ NamesKept /\ \A j \in Ids : users'[j] = NoUser <=> users[j] = NoUser
<1>1. /\ users' \in [Ids -> User \union {NoUser}]
      /\ \A j \in Ids : /\ users'[j] = NoUser <=> users[j] = NoUser
                        /\ users[j] # NoUser => users'[j].name = users[j].name
  <2>1. CASE Live(i)
    <3>1. users[i] \in User /\ users' = [users EXCEPT ![i].disabled = d]
      BY <2>1 DEF SetUserDisabled, RowsSound, TablesTyped, Live
    <3>2. [users[i] EXCEPT !.disabled = d] \in User
      BY <3>1 DEF User
    <3>3. [users[i] EXCEPT !.disabled = d].name = users[i].name
      BY <3>1 DEF User
    <3>4. users' = [users EXCEPT ![i] = [users[i] EXCEPT !.disabled = d]]
      BY <3>1, <2>1 DEF RowsSound, TablesTyped, Live
    <3>5. QED
      BY <2>1, <3>2, <3>3, <3>4, NullsAssumption DEF RowsSound, TablesTyped, Live
  <2>2. CASE ~Live(i)
    BY <2>2 DEF SetUserDisabled, RowsSound, TablesTyped
  <2>3. QED
    BY <2>1, <2>2
<1>2. TablesTyped' /\ FreshIds'
  BY <1>1 DEF RowsSound, TablesTyped, FreshIds
<1>3. LinksLive'
  BY <1>1 DEF RowsSound, LinksLive, Live, Exists, Named
<1>4. NamesKept
  BY <1>1, MaxIdAssumption DEF RowsSound, TablesTyped, NamesKept
<1>5. QED
  BY <1>1, <1>2, <1>3, <1>4 DEF RowsSound

\* A deleted user takes its rows of user_roles along.
LEMMA DeleteRows ==
  ASSUME RowsSound, NEW t \in Ids, DeleteUser(t), UNCHANGED <<seq, roles, personal>>
  PROVE  RowsSound' /\ NamesKept
<1>1. /\ users' = [users EXCEPT ![t] = NoUser] /\ grants' = [grants EXCEPT ![t] = {}]
      /\ linked' = linked \ {t} /\ seq' = seq /\ roles' = roles /\ personal' = personal
  BY DEF DeleteUser
<1>2. /\ users'[t] = NoUser /\ grants'[t] = {}
      /\ \A i \in Ids : i # t => users'[i] = users[i] /\ grants'[i] = grants[i]
  BY <1>1 DEF RowsSound, TablesTyped
<1>3. TablesTyped'
  BY <1>1 DEF RowsSound, TablesTyped
<1>4. FreshIds'
  BY <1>1, <1>2 DEF RowsSound, FreshIds
<1>5. LinksLive'
  BY <1>1, <1>2 DEF RowsSound, LinksLive, Live, Exists, Named
<1>6. NamesKept
  BY <1>1, <1>2, MaxIdAssumption DEF RowsSound, TablesTyped, NamesKept
<1>7. QED
  BY <1>3, <1>4, <1>5, <1>6 DEF RowsSound

\* Roles are assigned to a user that exists.
LEMMA AssignRows ==
  ASSUME RowsSound, NEW i, NEW R \in SUBSET Roles, CanAssign(i, R), AssignRolesToUser(i, R),
         UNCHANGED <<users, seq, roles, personal>>
  PROVE  /\ RowsSound' /\ NamesKept /\ i \in Ids
         /\ grants' = [grants EXCEPT ![i] = R] /\ linked' \subseteq linked
<1>1. i \in Ids /\ users[i] # NoUser /\ \A c \in R : Exists(c)
  BY DEF CanAssign, Live
<1>2. grants' = [grants EXCEPT ![i] = R] /\ linked' = linked \ {i}
  BY DEF AssignRolesToUser
<1>3. TablesTyped' /\ FreshIds'
  BY <1>1, <1>2 DEF RowsSound, TablesTyped, FreshIds
<1>4. grants'[i] = R /\ \A j \in Ids : j # i => grants'[j] = grants[j]
  BY <1>1, <1>2 DEF RowsSound, TablesTyped
<1>5. LinksLive'
  BY <1>1, <1>2, <1>4 DEF RowsSound, LinksLive, Live, Exists, Named
<1>6. NamesKept
  BY MaxIdAssumption DEF RowsSound, TablesTyped, NamesKept
<1>7. QED
  BY <1>1, <1>2, <1>3, <1>5, <1>6 DEF RowsSound

\* A personal role is linked to the user whose name it has, or goes with its links.
LEMMA UpsertRows ==
  ASSUME RowsSound, NEW i, NEW n \in Names, NEW P \in Granted, UpsertPersonalRole(i, n, P),
         P # {} => Live(i) /\ users[i].name = n,
         UNCHANGED <<users, seq, grants, roles>>
  PROVE  RowsSound' /\ NamesKept
<1>1. /\ personal' = [personal EXCEPT ![n] = IF P = {} THEN NoRole ELSE P]
      /\ linked' = IF P = {} THEN linked \ Named(n) ELSE linked \union {i}
  BY DEF UpsertPersonalRole
<1>2. /\ personal'[n] = IF P = {} THEN NoRole ELSE P
      /\ \A m \in Names : m # n => personal'[m] = personal[m]
  BY <1>1 DEF RowsSound, TablesTyped
<1>3. TablesTyped' /\ FreshIds'
  BY <1>1 DEF RowsSound, TablesTyped, FreshIds, Live
<1>4. LinksLive'
  <2> SUFFICES ASSUME NEW j \in Ids, j \in linked'
               PROVE  users[j] # NoUser /\ personal'[users[j].name] # NoRole
    BY DEF RowsSound, LinksLive, Live, Exists, Named
  <2>1. CASE P = {}
    BY <1>1, <1>2, <2>1 DEF RowsSound, TablesTyped, User, LinksLive, Live, Named
  <2>2. CASE P # {}
    BY <1>1, <1>2, <2>2, NullsAssumption DEF RowsSound, TablesTyped, User, LinksLive, Live
  <2>3. QED
    BY <2>1, <2>2
<1>5. NamesKept
  BY MaxIdAssumption DEF RowsSound, TablesTyped, NamesKept
<1>6. QED
  BY <1>3, <1>4, <1>5 DEF RowsSound

\* Custom roles get permissions, or go with the rows that name them.
LEMMA RoleRows ==
  ASSUME RowsSound, NEW c,
         \/ \E P \in Granted : roles' = [roles EXCEPT ![c] = P] /\ UNCHANGED grants
         \/ roles' = [roles EXCEPT ![c] = NoRole] /\ grants' = [i \in Ids |-> grants[i] \ {c}],
         UNCHANGED <<users, seq, personal, linked>>
  PROVE  RowsSound' /\ NamesKept
<1>1. TablesTyped' /\ FreshIds'
  BY DEF RowsSound, TablesTyped, FreshIds
<1>2. \A i \in Ids : \A e \in grants'[i] : e \in grants[i] /\ Exists(e)'
  <2>1. CASE \E P \in Granted : roles' = [roles EXCEPT ![c] = P] /\ UNCHANGED grants
    BY <2>1, NullsAssumption DEF RowsSound, TablesTyped, LinksLive, Exists
  <2>2. CASE roles' = [roles EXCEPT ![c] = NoRole] /\ grants' = [i \in Ids |-> grants[i] \ {c}]
    BY <2>2 DEF RowsSound, TablesTyped, LinksLive, Exists
  <2>3. QED
    BY <2>1, <2>2
<1>3. LinksLive'
  <2>1. \A i \in Ids : grants'[i] # {} => grants[i] # {}
    BY <1>2
  <2>2. QED
    BY <1>2, <2>1 DEF RowsSound, LinksLive, Live, Named
<1>4. NamesKept
  BY MaxIdAssumption DEF RowsSound, TablesTyped, NamesKept
<1>5. QED
  BY <1>1, <1>3, <1>4 DEF RowsSound

-----------------------------------------------------------------------------
(***************************************************************************)
(* How a request moves.                                                    *)
(***************************************************************************)
\* Nothing is asked of an idle request.
LEMMA IdleFacts ==
  /\ Idle \in Request /\ Idle.pc = "idle" /\ Idle.actor = 0 /\ Idle.target = 0
  /\ Idle.aim = NoUser /\ Idle.roleIds = Null /\ Idle.perms = Null
  /\ Filled(Idle) /\ AimKept(Idle) /\ AimKept(Idle)' /\ Checked(Idle) /\ Checked(Idle)'
<1>1. /\ Idle \in Request /\ Idle.pc = "idle" /\ Idle.actor = 0 /\ Idle.target = 0
      /\ Idle.aim = NoUser /\ Idle.roleIds = Null /\ Idle.perms = Null
  BY MaxIdAssumption DEF Idle, Request, PCs
<1>2. QED
  BY <1>1 DEF Filled, AimKept, Checked, Idle

\* An aim survives every step that keeps the names.
LEMMA AimStays ==
  ASSUME IInv, RowsSound', NEW r \in Reqs, NamesKept,
         req[r].pc # "installFind" \/ req'[r].pc = "installFind",
         req'[r].aim = req[r].aim, req'[r].target = req[r].target
  PROVE  AimKept(req[r])'
<1> SUFFICES ASSUME req'[r].aim # NoUser, req'[r].pc # "installFind"
             PROVE  /\ req'[r].target \in Ids /\ req'[r].target <= seq'
                    /\ users'[req'[r].target] # NoUser => users'[req'[r].target].name = req'[r].aim
  BY DEF AimKept
<1> DEFINE t == req[r].target
<1>1. t \in Ids /\ t <= seq /\ (users[t] # NoUser => users[t].name = req[r].aim)
  BY DEF IInv, RequestsSound, AimKept
<1>2. t \in Int /\ seq \in Int /\ seq' \in Int
  BY <1>1, MaxIdAssumption DEF IInv, RowsSound, TablesTyped, Ids
<1> HIDE DEF t
<1>3. t <= seq' /\ (users'[t] # NoUser => users[t] # NoUser /\ users'[t].name = users[t].name)
  BY <1>1, <1>2 DEF NamesKept
<1>4. QED
  BY <1>1, <1>3 DEF t

\* One request moves, the others stay where they are.
LEMMA OneMoves ==
  ASSUME IInv, NEW r \in Reqs, req' = [req EXCEPT ![r] = req'[r]], req'[r] \in Request,
         RowsSound', NamesKept, sessions' \in SUBSET Ids, disturbed' \in BOOLEAN,
         Filled(req[r])', AimKept(req[r])',
         ~disturbed' => Checked(req[r])' /\ \A s \in Reqs \ {r} : req[s] = Idle
  PROVE  IInv'
<1>1. req' \in [Reqs -> Request] /\ \A s \in Reqs : s # r => req'[s] = req[s]
  BY DEF IInv, RequestsSound
<1>2. ASSUME NEW s \in Reqs PROVE Filled(req[s])' /\ AimKept(req[s])'
  <2>1. CASE s = r
    BY <2>1
  <2>2. CASE s # r
    <3>1. req'[s] = req[s]
      BY <1>1, <2>2
    <3>2. Filled(req[s])'
      BY <3>1 DEF IInv, RequestsSound, Filled
    <3>3. AimKept(req[s])'
      BY <3>1, AimStays
    <3>4. QED
      BY <3>2, <3>3
  <2>3. QED
    BY <2>1, <2>2
<1>3. Alone'
  <2> SUFFICES ASSUME ~disturbed'
               PROVE  /\ \A s, t \in Reqs : s = t \/ req'[s] = Idle \/ req'[t] = Idle
                      /\ \A s \in Reqs : Checked(req[s])'
    BY DEF Alone, Idle
  <2>1. \A s \in Reqs : s # r => req'[s] = Idle
    BY <1>1
  <2>2. ASSUME NEW s \in Reqs PROVE Checked(req[s])'
    <3>1. CASE s = r
      BY <3>1
    <3>2. CASE s # r
      BY <2>1, <3>2, IdleFacts DEF Checked
    <3>3. QED
      BY <3>1, <3>2
  <2>3. QED
    BY <2>1, <2>2
<1>4. RequestsSound'
  BY <1>1, <1>2 DEF RequestsSound
<1>5. QED
  BY <1>3, <1>4 DEF IInv

\* A request takes its next step, and nobody arrives.
Moved(r) ==
  req' = [req EXCEPT ![r] = req'[r]] /\ req'[r] \in Request /\ disturbed' = disturbed

LEMMA GotoFacts ==
  ASSUME IInv, NEW r \in Reqs, NEW q \in Request, Goto(r, q)
  PROVE  Moved(r) /\ req'[r] = q
BY DEF Goto, Moved, IInv, RequestsSound

\* Only the place in the handler changes.
LEMMA AtFacts ==
  ASSUME IInv, NEW r \in Reqs, NEW pc \in PCs, At(r, pc)
  PROVE  /\ Moved(r) /\ req'[r].pc = pc /\ req'[r].actor = req[r].actor
         /\ req'[r].target = req[r].target /\ req'[r].aim = req[r].aim
         /\ req'[r].roleIds = req[r].roleIds /\ req'[r].perms = req[r].perms
<1> DEFINE q == [req[r] EXCEPT !.pc = pc]
<1>1. req[r] \in Request
  BY DEF IInv, RequestsSound
<1>2. /\ q \in Request /\ q.pc = pc /\ q.actor = req[r].actor /\ q.target = req[r].target
      /\ q.aim = req[r].aim /\ q.roleIds = req[r].roleIds /\ q.perms = req[r].perms
  BY <1>1 DEF Request
<1>3. Goto(r, q)
  BY DEF At
<1> HIDE DEF q
<1>4. QED
  BY <1>2, <1>3, GotoFacts

LEMMA GotoStep ==
  ASSUME IInv, NEW r \in Reqs, req[r].pc # "idle", Moved(r),
         RowsSound', NamesKept, sessions' = sessions,
         Filled(req[r])', AimKept(req[r])', ~disturbed => Checked(req[r])'
  PROVE  IInv'
<1>1. ~disturbed => \A s \in Reqs \ {r} : req[s] = Idle
  BY IdleFacts DEF IInv, Alone
<1>2. disturbed' \in BOOLEAN /\ sessions' \in SUBSET Ids /\ disturbed' = disturbed
  BY DEF Moved, IInv, RequestsSound
<1>3. QED
  BY <1>1, <1>2, OneMoves DEF Moved

\* A request ends.
LEMMA FinishStep ==
  ASSUME IInv, NEW r \in Reqs, req[r].pc # "idle", Finish(r), RowsSound', NamesKept,
         sessions' = sessions
  PROVE  IInv'
<1>1. Moved(r) /\ req'[r] = Idle
  BY IdleFacts, GotoFacts DEF Finish
<1>2. Filled(req[r])' /\ AimKept(req[r])' /\ Checked(req[r])'
  BY <1>1, IdleFacts DEF Filled, AimKept, Checked
<1>3. QED
  BY <1>1, <1>2, GotoStep

\* A request arrives; when others are under way it disturbs them.
LEMMA ArriveStep ==
  ASSUME IInv, NEW r \in Reqs, NEW q \in Request, Arrive(r, q),
         RowsSound', NamesKept, sessions' = sessions,
         Filled(req[r])', AimKept(req[r])', ~disturbed => Checked(req[r])'
  PROVE  IInv'
<1>1. /\ req' = [req EXCEPT ![r] = q] /\ req'[r] = q /\ disturbed \in BOOLEAN
      /\ disturbed' = (disturbed \/ ~Quiet)
  BY DEF Arrive, IInv, RequestsSound
<1>2. disturbed' \in BOOLEAN /\ (~disturbed' => ~disturbed /\ Quiet)
  BY <1>1
<1>3. ~disturbed' => \A s \in Reqs \ {r} : req[s] = Idle
  BY <1>2 DEF Quiet
<1>4. sessions' \in SUBSET Ids
  BY DEF IInv, RequestsSound
<1>5. req' = [req EXCEPT ![r] = req'[r]] /\ req'[r] \in Request
  BY <1>1
<1>6. QED
  BY <1>2, <1>3, <1>4, <1>5, OneMoves

\* A request that is one statement long.
LEMMA ServeStep ==
  ASSUME IInv, NEW r \in Reqs, Serve(r), RowsSound', NamesKept, sessions' \in SUBSET Ids
  PROVE  IInv'
<1>1. /\ req' = req /\ req'[r] = Idle /\ disturbed \in BOOLEAN
      /\ disturbed' = (disturbed \/ ~Quiet)
  BY DEF Serve, IInv, RequestsSound
<1>2. disturbed' \in BOOLEAN /\ (~disturbed' => Quiet)
  BY <1>1
<1>3. ~disturbed' => \A s \in Reqs \ {r} : req[s] = Idle
  BY <1>2 DEF Quiet
<1>4. Filled(req[r])' /\ AimKept(req[r])' /\ Checked(req[r])'
  BY <1>1, IdleFacts DEF Filled, AimKept, Checked
<1>5. req' = [req EXCEPT ![r] = req'[r]] /\ req'[r] \in Request
  BY <1>1, IdleFacts DEF IInv, RequestsSound
<1>6. QED
  BY <1>2, <1>3, <1>4, <1>5, OneMoves

-----------------------------------------------------------------------------
(***************************************************************************)
(* The invariant is inductive.                                             *)
(***************************************************************************)
\* An empty database.
LEMMA InitIInv == Init => IInv
<1> SUFFICES ASSUME Init PROVE IInv
  OBVIOUS
<1>1. RowsSound
  BY MaxIdAssumption, NullsAssumption DEF Init, RowsSound, TablesTyped, LinksLive, FreshIds, Live, Ids
<1>2. \A r \in Reqs : req[r] = Idle
  BY DEF Init
<1>3. RequestsSound
  BY <1>2, IdleFacts DEF Init, RequestsSound
<1>4. Alone
  BY <1>2, IdleFacts DEF Alone
<1>5. QED
  BY <1>1, <1>3, <1>4 DEF IInv

\* Signing in and out, the two command-line tools, and the first setup.
LEMMA ArrivalStep ==
  ASSUME IInv, NEW r \in Reqs, Arrival(r)
  PROVE  IInv'
<1> USE DEF IInv
<1>0. sessions \in SUBSET Ids
  BY DEF RequestsSound
<1>1. ASSUME NEW n \in Names, LoginPAM(r, n) PROVE IInv'
  <2>1. CASE InsertUser(n, "pam") /\ sessions' = sessions \union {NextId}
    <3>1. RowsSound' /\ NamesKept /\ NextId \in Ids
      BY <1>1, <2>1, InsertRows DEF LoginPAM
    <3>2. sessions' \in SUBSET Ids
      BY <1>0, <2>1, <3>1
    <3>3. QED
      BY <1>1, <3>1, <3>2, ServeStep DEF LoginPAM
  <2>2. CASE (\E i \in Named(n) : sessions' = sessions \union {i}) /\ UNCHANGED <<users, seq>>
    <3>1. UNCHANGED tables /\ sessions' \in SUBSET Ids
      BY <1>0, <1>1, <2>2 DEF LoginPAM, tables, Named
    <3>2. QED
      BY <1>1, <3>1, NoRows, ServeStep DEF LoginPAM
  <2>3. QED
    BY <1>1, <2>1, <2>2 DEF LoginPAM
<1>2. ASSUME NEW n \in Names, LoginLocal(r, n) PROVE IInv'
  <2>1. sessions' \in SUBSET Ids
    BY <1>0, <1>2 DEF LoginLocal, Named
  <2>2. QED
    BY <1>2, <2>1, NoRows, ServeStep DEF LoginLocal
<1>3. ASSUME NEW n \in Names, Install(r, n) PROVE IInv'
  <2> DEFINE q == [Idle EXCEPT !.pc = "installFind", !.aim = n]
  <2>1. RowsSound' /\ NamesKept
    BY <1>3, InsertRows, NoRows DEF Install, tables
  <2>2. Arrive(r, q) /\ sessions' = sessions
    BY <1>3 DEF Install
  <2>3. q \in Request /\ q.pc = "installFind"
    BY IdleFacts DEF Request, PCs
  <2> HIDE DEF q
  <2>4. req'[r] = q
    BY <2>2 DEF Arrive, RequestsSound
  <2>5. Filled(req[r])' /\ AimKept(req[r])' /\ Checked(req[r])'
    BY <2>3, <2>4 DEF Filled, AimKept, Checked
  <2>6. QED
    BY <2>1, <2>2, <2>3, <2>5, ArriveStep
<1>4. ASSUME NEW n \in Names, AddUser(r, n) PROVE IInv'
  BY <1>0, <1>4, InsertRows, ServeStep DEF AddUser
<1>5. ASSUME NEW i \in Ids, Logout(r, i) PROVE IInv'
  <2>1. sessions' \in SUBSET Ids
    BY <1>0, <1>5 DEF Logout
  <2>2. QED
    BY <1>5, <2>1, NoRows, ServeStep DEF Logout
<1>6. ASSUME NEW i \in Ids, RequireAuth(r, i) PROVE IInv'
  <2> DEFINE q == [Idle EXCEPT !.pc = "admin", !.actor = i]
  <2>1. CASE Arrive(r, q) /\ UNCHANGED sessions
    <3>0. i \in 0 .. MaxId
      BY MaxIdAssumption DEF Ids
    <3>1. q \in Request /\ q.pc = "admin" /\ q.aim = NoUser
      BY <3>0, IdleFacts DEF Request, PCs
    <3> HIDE DEF q
    <3>2. req'[r] = q
      BY <2>1 DEF Arrive, RequestsSound
    <3>3. Filled(req[r])' /\ AimKept(req[r])' /\ Checked(req[r])'
      BY <3>1, <3>2 DEF Filled, AimKept, Checked
    <3>4. RowsSound' /\ NamesKept
      BY <1>6, NoRows DEF RequireAuth
    <3>5. QED
      BY <2>1, <3>1, <3>3, <3>4, ArriveStep
  <2>2. CASE Serve(r) /\ sessions' = sessions \ {i}
    <3>1. sessions' \in SUBSET Ids
      BY <1>0, <2>2
    <3>2. QED
      BY <1>6, <2>2, <3>1, NoRows, ServeStep DEF RequireAuth
  <2>3. QED
    BY <1>6, <2>1, <2>2 DEF RequireAuth
<1>7. CASE PostSetup(r)
  <2> DEFINE q == [Idle EXCEPT !.pc = "setupInsert"]
  <2>1. Arrive(r, q) /\ sessions' = sessions /\ NoUsers /\ UNCHANGED tables
    BY <1>7 DEF PostSetup
  <2>2. q \in Request /\ q.pc = "setupInsert" /\ q.aim = NoUser
    BY IdleFacts DEF Request, PCs
  <2> HIDE DEF q
  <2>3. req'[r] = q
    BY <2>1 DEF Arrive, RequestsSound
  <2>4. Admins' = {}
    BY <2>1 DEF RowsSound, LinksLive, NoUsers, Live, Admins, IsAdmin, tables
  <2>5. Filled(req[r])' /\ AimKept(req[r])' /\ Checked(req[r])'
    BY <2>2, <2>3, <2>4 DEF Filled, AimKept, Checked
  <2>6. QED
    BY <2>1, <2>2, <2>5, NoRows, ArriveStep
<1>8. QED
  BY <1>1, <1>2, <1>3, <1>4, <1>5, <1>6, <1>7 DEF Arrival

\* A request is cut short.
LEMMA CutShortStep ==
  ASSUME IInv, NEW r \in Reqs, CutShort(r)
  PROVE  IInv'
<1>1. /\ req' = [req EXCEPT ![r] = Idle] /\ disturbed' = TRUE /\ UNCHANGED tables
      /\ sessions' = sessions
  BY DEF CutShort
<1>2. req'[r] = Idle /\ sessions' \in SUBSET Ids /\ disturbed' \in BOOLEAN
  BY <1>1 DEF IInv, RequestsSound
<1>3. Filled(req[r])' /\ AimKept(req[r])'
  BY <1>2, IdleFacts DEF Filled, AimKept
<1>4. RowsSound' /\ NamesKept
  BY <1>1, NoRows DEF IInv
<1>5. req' = [req EXCEPT ![r] = req'[r]] /\ req'[r] \in Request
  BY <1>1, <1>2, IdleFacts
<1>6. QED
  BY <1>1, <1>2, <1>3, <1>4, <1>5, OneMoves

\* The administrator check, and the listing.
LEMMA AdminStep ==
  ASSUME IInv, NEW r \in Reqs, RequireAdmin(r) \/ List(r)
  PROVE  IInv'
<1>1. CASE RequireAdmin(r)
  <2>1. req[r].pc = "admin" /\ RowsSound' /\ NamesKept /\ sessions' = sessions /\ grants' = grants
    BY <1>1, NoRows DEF RequireAdmin, IInv, tables
  <2>2. CASE IsAdmin(req[r].actor) /\ At(r, "serve")
    <3>1. /\ Moved(r) /\ req'[r].pc = "serve" /\ req'[r].actor = req[r].actor
          /\ req'[r].target = req[r].target /\ req'[r].aim = req[r].aim
      BY <2>2, AtFacts DEF PCs
    <3>2. Filled(req[r])' /\ Checked(req[r])'
      BY <2>1, <2>2, <3>1 DEF Filled, Checked, IsAdmin
    <3>3. AimKept(req[r])'
      BY <2>1, <3>1, AimStays
    <3>4. QED
      BY <2>1, <3>1, <3>2, <3>3, GotoStep
  <2>3. QED
    BY <1>1, <2>1, <2>2, FinishStep DEF RequireAdmin
<1>2. CASE List(r)
  <2>1. /\ req[r].pc \in {"serve", "list"} /\ sessions' = sessions /\ grants' = grants
        /\ UNCHANGED <<grants, roles, personal, linked>>
    BY <1>2 DEF List
  <2>2. ASSUME NEW n \in Linux, InsertUser(n, "pam"), At(r, "list") PROVE IInv'
    <3>1. RowsSound' /\ NamesKept
      BY <2>1, <2>2, InsertRows, NamesAssumption DEF IInv
    <3>2. /\ Moved(r) /\ req'[r].pc = "list" /\ req'[r].actor = req[r].actor
          /\ req'[r].target = req[r].target /\ req'[r].aim = req[r].aim
      BY <2>2, AtFacts DEF PCs
    <3>3. Filled(req[r])' /\ (~disturbed => Checked(req[r])')
      BY <2>1, <3>2 DEF Filled, Checked, IsAdmin, IInv, Alone
    <3>4. AimKept(req[r])'
      BY <2>1, <3>1, <3>2, AimStays
    <3>5. QED
      BY <2>1, <3>1, <3>2, <3>3, <3>4, GotoStep
  <2>3. CASE Finish(r) /\ UNCHANGED <<users, seq>>
    BY <2>1, <2>3, NoRows, FinishStep DEF IInv, tables
  <2>4. QED
    BY <1>2, <2>2, <2>3 DEF List
<1>3. QED
  BY <1>1, <1>2

\* POST /api/users.
LEMMA CreateStep ==
  ASSUME IInv, NEW r \in Reqs, Create(r) \/ CreateGet(r) \/ CreateRoles(r) \/ CreatePerms(r)
  PROVE  IInv'
<1>0. /\ req[r] \in Request /\ Filled(req[r]) /\ AimKept(req[r])
      /\ (~disturbed => Checked(req[r])) /\ RowsSound
  BY DEF IInv, RequestsSound, Alone
<1>1. CASE Create(r)
  <2>1. /\ req[r].pc = "serve" /\ sessions' = sessions
        /\ UNCHANGED <<grants, roles, personal, linked>>
    BY <1>1 DEF Create
  <2>2. ASSUME NEW n \in Names, NEW R \in SUBSET Roles, NEW P \in Granted, InsertUser(n, "local"),
               Goto(r, [req[r] EXCEPT !.pc = "createGet", !.target = NextId, !.aim = n,
                          !.roleIds = R, !.perms = P])
        PROVE  IInv'
    <3> DEFINE q == [req[r] EXCEPT !.pc = "createGet", !.target = NextId, !.aim = n,
                       !.roleIds = R, !.perms = P]
    <3>1. /\ RowsSound' /\ NamesKept /\ NextId \in Ids /\ NextId > seq /\ seq' = NextId
          /\ users'[NextId] # NoUser /\ users'[NextId].name = n
      BY <1>0, <2>1, <2>2, InsertRows
    <3>2. NextId \in 0 .. MaxId /\ seq \in Int /\ seq' <= seq'
      BY <1>0, <3>1, MaxIdAssumption DEF Ids, RowsSound, TablesTyped
    <3>3. /\ q \in Request /\ q.pc = "createGet" /\ q.actor = req[r].actor /\ q.target = NextId
          /\ q.aim = n /\ q.roleIds = R /\ q.perms = P
      BY <1>0, <3>2 DEF Request, PCs
    <3>4. Goto(r, q)
      BY <2>2
    <3> HIDE DEF q
    <3>5. Moved(r) /\ req'[r] = q
      BY <3>3, <3>4, GotoFacts
    <3>6. Filled(req[r])'
      BY <3>3, <3>5, NullsAssumption DEF Filled, Granted
    <3>7. AimKept(req[r])'
      BY <3>1, <3>2, <3>3, <3>5 DEF AimKept
    <3>8. ASSUME ~disturbed PROVE Checked(req[r])'
      <4>1. IsAdmin(req[r].actor) /\ grants' = grants
        BY <1>0, <2>1, <3>8 DEF Checked
      <4>2. req[r].actor \in Ids /\ users[req[r].actor] # NoUser
        BY <1>0, <4>1 DEF IsAdmin, RowsSound, LinksLive, Live
      <4>3. req[r].actor # NextId
        BY <1>0, <3>1, <4>2 DEF RowsSound, FreshIds
      <4>4. QED
        BY <3>1, <3>3, <3>5, <4>1, <4>3 DEF Checked, IsAdmin, Live
    <3>9. QED
      BY <2>1, <3>1, <3>5, <3>6, <3>7, <3>8, GotoStep
  <2>3. CASE Finish(r) /\ UNCHANGED <<users, seq>>
    BY <1>0, <2>1, <2>3, NoRows, FinishStep DEF tables
  <2>4. QED
    BY <1>1, <2>2, <2>3 DEF Create
<1>2. CASE CreateGet(r)
  <2>1. /\ req[r].pc = "createGet" /\ sessions' = sessions /\ users' = users
        /\ grants' = grants /\ RowsSound' /\ NamesKept
    BY <1>0, <1>2, NoRows DEF CreateGet, tables
  <2>2. CASE Live(req[r].target) /\ At(r, "createRoles")
    <3>1. /\ Moved(r) /\ req'[r].pc = "createRoles" /\ req'[r].actor = req[r].actor
          /\ req'[r].target = req[r].target /\ req'[r].aim = req[r].aim
          /\ req'[r].roleIds = req[r].roleIds /\ req'[r].perms = req[r].perms
      BY <2>2, AtFacts DEF PCs
    <3>2. Filled(req[r])' /\ (~disturbed => Checked(req[r])')
      BY <1>0, <2>1, <3>1 DEF Filled, Checked, IsAdmin, Live
    <3>3. AimKept(req[r])'
      BY <2>1, <3>1, AimStays
    <3>4. QED
      BY <2>1, <3>1, <3>2, <3>3, GotoStep
  <2>3. QED
    BY <1>2, <2>1, <2>2, FinishStep DEF CreateGet
<1>3. CASE CreateRoles(r)
  <2> DEFINE q == [req[r] EXCEPT !.pc = "createPerms", !.roleIds = Null]
  <2>1. /\ req[r].pc = "createRoles" /\ sessions' = sessions /\ users' = users
        /\ UNCHANGED <<users, seq, roles, personal>> /\ Goto(r, q)
    BY <1>3 DEF CreateRoles
  <2>2. /\ q \in Request /\ q.pc = "createPerms" /\ q.actor = req[r].actor
        /\ q.target = req[r].target /\ q.aim = req[r].aim /\ q.perms = req[r].perms
    BY <1>0 DEF Request, PCs
  <2> HIDE DEF q
  <2>3. Moved(r) /\ req'[r] = q
    BY <2>1, <2>2, GotoFacts
  <2>4. Filled(req[r])'
    BY <1>0, <2>1, <2>2, <2>3 DEF Filled
  <2>5. req[r].roleIds \in SUBSET Roles
    BY <1>0, <2>1 DEF Filled, Request
  <2>6. /\ RowsSound' /\ NamesKept
        /\ \A i \in Ids : i # req[r].target => grants'[i] = grants[i]
    <3>1. CASE /\ CanAssign(req[r].target, req[r].roleIds)
               /\ AssignRolesToUser(req[r].target, req[r].roleIds)
      BY <1>0, <2>1, <2>5, <3>1, AssignRows DEF RowsSound, TablesTyped
    <3>2. CASE UNCHANGED <<grants, linked>>
      BY <1>0, <2>1, <3>2, NoRows DEF tables
    <3>3. QED
      BY <1>3, <3>1, <3>2 DEF CreateRoles
  <2>7. ~disturbed => Checked(req[r])'
    BY <1>0, <2>1, <2>2, <2>3, <2>6 DEF Checked, IsAdmin, Live
  <2>8. AimKept(req[r])'
    BY <2>1, <2>2, <2>3, <2>6, AimStays
  <2>9. QED
    BY <2>1, <2>3, <2>4, <2>6, <2>7, <2>8, GotoStep
<1>4. CASE CreatePerms(r)
  <2>1. /\ req[r].pc = "createPerms" /\ sessions' = sessions /\ Finish(r)
        /\ UNCHANGED <<users, seq, grants, roles>>
    BY <1>4 DEF CreatePerms
  <2>2. req[r].perms \in Granted /\ req[r].aim \in Names
    BY <1>0, <2>1 DEF Filled, Request
  <2>3. RowsSound' /\ NamesKept
    <3>1. CASE /\ Live(req[r].target)
               /\ UpsertPersonalRole(req[r].target, req[r].aim, req[r].perms)
      <4>1. users[req[r].target].name = req[r].aim
        BY <1>0, <2>1, <2>2, <3>1, NullsAssumption DEF AimKept, Live
      <4>2. QED
        BY <1>0, <2>1, <2>2, <3>1, <4>1, UpsertRows
    <3>2. CASE UNCHANGED <<personal, linked>>
      BY <1>0, <2>1, <3>2, NoRows DEF tables
    <3>3. QED
      BY <1>4, <3>1, <3>2 DEF CreatePerms
  <2>4. QED
    BY <2>1, <2>3, FinishStep
<1>5. QED
  BY <1>1, <1>2, <1>3, <1>4

\* PATCH /api/users: the body is read and the own account protected.
LEMMA UpdateStep ==
  ASSUME IInv, NEW r \in Reqs, Update(r) \/ UpdateRoles(r)
  PROVE  IInv'
<1>0. /\ req[r] \in Request /\ Filled(req[r]) /\ AimKept(req[r])
      /\ (~disturbed => Checked(req[r])) /\ RowsSound
  BY DEF IInv, RequestsSound, Alone
<1>1. CASE Update(r)
  <2>1. /\ req[r].pc = "serve" /\ sessions' = sessions
        /\ UNCHANGED <<seq, grants, roles, personal, linked>>
    BY <1>1 DEF Update
  <2>2. CASE Finish(r) /\ UNCHANGED users
    BY <1>0, <2>1, <2>2, NoRows, FinishStep DEF tables
  <2>3. ASSUME NEW t \in Ids, NEW a \in Asked, Goto(r, Decided(r, t, a)),
               IF a.disabled = Null THEN UNCHANGED users ELSE SetUserDisabled(t, a.disabled)
        PROVE  IInv'
    <3> DEFINE q == Decided(r, t, a)
    <3>0. /\ a.disabled \in {Null} \union BOOLEAN /\ a.roleIds \in {Null} \union SUBSET Roles
          /\ a.perms \in {Null} \union Granted
      BY DEF Asked, NewRoles, NewPerms, Body, Granted
    <3>1. RowsSound' /\ NamesKept /\ (users'[t] # NoUser => users[t] # NoUser)
      <4>1. CASE UNCHANGED users
        BY <1>0, <2>1, <4>1, NoRows DEF tables
      <4>2. CASE a.disabled # Null /\ SetUserDisabled(t, a.disabled)
        <5>1. a.disabled \in BOOLEAN
          BY <3>0, <4>2
        <5>2. QED
          BY <1>0, <2>1, <4>2, <5>1, DisableRows
      <4>3. QED
        BY <2>3, <4>1, <4>2
    <3>2. t \in 0 .. MaxId
      BY MaxIdAssumption DEF Ids
    <3> DEFINE aim == IF Live(t) THEN users[t].name ELSE NoUser
    <3>3. aim \in Names \union {NoUser}
      BY <1>0 DEF RowsSound, TablesTyped, User, Live
    <3>4. /\ q \in Request /\ q.pc = "updRoles" /\ q.actor = req[r].actor /\ q.target = t
          /\ q.aim = aim
      <4> HIDE DEF aim
      <4>1. q = [req[r] EXCEPT !.pc = "updRoles", !.target = t, !.roleIds = a.roleIds,
                   !.perms = a.perms, !.aim = aim]
        BY DEF Decided, aim
      <4>2. QED
        BY <1>0, <3>0, <3>2, <3>3, <4>1, ZenonT(60) DEF Request, PCs
    <3> HIDE DEF q
    <3>5. Moved(r) /\ req'[r] = q
      BY <2>3, <3>4, GotoFacts DEF q
    <3>6. Filled(req[r])' /\ (~disturbed => Checked(req[r])')
      BY <1>0, <2>1, <3>4, <3>5 DEF Filled, Checked, IsAdmin
    <3>7. AimKept(req[r])'
      <4> SUFFICES ASSUME aim # NoUser
                   PROVE  /\ t \in Ids /\ t <= seq'
                          /\ users'[t] # NoUser => users'[t].name = aim
        BY <3>4, <3>5 DEF AimKept
      <4>1. users[t] # NoUser /\ aim = users[t].name
        BY DEF Live
      <4>2. t <= seq /\ seq' = seq
        BY <1>0, <2>1, <4>1, MaxIdAssumption DEF RowsSound, TablesTyped, FreshIds, Ids
      <4>3. QED
        BY <3>1, <4>1, <4>2 DEF NamesKept
    <3>8. QED
      BY <2>1, <3>1, <3>5, <3>6, <3>7, GotoStep
  <2>4. QED
    BY <1>1, <2>2, <2>3 DEF Update
<1>2. CASE UpdateRoles(r)
  <2>1. /\ req[r].pc = "updRoles" /\ sessions' = sessions /\ grants' = grants
        /\ RowsSound' /\ NamesKept
    BY <1>0, <1>2, NoRows DEF UpdateRoles, tables
  <2>2. CASE \/ At(r, "updGet")
             \/ /\ req[r].roleIds # Null /\ At(r, "updAssign")
                /\ ~(/\ req[r].actor = req[r].target /\ IsAdmin(req[r].target)
                     /\ "admin" \notin req[r].roleIds)
    <3>1. /\ Moved(r) /\ req'[r].pc \in {"updGet", "updAssign"} /\ req'[r].actor = req[r].actor
          /\ req'[r].target = req[r].target /\ req'[r].aim = req[r].aim
          /\ req'[r].roleIds = req[r].roleIds
          /\ req'[r].pc = "updAssign" =>
                /\ req[r].roleIds # Null
                /\ ~(/\ req[r].actor = req[r].target /\ IsAdmin(req[r].target)
                     /\ "admin" \notin req[r].roleIds)
      BY <2>2, AtFacts DEF PCs
    <3>2. Filled(req[r])' /\ (~disturbed => Checked(req[r])')
      BY <1>0, <2>1, <3>1 DEF Filled, Checked, IsAdmin
    <3>3. AimKept(req[r])'
      BY <2>1, <3>1, AimStays
    <3>4. QED
      BY <2>1, <3>1, <3>2, <3>3, GotoStep
  <2>3. QED
    BY <1>2, <2>1, <2>2, FinishStep DEF UpdateRoles
<1>3. QED
  BY <1>1, <1>2

\* PATCH /api/users: roles and permissions are stored.
LEMMA StoreStep ==
  ASSUME IInv, NEW r \in Reqs, UpdateAssign(r) \/ UpdateGet(r) \/ UpdatePerms(r)
  PROVE  IInv'
<1>0. /\ req[r] \in Request /\ Filled(req[r]) /\ AimKept(req[r])
      /\ (~disturbed => Checked(req[r])) /\ RowsSound
  BY DEF IInv, RequestsSound, Alone
<1>1. CASE UpdateAssign(r)
  <2> DEFINE q == [req[r] EXCEPT !.pc = "updGet", !.roleIds = Null]
  <2>1. /\ req[r].pc = "updAssign" /\ sessions' = sessions
        /\ UNCHANGED <<users, seq, roles, personal>>
    BY <1>1 DEF UpdateAssign
  <2>2. CASE /\ CanAssign(req[r].target, req[r].roleIds)
             /\ AssignRolesToUser(req[r].target, req[r].roleIds) /\ Goto(r, q)
    <3>1. req[r].roleIds \in SUBSET Roles
      BY <1>0, <2>1 DEF Filled, Request
    <3>2. /\ RowsSound' /\ NamesKept /\ req[r].target \in Ids
          /\ grants' = [grants EXCEPT ![req[r].target] = req[r].roleIds]
      BY <1>0, <2>1, <2>2, <3>1, AssignRows
    <3>3. /\ q \in Request /\ q.pc = "updGet" /\ q.actor = req[r].actor
          /\ q.target = req[r].target /\ q.aim = req[r].aim
      BY <1>0 DEF Request, PCs
    <3> HIDE DEF q
    <3>4. Moved(r) /\ req'[r] = q
      BY <2>2, <3>3, GotoFacts
    <3>5. Filled(req[r])'
      BY <3>3, <3>4 DEF Filled
    <3>6. ASSUME ~disturbed PROVE Checked(req[r])'
      <4>1. /\ IsAdmin(req[r].actor)
            /\ req[r].target = req[r].actor => "admin" \in req[r].roleIds
        BY <1>0, <2>1, <3>6 DEF Checked
      <4>2. IsAdmin(req[r].actor)'
        BY <1>0, <3>2, <3>3, <3>4, <4>1 DEF IsAdmin, RowsSound, TablesTyped
      <4>3. QED
        BY <3>3, <3>4, <4>2 DEF Checked
    <3>7. AimKept(req[r])'
      BY <2>1, <3>2, <3>3, <3>4, AimStays
    <3>8. QED
      BY <2>1, <3>2, <3>4, <3>5, <3>6, <3>7, GotoStep
  <2>3. CASE Finish(r) /\ UNCHANGED <<grants, linked>>
    BY <1>0, <2>1, <2>3, NoRows, FinishStep DEF tables
  <2>4. QED
    BY <1>1, <2>2, <2>3 DEF UpdateAssign
<1>2. CASE UpdateGet(r)
  <2> DEFINE q == [req[r] EXCEPT !.pc = "updPerms", !.aim = users[req[r].target].name]
  <2>1. /\ req[r].pc = "updGet" /\ sessions' = sessions /\ grants' = grants /\ users' = users
        /\ seq' = seq /\ RowsSound' /\ NamesKept
    BY <1>0, <1>2, NoRows DEF UpdateGet, tables
  <2>2. CASE req[r].perms # Null /\ Live(req[r].target) /\ Goto(r, q)
    <3> DEFINE t == req[r].target
               name == users[t].name
    <3>1. t \in Ids /\ users[t] # NoUser /\ name \in Names /\ t <= seq
      BY <1>0, <2>2, MaxIdAssumption DEF Live, RowsSound, TablesTyped, User, FreshIds, Ids
    <3>2. /\ q \in Request /\ q.pc = "updPerms" /\ q.actor = req[r].actor /\ q.target = t
          /\ q.aim = name /\ q.perms = req[r].perms
      <4> HIDE DEF name
      <4>1. q = [req[r] EXCEPT !.pc = "updPerms", !.aim = name]
        BY DEF name
      <4>2. QED
        BY <1>0, <3>1, <4>1 DEF Request, PCs
    <3> HIDE DEF q
    <3>3. Moved(r) /\ req'[r] = q
      BY <2>2, <3>2, GotoFacts
    <3>4. Filled(req[r])'
      BY <2>2, <3>1, <3>2, <3>3 DEF Filled
    <3>5. AimKept(req[r])'
      BY <2>1, <3>1, <3>2, <3>3 DEF AimKept
    <3>6. ~disturbed => Checked(req[r])'
      BY <1>0, <2>1, <3>1, <3>2, <3>3 DEF Checked, IsAdmin, Live
    <3>7. QED
      BY <2>1, <3>3, <3>4, <3>5, <3>6, GotoStep
  <2>3. QED
    BY <1>2, <2>1, <2>2, FinishStep DEF UpdateGet
<1>3. CASE UpdatePerms(r)
  <2>1. /\ req[r].pc = "updPerms" /\ sessions' = sessions /\ Finish(r)
        /\ UNCHANGED <<users, seq, grants, roles>>
    BY <1>3 DEF UpdatePerms
  <2>2. req[r].perms \in Granted /\ req[r].aim \in Names
    BY <1>0, <2>1 DEF Filled, Request
  <2>3. RowsSound' /\ NamesKept
    <3>1. CASE /\ Live(req[r].target) \/ req[r].perms = {}
               /\ UpsertPersonalRole(req[r].target, req[r].aim, req[r].perms)
      <4>1. Live(req[r].target) => users[req[r].target].name = req[r].aim
        BY <1>0, <2>1, <2>2, NullsAssumption DEF AimKept, Live
      <4>2. QED
        BY <1>0, <2>1, <2>2, <3>1, <4>1, UpsertRows
    <3>2. CASE UNCHANGED <<personal, linked>>
      BY <1>0, <2>1, <3>2, NoRows DEF tables
    <3>3. QED
      BY <1>3, <3>1, <3>2 DEF UpdatePerms
  <2>4. QED
    BY <2>1, <2>3, FinishStep
<1>4. QED
  BY <1>1, <1>2, <1>3

\* DELETE /api/users.
LEMMA DeleteStep ==
  ASSUME IInv, NEW r \in Reqs, Delete(r) \/ DeleteWrite(r)
  PROVE  IInv'
<1>0. /\ req[r] \in Request /\ Filled(req[r]) /\ AimKept(req[r])
      /\ (~disturbed => Checked(req[r])) /\ RowsSound
  BY DEF IInv, RequestsSound, Alone
<1>1. CASE Delete(r)
  <2>1. /\ req[r].pc = "serve" /\ sessions' = sessions /\ grants' = grants /\ users' = users
        /\ seq' = seq /\ RowsSound' /\ NamesKept
    BY <1>0, <1>1, NoRows DEF Delete, tables
  <2>2. ASSUME NEW t \in Ids, req[r].actor # t, Live(t),
               Goto(r, [req[r] EXCEPT !.target = t, !.aim = users[t].name,
                          !.pc = IF users[t].auth = "pam" THEN "disable" ELSE "delete"])
        PROVE  IInv'
    <3> DEFINE name == users[t].name
               pc == IF users[t].auth = "pam" THEN "disable" ELSE "delete"
               q == [req[r] EXCEPT !.target = t, !.aim = name, !.pc = pc]
    <3>1. /\ users[t] # NoUser /\ name \in Names /\ t <= seq /\ t \in 0 .. MaxId
          /\ pc \in {"disable", "delete"}
      BY <1>0, <2>2, MaxIdAssumption DEF Live, RowsSound, TablesTyped, User, FreshIds, Ids
    <3>2. Goto(r, q)
      BY <2>2
    <3> HIDE DEF pc, name
    <3>3. /\ q \in Request /\ q.pc \in {"disable", "delete"} /\ q.actor = req[r].actor
          /\ q.target = t /\ q.aim = name
      BY <1>0, <3>1 DEF Request, PCs
    <3> HIDE DEF q
    <3>4. Moved(r) /\ req'[r] = q
      BY <3>2, <3>3, GotoFacts
    <3>5. Filled(req[r])'
      BY <3>1, <3>3, <3>4 DEF Filled
    <3>6. AimKept(req[r])'
      BY <2>1, <3>1, <3>3, <3>4 DEF AimKept, name
    <3>7. ~disturbed => Checked(req[r])'
      BY <1>0, <2>1, <2>2, <3>3, <3>4 DEF Checked, IsAdmin
    <3>8. QED
      BY <2>1, <3>4, <3>5, <3>6, <3>7, GotoStep
  <2>3. QED
    BY <1>1, <2>1, <2>2, FinishStep DEF Delete
<1>2. CASE DeleteWrite(r)
  <2>1. Finish(r) /\ sessions' = sessions /\ UNCHANGED <<seq, roles, personal>>
    BY <1>2 DEF DeleteWrite
  <2>2. CASE /\ req[r].pc = "disable" /\ SetUserDisabled(req[r].target, TRUE)
             /\ UNCHANGED <<grants, linked>>
    BY <1>0, <2>1, <2>2, DisableRows, FinishStep
  <2>3. CASE req[r].pc = "delete" /\ DeleteUser(req[r].target)
    <3>1. req[r].target \in Ids
      BY <1>0, <2>3, NullsAssumption DEF Filled, AimKept
    <3>2. QED
      BY <1>0, <2>1, <2>3, <3>1, DeleteRows, FinishStep
  <2>4. QED
    BY <1>2, <2>2, <2>3 DEF DeleteWrite
<1>3. QED
  BY <1>1, <1>2

\* /api/roles.
LEMMA RoleStep ==
  ASSUME IInv, NEW r \in Reqs, CreateRole(r) \/ ReadRole(r) \/ UpdateRole(r) \/ DeleteRole(r)
  PROVE  IInv'
<1>0. /\ req[r] \in Request /\ Filled(req[r]) /\ AimKept(req[r])
      /\ (~disturbed => Checked(req[r])) /\ RowsSound
  BY DEF IInv, RequestsSound, Alone
<1>1. CASE CreateRole(r)
  <2>1. /\ req[r].pc = "serve" /\ Finish(r) /\ sessions' = sessions
        /\ UNCHANGED <<users, seq, grants, personal, linked>>
        /\ \E c \in CustomRoles, P \in Granted : roles' = [roles EXCEPT ![c] = P]
    BY <1>1 DEF CreateRole
  <2>2. RowsSound' /\ NamesKept
    BY <1>0, <2>1, RoleRows
  <2>3. QED
    BY <2>1, <2>2, FinishStep
<1>2. CASE ReadRole(r)
  <2>1. /\ req[r].pc = "serve" /\ sessions' = sessions /\ grants' = grants
        /\ RowsSound' /\ NamesKept
    BY <1>0, <1>2, NoRows DEF ReadRole, tables
  <2>2. ASSUME NEW c \in CustomRoles, NEW pc \in {"roleWrite", "roleDelete"},
               Goto(r, [req[r] EXCEPT !.pc = pc, !.role = c])
        PROVE  IInv'
    <3> DEFINE q == [req[r] EXCEPT !.pc = pc, !.role = c]
    <3>1. /\ q \in Request /\ q.pc = pc /\ q.actor = req[r].actor /\ q.target = req[r].target
          /\ q.aim = req[r].aim /\ q.role = c
      BY <1>0 DEF Request, PCs
    <3>2. Goto(r, q)
      BY <2>2
    <3> HIDE DEF q
    <3>3. Moved(r) /\ req'[r] = q
      BY <3>1, <3>2, GotoFacts
    <3>4. Filled(req[r])'
      BY <2>2, <3>1, <3>3 DEF Filled
    <3>5. AimKept(req[r])'
      BY <2>1, <3>1, <3>3, AimStays
    <3>6. ~disturbed => Checked(req[r])'
      BY <1>0, <2>1, <2>2, <3>1, <3>3 DEF Checked, IsAdmin
    <3>7. QED
      BY <2>1, <3>3, <3>4, <3>5, <3>6, GotoStep
  <2>3. QED
    BY <1>2, <2>1, <2>2, FinishStep DEF ReadRole
<1>3. CASE UpdateRole(r)
  <2>1. /\ req[r].pc = "roleWrite" /\ Finish(r) /\ sessions' = sessions
        /\ UNCHANGED <<users, seq, grants, personal, linked>>
        /\ UNCHANGED roles \/ \E P \in Granted : roles' = [roles EXCEPT ![req[r].role] = P]
    BY <1>3 DEF UpdateRole
  <2>2. RowsSound' /\ NamesKept
    BY <1>0, <2>1, RoleRows, NoRows DEF tables
  <2>3. QED
    BY <2>1, <2>2, FinishStep
<1>4. CASE DeleteRole(r)
  <2>1. /\ req[r].pc = "roleDelete" /\ Finish(r) /\ sessions' = sessions
        /\ UNCHANGED <<users, seq, personal, linked>>
        /\ roles' = [roles EXCEPT ![req[r].role] = NoRole]
        /\ grants' = [i \in Ids |-> grants[i] \ {req[r].role}]
    BY <1>4 DEF DeleteRole
  <2>2. RowsSound' /\ NamesKept
    BY <1>0, <2>1, RoleRows
  <2>3. QED
    BY <2>1, <2>2, FinishStep
<1>5. QED
  BY <1>1, <1>2, <1>3, <1>4

\* The setup page and the installer.
LEMMA SetupStep ==
  ASSUME IInv, NEW r \in Reqs, SetupInsert(r) \/ SetupGet(r) \/ SetupAssign(r) \/ InstallFind(r)
  PROVE  IInv'
<1>0. /\ req[r] \in Request /\ Filled(req[r]) /\ AimKept(req[r])
      /\ (~disturbed => Checked(req[r])) /\ RowsSound
  BY DEF IInv, RequestsSound, Alone
<1>1. CASE SetupInsert(r)
  <2>1. /\ req[r].pc = "setupInsert" /\ sessions' = sessions
        /\ UNCHANGED <<grants, roles, personal, linked>>
    BY <1>1 DEF SetupInsert
  <2>2. ASSUME NEW n \in Names, InsertUser(n, "local"),
               Goto(r, [req[r] EXCEPT !.pc = "setupGet", !.target = NextId, !.aim = n])
        PROVE  IInv'
    <3> DEFINE q == [req[r] EXCEPT !.pc = "setupGet", !.target = NextId, !.aim = n]
    <3>1. /\ RowsSound' /\ NamesKept /\ NextId \in Ids /\ seq' = NextId
          /\ users'[NextId].name = n
      BY <1>0, <2>1, <2>2, InsertRows
    <3>2. NextId \in 0 .. MaxId /\ NextId <= seq'
      BY <3>1, MaxIdAssumption DEF Ids
    <3>3. q \in Request /\ q.pc = "setupGet" /\ q.target = NextId /\ q.aim = n
      BY <1>0, <3>2 DEF Request, PCs
    <3>4. Goto(r, q)
      BY <2>2
    <3> HIDE DEF q
    <3>5. Moved(r) /\ req'[r] = q
      BY <3>3, <3>4, GotoFacts
    <3>6. Filled(req[r])' /\ AimKept(req[r])'
      BY <3>1, <3>2, <3>3, <3>5 DEF Filled, AimKept
    <3>7. ~disturbed => Checked(req[r])'
      BY <1>0, <2>1, <3>3, <3>5 DEF Checked, Admins, IsAdmin
    <3>8. QED
      BY <2>1, <3>1, <3>5, <3>6, <3>7, GotoStep
  <2>3. CASE Finish(r) /\ UNCHANGED <<users, seq>>
    BY <1>0, <2>1, <2>3, NoRows, FinishStep DEF tables
  <2>4. QED
    BY <1>1, <2>2, <2>3 DEF SetupInsert
<1>2. CASE SetupGet(r)
  <2>1. /\ req[r].pc = "setupGet" /\ sessions' = sessions /\ grants' = grants
        /\ RowsSound' /\ NamesKept
    BY <1>0, <1>2, NoRows DEF SetupGet, tables
  <2>2. CASE At(r, "setupAssign")
    <3>1. /\ Moved(r) /\ req'[r].pc = "setupAssign"
          /\ req'[r].target = req[r].target /\ req'[r].aim = req[r].aim
      BY <2>2, AtFacts DEF PCs
    <3>2. Filled(req[r])' /\ (~disturbed => Checked(req[r])')
      BY <1>0, <2>1, <3>1 DEF Filled, Checked, Admins, IsAdmin
    <3>3. AimKept(req[r])'
      BY <2>1, <3>1, AimStays
    <3>4. QED
      BY <2>1, <3>1, <3>2, <3>3, GotoStep
  <2>3. QED
    BY <1>2, <2>1, <2>2, FinishStep DEF SetupGet
<1>3. CASE SetupAssign(r)
  <2>1. /\ req[r].pc \in {"setupAssign", "installAssign"} /\ sessions' = sessions /\ Finish(r)
        /\ UNCHANGED <<users, seq, roles, personal>>
    BY <1>3 DEF SetupAssign
  <2>2. CASE CanAssign(req[r].target, {"admin"}) /\ AssignRolesToUser(req[r].target, {"admin"})
    <3>1. {"admin"} \in SUBSET Roles
      BY DEF Roles
    <3>2. QED
      BY <1>0, <2>1, <2>2, <3>1, AssignRows, FinishStep
  <2>3. CASE UNCHANGED <<grants, linked>>
    BY <1>0, <2>1, <2>3, NoRows, FinishStep DEF tables
  <2>4. QED
    BY <1>3, <2>2, <2>3 DEF SetupAssign
<1>4. CASE InstallFind(r)
  <2>1. /\ req[r].pc = "installFind" /\ sessions' = sessions /\ users' = users /\ seq' = seq
        /\ RowsSound' /\ NamesKept
    BY <1>0, <1>4, NoRows DEF InstallFind, tables
  <2>2. ASSUME NEW i \in Named(req[r].aim),
               Goto(r, [req[r] EXCEPT !.pc = "installAssign", !.target = i])
        PROVE  IInv'
    <3> DEFINE q == [req[r] EXCEPT !.pc = "installAssign", !.target = i]
    <3>1. i \in Ids /\ users[i] # NoUser /\ users[i].name = req[r].aim
      BY DEF Named, Live
    <3>2. i \in 0 .. MaxId /\ i <= seq /\ req[r].aim \in Names
      BY <1>0, <3>1, MaxIdAssumption DEF RowsSound, TablesTyped, FreshIds, User, Ids
    <3>3. q \in Request /\ q.pc = "installAssign" /\ q.target = i /\ q.aim = req[r].aim
      BY <1>0, <3>2 DEF Request, PCs
    <3>4. Goto(r, q)
      BY <2>2
    <3> HIDE DEF q
    <3>5. Moved(r) /\ req'[r] = q
      BY <3>3, <3>4, GotoFacts
    <3>6. Filled(req[r])' /\ AimKept(req[r])' /\ Checked(req[r])'
      BY <2>1, <3>1, <3>2, <3>3, <3>5 DEF Filled, AimKept, Checked
    <3>7. QED
      BY <2>1, <3>5, <3>6, GotoStep
  <2>3. QED
    BY <1>4, <2>1, <2>2, FinishStep DEF InstallFind
<1>5. QED
  BY <1>1, <1>2, <1>3, <1>4

\* Every step of every request, and a stutter.
LEMMA NextIInv == IInv /\ [Next]_vars => IInv'
<1> SUFFICES ASSUME IInv, [Next]_vars PROVE IInv'
  OBVIOUS
<1>1. ASSUME NEW r \in Reqs, Step(r) PROVE IInv'
  BY <1>1, AdminStep, CreateStep, UpdateStep, StoreStep, DeleteStep, RoleStep, SetupStep DEF Step
<1>2. CASE UNCHANGED vars
  <2>1. UNCHANGED tables /\ req' = req /\ sessions' = sessions /\ disturbed' = disturbed
    BY <1>2 DEF vars, tables
  <2>2. RowsSound' /\ users' = users /\ seq' = seq /\ grants' = grants
    BY <2>1, NoRows DEF IInv, tables
  <2>3. RequestsSound' /\ Alone'
    BY <2>1, <2>2 DEF IInv, RequestsSound, Filled, AimKept, Alone, Checked, IsAdmin, Live, Admins, Idle
  <2>4. QED
    BY <2>2, <2>3 DEF IInv
<1>3. QED
  BY <1>1, <1>2, ArrivalStep, CutShortStep DEF Next

\* The invariant of the accounts holds for every set of names, roles and requests.
LEMMA Inductive == Spec => []IInv
<1>1. QED
  BY InitIInv, NextIInv, PTL DEF Spec

-----------------------------------------------------------------------------
(***************************************************************************)
(* What one step may do to the grants.                                     *)
(***************************************************************************)
StepOf(r) == Arrival(r) \/ Step(r) \/ CutShort(r)

\* The rows of user_roles change in five places: where roles are assigned, where
\* the first administrator is made, where a user or a role is deleted, and where
\* a personal role is linked.
Grants(r) ==
  LET q == req[r] IN
  \/ grants' = grants /\ linked' \subseteq linked
  \/ /\ q.pc \in {"createRoles", "updAssign"} /\ Live(q.target)
     /\ grants' = [grants EXCEPT ![q.target] = q.roleIds] /\ linked' \subseteq linked
  \/ /\ q.pc \in {"setupAssign", "installAssign"} /\ Live(q.target)
     /\ grants' = [grants EXCEPT ![q.target] = {"admin"}] /\ linked' \subseteq linked
  \/ /\ q.pc = "delete"
     /\ grants' = [grants EXCEPT ![q.target] = {}] /\ linked' \subseteq linked
  \/ /\ q.pc = "roleDelete"
     /\ grants' = [i \in Ids |-> grants[i] \ {q.role}] /\ linked' \subseteq linked
  \/ /\ q.pc \in {"createPerms", "updPerms"} /\ Live(q.target)
     /\ grants' = grants /\ linked' = linked \union {q.target}

\* A step is one of these, moves one request and never calms what was disturbed.
LEMMA GrantsChange ==
  ASSUME IInv, NEW r \in Reqs, StepOf(r)
  PROVE  /\ Grants(r) /\ (disturbed => disturbed')
         /\ \A s \in Reqs : s # r => req'[s] = req[s]
<1>1. req \in [Reqs -> Request] /\ disturbed \in BOOLEAN
  BY DEF IInv, RequestsSound
<1>2. CASE Arrival(r)
  <2>1. grants' = grants /\ linked' = linked
    BY <1>2 DEF Arrival, LoginPAM, LoginLocal, Install, AddUser, Logout, RequireAuth, PostSetup, tables
  <2>2. (disturbed => disturbed') /\ \A s \in Reqs : s # r => req'[s] = req[s]
    BY <1>1, <1>2 DEF Arrival, LoginPAM, LoginLocal, Install, AddUser, Logout, RequireAuth,
                      PostSetup, Arrive, Serve
  <2>3. QED
    BY <2>1, <2>2 DEF Grants
<1>3. CASE CutShort(r)
  BY <1>1, <1>3 DEF CutShort, Grants, tables
<1>4. CASE Step(r)
  <2>1. /\ disturbed => disturbed'
        /\ \A s \in Reqs : s # r => req'[s] = req[s]
    <3>1. (\E q : Goto(r, q)) \/ Finish(r)
      BY <1>4 DEF Step, RequireAdmin, List, Create, CreateGet, CreateRoles, CreatePerms, Update,
                  UpdateRoles, UpdateAssign, UpdateGet, UpdatePerms, Delete, DeleteWrite,
                  CreateRole, ReadRole, UpdateRole, DeleteRole, SetupInsert, SetupGet,
                  SetupAssign, InstallFind, At
    <3>2. QED
      BY <1>1, <3>1 DEF Goto, Finish
  <2>2. ASSUME RequireAdmin(r) \/ List(r) \/ Create(r) \/ CreateGet(r) PROVE Grants(r)
    BY <2>2 DEF RequireAdmin, List, Create, CreateGet, Grants, tables
  <2>3. ASSUME CreateRoles(r) \/ UpdateAssign(r) \/ SetupAssign(r) PROVE Grants(r)
    BY <2>3 DEF CreateRoles, UpdateAssign, SetupAssign, AssignRolesToUser, CanAssign, Grants
  <2>4. ASSUME CreatePerms(r) \/ UpdatePerms(r) PROVE Grants(r)
    BY <2>4 DEF CreatePerms, UpdatePerms, UpsertPersonalRole, Grants
  <2>5. ASSUME Update(r) \/ UpdateRoles(r) \/ UpdateGet(r) \/ Delete(r) PROVE Grants(r)
    BY <2>5 DEF Update, UpdateRoles, UpdateGet, Delete, Grants, tables
  <2>6. ASSUME DeleteWrite(r) PROVE Grants(r)
    BY <2>6 DEF DeleteWrite, DeleteUser, Grants
  <2>7. ASSUME CreateRole(r) \/ ReadRole(r) \/ UpdateRole(r) \/ DeleteRole(r) PROVE Grants(r)
    BY <2>7 DEF CreateRole, ReadRole, UpdateRole, DeleteRole, Grants, tables
  <2>8. ASSUME SetupInsert(r) \/ SetupGet(r) \/ InstallFind(r) PROVE Grants(r)
    BY <2>8 DEF SetupInsert, SetupGet, InstallFind, Grants, tables
  <2>9. QED
    BY <1>4, <2>1, <2>2, <2>3, <2>4, <2>5, <2>6, <2>7, <2>8 DEF Step
<1>5. QED
  BY <1>2, <1>3, <1>4 DEF StepOf

\* What the invariant says of the request that steps.
LEMMA RequestFacts ==
  ASSUME IInv, NEW r \in Reqs
  PROVE  /\ req[r] \in Request /\ Filled(req[r]) /\ AimKept(req[r])
         /\ (~disturbed => Checked(req[r])) /\ RowsSound
         /\ grants \in [Ids -> SUBSET Roles]
BY DEF IInv, RequestsSound, Alone, RowsSound, TablesTyped

\* GrantsSound: what user_roles holds names users and roles that exist, whatever
\* deletions and assignments overlap.
THEOREM AccountsSound == Spec => []GrantsSound
<1>1. IInv => GrantsSound
  BY DEF IInv, RowsSound, TablesTyped, RequestsSound, GrantsSound, TypeOK
<1>2. QED
  BY <1>1, Inductive, PTL

\* Roles and permissions reach the user they were decided for.
LEMMA RightUserStep ==
  ASSUME IInv, [Next]_vars, NEW s \in Reqs, NEW i \in Ids,
         req[s].pc \in {"updAssign", "updPerms", "createRoles", "createPerms",
                        "setupAssign", "installAssign"},
         req[s].target = i, req[s] # req'[s], req[s].aim # NoUser,
         grants'[i] # grants[i] \/ i \in linked' \ linked
  PROVE  users[i].name = req[s].aim
<1>1. PICK r \in Reqs : StepOf(r)
  BY DEF Next, StepOf, vars
<1>2. r = s /\ Grants(s)
  BY <1>1, GrantsChange
<1>3. Live(i)
  BY <1>2, RequestFacts DEF Grants
<1>4. QED
  BY <1>3, RequestFacts DEF AimKept, Live

\* GrantsFollow: grants neither dangle nor go astray when requests overlap.
THEOREM AccountsFollow == Spec => GrantsFollow
<1>1. IInv => LinksLive
  BY DEF IInv, RowsSound
<1> DEFINE Right ==
      \A r \in Reqs, i \in Ids :
        /\ req[r].pc \in {"updAssign", "updPerms", "createRoles", "createPerms",
                          "setupAssign", "installAssign"}
        /\ req[r].target = i /\ req[r] # req'[r] /\ req[r].aim # NoUser
        /\ grants'[i] # grants[i] \/ i \in linked' \ linked
        => users[i].name = req[r].aim
<1>2. IInv /\ [Next]_vars => [Right]_vars
  BY RightUserStep
<1>3. Spec => [][Right]_vars
  BY <1>2, Inductive, PTL DEF Spec
<1>4. QED
  BY <1>1, <1>3, Inductive, PTL DEF GrantsFollow, RightUser

\* As long as requests do not overlap, an administrator is left.
LEMMA AdminRemainsStep ==
  ASSUME IInv, NEW r \in Reqs, StepOf(r), Admins # {}, ~disturbed'
  PROVE  Admins' # {}
<1>1. /\ Grants(r) /\ Checked(req[r]) /\ Filled(req[r]) /\ req[r] \in Request
      /\ grants \in [Ids -> SUBSET Roles]
  BY GrantsChange, RequestFacts
<1>2. CASE grants' = grants
  BY <1>2 DEF Admins, IsAdmin
<1>3. CASE /\ req[r].pc \in {"createRoles", "updAssign"} /\ Live(req[r].target)
           /\ grants' = [grants EXCEPT ![req[r].target] = req[r].roleIds]
  <2>1. /\ IsAdmin(req[r].actor)
        /\ req[r].target = req[r].actor => "admin" \in req[r].roleIds
    BY <1>1, <1>3 DEF Checked
  <2>2. req[r].actor \in Ids /\ "admin" \in grants'[req[r].actor]
    BY <1>1, <1>3, <2>1 DEF IsAdmin, Live
  <2>3. QED
    BY <2>2 DEF Admins, IsAdmin
<1>4. CASE /\ Live(req[r].target)
           /\ grants' = [grants EXCEPT ![req[r].target] = {"admin"}]
  BY <1>1, <1>4 DEF Live, Admins, IsAdmin
<1>5. CASE req[r].pc = "delete" /\ grants' = [grants EXCEPT ![req[r].target] = {}]
  <2>1. IsAdmin(req[r].actor) /\ req[r].target # req[r].actor
    BY <1>1, <1>5 DEF Checked
  <2>2. req[r].actor \in Ids /\ "admin" \in grants'[req[r].actor]
    BY <1>1, <1>5, <2>1 DEF IsAdmin
  <2>3. QED
    BY <2>2 DEF Admins, IsAdmin
<1>6. CASE req[r].pc = "roleDelete" /\ grants' = [i \in Ids |-> grants[i] \ {req[r].role}]
  <2>1. req[r].role # "admin"
    BY <1>1, <1>6, RolesAssumption DEF Filled
  <2>2. QED
    BY <1>6, <2>1 DEF Admins, IsAdmin
<1>7. QED
  BY <1>1, <1>2, <1>3, <1>4, <1>5, <1>6 DEF Grants

\* AdminRemains: the checks of update and delete against the own account suffice.
THEOREM AdministratorLeft == Spec => AdminRemains
<1>1. IInv /\ [Next]_vars => [Admins # {} => Admins' # {} \/ disturbed']_vars
  <2>1. ASSUME IInv, Next, Admins # {}, ~disturbed' PROVE Admins' # {}
    <3>1. PICK r \in Reqs : StepOf(r)
      BY <2>1 DEF Next, StepOf
    <3>2. QED
      BY <2>1, <3>1, AdminRemainsStep
  <2>2. QED
    BY <2>1
<1>2. QED
  BY <1>1, Inductive, PTL DEF Spec, AdminRemains

\* Who makes an administrator while requests do not overlap.
LEMMA PromoteStep ==
  ASSUME IInv, NEW r \in Reqs, StepOf(r), Admins # {}, ~(Admins' \subseteq Admins), ~disturbed
  PROVE  req[r].actor \in Admins \/ req[r].pc = "installAssign"
<1>1. Grants(r) /\ Checked(req[r]) /\ grants \in [Ids -> SUBSET Roles]
  BY GrantsChange, RequestFacts
<1>2. PICK i \in Ids : "admin" \in grants'[i] /\ "admin" \notin grants[i]
  BY DEF Admins, IsAdmin
<1>3. req[r].pc \in {"createRoles", "updAssign", "setupAssign", "installAssign"}
  BY <1>1, <1>2 DEF Grants
<1>4. req[r].pc # "setupAssign"
  BY <1>1 DEF Checked
<1>5. QED
  BY <1>1, <1>3, <1>4 DEF Checked, Admins, IsAdmin

\* OnlyAdminsPromote: the setup page makes no second administrator.
THEOREM AdministratorsPromote == Spec => OnlyAdminsPromote
<1> DEFINE Promotes ==
      Admins # {} /\ ~(Admins' \subseteq Admins)
        => \/ disturbed
           \/ \E r \in Reqs : req[r].actor \in Admins \/ req[r].pc = "installAssign"
<1>1. IInv /\ [Next]_vars => [Promotes]_vars
  <2>1. ASSUME IInv, Next PROVE Promotes
    <3>1. PICK r \in Reqs : StepOf(r)
      BY <2>1 DEF Next, StepOf
    <3>2. QED
      BY <2>1, <3>1, PromoteStep
  <2>2. QED
    BY <2>1
<1>2. QED
  BY <1>1, Inductive, PTL DEF Spec, OnlyAdminsPromote

\* The last statement of create and update stores the permissions and links them.
LEMMA EffectStep ==
  ASSUME IInv, NEW r \in Reqs, StepOf(r), req[r].pc \in {"updPerms", "createPerms"},
         req[r].perms # {}, ~disturbed'
  PROVE  /\ req[r].target \in linked'
         /\ personal'[users[req[r].target].name] = req[r].perms
<1>1. /\ Filled(req[r]) /\ AimKept(req[r]) /\ Checked(req[r])
      /\ personal \in [Names -> {NoRole} \union (Granted \ {{}})]
  BY GrantsChange, RequestFacts DEF RowsSound, TablesTyped
<1>2. Live(req[r].target) /\ req[r].aim \in Names
  BY <1>1 DEF Checked, Filled
<1>3. users[req[r].target].name = req[r].aim
  BY <1>1, <1>2, NullsAssumption DEF AimKept, Live
<1>4. CreatePerms(r) \/ UpdatePerms(r)
  <2>1. ~Arrival(r) /\ ~CutShort(r)
    BY IdleFacts DEF Arrival, LoginPAM, LoginLocal, Install, AddUser, Logout, RequireAuth,
                     PostSetup, Arrive, Serve, CutShort
  <2>2. QED
    BY <2>1 DEF StepOf, Step, RequireAdmin, List, Create, CreateGet, CreateRoles, Update,
                UpdateRoles, UpdateAssign, UpdateGet, Delete, DeleteWrite, CreateRole, ReadRole,
                UpdateRole, DeleteRole, SetupInsert, SetupGet, SetupAssign, InstallFind
<1>5. UpsertPersonalRole(req[r].target, req[r].aim, req[r].perms)
  BY <1>2, <1>4 DEF CreatePerms, UpdatePerms
<1>6. QED
  BY <1>1, <1>2, <1>3, <1>5 DEF UpsertPersonalRole

\* PermissionsTakeEffect: what create or update was asked for is in force.
THEOREM PermissionsInForce == Spec => PermissionsTakeEffect
<1> DEFINE Effect ==
      \A r \in Reqs :
        LET q == req[r] IN
        /\ q.pc \in {"updPerms", "createPerms"} /\ q.perms # {}
        /\ req'[r] # q /\ ~disturbed'
        => q.target \in linked' /\ personal'[users[q.target].name] = q.perms
<1>1. IInv /\ [Next]_vars => [Effect]_vars
  <2>1. ASSUME IInv, Next PROVE Effect
    <3>1. PICK r \in Reqs : StepOf(r)
      BY <2>1 DEF Next, StepOf
    <3>2. QED
      BY <2>1, <3>1, GrantsChange, EffectStep
  <2>2. QED
    BY <2>1
<1>2. QED
  BY <1>1, Inductive, PTL DEF Spec, PermissionsTakeEffect
=============================================================================
