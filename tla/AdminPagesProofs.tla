-------------------------- MODULE AdminPagesProofs --------------------------
(***************************************************************************)
(* What the pages of an administrator promise, for every value of their    *)
(* constants.  Each page has its inductive invariant; the page that is     *)
(* shown keeps its own and leaves the others alone.                        *)
(***************************************************************************)
EXTENDS AdminPages, SequenceTheorems, TLAPS

\* A step is one of the page that is shown, or none of it.
LEMMA PageSteps ==
  ASSUME [Next]_vars
  PROVE  /\ page' = page
         /\ page = "cron" => Cron!Next \/ UNCHANGED cronVars
         /\ page = "job" => Job!Next \/ UNCHANGED jobVars
         /\ page = "forms" => Forms!Next \/ UNCHANGED formsVars
         /\ page = "accounts" => Accounts!Next \/ UNCHANGED acctVars
         /\ page = "docker" => Docker!Next \/ UNCHANGED dockVars
         /\ page = "files" => Browser!Next \/ UNCHANGED fileVars
         /\ page = "session" => Login!Next \/ UNCHANGED sessVars
BY DEF Next, vars, ShowCron, ShowJob, ShowForms, ShowAccounts, ShowDocker, ShowBrowser, ShowLogin

-----------------------------------------------------------------------------
(***************************************************************************)
(* The dialog of a cron job.                                               *)
(***************************************************************************)
JobTypeOK ==
  /\ expr \in Job!Exprs /\ timer \in Job!Exprs \union {None} /\ asks \in Seq(Job!Exprs)
  /\ overtaken \in BOOLEAN

\* The schedule in the form either waits to be checked, or its check is the last
\* one asked, or the runs that are shown are its own or none.
JobCheckInv ==
  /\ timer \in {None, expr}
  /\ timer = None /\ ~overtaken =>
       IF asks = <<>> THEN nextRuns \in {None, expr} ELSE asks[Len(asks)] = expr

JobIInv == JobTypeOK /\ JobCheckInv

\* A change of the schedule leaves it waiting.
LEMMA JobDebounceFacts ==
  ASSUME JobIInv, None \notin Job!Exprs, NEW e \in Job!Exprs, Job!SetExpr(e), UNCHANGED <<asks, overtaken>>,
         nextRuns' \in {nextRuns, None}
  PROVE  JobIInv'
<1>1. CASE e = expr
  BY <1>1 DEF JobIInv, JobTypeOK, JobCheckInv, Job!SetExpr, Job!Debounce
<1>2. CASE e # expr
  BY <1>2 DEF JobIInv, JobTypeOK, JobCheckInv, Job!SetExpr, Job!Debounce
<1>3. QED
  BY <1>1, <1>2

\* Without the oldest question the last one is still the last.
LEMMA JobOldestAnswered ==
  ASSUME NEW S, NEW q \in Seq(S), q # <<>>
  PROVE  /\ Job!RemoveAt(q, 1) \in Seq(S)
         /\ Job!RemoveAt(q, 1) = <<>> => q[Len(q)] = q[1]
         /\ Job!RemoveAt(q, 1) # <<>> => Job!RemoveAt(q, 1)[Len(Job!RemoveAt(q, 1))] = q[Len(q)]
<1>1. SubSeq(q, 1, 0) = <<>>
  OBVIOUS
<1>2. Job!RemoveAt(q, 1) = Tail(q)
  BY <1>1, TailIsSubSeq DEF Job!RemoveAt
<1>3. Len(q) \in Nat /\ (Len(q) = 1 \/ Len(q) > 1)
  OBVIOUS
<1>4. CASE Len(q) = 1
  BY <1>2, <1>4, HeadTailProperties
<1>5. CASE Len(q) > 1
  <2> DEFINE t == Tail(q)
  <2>1. t \in Seq(S) /\ Len(t) = Len(q) - 1 /\ \A i \in 1 .. Len(t) : t[i] = q[i + 1]
    BY HeadTailProperties
  <2>2. t[Len(t)] = q[Len(q)] /\ t # <<>>
    BY <1>3, <1>5, <2>1
  <2>3. QED
    BY <1>2, <2>1, <2>2
<1>6. QED
  BY <1>3, <1>4, <1>5

\* The dialog waits with the blank schedule when the page is mounted.
LEMMA JobInitIInv ==
  ASSUME Schedules # {}
  PROVE  Job!Init => JobIInv
<1>1. Job!Blank \in Job!Exprs
  BY DEF Job!Blank, Job!Exprs
<1>2. Job!Init => JobTypeOK
  <2>1. <<>> \in Seq(Job!Exprs)
    OBVIOUS
  <2>2. QED
    BY <1>1, <2>1 DEF Job!Init, JobTypeOK
<1>3. Job!Init => JobCheckInv
  BY DEF Job!Init, JobCheckInv
<1>4. QED
  BY <1>2, <1>3 DEF JobIInv

\* Every step of the user, the timer and the server keeps the invariant.
LEMMA JobNextIInv ==
  ASSUME None \notin Job!Exprs, Presets \subseteq Job!Exprs
  PROVE  JobIInv /\ (Job!Next \/ UNCHANGED jobVars) => JobIInv'
<1> SUFFICES ASSUME JobIInv, (Job!Next \/ UNCHANGED jobVars) PROVE JobIInv'
  OBVIOUS
<1>1. CASE \E e \in Job!Exprs, filled \in BOOLEAN : Job!Open(e, filled)
  BY <1>1, JobDebounceFacts DEF Job!Open
<1>2. CASE \E e \in Presets : Job!applyPreset(e)
  BY <1>2, JobDebounceFacts DEF Job!applyPreset
<1>3. CASE \E e \in Job!Exprs : Job!PickField(e)
  BY <1>3, JobDebounceFacts DEF Job!PickField
<1>4. CASE Job!applyCustom \/ Job!TogglePicker \/ Job!TypeCommand \/ Job!handleSave \/ Job!Cancel \/ UNCHANGED jobVars
  BY <1>4 DEF Job!applyCustom, Job!TogglePicker, Job!TypeCommand, Job!handleSave, Job!Cancel, jobVars,
              JobIInv, JobTypeOK, JobCheckInv
<1>5. CASE Job!doValidate
  <2>1. CASE timer = "@reboot"
    BY <1>5, <2>1 DEF Job!doValidate, Job!form, JobIInv, JobTypeOK, JobCheckInv
  <2>2. CASE timer # "@reboot"
    <3>1. timer \in Job!Exprs /\ timer = expr /\ asks' = Append(asks, timer) /\ timer' = None
          /\ UNCHANGED <<expr, overtaken>>
      BY <1>5, <2>2 DEF Job!doValidate, Job!form, JobIInv, JobTypeOK, JobCheckInv
    <3>2. asks' \in Seq(Job!Exprs) /\ asks' # <<>> /\ asks'[Len(asks')] = expr
      BY <3>1 DEF JobIInv, JobTypeOK
    <3>3. QED
      BY <3>1, <3>2 DEF JobIInv, JobTypeOK, JobCheckInv
  <2>3. QED
    BY <2>1, <2>2
<1>6. CASE \E i \in DOMAIN asks : Job!Answer(i)
  <2>1. PICK i \in DOMAIN asks : Job!Answer(i)
    BY <1>6
  <2>2. UNCHANGED <<expr, timer>> /\ overtaken' \in BOOLEAN /\ asks # <<>> /\ asks \in Seq(Job!Exprs)
    BY <2>1 DEF Job!Answer, Job!form, JobIInv, JobTypeOK
  <2>3. CASE i = 1
    <3>1. nextRuns' = asks[1] /\ asks' = Job!RemoveAt(asks, 1) /\ overtaken' = overtaken
      BY <2>1, <2>3 DEF Job!Answer, JobIInv, JobTypeOK
    <3>2. asks' \in Seq(Job!Exprs)
          /\ (asks' = <<>> => asks[Len(asks)] = asks[1])
          /\ (asks' # <<>> => asks'[Len(asks')] = asks[Len(asks)])
      BY <2>2, <3>1, JobOldestAnswered
    <3>3. QED
      BY <2>2, <3>1, <3>2 DEF JobIInv, JobTypeOK, JobCheckInv
  <2>4. CASE i # 1
    <3>1. overtaken' /\ asks' = Job!RemoveAt(asks, i)
      BY <2>1, <2>4 DEF Job!Answer
    <3>2. i \in 1 .. Len(asks) /\ asks' \in Seq(Job!Exprs)
      BY <2>1, <2>2, <3>1 DEF Job!RemoveAt
    <3>3. QED
      BY <2>2, <3>1, <3>2 DEF JobIInv, JobTypeOK, JobCheckInv
  <2>5. QED
    BY <2>3, <2>4
<1>7. QED
  BY <1>1, <1>2, <1>3, <1>4, <1>5, <1>6 DEF Job!Next


\* RunsOfSchedule: once every check has been answered in the order asked, the
\* dialog shows the next runs of the schedule in the form (doValidate and the
\* effect before it).
THEOREM RunsAreOfSchedule == Spec => []RunsOfSchedule
<1> DEFINE Inv == page = "job" => JobIInv
<1>1. Init => Inv
  BY SchedulesAssumption, JobInitIInv DEF Init
<1>2. Inv /\ [Next]_vars => Inv'
  BY SchedulesAssumption, JobNextIInv, PageSteps
<1>3. JobIInv => Job!RunsOfSchedule
  BY DEF JobIInv, JobCheckInv, Job!RunsOfSchedule
<1>4. Inv => RunsOfSchedule
  BY <1>3 DEF RunsOfSchedule
<1>5. QED
  BY <1>1, <1>2, <1>4, PTL DEF Spec

-----------------------------------------------------------------------------
(***************************************************************************)
(* Sign-in, guards and the query cache.                                    *)
(***************************************************************************)
SessSomeone == SessUsers \union {None}

SessTypeOK ==
  /\ cookie \in SessSomeone /\ storeUser \in SessSomeone /\ pages \in SessSomeone /\ signin \in SessSomeone
  /\ route \in {"app", "login"}
  /\ me \in [status : {"pending", "success", "error"}, data : SessSomeone]
  /\ meFetch \in [on : BOOLEAN, as : SessSomeone] /\ pageFetch \in [on : BOOLEAN, as : SessSomeone]
  /\ signout \in BOOLEAN /\ kept \in BOOLEAN /\ untold \in BOOLEAN

\* The query, the store and the route fit together: a fetch is under way until
\* the guard agrees with the answer.
SessGuardInv ==
  /\ me.status = "pending" => me.data = None /\ meFetch.on
  /\ me.status = "success" => me.data # None
  /\ me.data # None => storeUser = me.data
  /\ ~meFetch.on => (route = "app") = (me.status = "success")

\* Unless a change was missed, the question in flight, or else the answer, is
\* that of the cookie.
SessCookieInv ==
  ~untold => IF meFetch.on THEN meFetch.as = cookie
             ELSE IF route = "app" THEN me.data = cookie ELSE cookie = None

\* Unless the session ended without a sign-out, whatever the tab has or will
\* have was asked for by the user of the cookie.
SessCacheInv ==
  ~kept => {me.data, meFetch.as, pages, pageFetch.as} \subseteq {None, cookie}

SessIInv == SessTypeOK /\ SessGuardInv /\ SessCookieInv /\ SessCacheInv

\* What an answer to ["me"] leaves behind, whichever way the guard sends the tab.
LEMMA SessAnsweredFacts ==
  ASSUME SessIInv, None \notin SessUsers,
         NEW m \in [status : {"success", "error"}, data : SessSomeone], Login!Answered(m),
         m.status = "success" => m.data # None
  PROVE  /\ route' \in {"app", "login"} /\ storeUser' \in SessSomeone
         /\ me' \in [status : {"pending", "success", "error"}, data : SessSomeone]
         /\ meFetch' \in [on : BOOLEAN, as : SessSomeone]
         /\ SessGuardInv'
         /\ me'.data = m.data
         /\ route' = route => meFetch' = Login!NoFetch /\ (route = "app") = (m.status = "success")
         /\ route' # route => meFetch' = Login!Sent(cookie)
<1>1. route \in {"app", "login"} /\ storeUser \in SessSomeone /\ cookie \in SessSomeone /\ None \in SessSomeone
  BY DEF SessIInv, SessTypeOK, SessSomeone
<1>2. route' \in {"app", "login"} /\ (route' = route <=> (route = "app") = (m.status = "success"))
  BY <1>1 DEF Login!Answered, Login!Redirect, Login!AuthGuard, Login!LoginGuard
<1>3. storeUser' \in SessSomeone /\ (m.data # None => storeUser' = m.data)
  BY <1>1 DEF Login!Answered, Login!setUser
<1>4. CASE route' = route
  <2>1. me' = m /\ meFetch' = Login!NoFetch
    BY <1>4 DEF Login!Answered
  <2>2. QED
    BY <1>1, <1>2, <1>3, <1>4, <2>1 DEF SessGuardInv, Login!NoFetch
<1>5. CASE route' # route
  <2>1. me' = Login!Fetching(m) /\ meFetch' = Login!Sent(cookie)
    BY <1>5 DEF Login!Answered
  <2>2. me' \in [status : {"pending", "success", "error"}, data : SessSomeone] /\ me'.data = m.data
    BY <2>1 DEF Login!Fetching
  <2>3. /\ me'.status = "pending" => me'.data = None
        /\ me'.status = "success" => me'.data # None
    BY <2>1 DEF Login!Fetching
  <2>4. QED
    BY <1>1, <1>2, <1>3, <1>5, <2>1, <2>2, <2>3 DEF SessGuardInv, Login!Sent
<1>6. QED
  BY <1>4, <1>5

\* The first question is asked with the cookie of the tab.
LEMMA SessInitIInv == Login!Init => SessIInv
<1> SUFFICES ASSUME Login!Init PROVE SessIInv
  OBVIOUS
<1>1. cookie \in SessSomeone /\ None \in SessSomeone
  BY DEF Login!Init, SessSomeone
<1>2. SessTypeOK
  BY <1>1 DEF Login!Init, SessTypeOK, Login!Sent, Login!NoFetch
<1>3. SessGuardInv /\ SessCookieInv /\ SessCacheInv
  BY DEF Login!Init, Login!Sent, Login!NoFetch, SessGuardInv, SessCookieInv, SessCacheInv
<1>4. QED
  BY <1>2, <1>3 DEF SessIInv

\* The two answers to ["me"].
LEMMA SessMeStep ==
  ASSUME SessIInv, None \notin SessUsers, Login!MeArrives \/ Login!MeFails
  PROVE  SessIInv'
<1>1. CASE Login!MeArrives
  <2> DEFINE m == IF meFetch.as = None THEN [me EXCEPT !.status = "error"]
                  ELSE [status |-> "success", data |-> meFetch.as]
  <2>1. m \in [status : {"success", "error"}, data : SessSomeone] /\ (m.status = "success" => m.data # None)
    BY DEF SessIInv, SessTypeOK
  <2>2. /\ m.status = "success" <=> meFetch.as # None
        /\ m.data = IF meFetch.as = None THEN me.data ELSE meFetch.as
    BY DEF SessIInv, SessTypeOK
  <2>3. Login!Answered(m)
    BY <1>1 DEF Login!MeArrives
  <2> HIDE DEF m
  <2>4. /\ route' \in {"app", "login"} /\ storeUser' \in SessSomeone
        /\ me' \in [status : {"pending", "success", "error"}, data : SessSomeone]
        /\ meFetch' \in [on : BOOLEAN, as : SessSomeone]
        /\ SessGuardInv'
        /\ me'.data = m.data
        /\ route' = route => meFetch' = Login!NoFetch /\ (route = "app") = (m.status = "success")
        /\ route' # route => meFetch' = Login!Sent(cookie)
    BY <2>1, <2>3, SessAnsweredFacts
  <2>5. /\ untold' = (untold /\ route' = route) /\ meFetch.on
        /\ UNCHANGED <<cookie, pages, pageFetch, signin, signout, kept>>
    BY <1>1 DEF Login!MeArrives
  <2>6. SessTypeOK'
    BY <2>4, <2>5 DEF SessIInv, SessTypeOK
  <2>7. SessCookieInv'
    BY <2>2, <2>4, <2>5 DEF SessIInv, SessCookieInv, Login!NoFetch, Login!Sent, SessTypeOK
  <2>8. SessCacheInv'
    BY <2>2, <2>4, <2>5 DEF SessIInv, SessCacheInv, Login!NoFetch, Login!Sent
  <2>9. QED
    BY <2>4, <2>6, <2>7, <2>8 DEF SessIInv
<1>2. CASE Login!MeFails
  <2> DEFINE m == [me EXCEPT !.status = "error"]
  <2>1. m \in [status : {"success", "error"}, data : SessSomeone] /\ m.status = "error" /\ m.data = me.data
    BY DEF SessIInv, SessTypeOK
  <2>2. Login!Answered(m)
    BY <1>2 DEF Login!MeFails
  <2> HIDE DEF m
  <2>3. /\ route' \in {"app", "login"} /\ storeUser' \in SessSomeone
        /\ me' \in [status : {"pending", "success", "error"}, data : SessSomeone]
        /\ meFetch' \in [on : BOOLEAN, as : SessSomeone]
        /\ SessGuardInv'
        /\ route' # route => meFetch' = Login!Sent(cookie)
    BY <2>1, <2>2, SessAnsweredFacts
  <2>4. /\ kept' = TRUE /\ untold' = (route' = route)
        /\ UNCHANGED <<cookie, pages, pageFetch, signin, signout>>
    BY <1>2 DEF Login!MeFails
  <2>5. SessTypeOK'
    BY <2>3, <2>4 DEF SessIInv, SessTypeOK
  <2>6. SessCookieInv' /\ SessCacheInv'
    <3>1. ~untold' => meFetch' = Login!Sent(cookie)
      BY <2>3, <2>4
    <3>2. QED
      BY <2>4, <3>1 DEF SessCookieInv, SessCacheInv, Login!Sent
  <2>7. QED
    BY <2>3, <2>5, <2>6 DEF SessIInv
<1>3. QED
  BY <1>1, <1>2

\* Every step of the tab, the server and the other tabs keeps the invariant.
LEMMA SessNextIInv ==
  ASSUME None \notin SessUsers
  PROVE  SessIInv /\ (Login!Next \/ UNCHANGED sessVars) => SessIInv'
<1> SUFFICES ASSUME SessIInv, (Login!Next \/ UNCHANGED sessVars) PROVE SessIInv'
  OBVIOUS
<1> USE DEF SessIInv, SessTypeOK
<1>1. None \in SessSomeone /\ SessUsers \subseteq SessSomeone
  BY DEF SessSomeone
<1>2. CASE Login!MeArrives \/ Login!MeFails
  BY <1>2, SessMeStep
<1>3. CASE Login!FocusRefetch
  BY <1>1, <1>3 DEF Login!FocusRefetch, Login!Fetching, Login!Sent, SessGuardInv, SessCookieInv, SessCacheInv
<1>4. CASE Login!CookieChanges
  BY <1>1, <1>4 DEF Login!CookieChanges, SessGuardInv, SessCookieInv, SessCacheInv, SessSomeone
<1>5. CASE Login!PageArrives \/ Login!LoadPage
  <2>1. CASE Login!PageArrives
    BY <1>1, <2>1 DEF Login!PageArrives, Login!NoFetch, SessGuardInv, SessCookieInv, SessCacheInv
  <2>2. CASE Login!LoadPage
    BY <1>1, <2>2 DEF Login!LoadPage, Login!Sent, SessGuardInv, SessCookieInv, SessCacheInv
  <2>3. QED
    BY <1>5, <2>1, <2>2
<1>6. CASE \E u \in SessUsers : Login!onSubmit(u)
  BY <1>1, <1>6 DEF Login!onSubmit, SessGuardInv, SessCookieInv, SessCacheInv
<1>7. CASE Login!LoginSucceeds
  <2>1. /\ cookie' = signin /\ signin \in SessSomeone \ {None} /\ Login!refetchMe(signin)
        /\ kept' = (kept \/ cookie # None) /\ kept' \in BOOLEAN
        /\ UNCHANGED <<route, storeUser, pages, pageFetch, signout>> /\ signin' = None
    BY <1>7 DEF Login!LoginSucceeds
  <2>2. me' \in [status : {"pending", "success", "error"}, data : SessSomeone] /\ me'.data = me.data
    BY <2>1 DEF Login!refetchMe, Login!Fetching
  <2>3. meFetch' \in [on : BOOLEAN, as : SessSomeone] /\ meFetch'.on /\ untold' \in BOOLEAN
    <3>1. CASE meFetch.on /\ me.data = None
      BY <2>1, <3>1 DEF Login!refetchMe
    <3>2. CASE ~(meFetch.on /\ me.data = None)
      <4>1. meFetch' = Login!Sent(signin) /\ untold' = FALSE
        BY <2>1, <3>2 DEF Login!refetchMe
      <4>2. QED
        BY <2>1, <4>1 DEF Login!Sent
    <3>3. QED
      BY <3>1, <3>2
  <2>4. SessTypeOK'
    BY <1>1, <2>1, <2>2, <2>3
  <2>5. SessGuardInv'
    BY <2>1, <2>2, <2>3 DEF Login!refetchMe, Login!Fetching, SessGuardInv
  <2>6. SessCookieInv'
    BY <2>1, <2>3 DEF Login!refetchMe, Login!Sent, SessCookieInv
  <2>7. SessCacheInv'
    <3>1. ~kept' => ~kept /\ cookie = None
      BY <2>1
    <3>2. meFetch'.as \in {meFetch.as, signin}
      BY <2>1 DEF Login!refetchMe, Login!Sent
    <3>3. QED
      BY <2>1, <2>2, <3>1, <3>2 DEF SessCacheInv
  <2>8. QED
    BY <2>4, <2>5, <2>6, <2>7
<1>8. CASE Login!LoginFails \/ Login!handleLogout \/ Login!LogoutFails
  BY <1>1, <1>8 DEF Login!LoginFails, Login!handleLogout, Login!LogoutFails, SessGuardInv, SessCookieInv,
                    SessCacheInv
<1>9. CASE Login!LogoutSucceeds
  BY <1>1, <1>9 DEF Login!LogoutSucceeds, Login!Clear, Login!NoFetch, Login!Sent, SessGuardInv,
                    SessCookieInv, SessCacheInv
<1>10. CASE UNCHANGED sessVars
  BY <1>10 DEF sessVars, SessGuardInv, SessCookieInv, SessCacheInv
<1>11. QED
  BY <1>2, <1>3, <1>4, <1>5, <1>6, <1>7, <1>8, <1>9, <1>10 DEF Login!Next, Login!Login, Login!AppLayout


\* SessionFollowed: a tab follows the session and nothing outlives a sign-out
\* (AuthGuard, LoginGuard, useAuth, handleLogout), whoever signs in and out in
\* which tab.
THEOREM SessionIsFollowed == Spec => []SessionFollowed
<1> DEFINE Inv == page = "session" => SessIInv
<1>1. Init => Inv
  BY SessInitIInv DEF Init
<1>2. Inv /\ [Next]_vars => Inv'
  BY SessUsersAssumption, SessNextIInv, PageSteps
<1>3. SessIInv => Login!SessionFollowed
  BY DEF SessIInv, SessTypeOK, SessGuardInv, SessCookieInv, SessCacheInv, Login!SessionFollowed, Login!NothingKept, Login!GuardFollowsSession,
     Login!AppShown, Login!LoginShown, Login!isLoading, Login!isAuthenticated
<1>4. Inv => SessionFollowed
  BY <1>3 DEF SessionFollowed
<1>5. QED
  BY <1>1, <1>2, <1>4, PTL DEF Spec

-----------------------------------------------------------------------------
(***************************************************************************)
(* The pages with a list and a form.                                       *)
(***************************************************************************)
FormNames == {"old", "new", "blank"}
FormRow   == [name : FormNames, secret : {"old", "new", "blank", "template"}]

\* The rows of the server, and what is typed and sent.
FormRows(rs) == DOMAIN rs \subseteq Forms!Ids /\ rs \in [DOMAIN rs -> FormRow]

FormTypeOK ==
  /\ kind \in {"secret", "registry", "channel"} /\ FormRows(things) /\ form \in FormRow
  /\ submit # None => submit.form \in FormRow
  /\ unheard \in BOOLEAN

\* The list of the server is on the page, or on its way.
FormListInv == IF listFetch = None THEN listed = Forms!Names(things) ELSE listFetch = Forms!Names(things)

FormIInv == FormTypeOK /\ (~unheard => FormListInv)

\* A list is never taken for no list.
LEMMA FormNamesKnown == ASSUME NEW rs, FormRows(rs) PROVE Forms!Names(rs) # None
<1>1. Forms!Names(rs) \in [DOMAIN rs -> FormNames] /\ DOMAIN rs \in SUBSET (1 .. MaxThings)
  BY DEF FormRows, FormRow, Forms!Names, Forms!Ids
<1>2. QED
  BY <1>1, FormsAssumption DEF FormNames

LEMMA FormInitIInv == Forms!Init => FormIInv
<1> SUFFICES ASSUME Forms!Init PROVE FormIInv
  OBVIOUS
<1>1. FormRows(things)
  BY FormsAssumption DEF Forms!Init, FormRows, FormRow, FormNames, Forms!Ids
<1>2. form \in FormRow
  BY DEF Forms!Init, Forms!BlankForm, FormRow, FormNames
<1>3. QED
  BY <1>1, <1>2 DEF Forms!Init, FormIInv, FormTypeOK, FormListInv

\* What a submission and a deletion leave are rows.
LEMMA FormWritten ==
  ASSUME FormIInv, submit # None, Forms!CanWrite
  PROVE  FormRows(Forms!Submitted)
<1>1. FormRows(things) /\ submit.form \in FormRow /\ kind \in {"secret", "registry", "channel"}
  BY DEF FormIInv, FormTypeOK
<1>2. CASE submit.target = None
  <2> DEFINE i == CHOOSE j \in Forms!Ids \ DOMAIN things : TRUE
             rs == [j \in DOMAIN things \union {i} |-> IF j = i THEN submit.form ELSE things[j]]
  <2>1. i \in Forms!Ids
    BY <1>2 DEF Forms!CanWrite
  <2>2. Forms!Submitted = rs
    BY <1>2 DEF Forms!Submitted, Forms!Created
  <2> HIDE DEF i
  <2>3. FormRows(rs)
    BY <1>1, <2>1 DEF FormRows
  <2>4. QED
    BY <2>2, <2>3
<1>3. CASE submit.target # None
  <2> DEFINE rs == [j \in DOMAIN things |->
                      IF j = submit.target THEN Forms!Updated(things[j], submit.form) ELSE things[j]]
  <2>1. Forms!Submitted = rs
    BY <1>3 DEF Forms!Submitted
  <2>2. ASSUME NEW old \in FormRow PROVE Forms!Updated(old, submit.form) \in FormRow
    <3>1. Forms!UpdatedSecret(old, submit.form) \in FormRow
      BY <1>1 DEF Forms!UpdatedSecret, FormRow
    <3>2. Forms!UpdatedRegistry(old, submit.form) \in FormRow
      BY <1>1 DEF Forms!UpdatedRegistry, FormRow
    <3>3. Forms!UpdatedChannel(old, submit.form) \in FormRow
      BY <1>1 DEF Forms!UpdatedChannel
    <3>4. QED
      BY <1>1, <3>1, <3>2, <3>3 DEF Forms!Updated
  <2>3. FormRows(rs)
    BY <1>1, <2>2 DEF FormRows
  <2>4. QED
    BY <2>1, <2>3
<1>4. QED
  BY <1>2, <1>3

LEMMA FormLeft == ASSUME FormIInv, NEW i PROVE FormRows(Forms!Without(i))
BY DEF FormIInv, FormTypeOK, FormRows, Forms!Without

\* A change of the server: the list is fetched again, or its answer was lost.
LEMMA FormChangeStep ==
  ASSUME FormIInv, FormRows(things'), UNCHANGED <<kind, form, listed>>, submit' = submit \/ submit' = None,
         \/ listFetch' = Forms!Names(things') /\ UNCHANGED unheard
         \/ unheard' = TRUE
  PROVE  FormIInv'
<1>1. FormTypeOK'
  BY DEF FormIInv, FormTypeOK
<1>2. CASE unheard' = TRUE
  BY <1>1, <1>2 DEF FormIInv
<1>3. CASE listFetch' = Forms!Names(things') /\ UNCHANGED unheard
  <2>1. Forms!Names(things') # None
    BY FormNamesKnown
  <2>2. FormListInv'
    BY <1>3, <2>1 DEF FormListInv, Forms!Names
  <2>3. QED
    BY <1>1, <2>2 DEF FormIInv
<1>4. QED
  BY <1>2, <1>3

\* Every step of the page and the server keeps the invariant.
LEMMA FormNextIInv == FormIInv /\ (Forms!Next \/ UNCHANGED formsVars) => FormIInv'
<1> SUFFICES ASSUME FormIInv, Forms!Next \/ UNCHANGED formsVars PROVE FormIInv'
  OBVIOUS
<1>1. ASSUME NEW i,
             \/ Forms!OpenCreate \/ Forms!OpenEdit(i) \/ Forms!AskDelete(i) \/ Forms!CancelDelete
             \/ Forms!ConfirmDelete \/ Forms!CloseDialog \/ UNCHANGED formsVars
      PROVE  FormIInv'
  <2>1. UNCHANGED <<kind, things, listed, listFetch, form, submit, unheard>>
    BY <1>1 DEF Forms!OpenCreate, Forms!OpenEdit, Forms!OpenDialog, Forms!AskDelete, Forms!CancelDelete,
       Forms!ConfirmDelete, Forms!CloseDialog, Forms!rows, Forms!dialog, formsVars
  <2>2. QED
    BY <2>1 DEF FormIInv, FormTypeOK, FormRows, FormListInv, Forms!Names
<1>2. CASE Forms!TypeName \/ Forms!TypeSecret \/ Forms!handleTypeChange
  <2>1. UNCHANGED <<kind, things, listed, listFetch, submit, unheard>>
    BY <1>2 DEF Forms!TypeName, Forms!TypeSecret, Forms!handleTypeChange, Forms!rows
  <2>2. form' \in FormRow
    BY <1>2 DEF Forms!TypeName, Forms!TypeSecret, Forms!handleTypeChange, FormIInv, FormTypeOK, FormRow, FormNames
  <2>3. QED
    BY <2>1, <2>2 DEF FormIInv, FormTypeOK, FormRows, FormListInv, Forms!Names
<1>3. CASE Forms!Submit
  <2>1. UNCHANGED <<kind, things, listed, listFetch, form, unheard>> /\ submit'.form = form
    BY <1>3 DEF Forms!Submit, Forms!rows
  <2>2. QED
    BY <2>1 DEF FormIInv, FormTypeOK, FormRows, FormListInv, Forms!Names
<1>4. CASE Forms!SubmitSucceeds
  <2>1. /\ submit # None /\ Forms!CanWrite /\ things' = Forms!Submitted
        /\ listFetch' = Forms!Names(things') /\ submit' = None /\ UNCHANGED <<kind, listed, form, unheard>>
    BY <1>4 DEF Forms!SubmitSucceeds, Forms!Invalidate
  <2>2. FormRows(things')
    BY <2>1, FormWritten
  <2>3. QED
    BY <2>1, <2>2, FormChangeStep
<1>5. CASE Forms!SubmitFails
  <2>1. submit # None /\ submit' = None /\ UNCHANGED <<kind, listed, listFetch, form>>
    BY <1>5 DEF Forms!SubmitFails
  <2>2. CASE UNCHANGED <<things, unheard>>
    BY <2>1, <2>2 DEF FormIInv, FormTypeOK, FormRows, FormListInv, Forms!Names
  <2>3. CASE Forms!CanWrite /\ things' = Forms!Submitted /\ unheard' = TRUE
    BY <2>1, <2>3, FormWritten, FormChangeStep
  <2>4. QED
    BY <1>5, <2>2, <2>3 DEF Forms!SubmitFails
<1>6. ASSUME NEW i, Forms!DeleteSucceeds(i) \/ Forms!DeleteFails(i) PROVE FormIInv'
  <2>1. UNCHANGED <<kind, listed, form, submit>>
    BY <1>6 DEF Forms!DeleteSucceeds, Forms!DeleteFails, Forms!dialog
  <2>2. CASE things' = Forms!Without(i) /\ (unheard' = TRUE \/ (listFetch' = Forms!Names(things') /\ UNCHANGED unheard))
    BY <2>1, <2>2, FormLeft, FormChangeStep
  <2>3. CASE UNCHANGED <<things, unheard, listFetch>>
    BY <2>1, <2>3 DEF FormIInv, FormTypeOK, FormRows, FormListInv, Forms!Names
  <2>4. QED
    BY <1>6, <2>2, <2>3 DEF Forms!DeleteSucceeds, Forms!DeleteFails, Forms!Invalidate
<1>7. CASE Forms!RefetchList \/ Forms!ListArrives
  <2>1. UNCHANGED <<kind, things, form, submit, unheard>>
    BY <1>7 DEF Forms!RefetchList, Forms!ListArrives, Forms!dialog
  <2>2. Forms!Names(things) # None
    BY FormNamesKnown DEF FormIInv, FormTypeOK
  <2>3. \/ listFetch' = Forms!Names(things)
        \/ listFetch # None /\ listFetch' = None /\ listed' = listFetch
    BY <1>7 DEF Forms!RefetchList, Forms!ListArrives
  <2>4. ~unheard => FormListInv'
    BY <2>1, <2>2, <2>3 DEF FormIInv, FormListInv, Forms!Names
  <2>5. QED
    BY <2>1, <2>4 DEF FormIInv, FormTypeOK, FormRows
<1>8. QED
  BY <1>1, <1>2, <1>3, <1>4, <1>5, <1>6, <1>7
     DEF Forms!Next, Forms!Secrets, Forms!Registries, Forms!Notifications, Forms!List, Forms!SecretFormDialog,
         Forms!RegistryFormDialog, Forms!ChannelDialog, Forms!SubmitSecret, Forms!SubmitRegistry,
         Forms!SubmitChannel

\* ListConverges: once everything is answered the list of secrets, registries or
\* channels is what the server has, whatever fetches and changes overlapped,
\* unless an answer was lost (Secrets.tsx, Registries.tsx, Notifications.tsx).
THEOREM ListsConverge == Spec => []ListConverges
<1> DEFINE Inv == page = "forms" => FormIInv
<1>1. Init => Inv
  BY FormInitIInv DEF Init
<1>2. Inv /\ [Next]_vars => Inv'
  BY FormNextIInv, PageSteps
<1>3. FormIInv => Forms!ListConverges
  BY DEF FormIInv, FormListInv, Forms!ListConverges
<1>4. Inv => ListConverges
  BY <1>3 DEF ListConverges
<1>5. QED
  BY <1>1, <1>2, <1>4, PTL DEF Spec

-----------------------------------------------------------------------------
(***************************************************************************)
(* Docker's resources.                                                     *)
(***************************************************************************)
\* What the host has, and what a list holds: some resources, in use or not.
DockLists == UNION {[S -> BOOLEAN] : S \in SUBSET Docker!Ids}
DockCells == [list : DockLists \union {None}, fetch : DockLists \union {None}, invalid : BOOLEAN, behind : BOOLEAN]

DockTypeOK ==
  /\ host \in DockLists
  /\ cache \in [BOOLEAN -> DockCells]
  /\ showAll \in BOOLEAN
  /\ removals \subseteq [n : Nat, todo : SUBSET Docker!Ids, some : BOOLEAN]
  /\ deleting \in Docker!Ids \union {None}
  /\ tasks \in Nat

\* A list that has been told of every change is being fetched as it is now, or
\* is as it is now, or is marked or missing.
DockCellInv(all, c, h) ==
  ~c.behind =>
    /\ c.fetch # None => c.fetch = Docker!Listed(all, h)
    /\ c.fetch = None => c.invalid \/ c.list = None \/ c.list = Docker!Listed(all, h)

DockListsInv ==
  (\A r \in removals : ~r.some) => \A all \in BOOLEAN : DockCellInv(all, cache[all], host)

\* What is on the screen is neither marked nor missing, unless it is fetched.
DockShownInv == cache[showAll].fetch = None => ~cache[showAll].invalid /\ cache[showAll].list # None

DockIInv == DockTypeOK /\ DockListsInv /\ DockShownInv

LEMMA DockListed ==
  ASSUME NEW all \in BOOLEAN, NEW h \in DockLists
  PROVE  Docker!Listed(all, h) \in DockLists /\ Docker!Listed(all, h) # None
<1>1. PICK S \in SUBSET Docker!Ids : h \in [S -> BOOLEAN]
  BY DEF DockLists
<1> DEFINE T == {i \in S : h[i]}
<1>2. T \in SUBSET Docker!Ids /\ [i \in T |-> TRUE] \in [T -> BOOLEAN]
  BY <1>1
<1>3. Docker!Listed(all, h) = IF all THEN h ELSE [i \in T |-> TRUE]
  BY <1>1 DEF Docker!Listed
<1>4. Docker!Listed(all, h) \in DockLists
  BY <1>2, <1>3 DEF DockLists
<1>5. QED
  BY <1>4, DockerAssumption DEF DockLists, Docker!Ids

LEMMA DockInitIInv == Docker!Init => DockIInv
<1> SUFFICES ASSUME Docker!Init PROVE DockIInv
  OBVIOUS
<1> USE DockerAssumption
<1> DEFINE h == [i \in {1, 2} |-> i = 2]
<1>1. host = h /\ h \in [{1, 2} -> BOOLEAN] /\ {1, 2} \in SUBSET Docker!Ids
  BY DEF Docker!Init, Docker!Ids
<1>2. host \in DockLists
  BY <1>1 DEF DockLists
<1>3. Docker!Listed(TRUE, host) = host /\ host # None
  BY <1>2, DockListed DEF Docker!Listed
<1>4. /\ cache = [all \in BOOLEAN |-> [list |-> IF all THEN host ELSE None, fetch |-> None, invalid |-> FALSE,
                                       behind |-> FALSE]]
      /\ showAll = TRUE /\ removals = {} /\ deleting = None /\ tasks = 0
  BY DEF Docker!Init, Docker!Cell
<1>5. cache \in [BOOLEAN -> DockCells]
  BY <1>2, <1>4 DEF DockCells
<1>6. DockTypeOK
  BY <1>2, <1>4, <1>5 DEF DockTypeOK
<1>7. DockListsInv /\ DockShownInv
  BY <1>3, <1>4 DEF DockListsInv, DockCellInv, DockShownInv
<1>8. QED
  BY <1>6, <1>7 DEF DockIInv

\* The host is h' and the lists are told.
LEMMA DockInvalidated ==
  ASSUME DockIInv, NEW h \in DockLists, Docker!Invalidate(h), UNCHANGED showAll
  PROVE  /\ cache' \in [BOOLEAN -> DockCells]
         /\ \A all \in BOOLEAN : DockCellInv(all, cache'[all], h)
         /\ cache'[showAll].fetch # None
<1> USE DEF DockIInv
<1> DEFINE New(all) == IF all = showAll THEN Docker!Fetching(all, h, cache[all])
                       ELSE [cache[all] EXCEPT !.invalid = TRUE, !.behind = @ \/ cache[all].fetch # None]
<1>1. cache' = [all \in BOOLEAN |-> New(all)] /\ showAll \in BOOLEAN
  BY DEF Docker!Invalidate, DockTypeOK
<1>2. ASSUME NEW all \in BOOLEAN
      PROVE  /\ New(all) \in DockCells /\ DockCellInv(all, New(all), h)
             /\ all = showAll => New(all).fetch # None
  <2>1. cache[all] \in DockCells /\ Docker!Listed(all, h) \in DockLists /\ Docker!Listed(all, h) # None
    BY DockListed DEF DockTypeOK
  <2>2. CASE all = showAll
    <3>1. New(all) = [cache[all] EXCEPT !.fetch = Docker!Listed(all, h), !.behind = FALSE]
      BY <2>2 DEF Docker!Fetching
    <3>2. QED
      BY <2>1, <3>1 DEF DockCells, DockCellInv
  <2>3. CASE all # showAll
    <3>1. New(all) = [cache[all] EXCEPT !.invalid = TRUE, !.behind = @ \/ cache[all].fetch # None]
      BY <2>3
    <3>2. New(all) \in DockCells /\ New(all).invalid /\ New(all).fetch = cache[all].fetch
          /\ (New(all).fetch # None => New(all).behind)
      BY <2>1, <3>1 DEF DockCells
    <3>3. QED
      BY <2>3, <3>2 DEF DockCellInv
  <2>4. QED
    BY <2>2, <2>3
<1>3. QED
  BY <1>1, <1>2

\* The lists are not told.
LEMMA DockUnheard ==
  ASSUME DockIInv, cache' = Docker!Unheard
  PROVE  /\ cache' \in [BOOLEAN -> DockCells]
         /\ \A all \in BOOLEAN : cache'[all].behind /\ cache'[all].fetch = cache[all].fetch
         /\ \A all \in BOOLEAN : cache'[all].invalid = cache[all].invalid /\ cache'[all].list = cache[all].list
BY DEF DockIInv, DockTypeOK, DockCells, Docker!Unheard

\* Nothing changes but one list, which is fetched or arrives.
LEMMA DockListStep ==
  ASSUME DockIInv, Docker!Refetch \/ Docker!ToggleAll \/ \E all \in BOOLEAN : Docker!ListArrives(all)
  PROVE  DockIInv'
<1> USE DEF DockIInv
<1>1. host \in DockLists /\ showAll \in BOOLEAN /\ \A all \in BOOLEAN : cache[all] \in DockCells
  BY DEF DockTypeOK
<1>2. UNCHANGED <<host, removals, deleting, tasks>>
  BY DEF Docker!Refetch, Docker!ToggleAll, Docker!ListArrives, Docker!forms
<1>3. ASSUME NEW all \in BOOLEAN
      PROVE  LET c == Docker!Fetching(all, host, cache[all])
             IN  c \in DockCells /\ DockCellInv(all, c, host) /\ c.fetch # None
  <2>1. Docker!Listed(all, host) \in DockLists /\ Docker!Listed(all, host) # None /\ cache[all] \in DockCells
    BY <1>1, DockListed
  <2>2. QED
    BY <2>1 DEF Docker!Fetching, DockCells, DockCellInv
<1>4. CASE Docker!Refetch
  <2>1. cache' = [cache EXCEPT ![showAll] = Docker!Fetching(showAll, host, cache[showAll])] /\ showAll' = showAll
    BY <1>4 DEF Docker!Refetch
  <2>2. DockTypeOK'
    BY <1>1, <1>2, <1>3, <2>1 DEF DockTypeOK
  <2>3. DockListsInv' /\ DockShownInv'
    BY <1>1, <1>2, <1>3, <2>1 DEF DockListsInv, DockShownInv, DockTypeOK
  <2>4. QED
    BY <2>2, <2>3
<1>5. CASE Docker!ToggleAll
  <2> DEFINE all == ~showAll
             c == cache[all]
  <2>1. all \in BOOLEAN /\ showAll' = all
    BY <1>1, <1>5 DEF Docker!ToggleAll
  <2>2. [cache EXCEPT ![all] = c] = cache
    BY <2>1 DEF DockTypeOK
  <2>3. CASE c.fetch = None /\ cache' = [cache EXCEPT ![all] = Docker!Fetching(all, host, c)]
    <3>1. DockTypeOK'
      BY <1>1, <1>2, <1>3, <2>1, <2>3 DEF DockTypeOK
    <3>2. DockListsInv' /\ DockShownInv'
      BY <1>1, <1>2, <1>3, <2>1, <2>3 DEF DockListsInv, DockShownInv, DockTypeOK
    <3>3. QED
      BY <3>1, <3>2
  <2>4. CASE cache' = cache /\ (c.fetch # None \/ (c.list # None /\ ~c.invalid))
    BY <1>2, <2>1, <2>4 DEF DockTypeOK, DockListsInv, DockShownInv
  <2>5. CASE c.list # None /\ ~c.invalid /\ UNCHANGED cache
    BY <2>4, <2>5
  <2>6. CASE cache' = [cache EXCEPT ![all] = IF c.fetch = None THEN Docker!Fetching(all, host, c) ELSE c]
    <3>1. CASE c.fetch = None
      BY <2>3, <2>6, <3>1
    <3>2. CASE c.fetch # None
      <4>1. cache' = [cache EXCEPT ![all] = c]
        BY <2>6, <3>2
      <4>2. cache' = cache
        BY <2>2, <4>1
      <4>3. QED
        BY <1>2, <2>1, <3>2, <4>2 DEF DockTypeOK, DockListsInv, DockShownInv
    <3>3. QED
      BY <3>1, <3>2
  <2>7. QED
    BY <1>5, <2>5, <2>6 DEF Docker!ToggleAll
<1>6. ASSUME NEW all \in BOOLEAN, Docker!ListArrives(all) PROVE DockIInv'
  <2> DEFINE c == cache[all]
  <2>1. PICK l \in {c.fetch, Docker!Listed(all, host)} :
          cache' = [cache EXCEPT ![all] = [list |-> l, fetch |-> None, invalid |-> FALSE, behind |-> c.behind]]
    BY <1>6 DEF Docker!ListArrives
  <2>2. c.fetch # None /\ showAll' = showAll
    BY <1>6 DEF Docker!ListArrives
  <2>3. l \in DockLists /\ l # None /\ c.behind \in BOOLEAN
    BY <1>1, <2>1, <2>2, DockListed DEF DockCells
  <2>4. /\ cache' \in [BOOLEAN -> DockCells]
        /\ cache'[all] = [list |-> l, fetch |-> None, invalid |-> FALSE, behind |-> c.behind]
        /\ \A other \in BOOLEAN : other # all => cache'[other] = cache[other]
    BY <2>1, <2>3 DEF DockTypeOK, DockCells
  <2>5. DockTypeOK'
    BY <1>2, <2>2, <2>4 DEF DockTypeOK
  <2>6. DockShownInv'
    BY <1>1, <2>2, <2>3, <2>4 DEF DockShownInv
  <2>7. DockListsInv'
    <3> SUFFICES ASSUME \A r \in removals : ~r.some, NEW other \in BOOLEAN
                 PROVE  DockCellInv(other, cache'[other], host)
      BY <1>2 DEF DockListsInv
    <3>1. DockCellInv(other, cache[other], host)
      BY DEF DockListsInv
    <3>2. CASE other = all
      BY <2>1, <2>2, <2>4, <3>1, <3>2 DEF DockCellInv
    <3>3. QED
      BY <2>4, <3>1, <3>2
  <2>8. QED
    BY <2>5, <2>6, <2>7
<1>7. QED
  BY <1>4, <1>5, <1>6

\* The host changes: by itself, or by a creation or a removal that is answered.
LEMMA DockHostStep ==
  ASSUME DockIInv, host' \in DockLists, showAll' = showAll,
         removals' \subseteq removals, deleting' \in {deleting, None}, tasks' \in Nat,
         \/ Docker!Invalidate(host') \/ cache' = Docker!Unheard
         \/ UNCHANGED <<host, cache>> /\ \A r \in removals : r.some => r \in removals'
  PROVE  DockIInv'
<1> USE DEF DockIInv
<1>1. CASE Docker!Invalidate(host')
  BY <1>1, DockInvalidated DEF DockTypeOK, DockListsInv, DockShownInv
<1>2. CASE cache' = Docker!Unheard
  <2>1. DockTypeOK'
    BY <1>2, DockUnheard DEF DockTypeOK
  <2>2. DockListsInv'
    BY <1>2, DockUnheard DEF DockListsInv, DockCellInv
  <2>3. DockShownInv'
    BY <1>2, DockUnheard DEF DockShownInv, DockTypeOK
  <2>4. QED
    BY <2>1, <2>2, <2>3
<1>3. CASE UNCHANGED <<host, cache>> /\ \A r \in removals : r.some => r \in removals'
  BY <1>3 DEF DockTypeOK, DockListsInv, DockShownInv
<1>4. QED
  BY <1>1, <1>2, <1>3

\* What the host has after a change of docker's.
LEMMA DockChanged ==
  ASSUME NEW h \in DockLists
  PROVE  /\ \A i \in DOMAIN h : [h EXCEPT ![i] = ~@] \in DockLists
         /\ \A i \in DOMAIN h : [j \in DOMAIN h \ {i} |-> h[j]] \in DockLists
         /\ \A i \in Docker!Ids, used \in BOOLEAN :
              [j \in DOMAIN h \union {i} |-> IF j = i THEN used ELSE h[j]] \in DockLists
<1>1. PICK S \in SUBSET Docker!Ids : h \in [S -> BOOLEAN]
  BY DEF DockLists
<1>2. \A T \in SUBSET Docker!Ids : \A f \in [T -> BOOLEAN] : f \in DockLists
  BY DEF DockLists
<1>3. ASSUME NEW i \in DOMAIN h
      PROVE  [h EXCEPT ![i] = ~@] \in DockLists /\ [j \in DOMAIN h \ {i} |-> h[j]] \in DockLists
  <2>1. [h EXCEPT ![i] = ~@] \in [S -> BOOLEAN] /\ [j \in DOMAIN h \ {i} |-> h[j]] \in [S \ {i} -> BOOLEAN]
    BY <1>1
  <2>2. S \ {i} \in SUBSET Docker!Ids
    OBVIOUS
  <2>3. QED
    BY <1>2, <2>1, <2>2
<1>4. ASSUME NEW i \in Docker!Ids, NEW used \in BOOLEAN
      PROVE  [j \in DOMAIN h \union {i} |-> IF j = i THEN used ELSE h[j]] \in DockLists
  <2>1. [j \in DOMAIN h \union {i} |-> IF j = i THEN used ELSE h[j]] \in [S \union {i} -> BOOLEAN]
    BY <1>1
  <2>2. S \union {i} \in SUBSET Docker!Ids
    OBVIOUS
  <2>3. QED
    BY <1>2, <2>1, <2>2
<1>5. QED
  BY <1>3, <1>4

\* Nothing changes but the dialogs, what is hidden and what is ticked, or one
\* more request is under way.
LEMMA DockQuietStep ==
  ASSUME DockIInv, UNCHANGED <<host, cache, showAll>>, deleting' \in Docker!Ids \union {None},
         \/ UNCHANGED <<removals, tasks>> \/ (UNCHANGED removals /\ tasks' = tasks + 1)
         \/ \E ids \in SUBSET Docker!Ids : Docker!StartRemoval(ids)
  PROVE  DockIInv'
<1> USE DEF DockIInv
<1>1. tasks' \in Nat
  BY DEF DockTypeOK, Docker!StartRemoval
<1>2. removals' \subseteq [n : Nat, todo : SUBSET Docker!Ids, some : BOOLEAN]
      /\ removals \subseteq removals'
  <2>1. CASE UNCHANGED removals
    BY <2>1 DEF DockTypeOK
  <2>2. ASSUME NEW ids \in SUBSET Docker!Ids, Docker!StartRemoval(ids)
        PROVE  /\ removals' \subseteq [n : Nat, todo : SUBSET Docker!Ids, some : BOOLEAN]
               /\ removals \subseteq removals'
    <3>1. removals' = removals \union {[n |-> tasks', todo |-> ids, some |-> FALSE]}
      BY <2>2 DEF Docker!StartRemoval
    <3>2. [n |-> tasks', todo |-> ids, some |-> FALSE] \in [n : Nat, todo : SUBSET Docker!Ids, some : BOOLEAN]
      BY <1>1
    <3>3. QED
      BY <3>1, <3>2 DEF DockTypeOK
  <2>3. QED
    BY <2>1, <2>2
<1>3. QED
  BY <1>1, <1>2 DEF DockTypeOK, DockListsInv, DockShownInv

LEMMA DockFormStep ==
  ASSUME DockIInv,
         \/ Docker!Search \/ Docker!OpenCreate \/ Docker!TypeDraft \/ Docker!CloseCreate \/ Docker!Submit
         \/ \E i \in Docker!Ids : Docker!AskDelete(i) \/ Docker!toggleSelect(i)
         \/ Docker!CancelDelete \/ Docker!ConfirmDelete \/ Docker!toggleAll \/ Docker!AskRemove
         \/ Docker!ConfirmRemove
  PROVE  DockIInv'
<1> USE DEF DockIInv, Docker!rest, Docker!forms
<1>1. deleting \in Docker!Ids \union {None}
  BY DEF DockTypeOK
<1>2. CASE Docker!Search \/ Docker!OpenCreate \/ Docker!TypeDraft \/ Docker!CloseCreate \/ Docker!Submit
  BY <1>1, <1>2, DockQuietStep
     DEF Docker!Search, Docker!OpenCreate, Docker!TypeDraft, Docker!CloseCreate, Docker!Submit
<1>3. ASSUME NEW i \in Docker!Ids, Docker!AskDelete(i) \/ Docker!toggleSelect(i) PROVE DockIInv'
  BY <1>1, <1>3, DockQuietStep DEF Docker!AskDelete, Docker!toggleSelect
<1>4. CASE Docker!CancelDelete \/ Docker!toggleAll \/ Docker!AskRemove
  BY <1>1, <1>4, DockQuietStep DEF Docker!CancelDelete, Docker!toggleAll, Docker!AskRemove
<1>5. CASE Docker!ConfirmDelete
  <2>1. {deleting} \in SUBSET Docker!Ids
    BY <1>1, <1>5 DEF Docker!ConfirmDelete
  <2>2. QED
    BY <1>1, <1>5, <2>1, DockQuietStep DEF Docker!ConfirmDelete
<1>6. CASE Docker!ConfirmRemove
  <2>1. Docker!deletableSelected \in SUBSET Docker!Ids
    <3>1. DOMAIN Docker!Shown \subseteq Docker!Ids
      BY DEF Docker!Shown, DockTypeOK, DockCells, DockLists
    <3>2. QED
      BY <3>1 DEF Docker!deletableSelected
  <2>2. QED
    BY <1>1, <1>6, <2>1, DockQuietStep DEF Docker!ConfirmRemove
<1>7. QED
  BY <1>2, <1>3, <1>4, <1>5, <1>6

\* Creations end, removals go on and end, and somebody else uses docker.
LEMMA DockRequestStep ==
  ASSUME DockIInv,
         \/ Docker!CreateSucceeds \/ Docker!CreateFails \/ Docker!SomebodyElse
         \/ \E r \in removals : Docker!RemoveNext(r) \/ Docker!RemovalSucceeds(r) \/ Docker!RemovalFails(r)
  PROVE  DockIInv'
<1> USE DEF DockIInv, Docker!forms
<1>1. host \in DockLists /\ tasks \in Nat
  BY DEF DockTypeOK
<1>2. \A i \in Docker!NewIds, used \in BOOLEAN : Docker!With(i, used) \in DockLists
  BY <1>1, DockChanged DEF Docker!With, Docker!NewIds
<1>3. \A h : Docker!Created(h) => h \in DockLists
  <2>1. (dockKind = "containers") \in BOOLEAN
    OBVIOUS
  <2>2. QED
    BY <1>1, <1>2, <2>1 DEF Docker!Created
<1>4. CASE Docker!CreateSucceeds
  <2>1. host' \in DockLists
    BY <1>3, <1>4 DEF Docker!CreateSucceeds
  <2>2. QED
    BY <1>1, <1>4, <2>1, DockHostStep DEF Docker!CreateSucceeds
<1>5. CASE Docker!CreateFails
  <2>1. host' \in DockLists /\ (UNCHANGED <<host, cache>> \/ cache' = Docker!Unheard)
    BY <1>1, <1>2, <1>3, <1>5 DEF Docker!CreateFails
  <2>2. QED
    BY <1>1, <1>5, <2>1, DockHostStep DEF Docker!CreateFails
<1>6. CASE Docker!SomebodyElse
  <2>1. host' \in DockLists
    BY <1>1, <1>6, DockChanged DEF Docker!SomebodyElse
  <2>2. QED
    BY <1>1, <1>6, <2>1, DockHostStep DEF Docker!SomebodyElse
<1>7. ASSUME NEW r \in removals, Docker!RemoveNext(r) PROVE DockIInv'
  <2>1. PICK i \in r.todo \intersect DOMAIN host :
          /\ host' = [j \in DOMAIN host \ {i} |-> host[j]]
          /\ removals' = (removals \ {r}) \union {[r EXCEPT !.todo = @ \ {i}, !.some = TRUE]}
    BY <1>7 DEF Docker!RemoveNext
  <2>2. UNCHANGED <<cache, showAll, deleting, tasks>>
    BY <1>7 DEF Docker!RemoveNext
  <2>3. r \in [n : Nat, todo : SUBSET Docker!Ids, some : BOOLEAN]
    BY DEF DockTypeOK
  <2> DEFINE q == [r EXCEPT !.todo = @ \ {i}, !.some = TRUE]
  <2>4. q \in [n : Nat, todo : SUBSET Docker!Ids, some : BOOLEAN] /\ q.some
    BY <2>3
  <2>5. DockTypeOK'
    BY <1>1, <2>1, <2>2, <2>4, DockChanged DEF DockTypeOK
  <2>6. DockListsInv' /\ DockShownInv'
    BY <2>1, <2>2, <2>4 DEF DockListsInv, DockShownInv
  <2>7. QED
    BY <2>5, <2>6
<1>8. ASSUME NEW r \in removals, Docker!RemovalSucceeds(r) PROVE DockIInv'
  BY <1>1, <1>8, DockHostStep DEF Docker!RemovalSucceeds
<1>9. ASSUME NEW r \in removals, Docker!RemovalFails(r) PROVE DockIInv'
  BY <1>1, <1>9, DockHostStep DEF Docker!RemovalFails
<1>10. QED
  BY <1>4, <1>5, <1>6, <1>7, <1>8, <1>9

LEMMA DockNextIInv ==
  ASSUME DockIInv, Docker!Next \/ UNCHANGED dockVars
  PROVE  DockIInv'
<1>1. CASE UNCHANGED dockVars
  BY <1>1 DEF dockVars, DockIInv, DockTypeOK, DockListsInv, DockShownInv
<1>2. CASE Docker!Next
  BY <1>2, DockListStep, DockFormStep, DockRequestStep
     DEF Docker!Next, Docker!Containers, Docker!Networks, Docker!Volumes, Docker!Images, Docker!ListPage,
         Docker!CreateContainerDialog, Docker!CreateNetworkDialog, Docker!CreateVolumeDialog
<1>3. QED
  BY <1>1, <1>2

\* DockerConverges: once every creation and removal of the page is answered and
\* no fetch is under way, the list on the screen (all containers or the running
\* ones, networks, volumes, images) is what the host has, unless something
\* changed that the page was not told of since the list was last fetched.
THEOREM DockerListsConverge == Spec => []DockerConverges
<1> DEFINE Inv == page = "docker" => DockIInv
<1>1. Init => Inv
  BY DockInitIInv DEF Init
<1>2. Inv /\ [Next]_vars => Inv'
  BY DockNextIInv, PageSteps
<1>3. DockIInv => Docker!DockerConverges
  BY DEF DockIInv, DockTypeOK, DockListsInv, DockShownInv, DockCellInv, Docker!DockerConverges
<1>4. Inv => DockerConverges
  BY <1>3 DEF DockerConverges
<1>5. QED
  BY <1>1, <1>2, <1>4, PTL DEF Spec

-----------------------------------------------------------------------------
(***************************************************************************)
(* The file browser.                                                       *)
(***************************************************************************)
FileTexts == {"text", "edited", "replaced", "torn", "binary"}
FileShown == FileTexts \ {"binary"}

FileTypeOK ==
  /\ disk \in [Browser!Files -> FileTexts \union {None}]
  /\ editor \in [path : Browser!Files, originalContent : FileShown, content : FileShown] \union {None}
  /\ loads \subseteq [path : Browser!Files, text : FileTexts \union {None}]
  /\ save \in [path : Browser!Files, content : FileShown] \union {None}
  /\ crossed \in BOOLEAN

\* What the editor takes for saved is in the file, and what is being saved is
\* what the editor holds.
FileOpenInv ==
  editor # None /\ ~crossed =>
    /\ disk[editor.path] # None /\ Browser!Decoded(disk[editor.path]) = editor.originalContent
    /\ save # None => save.path = editor.path /\ save.content = editor.content

FileIInv == FileTypeOK /\ FileOpenInv

LEMMA FileInitIInv == Browser!Init => FileIInv
BY DEF Browser!Init, FileIInv, FileTypeOK, FileOpenInv, FileTexts, Browser!Files

\* A text is read, changed, closed and sent.
LEMMA FileEditorStep ==
  ASSUME FileIInv,
         \/ \E l \in loads : Browser!ContentArrives(l)
         \/ Browser!Type \/ Browser!CloseEditor \/ Browser!handleSave
  PROVE  FileIInv'
<1> USE DEF FileIInv
<1>1. ASSUME NEW l \in loads, Browser!ContentArrives(l) PROVE FileIInv'
  <2>1. PICK text \in {l.text, disk[l.path]} \ {None} :
          /\ editor' = [path |-> l.path, originalContent |-> Browser!Decoded(text), content |-> Browser!Decoded(text)]
          /\ crossed' = (text # disk[l.path] \/ save # None \/ removing # {})
    BY <1>1 DEF Browser!ContentArrives
  <2>2. loads' \subseteq loads /\ UNCHANGED <<disk, save>>
    BY <1>1 DEF Browser!ContentArrives, Browser!files
  <2>3. l.path \in Browser!Files /\ text \in FileTexts /\ Browser!Decoded(text) \in FileShown
    BY <2>1 DEF FileTypeOK, FileTexts, FileShown, Browser!Decoded
  <2>4. editor' \in [path : Browser!Files, originalContent : FileShown, content : FileShown]
        /\ editor'.path = l.path /\ editor'.originalContent = Browser!Decoded(text)
    BY <2>1, <2>3
  <2>5. crossed' \in BOOLEAN /\ (~crossed' => text = disk[l.path] /\ save = None)
    BY <2>1
  <2>6. FileTypeOK'
    BY <2>2, <2>4, <2>5 DEF FileTypeOK
  <2>7. FileOpenInv'
    BY <2>1, <2>2, <2>4, <2>5 DEF FileOpenInv, Browser!Decoded
  <2>8. QED
    BY <2>6, <2>7
<1>2. CASE Browser!Type
  <2>1. PICK text \in {"text", "edited"} : editor' = [editor EXCEPT !.content = text]
    BY <1>2 DEF Browser!Type
  <2>2. editor # None /\ crossed' = (crossed \/ save # None) /\ UNCHANGED <<disk, loads, save>>
    BY <1>2 DEF Browser!Type, Browser!files
  <2>3. crossed' \in BOOLEAN /\ (~crossed' => ~crossed /\ save = None)
    BY <2>2 DEF FileTypeOK
  <2>4. editor' \in [path : Browser!Files, originalContent : FileShown, content : FileShown]
        /\ editor'.path = editor.path /\ editor'.originalContent = editor.originalContent
    BY <2>1, <2>2 DEF FileTypeOK, FileShown, FileTexts
  <2>5. FileTypeOK'
    BY <2>2, <2>3, <2>4 DEF FileTypeOK
  <2>6. FileOpenInv'
    BY <2>2, <2>3, <2>4 DEF FileOpenInv, Browser!Decoded
  <2>7. QED
    BY <2>5, <2>6
<1>3. CASE Browser!CloseEditor
  BY <1>3 DEF Browser!CloseEditor, Browser!files, FileTypeOK, FileOpenInv
<1>4. CASE Browser!handleSave
  <2>1. editor # None /\ save' = [path |-> editor.path, content |-> editor.content]
        /\ UNCHANGED <<disk, editor, loads, crossed>>
    BY <1>4 DEF Browser!handleSave, Browser!isDirty, Browser!files
  <2>2. FileTypeOK' /\ save'.path = editor.path /\ save'.content = editor.content
    BY <2>1 DEF FileTypeOK
  <2>3. FileOpenInv'
    BY <2>1, <2>2 DEF FileOpenInv, Browser!Decoded
  <2>4. QED
    BY <2>2, <2>3
<1>5. QED
  BY <1>1, <1>2, <1>3, <1>4

\* The server writes the file, or does not, or not all of it.
LEMMA FileSaveStep ==
  ASSUME FileIInv, Browser!SaveSucceeds \/ Browser!SaveFails
  PROVE  FileIInv'
<1> USE DEF FileIInv
<1>1. save # None /\ save \in [path : Browser!Files, content : FileShown] /\ save' = None /\ UNCHANGED loads
  BY DEF Browser!SaveSucceeds, Browser!SaveFails, FileTypeOK
<1>2. CASE Browser!SaveSucceeds
  <2>1. disk' = [disk EXCEPT ![save.path] = save.content] /\ UNCHANGED crossed
    BY <1>2 DEF Browser!SaveSucceeds
  <2>2. \/ editor = None /\ editor' = None
        \/ editor # None /\ editor' = [editor EXCEPT !.originalContent = editor.content]
    BY <1>2 DEF Browser!SaveSucceeds, Browser!MarkSaved
  <2>3. disk' \in [Browser!Files -> FileTexts \union {None}] /\ disk'[save.path] = save.content
        /\ save.content # None /\ Browser!Decoded(save.content) = save.content
    BY <1>1, <2>1, FilesAssumption DEF FileTypeOK, FileShown, FileTexts, Browser!Decoded
  <2>4. CASE editor = None
    BY <1>1, <2>1, <2>2, <2>3, <2>4 DEF FileTypeOK, FileOpenInv
  <2>5. CASE editor # None
    <3>1. editor' \in [path : Browser!Files, originalContent : FileShown, content : FileShown]
          /\ editor'.path = editor.path /\ editor'.originalContent = editor.content
      BY <2>2, <2>5 DEF FileTypeOK
    <3>2. ~crossed => save.path = editor.path /\ save.content = editor.content
      BY <1>1, <2>5 DEF FileOpenInv
    <3>3. FileTypeOK'
      BY <1>1, <2>1, <2>3, <3>1 DEF FileTypeOK
    <3>4. FileOpenInv'
      BY <1>1, <2>1, <2>3, <3>1, <3>2 DEF FileOpenInv, Browser!Decoded
    <3>5. QED
      BY <3>3, <3>4
  <2>6. QED
    BY <2>4, <2>5
<1>3. CASE Browser!SaveFails
  <2>1. UNCHANGED editor
    BY <1>3 DEF Browser!SaveFails
  <2>2. CASE UNCHANGED <<disk, crossed>>
    BY <1>1, <2>1, <2>2 DEF FileTypeOK, FileOpenInv, Browser!Decoded
  <2>3. CASE crossed' = TRUE /\ \E text \in {save.content, "torn"} : disk' = [disk EXCEPT ![save.path] = text]
    BY <1>1, <2>1, <2>3 DEF FileTypeOK, FileOpenInv, FileShown, FileTexts
  <2>4. QED
    BY <1>3, <2>2, <2>3 DEF Browser!SaveFails
<1>4. QED
  BY <1>2, <1>3

\* A file goes, and with it the editor, or the promise.
LEMMA FileDeleteStep ==
  ASSUME FileIInv, NEW r, Browser!DeleteSucceeds(r) \/ Browser!DeleteFails(r)
  PROVE  FileIInv'
<1> USE DEF FileIInv
<1>1. UNCHANGED <<loads, save>>
  BY DEF Browser!DeleteSucceeds, Browser!DeleteFails
<1>2. ASSUME Browser!Gone(r.entry)
      PROVE  /\ disk' \in [Browser!Files -> FileTexts \union {None}]
             /\ editor # None /\ ~Browser!Loses(r.entry) => disk'[editor.path] = disk[editor.path]
  BY <1>2 DEF Browser!Gone, Browser!Loses, FileTypeOK
<1>3. CASE Browser!DeleteSucceeds(r)
  <2>1. /\ Browser!Gone(r.entry) /\ editor' \in {editor, None} /\ (r.open => editor' = None)
        /\ crossed' = (crossed \/ (~r.open /\ Browser!Loses(r.entry)))
    BY <1>3 DEF Browser!DeleteSucceeds, Browser!CloseDeleted
  <2>2. crossed' \in BOOLEAN /\ (~crossed' => ~crossed /\ (r.open \/ ~Browser!Loses(r.entry)))
    BY <2>1 DEF FileTypeOK
  <2>3. FileTypeOK'
    BY <1>1, <1>2, <2>1, <2>2 DEF FileTypeOK
  <2>4. FileOpenInv'
    BY <1>1, <1>2, <2>1, <2>2 DEF FileOpenInv, Browser!Decoded
  <2>5. QED
    BY <2>3, <2>4
<1>4. CASE Browser!DeleteFails(r)
  <2>1. UNCHANGED editor
    BY <1>4 DEF Browser!DeleteFails
  <2>2. CASE UNCHANGED <<disk, crossed>>
    BY <1>1, <2>1, <2>2 DEF FileTypeOK, FileOpenInv, Browser!Decoded
  <2>3. CASE Browser!Gone(r.entry) /\ crossed' = (crossed \/ Browser!Loses(r.entry))
    <3>1. crossed' \in BOOLEAN /\ (~crossed' => ~crossed /\ ~Browser!Loses(r.entry))
      BY <2>3 DEF FileTypeOK
    <3>2. FileTypeOK'
      BY <1>1, <1>2, <2>1, <2>3, <3>1 DEF FileTypeOK
    <3>3. FileOpenInv'
      BY <1>1, <1>2, <2>1, <2>3, <3>1 DEF FileOpenInv, Browser!Decoded
    <3>4. QED
      BY <3>2, <3>3
  <2>4. QED
    BY <1>4, <2>2, <2>3 DEF Browser!DeleteFails, Browser!files
<1>5. QED
  BY <1>3, <1>4

\* Every step of the page and the server keeps the invariant.
LEMMA FileNextIInv == FileIInv /\ (Browser!Next \/ UNCHANGED fileVars) => FileIInv'
<1> SUFFICES ASSUME FileIInv, Browser!Next \/ UNCHANGED fileVars PROVE FileIInv'
  OBVIOUS
<1>1. ASSUME NEW d, NEW e, NEW l,
             \/ Browser!SetPath \/ Browser!RowsArrive(d) \/ Browser!AskDelete(e)
             \/ Browser!CancelDelete \/ Browser!handleDelete \/ Browser!ContentFails(l) \/ UNCHANGED fileVars
      PROVE  FileIInv'
  <2>1. UNCHANGED <<disk, editor, save, crossed>> /\ loads' \subseteq loads
    BY <1>1 DEF Browser!SetPath, Browser!RowsArrive, Browser!AskDelete, Browser!CancelDelete, Browser!handleDelete,
       Browser!ContentFails, Browser!files, fileVars
  <2>2. QED
    BY <2>1 DEF FileIInv, FileTypeOK, FileOpenInv, Browser!Decoded
<1>2. ASSUME NEW f \in Browser!Files, Browser!openEditor(f) PROVE FileIInv'
  <2>1. loads' = loads \union {[path |-> f, text |-> disk[f]]} /\ UNCHANGED <<disk, editor, save, crossed>>
    BY <1>2 DEF Browser!openEditor, Browser!files
  <2>2. [path |-> f, text |-> disk[f]] \in [path : Browser!Files, text : FileTexts \union {None}]
    BY DEF FileIInv, FileTypeOK
  <2>3. QED
    BY <2>1, <2>2 DEF FileIInv, FileTypeOK, FileOpenInv, Browser!Decoded
<1>3. QED
  BY <1>1, <1>2, FileEditorStep, FileSaveStep, FileDeleteStep
     DEF Browser!Next, Browser!Listing, Browser!EditorPanel, Browser!DeleteDialog

\* UnsavedMarked: a text that is not marked "Unsaved" is the one in the file,
\* however reads, saves and deletions overlapped (openEditor, handleSave,
\* handleDelete), but for what was typed during a save and what a failed
\* request did.
THEOREM UnsavedIsMarked == Spec => []UnsavedMarked
<1> DEFINE Inv == page = "files" => FileIInv
<1>1. Init => Inv
  BY FileInitIInv DEF Init
<1>2. Inv /\ [Next]_vars => Inv'
  BY FileNextIInv, PageSteps
<1>3. FileIInv => Browser!UnsavedMarked
  BY DEF FileIInv, FileOpenInv, Browser!UnsavedMarked, Browser!isDirty, Browser!Decoded
<1>4. Inv => UnsavedMarked
  BY <1>3 DEF UnsavedMarked
<1>5. QED
  BY <1>1, <1>2, <1>4, PTL DEF Spec

-----------------------------------------------------------------------------
(***************************************************************************)
(* The crontabs.                                                           *)
(***************************************************************************)
CronCopy == [ver : Nat, jobs : SUBSET Jobs]
CronBase == [user : CronUsers \union {None}, ver : Nat]
CronSave == [user : CronUsers, mode : Cron!Modes, jobs : SUBSET Jobs, base : CronBase, gone : SUBSET Jobs,
             kept : BOOLEAN]

CronDataOK ==
  /\ crontab \in [CronUsers -> CronCopy]
  /\ cronCache \in [CronUsers -> CronCopy \union {None}]
  /\ cronFetch \in [CronUsers -> CronCopy \union {None}]
  /\ loadFailed \subseteq CronUsers
  /\ selectedUser \in CronUsers \union {None}

CronEditorOK ==
  /\ viewMode \in Cron!Modes
  /\ view \in [Cron!Modes -> SUBSET Jobs]
  /\ gone \in [Cron!Modes -> SUBSET Jobs]
  /\ dirty \in BOOLEAN
  /\ base \in [Cron!Modes -> CronBase]
  /\ saving \in CronSave \union {None}

\* copy is what the crontab now is, or once was.
CronCopyOf(copy, now) == copy # None => copy.ver <= now.ver /\ (copy.ver = now.ver => copy.jobs = now.jobs)

\* No job of the crontab that was loaded as b is missing from jobs, unless it
\* has been written since.
CronHolds(b, jobs, tabs) ==
  b.user # None =>
    /\ b.ver <= tabs[b.user].ver
    /\ b.ver = tabs[b.user].ver => tabs[b.user].jobs \subseteq jobs

CronCopiesInv ==
  \A u \in CronUsers : CronCopyOf(cronCache[u], crontab[u]) /\ CronCopyOf(cronFetch[u], crontab[u])

CronViewInv == \A m \in Cron!Modes : CronHolds(base[m], view[m] \union gone[m], crontab)

CronSaveInv ==
  saving # None =>
    /\ CronHolds(saving.base, saving.jobs \union saving.gone, crontab)
    /\ saving.kept => base[saving.mode] = saving.base /\ saving.jobs \subseteq view[saving.mode] \union gone[saving.mode]
    /\ saving.base.user = saving.user \/ saving.user \in loadFailed

\* Both editors hold the crontab of the selected user, unless it could not be
\* loaded or its first load is still under way, in which nothing can be edited.
CronSelectedInv ==
  /\ selectedUser = None => ~dirty /\ \A u \in CronUsers : cronCache[u] = None /\ cronFetch[u] = None
  /\ selectedUser # None =>
       \/ \A m \in Cron!Modes : base[m].user = selectedUser
       \/ selectedUser \in loadFailed
       \/ cronCache[selectedUser] = None /\ cronFetch[selectedUser] # None /\ ~dirty

CronIInv == CronDataOK /\ CronEditorOK /\ CronCopiesInv /\ CronViewInv /\ CronSaveInv /\ CronSelectedInv

LEMMA CronInitIInv == Cron!Init => CronIInv
<1> SUFFICES ASSUME Cron!Init PROVE CronIInv
  OBVIOUS
<1> USE CronAssumption
<1>1. CronDataOK
  BY DEF Cron!Init, CronDataOK, CronCopy
<1>2. CronEditorOK
  BY DEF Cron!Init, CronEditorOK, Cron!Modes, CronBase
<1>3. CronCopiesInv /\ CronSaveInv /\ CronSelectedInv
  BY DEF Cron!Init, CronCopiesInv, CronCopyOf, CronSaveInv, CronSelectedInv
<1>4. CronViewInv
  BY DEF Cron!Init, CronViewInv, CronHolds, Cron!Modes
<1>5. QED
  BY <1>1, <1>2, <1>3, <1>4 DEF CronIInv

\* A crontab is a copy of itself.
LEMMA CronAsked ==
  ASSUME CronIInv, NEW u \in CronUsers, Cron!Ask(u) \/ UNCHANGED cronFetch
  PROVE  /\ cronFetch' \in [CronUsers -> CronCopy \union {None}]
         /\ \A v \in CronUsers : CronCopyOf(cronFetch'[v], crontab[v])
         /\ \A v \in CronUsers : cronFetch[v] # None => cronFetch'[v] # None
         /\ Cron!Ask(u) => cronFetch'[u] # None
         /\ \A v \in CronUsers : v # u => cronFetch'[v] = cronFetch[v]
<1> USE DEF CronIInv, CronDataOK
<1>1. CASE UNCHANGED cronFetch /\ ~Cron!Ask(u)
  BY <1>1 DEF CronCopiesInv
<1>2. CASE Cron!Ask(u)
  <2>1. cronFetch' = [cronFetch EXCEPT ![u] = crontab[u]]
    BY <1>2 DEF Cron!Ask
  <2>2. crontab[u] \in CronCopy /\ crontab[u] # None
    BY CronAssumption DEF CronCopy
  <2>3. CronCopyOf(crontab[u], crontab[u])
    BY <2>2 DEF CronCopyOf, CronCopy
  <2>4. QED
    BY <2>1, <2>2, <2>3 DEF CronCopiesInv
<1>3. QED
  BY <1>1, <1>2

\* A copy is shown.
LEMMA CronShown ==
  ASSUME CronIInv, NEW u \in CronUsers, NEW copy \in CronCopy, CronCopyOf(copy, crontab[u]),
         Cron!ShowCrontab(u, copy), UNCHANGED <<crontab, loadFailed, viewMode>>
  PROVE  /\ CronEditorOK' /\ CronViewInv' /\ CronSaveInv' /\ ~dirty'
         /\ \A m \in Cron!Modes : base'[m].user = u
<1> USE CronAssumption DEF CronIInv, Cron!ShowCrontab
<1> DEFINE now == [user |-> u, ver |-> copy.ver]
<1>1. /\ view' = [m \in Cron!Modes |-> copy.jobs] /\ base' = [m \in Cron!Modes |-> now]
      /\ gone' = [m \in Cron!Modes |-> {}] /\ dirty' = FALSE
  OBVIOUS
<1>2. now \in CronBase /\ now.user = u /\ now.ver = copy.ver /\ copy # None
  BY DEF CronBase, CronCopy
<1>3. saving # None =>
        /\ saving' \in CronSave /\ ~saving'.kept /\ saving'.base = saving.base /\ saving'.jobs = saving.jobs
        /\ saving'.gone = saving.gone /\ saving'.user = saving.user
  BY DEF Cron!Overtaken, CronEditorOK, CronSave
<1>4. saving = None => saving' = None
  BY DEF Cron!Overtaken
<1>5. CronEditorOK'
  BY <1>1, <1>2, <1>3, <1>4 DEF CronEditorOK, CronCopy
<1>6. CronHolds(now, copy.jobs \union {}, crontab)
  BY <1>2 DEF CronHolds, CronCopyOf
<1>7. CronViewInv'
  BY <1>1, <1>6 DEF CronViewInv
<1>8. CronSaveInv'
  BY <1>3, <1>4 DEF CronSaveInv
<1>9. QED
  BY <1>1, <1>2, <1>5, <1>7, <1>8

\* The list of users, the menu, and the window's focus.
LEMMA CronSelect ==
  ASSUME CronIInv, Cron!LoadUsers \/ Cron!Focus \/ \E u \in CronUsers : Cron!SelectUser(u)
  PROVE  CronIInv'
<1> USE CronAssumption DEF CronIInv
<1>1. CASE Cron!LoadUsers
  <2>1. PICK u \in CronUsers : selectedUser' = u /\ Cron!Ask(u)
    BY <1>1 DEF Cron!LoadUsers
  <2>2. selectedUser = None
        /\ UNCHANGED <<crontab, loadFailed, cronCache, viewMode, view, dirty, base, gone, edits, saving>>
    BY <1>1 DEF Cron!LoadUsers, Cron!server, Cron!editor
  <2>3. CronDataOK' /\ CronCopiesInv'
    BY <2>1, <2>2, CronAsked DEF CronDataOK, CronCopiesInv
  <2>4. CronEditorOK' /\ CronViewInv' /\ CronSaveInv'
    BY <2>2 DEF CronEditorOK, CronViewInv, CronSaveInv
  <2>5. CronSelectedInv'
    BY <2>1, <2>2, CronAsked DEF CronSelectedInv
  <2>6. QED
    BY <2>3, <2>4, <2>5
<1>2. CASE Cron!Focus
  <2>1. selectedUser \in CronUsers /\ Cron!Ask(selectedUser) /\ selectedUser' = selectedUser
        /\ UNCHANGED <<crontab, loadFailed, cronCache, viewMode, view, dirty, base, gone, edits, saving>>
    BY <1>2 DEF Cron!Focus, Cron!server, Cron!editor, CronDataOK
  <2>2. CronDataOK' /\ CronCopiesInv'
    BY <2>1, CronAsked DEF CronDataOK, CronCopiesInv
  <2>3. CronEditorOK' /\ CronViewInv' /\ CronSaveInv'
    BY <2>1 DEF CronEditorOK, CronViewInv, CronSaveInv
  <2>4. CronSelectedInv'
    BY <2>1, CronAsked DEF CronSelectedInv
  <2>5. QED
    BY <2>2, <2>3, <2>4
<1>3. ASSUME NEW u \in CronUsers, Cron!SelectUser(u) PROVE CronIInv'
  <2>1. /\ selectedUser # None /\ selectedUser' = u /\ (Cron!Ask(u) \/ UNCHANGED cronFetch)
        /\ UNCHANGED <<crontab, loadFailed, cronCache>>
        /\ cronCache[u] # None \/ cronFetch[u] # None \/ Cron!Ask(u)
    BY <1>3 DEF Cron!SelectUser, Cron!server
  <2>2. CronDataOK' /\ CronCopiesInv'
    BY <2>1, CronAsked DEF CronDataOK, CronCopiesInv
  <2>3. CASE u # selectedUser /\ cronCache[u] # None
    <3>1. Cron!ShowCrontab(u, cronCache[u]) /\ UNCHANGED viewMode
      BY <1>3, <2>3 DEF Cron!SelectUser
    <3>2. cronCache[u] \in CronCopy /\ CronCopyOf(cronCache[u], crontab[u])
      BY <2>3 DEF CronDataOK, CronCopiesInv
    <3>3. CronEditorOK' /\ CronViewInv' /\ CronSaveInv' /\ \A m \in Cron!Modes : base'[m].user = u
      BY <2>1, <3>1, <3>2, CronShown
    <3>4. QED
      BY <2>1, <2>2, <3>3 DEF CronSelectedInv
  <2>4. CASE ~(u # selectedUser /\ cronCache[u] # None)
    <3>1. dirty' = FALSE /\ UNCHANGED <<viewMode, view, base, gone, edits, saving>>
      BY <1>3, <2>4 DEF Cron!SelectUser
    <3>2. CronEditorOK' /\ CronViewInv' /\ CronSaveInv'
      BY <2>1, <3>1 DEF CronEditorOK, CronViewInv, CronSaveInv
    <3>3. CASE u = selectedUser
      BY <2>1, <2>2, <3>1, <3>2, <3>3, CronAsked DEF CronSelectedInv
    <3>4. CASE cronCache[u] = None
      <4>1. cronFetch'[u] # None
        BY <2>1, <3>4, CronAsked
      <4>2. QED
        BY <2>1, <2>2, <3>1, <3>2, <3>4, <4>1 DEF CronSelectedInv
    <3>5. QED
      BY <2>4, <3>3, <3>4
  <2>5. QED
    BY <2>3, <2>4
<1>4. QED
  BY <1>1, <1>2, <1>3

\* A fetch is answered, or fails.
LEMMA CronAnswer ==
  ASSUME CronIInv, NEW u \in CronUsers, Cron!CrontabArrives(u) \/ Cron!CrontabFails(u)
  PROVE  CronIInv'
<1> USE CronAssumption DEF CronIInv
<1> DEFINE copy == cronFetch[u]
<1>1. copy # None /\ cronFetch' = [cronFetch EXCEPT ![u] = None] /\ UNCHANGED <<crontab, selectedUser>>
  BY DEF Cron!CrontabArrives, Cron!CrontabFails, Cron!server
<1>2. copy \in CronCopy /\ CronCopyOf(copy, crontab[u]) /\ selectedUser # None
  BY <1>1 DEF CronDataOK, CronCopiesInv, CronSelectedInv
<1>3. /\ cronFetch' \in [CronUsers -> CronCopy \union {None}]
      /\ \A v \in CronUsers : CronCopyOf(cronFetch'[v], crontab[v])
      /\ \A v \in CronUsers : v # u => cronFetch'[v] = cronFetch[v]
  BY <1>1 DEF CronDataOK, CronCopiesInv, CronCopyOf
<1>4. CASE Cron!CrontabArrives(u)
  <2>1. cronCache' = [cronCache EXCEPT ![u] = copy] /\ UNCHANGED loadFailed
    BY <1>4 DEF Cron!CrontabArrives, Cron!server
  <2>2. CronDataOK' /\ CronCopiesInv'
    BY <1>1, <1>2, <1>3, <2>1 DEF CronDataOK, CronCopiesInv
  <2>3. CASE u = selectedUser /\ Cron!ShowCrontab(u, copy) /\ UNCHANGED viewMode
    <3>1. CronEditorOK' /\ CronViewInv' /\ CronSaveInv' /\ \A m \in Cron!Modes : base'[m].user = u
      BY <1>1, <1>2, <2>1, <2>3, CronShown
    <3>2. QED
      BY <1>1, <1>2, <2>2, <2>3, <3>1 DEF CronSelectedInv
  <2>4. CASE /\ u = selectedUser => cronCache[u] # None
             /\ UNCHANGED <<viewMode, view, dirty, base, gone, edits, saving>>
    <3>1. CronEditorOK' /\ CronViewInv' /\ CronSaveInv'
      BY <1>1, <2>1, <2>4 DEF CronEditorOK, CronViewInv, CronSaveInv
    <3>2. selectedUser \in CronUsers
      BY <1>2 DEF CronDataOK
    <3>3. selectedUser # u => cronCache'[selectedUser] = cronCache[selectedUser]
                              /\ cronFetch'[selectedUser] = cronFetch[selectedUser]
      BY <1>3, <2>1, <3>2 DEF CronDataOK
    <3>4. CronSelectedInv'
      BY <1>1, <1>2, <2>1, <2>4, <3>3 DEF CronSelectedInv
    <3>5. QED
      BY <2>2, <3>1, <3>4
  <2>5. QED
    BY <1>4, <2>3, <2>4 DEF Cron!CrontabArrives, Cron!editor
<1>5. CASE Cron!CrontabFails(u)
  <2>1. /\ loadFailed' = IF cronCache[u] = None THEN loadFailed \union {u} ELSE loadFailed
        /\ UNCHANGED <<cronCache, viewMode, view, dirty, base, gone, edits, saving>>
    BY <1>5 DEF Cron!CrontabFails, Cron!editor
  <2>2. CronDataOK' /\ CronCopiesInv'
    BY <1>1, <1>3, <2>1 DEF CronDataOK, CronCopiesInv
  <2>3. loadFailed \subseteq loadFailed'
    BY <2>1
  <2>4. CronEditorOK' /\ CronViewInv' /\ CronSaveInv'
    BY <1>1, <2>1, <2>3 DEF CronEditorOK, CronViewInv, CronSaveInv
  <2>5. selectedUser \in CronUsers
    BY <1>2 DEF CronDataOK
  <2>6. CronSelectedInv'
    BY <1>1, <1>2, <1>3, <2>1, <2>3, <2>5 DEF CronSelectedInv
  <2>7. QED
    BY <2>2, <2>4, <2>6
<1>6. QED
  BY <1>4, <1>5

\* What an editor holds is replaced by jobs.
LEMMA CronSetView ==
  ASSUME CronIInv, NEW mode \in Cron!Modes, NEW jobs \in SUBSET Jobs, Cron!Editing(mode), Cron!SetView(mode, jobs)
  PROVE  CronIInv'
<1> USE DEF CronIInv
<1>1. /\ view' = [view EXCEPT ![mode] = jobs]
      /\ gone' = [gone EXCEPT ![mode] = (gone[mode] \union view[mode]) \ jobs]
      /\ dirty' = TRUE
      /\ UNCHANGED <<crontab, loadFailed, cronCache, cronFetch, selectedUser, viewMode, saving, base>>
  BY DEF Cron!SetView, Cron!server, CronEditorOK
<1>2. selectedUser # None /\ ~(cronCache[selectedUser] = None /\ cronFetch[selectedUser] # None)
  BY DEF Cron!Editing, Cron!isLoading
<1>3. CronDataOK' /\ CronCopiesInv'
  BY <1>1 DEF CronDataOK, CronCopiesInv
<1>4. view' \in [Cron!Modes -> SUBSET Jobs] /\ gone' \in [Cron!Modes -> SUBSET Jobs]
      /\ \A m \in Cron!Modes : view[m] \union gone[m] \subseteq view'[m] \union gone'[m]
  BY <1>1 DEF CronEditorOK
<1>5. CronEditorOK'
  BY <1>1, <1>4 DEF CronEditorOK
<1>6. CronViewInv'
  BY <1>1, <1>4 DEF CronViewInv, CronHolds
<1>7. CronSaveInv'
  <2>1. saving # None => saving.mode \in Cron!Modes
    BY DEF CronEditorOK, CronSave
  <2>2. saving' = saving /\ base' = base /\ crontab' = crontab /\ loadFailed' = loadFailed
    BY <1>1
  <2>3. QED
    BY <1>4, <2>1, <2>2 DEF CronSaveInv
<1>8. CronSelectedInv'
  BY <1>1, <1>2 DEF CronSelectedInv
<1>9. QED
  BY <1>3, <1>5, <1>6, <1>7, <1>8

\* The rows, the text and the choice between them.
LEMMA CronEdit ==
  ASSUME CronIInv,
         \/ \E j \in Jobs : Cron!CronJobRow(j) \/ Cron!AddEntry(j)
         \/ \E j \in Jobs : Cron!TypeRaw(view["raw"] \union {j}) \/ Cron!TypeRaw(view["raw"] \ {j})
         \/ \E m \in Cron!Modes : Cron!SetViewMode(m)
  PROVE  CronIInv'
<1> USE DEF CronIInv
<1>1. "visual" \in Cron!Modes /\ "raw" \in Cron!Modes
  BY DEF Cron!Modes
<1>2. view["visual"] \in SUBSET Jobs /\ view["raw"] \in SUBSET Jobs
  BY <1>1 DEF CronEditorOK
<1>3. ASSUME NEW j \in Jobs, Cron!CronJobRow(j) PROVE CronIInv'
  <2>1. CASE Cron!handleToggle(j)
    BY <1>1, <1>2, <2>1, CronSetView DEF Cron!handleToggle
  <2>2. CASE Cron!handleDelete(j)
    <3>1. view["visual"] \ {j} \in SUBSET Jobs
      BY <1>2
    <3>2. QED
      BY <1>1, <2>2, <3>1, CronSetView DEF Cron!handleDelete
  <2>3. ASSUME NEW k \in Jobs, Cron!handleEntryDialogSave(j, k) PROVE CronIInv'
    <3>1. (IF j \in view["visual"] THEN (view["visual"] \ {j}) \union {k} ELSE view["visual"]) \in SUBSET Jobs
      BY <1>2
    <3>2. QED
      BY <1>1, <2>3, <3>1, CronSetView DEF Cron!handleEntryDialogSave
  <2>4. QED
    BY <1>3, <2>1, <2>2, <2>3 DEF Cron!CronJobRow
<1>4. ASSUME NEW j \in Jobs, Cron!AddEntry(j) PROVE CronIInv'
  <2>1. view["visual"] \union {j} \in SUBSET Jobs
    BY <1>2
  <2>2. QED
    BY <1>1, <1>4, <2>1, CronSetView DEF Cron!AddEntry
<1>5. ASSUME NEW j \in Jobs, Cron!TypeRaw(view["raw"] \union {j}) \/ Cron!TypeRaw(view["raw"] \ {j}) PROVE CronIInv'
  <2>1. view["raw"] \union {j} \in SUBSET Jobs /\ view["raw"] \ {j} \in SUBSET Jobs
    BY <1>2
  <2>2. QED
    BY <1>1, <1>5, <2>1, CronSetView DEF Cron!TypeRaw
<1>6. ASSUME NEW m \in Cron!Modes, Cron!SetViewMode(m) PROVE CronIInv'
  <2>1. viewMode' = m /\ UNCHANGED <<crontab, loadFailed, cronCache, cronFetch, selectedUser, view, dirty, saving, base, gone>>
    BY <1>6 DEF Cron!SetViewMode, Cron!server
  <2>2. CronDataOK' /\ CronCopiesInv' /\ CronEditorOK' /\ CronViewInv'
    BY <2>1 DEF CronDataOK, CronCopiesInv, CronEditorOK, CronViewInv
  <2>3. CronSaveInv' /\ CronSelectedInv'
    BY <2>1 DEF CronSaveInv, CronSelectedInv
  <2>4. QED
    BY <2>2, <2>3
<1>7. QED
  BY <1>3, <1>4, <1>5, <1>6

\* A crontab is replaced: what was loaded before is of an older version.
LEMMA CronWritten ==
  ASSUME CronIInv, NEW u \in CronUsers, NEW jobs \in SUBSET Jobs, Cron!WriteCrontab(u, jobs)
  PROVE  /\ crontab' \in [CronUsers -> CronCopy]
         /\ crontab'[u] = [ver |-> crontab[u].ver + 1, jobs |-> jobs]
         /\ \A copy \in CronCopy \union {None}, v \in CronUsers :
              CronCopyOf(copy, crontab[v]) => CronCopyOf(copy, crontab'[v])
         /\ \A b \in CronBase, S \in SUBSET Jobs : CronHolds(b, S, crontab) => CronHolds(b, S, crontab')
<1> USE DEF CronIInv, CronDataOK
<1>1. crontab' = [crontab EXCEPT ![u] = [ver |-> crontab[u].ver + 1, jobs |-> jobs]]
  BY DEF Cron!WriteCrontab
<1>2. \A v \in CronUsers : crontab[v] \in CronCopy /\ crontab[v].ver \in Nat
  BY DEF CronCopy
<1>3. [ver |-> crontab[u].ver + 1, jobs |-> jobs] \in CronCopy
  BY <1>2 DEF CronCopy
<1>4. crontab' \in [CronUsers -> CronCopy] /\ crontab'[u] = [ver |-> crontab[u].ver + 1, jobs |-> jobs]
  BY <1>1, <1>3
<1>5. \A v \in CronUsers : v # u => crontab'[v] = crontab[v]
  BY <1>1
<1>6. crontab'[u].ver = crontab[u].ver + 1
  BY <1>4
<1>7. ASSUME NEW copy \in CronCopy \union {None}, NEW v \in CronUsers, CronCopyOf(copy, crontab[v])
      PROVE  CronCopyOf(copy, crontab'[v])
  BY <1>2, <1>5, <1>6, <1>7 DEF CronCopyOf, CronCopy
<1>8. ASSUME NEW b \in CronBase, NEW S \in SUBSET Jobs, CronHolds(b, S, crontab)
      PROVE  CronHolds(b, S, crontab')
  <2>1. b.ver \in Nat /\ b.user \in CronUsers \union {None}
    BY DEF CronBase
  <2>2. QED
    BY <1>2, <1>5, <1>6, <1>8, <2>1 DEF CronHolds
<1>9. QED
  BY <1>4, <1>7, <1>8

\* The other views and copies stay sound under a write.
LEMMA CronKept ==
  ASSUME CronIInv, UNCHANGED crontab \/ \E u \in CronUsers, jobs \in SUBSET Jobs : Cron!WriteCrontab(u, jobs),
         UNCHANGED <<loadFailed, cronCache, cronFetch, selectedUser>>
  PROVE  /\ CronDataOK' /\ CronCopiesInv'
         /\ \A b \in CronBase, S \in SUBSET Jobs : CronHolds(b, S, crontab) => CronHolds(b, S, crontab')
<1> USE DEF CronIInv
<1>1. CASE UNCHANGED crontab
  BY <1>1 DEF CronDataOK, CronCopiesInv
<1>2. ASSUME NEW u \in CronUsers, NEW jobs \in SUBSET Jobs, Cron!WriteCrontab(u, jobs)
      PROVE  /\ CronDataOK' /\ CronCopiesInv'
             /\ \A b \in CronBase, S \in SUBSET Jobs : CronHolds(b, S, crontab) => CronHolds(b, S, crontab')
  <2>1. CronDataOK'
    BY <1>2, CronWritten DEF CronDataOK
  <2>2. \A v \in CronUsers : cronCache[v] \in CronCopy \union {None} /\ cronFetch[v] \in CronCopy \union {None}
    BY DEF CronDataOK
  <2>3. CronCopiesInv'
    BY <1>2, <2>2, CronWritten DEF CronCopiesInv
  <2>4. QED
    BY <1>2, <2>1, <2>3, CronWritten
<1>3. QED
  BY <1>1, <1>2

\* Save, its two ends, and the other editors.
LEMMA CronSaveStep ==
  ASSUME CronIInv,
         \/ Cron!handleSave \/ Cron!SaveSucceeds \/ Cron!SaveFails
         \/ \E u \in CronUsers, jobs \in SUBSET Jobs : Cron!OtherEditor(u, jobs)
  PROVE  CronIInv'
<1> USE CronAssumption DEF CronIInv
<1>0. \A m \in Cron!Modes : base[m] \in CronBase /\ view[m] \in SUBSET Jobs /\ gone[m] \in SUBSET Jobs
  BY DEF CronEditorOK
<1>1. saving # None => /\ saving \in CronSave /\ saving.user \in CronUsers /\ saving.jobs \in SUBSET Jobs
                       /\ saving.base \in CronBase /\ saving.gone \in SUBSET Jobs /\ saving.mode \in Cron!Modes
  BY DEF CronEditorOK, CronSave
<1>2. CASE Cron!handleSave
  <2> DEFINE new == [user |-> selectedUser, mode |-> viewMode, jobs |-> view[viewMode],
                     base |-> base[viewMode], gone |-> gone[viewMode], kept |-> TRUE]
  <2>1. /\ selectedUser # None /\ dirty /\ saving' = new
        /\ UNCHANGED <<crontab, loadFailed, cronCache, cronFetch, selectedUser, viewMode, view, dirty, base, gone>>
    BY <1>2 DEF Cron!handleSave, Cron!server
  <2>2. viewMode \in Cron!Modes /\ selectedUser \in CronUsers
    BY <2>1 DEF CronEditorOK, CronDataOK
  <2>3. new \in CronSave
    BY <1>0, <2>2 DEF CronSave
  <2>4. CronDataOK' /\ CronCopiesInv' /\ CronEditorOK' /\ CronViewInv' /\ CronSelectedInv'
    BY <2>1, <2>3 DEF CronDataOK, CronCopiesInv, CronEditorOK, CronViewInv, CronSelectedInv
  <2>5. base[viewMode].user = selectedUser \/ selectedUser \in loadFailed
    BY <2>1, <2>2 DEF CronSelectedInv
  <2>6. CronHolds(base[viewMode], view[viewMode] \union gone[viewMode], crontab)
    BY <2>2 DEF CronViewInv
  <2>7. CronSaveInv'
    BY <2>1, <2>5, <2>6 DEF CronSaveInv
  <2>8. QED
    BY <2>4, <2>7
<1>3. CASE Cron!SaveSucceeds
  <2>1. /\ saving # None /\ Cron!WriteCrontab(saving.user, saving.jobs) /\ saving' = None /\ dirty' = FALSE
        /\ UNCHANGED <<loadFailed, cronCache, cronFetch, selectedUser, viewMode, view, gone>>
    BY <1>3 DEF Cron!SaveSucceeds
  <2>2. CronDataOK' /\ CronCopiesInv'
        /\ \A b \in CronBase, S \in SUBSET Jobs : CronHolds(b, S, crontab) => CronHolds(b, S, crontab')
    BY <1>1, <2>1, CronKept
  <2>3. \A m \in Cron!Modes : CronHolds(base[m], view[m] \union gone[m], crontab')
    BY <1>0, <2>2 DEF CronViewInv
  <2>4. CASE ~(saving.kept /\ saving.base.user = saving.user)
    <3>1. base' = base
      BY <1>3, <2>4 DEF Cron!SaveSucceeds
    <3>2. CronEditorOK' /\ CronViewInv' /\ CronSaveInv' /\ CronSelectedInv'
      BY <2>1, <2>3, <3>1 DEF CronEditorOK, CronViewInv, CronSaveInv, CronSelectedInv
    <3>3. QED
      BY <2>2, <3>2
  <2>5. CASE saving.kept /\ saving.base.user = saving.user
    <3> DEFINE mode == saving.mode
               ver == crontab[saving.user].ver + 1
    <3>1. base' = [base EXCEPT ![mode].ver = ver]
      BY <1>3, <2>5 DEF Cron!SaveSucceeds
    <3>2. base[mode] = saving.base /\ saving.jobs \subseteq view[mode] \union gone[mode] /\ mode \in Cron!Modes
      BY <1>1, <2>1, <2>5 DEF CronSaveInv
    <3>3. ver \in Nat /\ crontab'[saving.user].ver = ver /\ crontab'[saving.user].jobs = saving.jobs
      <4>1. crontab[saving.user].ver \in Nat
        BY <1>1, <2>1 DEF CronDataOK, CronCopy
      <4>2. crontab'[saving.user] = [ver |-> ver, jobs |-> saving.jobs]
        BY <1>1, <2>1, CronWritten
      <4>3. QED
        BY <4>1, <4>2
    <3>4. /\ base' \in [Cron!Modes -> CronBase]
          /\ base'[mode].user = saving.user /\ base'[mode].ver = ver
          /\ \A m \in Cron!Modes : base'[m].user = base[m].user
          /\ \A m \in Cron!Modes : m # mode => base'[m] = base[m]
      BY <2>5, <3>1, <3>2, <3>3 DEF CronEditorOK, CronBase
    <3>5. CronEditorOK' /\ CronSaveInv' /\ CronSelectedInv'
      BY <2>1, <3>4 DEF CronEditorOK, CronSaveInv, CronSelectedInv
    <3>6. CronHolds(base'[mode], view[mode] \union gone[mode], crontab')
      BY <3>2, <3>3, <3>4 DEF CronHolds
    <3>7. CronViewInv'
      BY <2>1, <2>3, <3>4, <3>6 DEF CronViewInv
    <3>8. QED
      BY <2>2, <3>5, <3>7
  <2>6. QED
    BY <2>4, <2>5
<1>4. CASE Cron!SaveFails \/ \E u \in CronUsers, jobs \in SUBSET Jobs : Cron!OtherEditor(u, jobs)
  <2>1. /\ UNCHANGED crontab \/ \E u \in CronUsers, jobs \in SUBSET Jobs : Cron!WriteCrontab(u, jobs)
        /\ saving' = None \/ saving' = saving
        /\ UNCHANGED <<loadFailed, cronCache, cronFetch, selectedUser, viewMode, view, dirty, base, gone>>
    BY <1>1, <1>4 DEF Cron!SaveFails, Cron!OtherEditor, Cron!editor
  <2>2. CronDataOK' /\ CronCopiesInv'
        /\ \A b \in CronBase, S \in SUBSET Jobs : CronHolds(b, S, crontab) => CronHolds(b, S, crontab')
    BY <2>1, CronKept
  <2>3. CronEditorOK'
    BY <2>1 DEF CronEditorOK
  <2>4. CronViewInv'
    BY <1>0, <2>1, <2>2 DEF CronViewInv
  <2>5. CronSaveInv' /\ CronSelectedInv'
    BY <1>1, <2>1, <2>2 DEF CronSaveInv, CronSelectedInv
  <2>6. QED
    BY <2>2, <2>3, <2>4, <2>5
<1>5. QED
  BY <1>2, <1>3, <1>4

LEMMA CronNextIInv ==
  ASSUME CronIInv, Cron!Next \/ UNCHANGED cronVars
  PROVE  CronIInv'
<1>1. CASE UNCHANGED cronVars
  BY <1>1 DEF cronVars, CronIInv, CronDataOK, CronEditorOK, CronCopiesInv, CronViewInv, CronSaveInv, CronSelectedInv
<1>2. ASSUME NEW u \in CronUsers, NEW j \in Jobs,
             \/ Cron!OtherEditor(u, crontab[u].jobs \union {j})
             \/ Cron!OtherEditor(u, crontab[u].jobs \ {j})
      PROVE  CronIInv'
  <2>1. crontab[u].jobs \union {j} \in SUBSET Jobs /\ crontab[u].jobs \ {j} \in SUBSET Jobs
    BY DEF CronIInv, CronDataOK, CronCopy
  <2>2. QED
    BY <1>2, <2>1, CronSaveStep
<1>3. CASE Cron!Next
  BY <1>2, <1>3, CronSelect, CronAnswer, CronEdit, CronSaveStep DEF Cron!Next
<1>4. QED
  BY <1>1, <1>3

\* CrontabSafe: a save of a crontab (handleSave) drops no job that its view had
\* read, and no job of another user reaches it unless the crontab of its own
\* user could not be loaded, whoever writes it meanwhile.
THEOREM CrontabsAreSafe == Spec => []CrontabSafe
<1> DEFINE Inv == page = "cron" => CronIInv
<1>1. Init => Inv
  BY CronInitIInv DEF Init
<1>2. Inv /\ [Next]_vars => Inv'
  BY CronNextIInv, PageSteps
<1>3. CronIInv => Cron!CrontabSafe
  <2> SUFFICES ASSUME CronIInv, saving # None
               PROVE  /\ saving.base = [user |-> saving.user, ver |-> crontab[saving.user].ver]
                           => crontab[saving.user].jobs \subseteq saving.jobs \union saving.gone
                      /\ saving.base.user = saving.user \/ saving.user \in loadFailed
    BY DEF Cron!CrontabSafe, Cron!NothingDropped, Cron!OwnJobs
  <2>1. saving.user \in CronUsers /\ saving.user # None
    BY CronAssumption DEF CronIInv, CronEditorOK, CronSave
  <2>2. QED
    BY <2>1 DEF CronIInv, CronSaveInv, CronHolds
<1>4. Inv => CrontabSafe
  BY <1>3 DEF CrontabSafe
<1>5. QED
  BY <1>1, <1>2, <1>4, PTL DEF Spec

-----------------------------------------------------------------------------
(***************************************************************************)
(* Users and roles.                                                        *)
(***************************************************************************)
AcctPerms == Seq([project : {"*", "app"}, actions : SUBSET {"view", "users"}])
AcctRows  == [disabled : BOOLEAN, roles : SUBSET Nat, custom : AcctPerms]
AcctNames == {"bob", "eve"}
AcctLists == UNION {[S -> AcctRows] : S \in SUBSET AcctNames}
AcctRoles == UNION {[S -> AcctPerms] : S \in SUBSET Nat}
AcctForms ==
  [what : {"create", "access", "role"}, target : AcctNames \union Nat \union {None}, mode : {"role", "custom"},
   roles : SUBSET Nat, perms : AcctPerms, row : AcctRows \union {None}, ticked : SUBSET Nat, save : Nat, edits : Nat]
AcctOps == {"create", "access", "toggle", "remove", "createRole", "role", "removeRole"}
AcctReqs ==
  [n : Nat, op : AcctOps, target : AcctNames \union Nat \union {None}, mounted : BOOLEAN, roles : SUBSET Nat,
   perms : AcctPerms, clear : BOOLEAN, disabled : BOOLEAN, row : AcctRows \union {None}, ticked : SUBSET Nat]

AcctTypeOK ==
  /\ accounts \in AcctLists /\ userRows \in AcctLists /\ userFetch \in AcctLists \union {None}
  /\ roleTable \in AcctRoles /\ roleRows \in AcctRoles /\ roleFetch \in AcctRoles \union {None}
  /\ lastRole \in Nat /\ sent \in Nat /\ others \in Nat /\ strayed \in BOOLEAN
  /\ acctPage \in {"users", "roles"}
  /\ acctForm \in AcctForms \union {None}
  /\ requests \subseteq AcctReqs

\* A dialog is one of the page, and what differs from the row with which it was
\* opened was ticked.
AcctFormInv(f, pg) ==
  /\ f # None => pg = IF f.what = "role" THEN "roles" ELSE "users"
  /\ f # None /\ f.what = "access" =>
       /\ (f.roles \ f.row.roles) \union (f.row.roles \ f.roles) \subseteq f.ticked
       /\ f.perms = f.row.custom \/ Accounts!Builder \in f.ticked

\* So it is in what a dialog has sent; roles are sent to replace those of the user.
AcctReqInv(r) ==
  /\ r.op = "create" => r.target = "eve"
  /\ r.op = "access" =>
       /\ r.clear => (r.roles \ r.row.roles) \union (r.row.roles \ r.roles) \subseteq r.ticked
       /\ ~r.clear => r.perms = r.row.custom \/ Accounts!Builder \in r.ticked
       /\ r.roles # {} => r.clear

\* Users have roles that are there, and a role is not numbered like an earlier one.
AcctRolesInv ==
  /\ DOMAIN roleTable \subseteq 1 .. lastRole
  /\ \A u \in DOMAIN accounts : accounts[u].roles \subseteq DOMAIN roleTable
  /\ \A u \in DOMAIN userRows : userRows[u].roles \subseteq 1 .. lastRole
  /\ userFetch # None => \A u \in DOMAIN userFetch : userFetch[u].roles \subseteq 1 .. lastRole

\* list shows the users, but for roles that are no more.
AcctSame(list, users, roles) ==
  /\ DOMAIN list = DOMAIN users
  /\ \A u \in DOMAIN users : /\ list[u].disabled = users[u].disabled /\ list[u].custom = users[u].custom
                             /\ list[u].roles \intersect roles = users[u].roles

AcctListInv ==
  ~strayed /\ others = 0 =>
    /\ userFetch # None => AcctSame(userFetch, accounts, DOMAIN roleTable)
    /\ userFetch = None => AcctSame(userRows, accounts, DOMAIN roleTable)
    /\ acctPage = "roles" => \A r \in requests : ~Accounts!OnUsers(r)

AcctIInv ==
  /\ AcctTypeOK /\ AcctRolesInv /\ AcctListInv
  /\ AcctFormInv(acctForm, acctPage) /\ \A r \in requests : AcctReqInv(r)

LEMMA AcctListFacts ==
  /\ \A S \in SUBSET AcctNames : \A f \in [S -> AcctRows] : f \in AcctLists
  /\ \A f \in AcctLists : DOMAIN f \in SUBSET AcctNames /\ f \in [DOMAIN f -> AcctRows] /\ f # None
  /\ \A S \in SUBSET Nat : \A f \in [S -> AcctPerms] : f \in AcctRoles
  /\ \A f \in AcctRoles : DOMAIN f \in SUBSET Nat /\ f \in [DOMAIN f -> AcctPerms]
<1>1. ASSUME NEW f \in AcctLists PROVE DOMAIN f \in SUBSET AcctNames /\ f \in [DOMAIN f -> AcctRows] /\ f # None
  <2>1. PICK S \in SUBSET AcctNames : f \in [S -> AcctRows]
    BY DEF AcctLists
  <2>2. None \notin [S -> AcctRows]
    BY AccountsAssumption DEF AcctRows, AcctPerms, AcctNames
  <2>3. QED
    BY <2>1, <2>2
<1>2. ASSUME NEW f \in AcctRoles PROVE DOMAIN f \in SUBSET Nat /\ f \in [DOMAIN f -> AcctPerms]
  BY DEF AcctRoles
<1>3. \A S \in SUBSET AcctNames : \A f \in [S -> AcctRows] : f \in AcctLists
  BY DEF AcctLists
<1>4. \A S \in SUBSET Nat : \A f \in [S -> AcctPerms] : f \in AcctRoles
  BY DEF AcctRoles
<1>5. QED
  BY <1>1, <1>2, <1>3, <1>4

LEMMA AcctInitIInv == Accounts!Init => AcctIInv
<1> SUFFICES ASSUME Accounts!Init PROVE AcctIInv
  OBVIOUS
<1> USE DEF Accounts!Init, Accounts!Account, Accounts!NoPerms, Accounts!AdminRole, Accounts!DevRole
<1> DEFINE row == [disabled |-> FALSE, roles |-> {2}, custom |-> <<>>]
           perms == <<[project |-> "*", actions |-> {"view"}]>>
<1>1. row \in AcctRows /\ perms \in AcctPerms
  BY DEF AcctRows, AcctPerms
<1>2. accounts = [u \in {"bob"} |-> row] /\ roleTable = [r \in {1, 2} |-> perms] /\ lastRole = 2
  OBVIOUS
<1>3. accounts \in AcctLists /\ roleTable \in AcctRoles
  <2>1. {"bob"} \in SUBSET AcctNames /\ {1, 2} \in SUBSET Nat
    BY DEF AcctNames
  <2>2. accounts \in [{"bob"} -> AcctRows] /\ roleTable \in [{1, 2} -> AcctPerms]
    BY <1>1, <1>2
  <2>3. QED
    BY <2>1, <2>2, AcctListFacts
<1>4. AcctTypeOK
  <2> HIDE DEF Accounts!Init
  <2>1. /\ lastRole = 2 /\ userRows = accounts /\ roleRows = roleTable /\ userFetch = None /\ roleFetch = None
        /\ sent = 0 /\ others = 0 /\ strayed = FALSE /\ acctPage = "users" /\ acctForm = None /\ requests = {}
    BY DEF Accounts!Init
  <2>2. QED
    BY <1>3, <2>1 DEF AcctTypeOK
<1>5. AcctRolesInv /\ AcctListInv
  BY <1>2 DEF AcctRolesInv, AcctListInv, AcctSame
<1>6. QED
  BY <1>4, <1>5 DEF AcctIInv, AcctFormInv

\* Nothing changes but the dialog.
LEMMA AcctDialog ==
  ASSUME AcctIInv, acctForm' \in AcctForms \union {None}, AcctFormInv(acctForm', acctPage'),
         UNCHANGED <<accounts, roleTable, lastRole, others, userRows, roleRows, userFetch, roleFetch, usersInvalid,
                     acctPage, requests, sent, strayed>>
  PROVE  AcctIInv'
BY DEF AcctIInv, AcctTypeOK, AcctRolesInv, AcctListInv, AcctReqInv, AcctFormInv

\* A dialog is opened, with what is listed.
LEMMA AcctOpens ==
  ASSUME AcctIInv,
         \/ Accounts!OpenCreateUser \/ Accounts!OpenNewRole
         \/ \E u \in DOMAIN userRows : Accounts!OpenEditAccess(u)
         \/ \E r \in DOMAIN roleRows : Accounts!OpenRole(r)
  PROVE  AcctIInv'
<1> USE DEF Accounts!tables, Accounts!lists
<1>1. userRows \in AcctLists /\ roleRows \in AcctRoles
  BY DEF AcctIInv, AcctTypeOK
<1>2. Accounts!NoPerms \in AcctPerms
  BY DEF Accounts!NoPerms, AcctPerms
<1>3. CASE Accounts!OpenCreateUser
  <2>1. acctForm' \in AcctForms /\ acctForm'.what = "create"
    BY <1>2, <1>3 DEF Accounts!OpenCreateUser, Accounts!Opens, Accounts!Form, AcctForms
  <2>2. QED
    BY <1>3, <2>1, AcctDialog DEF Accounts!OpenCreateUser, Accounts!Opens, AcctFormInv
<1>4. CASE Accounts!OpenNewRole
  <2>1. acctForm' \in AcctForms /\ acctForm'.what = "role"
    BY <1>2, <1>4 DEF Accounts!OpenNewRole, Accounts!Opens, Accounts!Form, AcctForms
  <2>2. QED
    BY <1>4, <2>1, AcctDialog DEF Accounts!OpenNewRole, Accounts!Opens, AcctFormInv
<1>5. ASSUME NEW u \in DOMAIN userRows, Accounts!OpenEditAccess(u) PROVE AcctIInv'
  <2>1. u \in AcctNames /\ userRows[u] \in AcctRows
    BY <1>1, AcctListFacts
  <2>2. /\ acctPage = "users"
        /\ acctForm' = [what |-> "access", target |-> u,
                        mode |-> IF userRows[u].custom # Accounts!NoPerms THEN "custom" ELSE "role",
                        roles |-> userRows[u].roles, perms |-> userRows[u].custom, row |-> userRows[u],
                        ticked |-> {}, save |-> 0, edits |-> 0]
        /\ UNCHANGED <<accounts, roleTable, lastRole, others, userRows, roleRows, userFetch, roleFetch, usersInvalid,
                       acctPage, requests, sent, strayed>>
    BY <1>5 DEF Accounts!OpenEditAccess, Accounts!Opens, Accounts!Form
  <2>3. acctForm' \in AcctForms
    BY <2>1, <2>2 DEF AcctForms, AcctRows
  <2>4. AcctFormInv(acctForm', acctPage')
    BY <2>1, <2>2 DEF AcctFormInv
  <2>5. QED
    BY <2>2, <2>3, <2>4, AcctDialog
<1>6. ASSUME NEW r \in DOMAIN roleRows, Accounts!OpenRole(r) PROVE AcctIInv'
  <2>1. r \in Nat /\ roleRows[r] \in AcctPerms
    BY <1>1, AcctListFacts
  <2>2. acctForm' \in AcctForms /\ acctForm'.what = "role"
    BY <1>6, <2>1 DEF Accounts!OpenRole, Accounts!Opens, Accounts!Form, AcctForms
  <2>3. QED
    BY <1>6, <2>2, AcctDialog DEF Accounts!OpenRole, Accounts!Opens, AcctFormInv
<1>7. QED
  BY <1>3, <1>4, <1>5, <1>6

\* The fields of an open dialog.
LEMMA AcctFields ==
  ASSUME AcctIInv, acctForm # None, Accounts!AccessFields
  PROVE  AcctIInv'
<1> USE DEF Accounts!tables, Accounts!lists
<1>1. acctForm \in AcctForms /\ AcctFormInv(acctForm, acctPage) /\ roleRows \in AcctRoles
  BY DEF AcctIInv, AcctTypeOK
<1>2. ASSUME NEW m \in {"role", "custom"}, Accounts!SetMode(m) PROVE AcctIInv'
  <2>1. acctForm' = [acctForm EXCEPT !.mode = m] /\ acctPage' = acctPage
    BY <1>2 DEF Accounts!SetMode, Accounts!SetForm
  <2>2. acctForm' \in AcctForms /\ AcctFormInv(acctForm', acctPage')
    BY <1>1, <2>1 DEF AcctForms, AcctFormInv
  <2>3. QED
    BY <1>2, <2>2, AcctDialog DEF Accounts!SetMode, Accounts!SetForm
<1>3. ASSUME NEW r \in DOMAIN roleRows, Accounts!RoleSelector(r) PROVE AcctIInv'
  <2> DEFINE R == IF r \in acctForm.roles THEN acctForm.roles \ {r} ELSE acctForm.roles \union {r}
             T == Accounts!Tick(r)
  <2>1. acctForm' = [[acctForm EXCEPT !.roles = R, !.ticked = T] EXCEPT !.edits = @ + 1]
    BY <1>1, <1>3 DEF Accounts!RoleSelector, Accounts!Edits, Accounts!SetForm, AcctForms
  <2>2. r \in Nat
    BY <1>1, AcctListFacts
  <2>3. R \in SUBSET Nat /\ T \in SUBSET Nat
    BY <1>1, <2>2 DEF AcctForms, Accounts!Tick
  <2>4. /\ acctForm' \in AcctForms /\ acctForm'.what = acctForm.what /\ acctForm'.row = acctForm.row
        /\ acctForm'.perms = acctForm.perms /\ acctForm'.roles = R /\ acctForm'.ticked = T
    <3> DEFINE g == [acctForm EXCEPT !.roles = R, !.ticked = T]
    <3>1. /\ g \in AcctForms /\ g.what = acctForm.what /\ g.row = acctForm.row
          /\ g.perms = acctForm.perms /\ g.roles = R /\ g.ticked = T
      BY <1>1, <2>3 DEF AcctForms
    <3>2. acctForm' = [g EXCEPT !.edits = @ + 1]
      BY <2>1
    <3> HIDE DEF g, R, T
    <3>3. QED
      BY <3>1, <3>2 DEF AcctForms
  <2>5. AcctFormInv(acctForm', acctPage')
    <3>1. acctPage' = acctPage
      BY <1>3 DEF Accounts!RoleSelector, Accounts!Edits, Accounts!SetForm
    <3>2. QED
      BY <1>1, <2>4, <3>1 DEF AcctFormInv, Accounts!Tick
  <2>6. QED
    BY <1>3, <2>4, <2>5, AcctDialog DEF Accounts!RoleSelector, Accounts!Edits, Accounts!SetForm
<1>4. ASSUME NEW perms \in AcctPerms, Accounts!SetPerms(perms) PROVE AcctIInv'
  <2> DEFINE T == Accounts!Tick(Accounts!Builder)
  <2>1. acctForm' = [[acctForm EXCEPT !.perms = perms, !.ticked = T] EXCEPT !.edits = @ + 1]
    BY <1>4 DEF Accounts!SetPerms, Accounts!Edits, Accounts!SetForm
  <2>2. T \in SUBSET Nat
    BY <1>1 DEF AcctForms, Accounts!Tick, Accounts!Builder
  <2>3. /\ acctForm' \in AcctForms /\ acctForm'.what = acctForm.what /\ acctForm'.row = acctForm.row
        /\ acctForm'.perms = perms /\ acctForm'.roles = acctForm.roles /\ acctForm'.ticked = T
    <3> DEFINE g == [acctForm EXCEPT !.perms = perms, !.ticked = T]
    <3>1. /\ g \in AcctForms /\ g.what = acctForm.what /\ g.row = acctForm.row
          /\ g.perms = perms /\ g.roles = acctForm.roles /\ g.ticked = T
      BY <1>1, <2>2 DEF AcctForms
    <3>2. acctForm' = [g EXCEPT !.edits = @ + 1]
      BY <2>1
    <3> HIDE DEF g, T
    <3>3. QED
      BY <3>1, <3>2 DEF AcctForms
  <2>4. AcctFormInv(acctForm', acctPage')
    <3>1. acctPage' = acctPage
      BY <1>4 DEF Accounts!SetPerms, Accounts!Edits, Accounts!SetForm
    <3>2. QED
      BY <1>1, <2>3, <3>1 DEF AcctFormInv, Accounts!Tick
  <2>5. QED
    BY <1>4, <2>3, <2>4, AcctDialog DEF Accounts!SetPerms, Accounts!Edits, Accounts!SetForm
<1>5. ASSUME Accounts!PermissionBuilder PROVE AcctIInv'
  <2> DEFINE Perm == [project : {"*", "app"}, actions : SUBSET {"view", "users"}]
             s == acctForm.perms
  <2>1. s \in Seq(Perm) /\ AcctPerms = Seq(Perm)
    BY <1>1 DEF AcctForms, AcctPerms
  <2>2. [project |-> "*", actions |-> {}] \in Perm
    OBVIOUS
  <2>3. \A q \in Perm : /\ \A p \in {"*", "app"} : [q EXCEPT !.project = p] \in Perm
                        /\ \A A \in SUBSET {"view", "users"} : [q EXCEPT !.actions = A] \in Perm
                        /\ q.actions \in SUBSET {"view", "users"}
    OBVIOUS
  <2> HIDE DEF Perm
  <2>4. s \in [1 .. Len(s) -> Perm] /\ DOMAIN s = 1 .. Len(s) /\ Len(s) \in Nat
    BY <2>1, LenProperties
  <2>5. \A i \in DOMAIN s : s[i] \in Perm
    BY <2>4
  <2>6. CASE Accounts!AddPermission
    <3>1. Append(s, [project |-> "*", actions |-> {}]) \in Seq(Perm)
      BY <2>1, <2>2
    <3>2. QED
      BY <1>4, <2>1, <2>6, <3>1 DEF Accounts!AddPermission
  <2>7. ASSUME NEW i \in DOMAIN s, Accounts!RemovePermission(i) PROVE AcctIInv'
    <3>1. i \in 1 .. Len(s) /\ i - 1 \in Int /\ i + 1 \in Int /\ Len(s) \in Int
      BY <2>4
    <3>2. (\A j \in 1 .. (i - 1) : s[j] \in Perm) /\ (\A j \in (i + 1) .. Len(s) : s[j] \in Perm)
      BY <2>4, <3>1
    <3>3. SubSeq(s, 1, i - 1) \in Seq(Perm) /\ SubSeq(s, i + 1, Len(s)) \in Seq(Perm)
      BY <3>1, <3>2, SubSeqProperties
    <3>4. SubSeq(s, 1, i - 1) \o SubSeq(s, i + 1, Len(s)) \in Seq(Perm)
      BY <3>3, ConcatProperties
    <3>5. Accounts!RemoveAt(s, i) \in Seq(Perm)
      BY <3>4 DEF Accounts!RemoveAt
    <3>6. QED
      BY <1>4, <2>1, <2>7, <3>5 DEF Accounts!RemovePermission
  <2>8. ASSUME NEW i \in DOMAIN s, NEW p \in {"*", "app"}, Accounts!ProjectSelect(i, p) PROVE AcctIInv'
    <3>1. [s[i] EXCEPT !.project = p] \in Perm
      BY <2>3, <2>5
    <3>2. [s EXCEPT ![i].project = p] \in Seq(Perm)
      BY <2>1, <2>4, <3>1, ExceptSeq
    <3>3. QED
      BY <1>4, <2>1, <2>8, <3>2 DEF Accounts!ProjectSelect
  <2>9. ASSUME NEW i \in DOMAIN s, NEW a \in {"view", "users"}, Accounts!ToggleAction(i, a) PROVE AcctIInv'
    <3> DEFINE A == IF a \in s[i].actions THEN s[i].actions \ {a} ELSE s[i].actions \union {a}
    <3>1. A \in SUBSET {"view", "users"}
      BY <2>3, <2>5
    <3>2. Accounts!SetPerms([s EXCEPT ![i].actions = A])
      BY <2>4, <2>9 DEF Accounts!ToggleAction
    <3> HIDE DEF A
    <3>3. [s[i] EXCEPT !.actions = A] \in Perm
      BY <2>3, <2>5, <3>1
    <3>4. [s EXCEPT ![i].actions = A] \in Seq(Perm)
      BY <2>1, <2>4, <3>3, ExceptSeq
    <3>5. QED
      BY <1>4, <2>1, <3>2, <3>4
  <2>10. QED
    BY <1>5, <2>6, <2>7, <2>8, <2>9 DEF Accounts!PermissionBuilder
<1>6. QED
  BY <1>2, <1>3, <1>5 DEF Accounts!AccessFields

\* A request is sent: it is not yet known to anybody else.
LEMMA AcctSent ==
  ASSUME AcctIInv, NEW q \in AcctReqs, Accounts!Send(q), AcctReqInv(q),
         Accounts!OnUsers(q) => acctPage = "users",
         acctForm' \in AcctForms \union {None}, AcctFormInv(acctForm', acctPage')
  PROVE  AcctIInv'
<1>1. /\ requests' = requests \union {q} /\ sent' = sent + 1
      /\ UNCHANGED <<accounts, roleTable, lastRole, others, userRows, roleRows, userFetch, roleFetch, usersInvalid,
                     acctPage, strayed>>
  BY DEF Accounts!Send, Accounts!tables, Accounts!lists
<1>2. AcctTypeOK'
  BY <1>1 DEF AcctIInv, AcctTypeOK
<1>3. AcctRolesInv' /\ AcctListInv'
  BY <1>1 DEF AcctIInv, AcctTypeOK, AcctRolesInv, AcctListInv
<1>4. AcctFormInv(acctForm, acctPage)' /\ \A r \in requests' : AcctReqInv(r)
  BY <1>1 DEF AcctIInv, AcctFormInv
<1>5. QED
  BY <1>2, <1>3, <1>4 DEF AcctIInv, AcctReqInv

\* The fields of a request that are as in Request, or from the open dialog.
LEMMA AcctRequest ==
  ASSUME AcctIInv, NEW op \in AcctOps, NEW target \in AcctNames \union Nat \union {None}
  PROVE  /\ Accounts!Request(op, target) \in AcctReqs
         /\ Accounts!Request(op, target).op = op /\ Accounts!Request(op, target).target = target
         /\ acctForm # None =>
              LET q == Accounts!FormRequest(op, target)
              IN  /\ q \in AcctReqs /\ q.op = op /\ q.target = target
                  /\ q.clear = (acctForm.mode = "role")
                  /\ q.roles = (IF acctForm.mode = "role" THEN acctForm.roles ELSE {})
                  /\ q.perms = (IF acctForm.mode = "custom" THEN acctForm.perms ELSE Accounts!NoPerms)
                  /\ q.row = acctForm.row
                  /\ op = "access" => q.ticked = acctForm.ticked
<1>1. sent \in Nat /\ (acctForm # None => acctForm \in AcctForms)
  BY DEF AcctIInv, AcctTypeOK
<1>2. Accounts!NoPerms \in AcctPerms
  BY DEF Accounts!NoPerms, AcctPerms
<1> DEFINE b == Accounts!Request(op, target)
<1>3. b \in AcctReqs /\ b.op = op /\ b.target = target
  BY <1>1, <1>2 DEF Accounts!Request, AcctReqs
<1>4. ASSUME acctForm # None
      PROVE  LET q == Accounts!FormRequest(op, target)
             IN  /\ q \in AcctReqs /\ q.op = op /\ q.target = target
                 /\ q.clear = (acctForm.mode = "role")
                 /\ q.roles = (IF acctForm.mode = "role" THEN acctForm.roles ELSE {})
                 /\ q.perms = (IF acctForm.mode = "custom" THEN acctForm.perms ELSE Accounts!NoPerms)
                 /\ q.row = acctForm.row
                 /\ op = "access" => q.ticked = acctForm.ticked
  <2> DEFINE R == IF acctForm.mode = "role" THEN acctForm.roles ELSE {}
             P == IF acctForm.mode = "custom" THEN acctForm.perms ELSE Accounts!NoPerms
             C == acctForm.mode = "role"
             T == IF op = "access" THEN acctForm.ticked ELSE {}
             q == [b EXCEPT !.roles = R, !.perms = P, !.clear = C, !.row = acctForm.row, !.ticked = T]
  <2>1. /\ R \in SUBSET Nat /\ P \in AcctPerms /\ C \in BOOLEAN /\ T \in SUBSET Nat
        /\ acctForm.row \in AcctRows \union {None}
    BY <1>1, <1>2, <1>4 DEF AcctForms
  <2>2. Accounts!FormRequest(op, target) = q
    BY DEF Accounts!FormRequest
  <2> HIDE DEF b, R, P, C, T
  <2>3. /\ q \in AcctReqs /\ q.op = op /\ q.target = target /\ q.clear = C /\ q.roles = R /\ q.perms = P
        /\ q.row = acctForm.row /\ q.ticked = T
    BY <1>3, <2>1 DEF AcctReqs
  <2>4. QED
    BY <2>2, <2>3 DEF R, P, C, T
<1>5. QED
  BY <1>3, <1>4

\* The buttons that send a request.
LEMMA AcctSends ==
  ASSUME AcctIInv,
         \/ Accounts!InDialog("create") /\ Accounts!CreateUser
         \/ Accounts!InDialog("access") /\ Accounts!SaveAccess
         \/ Accounts!InDialog("role") /\ Accounts!SaveRole
         \/ \E u \in DOMAIN userRows : Accounts!ToggleDisabled(u) \/ Accounts!RemoveUser(u)
         \/ \E r \in DOMAIN roleRows : Accounts!RemoveRole(r)
  PROVE  AcctIInv'
<1>1. /\ acctForm # None => acctForm \in AcctForms
      /\ AcctFormInv(acctForm, acctPage) /\ acctForm \in AcctForms \union {None}
      /\ userRows \in AcctLists /\ roleRows \in AcctRoles /\ sent \in Nat
  BY DEF AcctIInv, AcctTypeOK
<1>2. acctPage' = acctPage /\ sent' \in Nat
  BY <1>1 DEF Accounts!CreateUser, Accounts!SaveAccess, Accounts!SaveRole, Accounts!ToggleDisabled,
              Accounts!RemoveUser, Accounts!RemoveRole, Accounts!Send
<1>3. CASE Accounts!InDialog("create") /\ Accounts!CreateUser
  <2> DEFINE q == Accounts!FormRequest("create", "eve")
  <2>1. acctForm # None /\ acctPage = "users" /\ Accounts!Send(q) /\ acctForm' = acctForm
    BY <1>1, <1>3 DEF Accounts!InDialog, Accounts!CreateUser, AcctFormInv
  <2>2. q \in AcctReqs /\ q.op = "create" /\ q.target = "eve"
    BY <2>1, AcctRequest DEF AcctOps, AcctNames
  <2>3. AcctReqInv(q)
    BY <2>2 DEF AcctReqInv
  <2> HIDE DEF q
  <2>4. QED
    BY <1>1, <1>2, <2>1, <2>2, <2>3, AcctSent
<1>4. CASE Accounts!InDialog("access") /\ Accounts!SaveAccess
  <2> DEFINE q == Accounts!FormRequest("access", acctForm.target)
  <2>1. /\ acctForm # None /\ acctForm.what = "access" /\ acctPage = "users" /\ Accounts!Send(q)
        /\ acctForm' = [acctForm EXCEPT !.save = sent']
    BY <1>1, <1>4 DEF Accounts!InDialog, Accounts!SaveAccess, AcctFormInv
  <2>2. acctForm.target \in AcctNames \union Nat \union {None} /\ "access" \in AcctOps
    BY <1>1, <2>1 DEF AcctForms, AcctOps
  <2>3. /\ q \in AcctReqs /\ q.op = "access" /\ q.clear = (acctForm.mode = "role")
        /\ q.roles = (IF acctForm.mode = "role" THEN acctForm.roles ELSE {})
        /\ q.perms = (IF acctForm.mode = "custom" THEN acctForm.perms ELSE Accounts!NoPerms)
        /\ q.row = acctForm.row /\ q.ticked = acctForm.ticked
    BY <2>1, <2>2, AcctRequest
  <2>4. acctForm.mode \in {"role", "custom"}
    BY <1>1, <2>1 DEF AcctForms
  <2> HIDE DEF q
  <2>5. AcctReqInv(q)
    BY <1>1, <2>1, <2>3, <2>4 DEF AcctReqInv, AcctFormInv
  <2>6. acctForm' \in AcctForms /\ AcctFormInv(acctForm', acctPage')
    BY <1>1, <1>2, <2>1 DEF AcctForms, AcctFormInv
  <2>7. QED
    BY <2>1, <2>3, <2>5, <2>6, AcctSent
<1>5. CASE Accounts!InDialog("role") /\ Accounts!SaveRole
  <2>1. acctForm # None /\ acctForm.what = "role" /\ acctForm' = [acctForm EXCEPT !.save = sent']
    BY <1>5 DEF Accounts!InDialog, Accounts!SaveRole
  <2>2. acctForm' \in AcctForms /\ AcctFormInv(acctForm', acctPage')
    BY <1>1, <1>2, <2>1 DEF AcctForms, AcctFormInv
  <2>3. PICK op \in {"createRole", "role"}, target \in {None, acctForm.target} :
          Accounts!Send(Accounts!FormRequest(op, target))
    BY <1>5 DEF Accounts!SaveRole
  <2>4. target \in AcctNames \union Nat \union {None} /\ op \in AcctOps
    BY <1>1, <2>1 DEF AcctForms, AcctOps
  <2> DEFINE q == Accounts!FormRequest(op, target)
  <2>5. q \in AcctReqs /\ q.op = op
    BY <2>1, <2>4, AcctRequest
  <2> HIDE DEF q
  <2>6. AcctReqInv(q) /\ ~Accounts!OnUsers(q)
    BY <2>5 DEF AcctReqInv, Accounts!OnUsers
  <2>7. QED
    BY <2>2, <2>3, <2>5, <2>6, AcctSent DEF q
<1>6. ASSUME NEW u \in DOMAIN userRows, Accounts!ToggleDisabled(u) PROVE AcctIInv'
  <2>1. u \in AcctNames /\ userRows[u] \in AcctRows
    BY <1>1, AcctListFacts
  <2> DEFINE b == Accounts!Request("toggle", u)
             q == [b EXCEPT !.disabled = ~userRows[u].disabled]
  <2>2. b \in AcctReqs /\ b.op = "toggle"
    BY <2>1, AcctRequest DEF AcctOps
  <2>3. acctPage = "users" /\ Accounts!Send(q) /\ acctForm' = acctForm
    BY <1>6 DEF Accounts!ToggleDisabled
  <2> HIDE DEF b
  <2>4. q \in AcctReqs /\ q.op = "toggle"
    BY <2>1, <2>2 DEF AcctReqs, AcctRows
  <2> HIDE DEF q
  <2>5. AcctReqInv(q)
    BY <2>4 DEF AcctReqInv
  <2>6. QED
    BY <1>1, <1>2, <2>3, <2>4, <2>5, AcctSent
<1>7. ASSUME NEW u \in DOMAIN userRows, Accounts!RemoveUser(u) PROVE AcctIInv'
  <2> DEFINE q == Accounts!Request("remove", u)
  <2>1. u \in AcctNames
    BY <1>1, AcctListFacts
  <2>2. q \in AcctReqs /\ q.op = "remove"
    BY <2>1, AcctRequest DEF AcctOps
  <2>3. acctPage = "users" /\ Accounts!Send(q) /\ acctForm' = acctForm
    BY <1>7 DEF Accounts!RemoveUser
  <2> HIDE DEF q
  <2>4. AcctReqInv(q)
    BY <2>2 DEF AcctReqInv
  <2>5. QED
    BY <1>1, <1>2, <2>2, <2>3, <2>4, AcctSent
<1>8. ASSUME NEW r \in DOMAIN roleRows, Accounts!RemoveRole(r) PROVE AcctIInv'
  <2> DEFINE q == Accounts!Request("removeRole", r)
  <2>1. r \in Nat
    BY <1>1, AcctListFacts
  <2>2. q \in AcctReqs /\ q.op = "removeRole"
    BY <2>1, AcctRequest DEF AcctOps
  <2>3. Accounts!Send(q) /\ acctForm' = acctForm
    BY <1>8 DEF Accounts!RemoveRole
  <2> HIDE DEF q
  <2>4. AcctReqInv(q) /\ ~Accounts!OnUsers(q)
    BY <2>2 DEF AcctReqInv, Accounts!OnUsers
  <2>5. QED
    BY <1>1, <1>2, <2>2, <2>3, <2>4, AcctSent
<1>9. QED
  BY <1>3, <1>4, <1>5, <1>6, <1>7, <1>8

\* The users after a change of one of them.
LEMMA AcctChanged ==
  ASSUME NEW users \in AcctLists, NEW u \in AcctNames, NEW a \in AcctRows
  PROVE  /\ [v \in DOMAIN users \union {u} |-> IF v = u THEN a ELSE users[v]] \in AcctLists
         /\ [v \in DOMAIN users \ {u} |-> users[v]] \in AcctLists
         /\ u \in DOMAIN users => [users EXCEPT ![u] = a] \in AcctLists
<1>1. DOMAIN users \in SUBSET AcctNames /\ users \in [DOMAIN users -> AcctRows]
  BY AcctListFacts
<1>2. DOMAIN users \union {u} \in SUBSET AcctNames /\ DOMAIN users \ {u} \in SUBSET AcctNames
  BY <1>1
<1>3. [v \in DOMAIN users \union {u} |-> IF v = u THEN a ELSE users[v]] \in [DOMAIN users \union {u} -> AcctRows]
  BY <1>1
<1>4. [v \in DOMAIN users \ {u} |-> users[v]] \in [DOMAIN users \ {u} -> AcctRows]
  BY <1>1
<1>5. u \in DOMAIN users => [users EXCEPT ![u] = a] \in [DOMAIN users -> AcctRows]
  BY <1>1
<1>6. QED
  BY <1>1, <1>2, <1>3, <1>4, <1>5, AcctListFacts

\* What a handler makes of the tables.
AcctSound ==
  /\ accounts' \in AcctLists /\ roleTable' \in AcctRoles /\ lastRole' \in Nat /\ lastRole <= lastRole'
  /\ DOMAIN roleTable' \subseteq 1 .. lastRole'
  /\ \A u \in DOMAIN accounts' : accounts'[u].roles \subseteq DOMAIN roleTable'
AcctStillSame ==
  \A list \in AcctLists :
    /\ \A u \in DOMAIN list : list[u].roles \subseteq 1 .. lastRole
    /\ AcctSame(list, accounts, DOMAIN roleTable)
    => AcctSame(list, accounts', DOMAIN roleTable')

\* The deletion of a role takes it from the users, and shows in no list of them.
LEMMA AcctDeleteRole ==
  ASSUME AcctIInv, NEW r, Accounts!DeleteRole(r)
  PROVE  AcctSound /\ AcctStillSame
<1>1. /\ accounts \in AcctLists /\ roleTable \in AcctRoles /\ lastRole \in Nat
      /\ DOMAIN roleTable \subseteq 1 .. lastRole
      /\ \A u \in DOMAIN accounts : accounts[u].roles \subseteq DOMAIN roleTable
  BY DEF AcctIInv, AcctTypeOK, AcctRolesInv
<1>2. /\ roleTable' = [t \in DOMAIN roleTable \ {r.target} |-> roleTable[t]]
      /\ accounts' = [u \in DOMAIN accounts |-> [accounts[u] EXCEPT !.roles = @ \ {r.target}]]
      /\ lastRole' = lastRole
  BY DEF Accounts!DeleteRole
<1>3. DOMAIN accounts \in SUBSET AcctNames /\ \A u \in DOMAIN accounts : accounts[u] \in AcctRows
  BY <1>1, AcctListFacts
<1>4. \A u \in DOMAIN accounts :
        LET a == [accounts[u] EXCEPT !.roles = @ \ {r.target}]
        IN  /\ a \in AcctRows /\ a.roles = accounts[u].roles \ {r.target}
            /\ a.disabled = accounts[u].disabled /\ a.custom = accounts[u].custom
  BY <1>3 DEF AcctRows
<1>5. /\ accounts' \in [DOMAIN accounts -> AcctRows] /\ DOMAIN accounts' = DOMAIN accounts
      /\ \A u \in DOMAIN accounts : /\ accounts'[u].roles = accounts[u].roles \ {r.target}
                                     /\ accounts'[u].disabled = accounts[u].disabled
                                     /\ accounts'[u].custom = accounts[u].custom
  BY <1>2, <1>4
<1>6. accounts' \in AcctLists
  BY <1>3, <1>5, AcctListFacts
<1>7. DOMAIN roleTable' = DOMAIN roleTable \ {r.target} /\ roleTable' \in AcctRoles
  <2>1. DOMAIN roleTable \in SUBSET Nat /\ roleTable \in [DOMAIN roleTable -> AcctPerms]
    BY <1>1, AcctListFacts
  <2>2. DOMAIN roleTable \ {r.target} \in SUBSET Nat /\ roleTable' \in [DOMAIN roleTable \ {r.target} -> AcctPerms]
    BY <1>2, <2>1
  <2>3. QED
    BY <1>2, <2>2, AcctListFacts
<1>8. AcctSound
  BY <1>1, <1>2, <1>5, <1>6, <1>7 DEF AcctSound
<1>9. AcctStillSame
  BY <1>5, <1>7 DEF AcctStillSame, AcctSame
<1>10. QED
  BY <1>8, <1>9

\* A role is made with a new id, or gets other permissions.
LEMMA AcctSaveRole ==
  ASSUME AcctIInv, NEW r \in AcctReqs, Accounts!CreateOrUpdateRole(r)
  PROVE  AcctSound /\ AcctStillSame
<1>1. /\ accounts \in AcctLists /\ roleTable \in AcctRoles /\ lastRole \in Nat
      /\ DOMAIN roleTable \subseteq 1 .. lastRole
      /\ \A u \in DOMAIN accounts : accounts[u].roles \subseteq DOMAIN roleTable
  BY DEF AcctIInv, AcctTypeOK, AcctRolesInv
<1> DEFINE id == IF r.op = "createRole" THEN lastRole + 1 ELSE r.target
<1>2. /\ r.op = "createRole" \/ (r.op = "role" /\ id \in DOMAIN roleTable)
      /\ roleTable' = [t \in DOMAIN roleTable \union {id} |-> IF t = id THEN r.perms ELSE roleTable[t]]
      /\ lastRole' = (IF r.op = "createRole" THEN id ELSE lastRole) /\ accounts' = accounts
  BY DEF Accounts!CreateOrUpdateRole
<1>3. \/ id = lastRole + 1 /\ lastRole' = lastRole + 1
      \/ id \in DOMAIN roleTable /\ lastRole' = lastRole
  BY <1>2
<1>4. r.perms \in AcctPerms
  BY DEF AcctReqs
<1> HIDE DEF id
<1>5. DOMAIN roleTable' = DOMAIN roleTable \union {id} /\ roleTable' \in AcctRoles
  <2>1. DOMAIN roleTable \in SUBSET Nat /\ roleTable \in [DOMAIN roleTable -> AcctPerms]
    BY <1>1, AcctListFacts
  <2>2. DOMAIN roleTable \union {id} \in SUBSET Nat
    BY <1>1, <1>3, <2>1
  <2>3. roleTable' \in [DOMAIN roleTable \union {id} -> AcctPerms]
    BY <1>2, <1>4, <2>1
  <2>4. QED
    BY <1>2, <2>2, <2>3, AcctListFacts
<1>6. AcctSound
  <2>1. lastRole' \in Nat /\ lastRole <= lastRole' /\ DOMAIN roleTable' \subseteq 1 .. lastRole'
    BY <1>1, <1>3, <1>5
  <2>2. \A u \in DOMAIN accounts' : accounts'[u].roles \subseteq DOMAIN roleTable'
    BY <1>1, <1>2, <1>5
  <2>3. QED
    BY <1>1, <1>2, <1>5, <2>1, <2>2 DEF AcctSound
<1>7. AcctStillSame
  <2> SUFFICES ASSUME NEW list \in AcctLists, \A u \in DOMAIN list : list[u].roles \subseteq 1 .. lastRole,
                      AcctSame(list, accounts, DOMAIN roleTable)
               PROVE  AcctSame(list, accounts, DOMAIN roleTable')
    BY <1>2 DEF AcctStillSame
  <2>1. id \in DOMAIN roleTable \/ id \notin 1 .. lastRole
    BY <1>1, <1>3
  <2>2. ASSUME NEW u \in DOMAIN accounts
        PROVE  list[u].roles \intersect DOMAIN roleTable' = list[u].roles \intersect DOMAIN roleTable
    BY <1>5, <2>1 DEF AcctSame
  <2>3. QED
    BY <2>2 DEF AcctSame
<1>8. QED
  BY <1>6, <1>7

\* A user is made, changed or removed.
LEMMA AcctSaveUser ==
  ASSUME AcctIInv, NEW r \in AcctReqs, AcctReqInv(r),
         Accounts!UpdateAccess(r) \/ Accounts!UpdateDisabled(r) \/ Accounts!CreateAccount(r) \/ Accounts!DeleteAccount(r)
  PROVE  AcctSound /\ Accounts!OnUsers(r)
<1>1. /\ accounts \in AcctLists /\ roleTable \in AcctRoles /\ lastRole \in Nat
      /\ DOMAIN roleTable \subseteq 1 .. lastRole
      /\ \A u \in DOMAIN accounts : accounts[u].roles \subseteq DOMAIN roleTable
  BY DEF AcctIInv, AcctTypeOK, AcctRolesInv
<1>2. DOMAIN accounts \in SUBSET AcctNames /\ \A u \in DOMAIN accounts : accounts[u] \in AcctRows
  BY <1>1, AcctListFacts
<1>3. r.roles \in SUBSET Nat /\ r.perms \in AcctPerms /\ r.disabled \in BOOLEAN
  BY DEF AcctReqs
<1>4. UNCHANGED <<roleTable, lastRole>> /\ Accounts!OnUsers(r)
  BY DEF Accounts!UpdateAccess, Accounts!UpdateDisabled, Accounts!CreateAccount, Accounts!DeleteAccount, Accounts!OnUsers
<1>5. SUFFICES accounts' \in AcctLists /\ \A u \in DOMAIN accounts' : accounts'[u].roles \subseteq DOMAIN roleTable
  BY <1>1, <1>4 DEF AcctSound
<1>6. CASE Accounts!UpdateAccess(r)
  <2> DEFINE t == r.target
             R == IF Accounts!AssignsRoles(r) THEN r.roles ELSE accounts[t].roles
             a == [disabled |-> accounts[t].disabled, roles |-> R, custom |-> r.perms]
  <2>1. t \in DOMAIN accounts /\ R \subseteq DOMAIN roleTable /\ t \in AcctNames
    BY <1>1, <1>2, <1>6 DEF Accounts!UpdateAccess
  <2>2. accounts' = [accounts EXCEPT ![t].roles = R, ![t].custom = r.perms]
    BY <1>6 DEF Accounts!UpdateAccess
  <2>3. R \in SUBSET Nat /\ a \in AcctRows
    BY <1>2, <1>3, <2>1 DEF AcctRows
  <2>4. accounts' = [accounts EXCEPT ![t] = a]
    <3>1. accounts[t] \in AcctRows
      BY <1>2, <2>1
    <3>2. [[accounts[t] EXCEPT !.roles = R] EXCEPT !.custom = r.perms] = a
      <4> HIDE DEF R
      <4>1. accounts[t] = [disabled |-> accounts[t].disabled, roles |-> accounts[t].roles, custom |-> accounts[t].custom]
        BY <3>1 DEF AcctRows
      <4>2. [accounts[t] EXCEPT !.roles = R]
              = [disabled |-> accounts[t].disabled, roles |-> R, custom |-> accounts[t].custom]
        BY <4>1
      <4>3. [[disabled |-> accounts[t].disabled, roles |-> R, custom |-> accounts[t].custom] EXCEPT !.custom = r.perms]
              = [disabled |-> accounts[t].disabled, roles |-> R, custom |-> r.perms]
        OBVIOUS
      <4>4. QED
        BY <4>2, <4>3
    <3>3. accounts' = [accounts EXCEPT ![t] = [[accounts[t] EXCEPT !.roles = R] EXCEPT !.custom = r.perms]]
      <4> HIDE DEF R
      <4>1. QED
        BY <2>1, <2>2
    <3>4. QED
      BY <3>2, <3>3
  <2>5. accounts' \in AcctLists
    BY <1>1, <2>1, <2>3, <2>4, AcctChanged
  <2>6. \A u \in DOMAIN accounts' : accounts'[u].roles \subseteq DOMAIN roleTable
    BY <1>1, <2>1, <2>4
  <2>7. QED
    BY <2>5, <2>6
<1>7. CASE Accounts!UpdateDisabled(r)
  <2>1. accounts' = [u \in DOMAIN accounts |->
                       IF u = r.target THEN [accounts[u] EXCEPT !.disabled = r.disabled] ELSE accounts[u]]
    BY <1>7 DEF Accounts!UpdateDisabled
  <2>2. \A u \in DOMAIN accounts :
          /\ [accounts[u] EXCEPT !.disabled = r.disabled] \in AcctRows
          /\ [accounts[u] EXCEPT !.disabled = r.disabled].roles = accounts[u].roles
    BY <1>2, <1>3 DEF AcctRows
  <2>3. /\ accounts' \in [DOMAIN accounts -> AcctRows] /\ DOMAIN accounts' = DOMAIN accounts
        /\ \A u \in DOMAIN accounts : accounts'[u].roles = accounts[u].roles
    BY <1>2, <2>1, <2>2
  <2>4. accounts' \in AcctLists
    BY <1>2, <2>3, AcctListFacts
  <2>5. QED
    BY <1>1, <2>3, <2>4
<1>8. CASE Accounts!CreateAccount(r)
  <2> DEFINE R == IF r.roles \subseteq DOMAIN roleTable THEN r.roles ELSE {}
             a == [disabled |-> FALSE, roles |-> R, custom |-> r.perms]
  <2>1. r.target = "eve" /\ r.target \in AcctNames
    BY <1>8 DEF AcctReqInv, Accounts!CreateAccount, AcctNames
  <2>2. accounts' = [u \in DOMAIN accounts \union {r.target} |-> IF u = r.target THEN a ELSE accounts[u]]
    BY <1>8 DEF Accounts!CreateAccount, Accounts!Account
  <2>3. a \in AcctRows /\ a.roles \subseteq DOMAIN roleTable
    BY <1>3 DEF AcctRows
  <2> HIDE DEF a
  <2>4. accounts' \in AcctLists
    BY <1>1, <2>1, <2>2, <2>3, AcctChanged
  <2>5. QED
    BY <1>1, <2>2, <2>3, <2>4
<1>9. CASE Accounts!DeleteAccount(r)
  <2>1. accounts' = [u \in DOMAIN accounts \ {r.target} |-> accounts[u]]
    BY <1>9 DEF Accounts!DeleteAccount
  <2>2. DOMAIN accounts \ {r.target} \in SUBSET AcctNames /\ accounts' \in [DOMAIN accounts \ {r.target} -> AcctRows]
    BY <1>2, <2>1
  <2>3. accounts' \in AcctLists
    BY <2>2, AcctListFacts
  <2>4. QED
    BY <1>1, <2>1, <2>3
<1>10. QED
  BY <1>6, <1>7, <1>8, <1>9

LEMMA AcctHandled ==
  ASSUME AcctIInv, NEW r \in requests, Accounts!Handle(r)
  PROVE  AcctSound /\ (~Accounts!OnUsers(r) => AcctStillSame)
<1>1. r \in AcctReqs /\ AcctReqInv(r)
  BY DEF AcctIInv, AcctTypeOK
<1>2. QED
  BY <1>1, AcctSaveUser, AcctSaveRole, AcctDeleteRole DEF Accounts!Handle

\* A request ends.
LEMMA AcctEnds ==
  ASSUME AcctIInv, NEW r \in requests, Accounts!RequestSucceeds(r) \/ Accounts!RequestFails(r)
  PROVE  AcctIInv'
<1>1. /\ AcctTypeOK /\ AcctRolesInv /\ AcctListInv /\ AcctFormInv(acctForm, acctPage)
      /\ \A q \in requests : AcctReqInv(q)
  BY DEF AcctIInv
<1>2. /\ requests' = requests \ {r} /\ acctPage' = acctPage
      /\ UNCHANGED <<others, userRows, roleRows, sent>>
  BY DEF Accounts!RequestSucceeds, Accounts!RequestFails, Accounts!lists
<1>3. \A q \in requests' : AcctReqInv(q)
  BY <1>1, <1>2
<1>4. acctForm' \in AcctForms \union {None} /\ AcctFormInv(acctForm', acctPage')
  <2>1. CASE acctForm' = acctForm \/ acctForm' = None
    BY <1>1, <1>2, <2>1 DEF AcctTypeOK, AcctFormInv
  <2>2. CASE acctForm # None /\ acctForm' = [acctForm EXCEPT !.save = 0]
    <3>1. acctForm \in AcctForms
      BY <1>1, <2>2 DEF AcctTypeOK
    <3>2. QED
      BY <1>1, <1>2, <2>2, <3>1 DEF AcctForms, AcctFormInv
  <2>3. QED
    BY <2>1, <2>2 DEF Accounts!RequestSucceeds, Accounts!RequestFails
<1>5. CASE Accounts!RequestSucceeds(r)
  <2>1. Accounts!Handle(r) /\ Accounts!Invalidate(r) /\ strayed' = strayed
    BY <1>5 DEF Accounts!RequestSucceeds
  <2>2. AcctSound /\ (~Accounts!OnUsers(r) => AcctStillSame)
    BY <2>1, AcctHandled
  <2>3. \/ Accounts!OnUsers(r) /\ acctPage = "users" /\ userFetch' = accounts' /\ UNCHANGED roleFetch
        \/ Accounts!OnUsers(r) /\ acctPage # "users" /\ UNCHANGED <<userFetch, roleFetch>>
        \/ ~Accounts!OnUsers(r) /\ roleFetch' = roleTable' /\ UNCHANGED userFetch
    BY <2>1 DEF Accounts!Invalidate, Accounts!InvalidateUsers
  <2>4. AcctTypeOK'
    BY <1>1, <1>2, <1>4, <2>1, <2>2, <2>3 DEF AcctTypeOK, AcctSound
  <2>5. AcctRolesInv'
    <3>1. \A S : S \subseteq 1 .. lastRole => S \subseteq 1 .. lastRole'
      BY <1>1, <2>2 DEF AcctTypeOK, AcctSound
    <3>2. \A u \in DOMAIN accounts' : accounts'[u].roles \subseteq 1 .. lastRole'
      BY <2>2 DEF AcctSound
    <3>3. QED
      BY <1>1, <1>2, <2>2, <2>3, <3>1, <3>2 DEF AcctRolesInv, AcctSound
  <2>6. AcctListInv'
    <3> SUFFICES ASSUME ~strayed, others = 0
                 PROVE  /\ userFetch' # None => AcctSame(userFetch', accounts', DOMAIN roleTable')
                        /\ userFetch' = None => AcctSame(userRows, accounts', DOMAIN roleTable')
                        /\ acctPage = "roles" => \A q \in requests' : ~Accounts!OnUsers(q)
      BY <1>2, <2>1 DEF AcctListInv, Accounts!OnUsers
    <3>1. acctPage = "roles" => \A q \in requests : ~Accounts!OnUsers(q)
      BY <1>1 DEF AcctListInv
    <3>2. CASE Accounts!OnUsers(r)
      <4>1. acctPage = "users" /\ userFetch' = accounts'
        BY <1>1, <2>3, <3>1, <3>2 DEF AcctTypeOK
      <4>2. accounts' # None /\ \A u \in DOMAIN accounts' : accounts'[u].roles \intersect DOMAIN roleTable' = accounts'[u].roles
        BY <2>2, AcctListFacts DEF AcctSound
      <4>3. QED
        BY <4>1, <4>2 DEF AcctSame
    <3>3. CASE ~Accounts!OnUsers(r)
      <4>1. AcctStillSame /\ userFetch' = userFetch
        BY <2>2, <2>3, <3>3
      <4>2. userRows \in AcctLists /\ \A u \in DOMAIN userRows : userRows[u].roles \subseteq 1 .. lastRole
        BY <1>1 DEF AcctTypeOK, AcctRolesInv
      <4>3. userFetch # None => /\ userFetch \in AcctLists
                                /\ \A u \in DOMAIN userFetch : userFetch[u].roles \subseteq 1 .. lastRole
        BY <1>1 DEF AcctTypeOK, AcctRolesInv
      <4>4. /\ userFetch # None => AcctSame(userFetch, accounts, DOMAIN roleTable)
            /\ userFetch = None => AcctSame(userRows, accounts, DOMAIN roleTable)
        BY <1>1 DEF AcctListInv
      <4>5. QED
        BY <1>2, <3>1, <4>1, <4>2, <4>3, <4>4 DEF AcctStillSame
    <3>4. QED
      BY <3>2, <3>3
  <2>7. QED
    BY <1>3, <1>4, <2>4, <2>5, <2>6 DEF AcctIInv, AcctFormInv, AcctReqInv
<1>6. CASE Accounts!RequestFails(r) /\ UNCHANGED <<accounts, roleTable, lastRole, strayed>>
  <2>1. UNCHANGED <<userFetch, roleFetch>>
    BY <1>6 DEF Accounts!RequestFails, Accounts!lists
  <2>2. AcctTypeOK'
    BY <1>1, <1>2, <1>4, <1>6, <2>1 DEF AcctTypeOK
  <2>3. AcctRolesInv' /\ AcctListInv'
    BY <1>1, <1>2, <1>6, <2>1 DEF AcctRolesInv, AcctListInv
  <2>4. QED
    BY <1>3, <1>4, <2>2, <2>3 DEF AcctIInv, AcctFormInv, AcctReqInv
<1>7. CASE Accounts!RequestFails(r) /\ Accounts!Handle(r) /\ strayed' = TRUE
  <2>1. UNCHANGED <<userFetch, roleFetch>>
    BY <1>7 DEF Accounts!RequestFails, Accounts!lists
  <2>2. AcctSound
    BY <1>7, AcctHandled
  <2>3. AcctTypeOK'
    BY <1>1, <1>2, <1>4, <1>7, <2>1, <2>2 DEF AcctTypeOK, AcctSound
  <2>4. AcctRolesInv'
    <3>1. \A S : S \subseteq 1 .. lastRole => S \subseteq 1 .. lastRole'
      BY <1>1, <2>2 DEF AcctTypeOK, AcctSound
    <3>2. QED
      BY <1>1, <1>2, <2>1, <2>2, <3>1 DEF AcctRolesInv, AcctSound
  <2>5. AcctListInv'
    BY <1>7 DEF AcctListInv
  <2>6. QED
    BY <1>3, <1>4, <2>3, <2>4, <2>5 DEF AcctIInv, AcctFormInv, AcctReqInv
<1>8. QED
  BY <1>5, <1>6, <1>7 DEF Accounts!RequestFails

\* Somebody else gives or takes a role, or deletes it.
LEMMA AcctElse ==
  ASSUME AcctIInv, Accounts!SomebodyElse
  PROVE  AcctIInv'
<1>1. /\ AcctTypeOK /\ AcctRolesInv /\ AcctFormInv(acctForm, acctPage) /\ \A q \in requests : AcctReqInv(q)
  BY DEF AcctIInv
<1>2. /\ sent' = sent + 1 /\ others' = others + 1
      /\ UNCHANGED <<userRows, roleRows, userFetch, roleFetch, acctPage, acctForm, requests, strayed>>
  BY DEF Accounts!SomebodyElse, Accounts!lists
<1>3. AcctSound
  <2>1. CASE Accounts!DeleteRole(Accounts!Request("removeRole", Accounts!DevRole))
    BY <2>1, AcctDeleteRole
  <2>2. ASSUME "bob" \in DOMAIN accounts, Accounts!DevRole \in DOMAIN roleTable,
               accounts' = [accounts EXCEPT !["bob"].roles = IF Accounts!DevRole \in @ THEN @ \ {Accounts!DevRole}
                                                             ELSE @ \union {Accounts!DevRole}],
               UNCHANGED <<roleTable, lastRole>>
        PROVE  AcctSound
    <3> DEFINE old == accounts["bob"]
               R == IF Accounts!DevRole \in old.roles THEN old.roles \ {Accounts!DevRole}
                    ELSE old.roles \union {Accounts!DevRole}
               a == [old EXCEPT !.roles = R]
    <3>1. accounts \in AcctLists /\ old \in AcctRows /\ old.roles \subseteq DOMAIN roleTable /\ "bob" \in AcctNames
      BY <1>1, <2>2, AcctListFacts DEF AcctTypeOK, AcctRolesInv, AcctNames
    <3>2. R \subseteq DOMAIN roleTable /\ R \in SUBSET Nat
      BY <2>2, <3>1 DEF AcctRows, Accounts!DevRole
    <3>3. accounts' = [accounts EXCEPT !["bob"] = a]
      BY <2>2
    <3> HIDE DEF R
    <3>4. a \in AcctRows /\ a.roles = R
      BY <3>1, <3>2 DEF AcctRows
    <3> HIDE DEF a, old
    <3>5. accounts' \in AcctLists
      <4>1. "bob" \in DOMAIN accounts
        BY <2>2
      <4>2. [accounts EXCEPT !["bob"] = a] \in AcctLists
        BY <3>1, <3>4, <4>1, AcctChanged
      <4>3. QED
        BY <3>3, <4>2
    <3>6. \A u \in DOMAIN accounts' : accounts'[u].roles \subseteq DOMAIN roleTable
      BY <1>1, <2>2, <3>2, <3>3, <3>4 DEF AcctRolesInv
    <3>7. QED
      BY <1>1, <2>2, <3>5, <3>6 DEF AcctSound, AcctTypeOK, AcctRolesInv
  <2>3. QED
    BY <2>1, <2>2 DEF Accounts!SomebodyElse
<1>4. AcctTypeOK'
  BY <1>1, <1>2, <1>3 DEF AcctTypeOK, AcctSound
<1>5. AcctRolesInv'
  <2>1. \A S : S \subseteq 1 .. lastRole => S \subseteq 1 .. lastRole'
    BY <1>1, <1>3 DEF AcctTypeOK, AcctSound
  <2>2. QED
    BY <1>1, <1>2, <1>3, <2>1 DEF AcctRolesInv, AcctSound
<1>6. AcctListInv'
  BY <1>1, <1>2 DEF AcctListInv, AcctTypeOK
<1>7. QED
  BY <1>1, <1>2, <1>4, <1>5, <1>6 DEF AcctIInv, AcctFormInv, AcctReqInv

\* A list is as the tables are.
LEMMA AcctSelfSame ==
  ASSUME AcctIInv
  PROVE  /\ AcctSame(accounts, accounts, DOMAIN roleTable) /\ accounts \in AcctLists /\ accounts # None
         /\ \A u \in DOMAIN accounts : accounts[u].roles \subseteq 1 .. lastRole
BY AcctListFacts DEF AcctIInv, AcctTypeOK, AcctRolesInv, AcctSame

\* The lists arrive and are fetched, and the pages are changed.
LEMMA AcctListStep ==
  ASSUME AcctIInv,
         \/ Accounts!UsersArrive \/ Accounts!RolesArrive \/ Accounts!FocusRefetch
         \/ \E p \in {"users", "roles"} : Accounts!GoTo(p)
  PROVE  AcctIInv'
<1>1. /\ AcctTypeOK /\ AcctRolesInv /\ AcctListInv /\ AcctFormInv(acctForm, acctPage)
      /\ \A q \in requests : AcctReqInv(q)
  BY DEF AcctIInv
<1>2. /\ UNCHANGED <<accounts, roleTable, lastRole, others, acctForm, sent>>
  BY DEF Accounts!UsersArrive, Accounts!RolesArrive, Accounts!FocusRefetch, Accounts!GoTo, Accounts!tables
<1>3. CASE Accounts!UsersArrive
  <2>1. /\ userFetch # None /\ userFetch' = None /\ userRows' = userFetch
        /\ UNCHANGED <<roleRows, roleFetch, acctPage, requests, strayed>>
    BY <1>3 DEF Accounts!UsersArrive
  <2>2. AcctTypeOK'
    BY <1>1, <1>2, <2>1 DEF AcctTypeOK
  <2>3. AcctRolesInv' /\ AcctListInv'
    BY <1>1, <1>2, <2>1 DEF AcctRolesInv, AcctListInv
  <2>4. QED
    BY <1>1, <1>2, <2>1, <2>2, <2>3 DEF AcctIInv, AcctFormInv, AcctReqInv
<1>4. CASE Accounts!RolesArrive
  <2>1. /\ roleFetch # None /\ roleFetch' = None /\ roleRows' = roleFetch
        /\ UNCHANGED <<userRows, userFetch, acctPage, requests, strayed>>
    BY <1>4 DEF Accounts!RolesArrive
  <2>2. AcctTypeOK'
    BY <1>1, <1>2, <2>1 DEF AcctTypeOK
  <2>3. AcctRolesInv' /\ AcctListInv'
    BY <1>1, <1>2, <2>1 DEF AcctRolesInv, AcctListInv
  <2>4. QED
    BY <1>1, <1>2, <2>1, <2>2, <2>3 DEF AcctIInv, AcctFormInv, AcctReqInv
<1>5. CASE Accounts!FocusRefetch
  <2>1. /\ userFetch = None /\ userFetch' \in {accounts, None} /\ roleFetch' = roleTable
        /\ UNCHANGED <<userRows, roleRows, acctPage, requests, strayed>>
    BY <1>5 DEF Accounts!FocusRefetch
  <2>2. AcctTypeOK'
    BY <1>1, <1>2, <2>1 DEF AcctTypeOK
  <2>3. AcctRolesInv' /\ AcctListInv'
    BY <1>1, <1>2, <2>1, AcctSelfSame DEF AcctRolesInv, AcctListInv
  <2>4. QED
    BY <1>1, <1>2, <2>1, <2>2, <2>3 DEF AcctIInv, AcctFormInv, AcctReqInv
<1>6. ASSUME NEW p \in {"users", "roles"}, Accounts!GoTo(p) PROVE AcctIInv'
  <2>1. /\ acctForm = None /\ acctPage' = p /\ (strayed' = (strayed \/ requests # {} \/ userFetch # None))
        /\ (userFetch = None /\ userFetch' = accounts) \/ UNCHANGED userFetch
        /\ UNCHANGED <<userRows, roleRows, roleFetch>>
    BY <1>6 DEF Accounts!GoTo, Accounts!NoDialog
  <2>2. requests' = {[q EXCEPT !.mounted = FALSE] : q \in requests}
    BY <1>6 DEF Accounts!GoTo
  <2>3. ASSUME NEW q \in requests
        PROVE  [q EXCEPT !.mounted = FALSE] \in AcctReqs /\ AcctReqInv([q EXCEPT !.mounted = FALSE])
    <3>1. q \in AcctReqs /\ AcctReqInv(q)
      BY <1>1 DEF AcctTypeOK
    <3> DEFINE m == [q EXCEPT !.mounted = FALSE]
    <3>2. /\ m \in AcctReqs /\ m.op = q.op /\ m.target = q.target /\ m.clear = q.clear /\ m.roles = q.roles
          /\ m.row = q.row /\ m.ticked = q.ticked /\ m.perms = q.perms
      BY <3>1 DEF AcctReqs
    <3> HIDE DEF m
    <3>3. AcctReqInv(m)
      BY <3>1, <3>2 DEF AcctReqInv
    <3>4. QED
      BY <3>2, <3>3 DEF m
  <2>4. requests' \subseteq AcctReqs /\ \A q \in requests' : AcctReqInv(q)
    BY <2>2, <2>3
  <2>5. strayed' \in BOOLEAN /\ (~strayed' => ~strayed /\ requests = {} /\ userFetch = None)
    BY <2>1
  <2>6. AcctTypeOK'
    BY <1>1, <1>2, <2>1, <2>4, <2>5 DEF AcctTypeOK
  <2>7. AcctRolesInv'
    BY <1>1, <1>2, <2>1, AcctSelfSame DEF AcctRolesInv
  <2>8. AcctListInv'
    <3>1. ~strayed' => requests' = {}
      BY <2>2, <2>5
    <3>2. QED
      BY <1>1, <1>2, <2>1, <2>5, <3>1, AcctSelfSame DEF AcctListInv
  <2>9. QED
    BY <1>2, <2>1, <2>4, <2>6, <2>7, <2>8 DEF AcctIInv, AcctFormInv, AcctReqInv
<1>7. QED
  BY <1>3, <1>4, <1>5, <1>6

LEMMA AcctNextIInv ==
  ASSUME AcctIInv, Accounts!Next \/ UNCHANGED acctVars
  PROVE  AcctIInv'
<1>1. CASE UNCHANGED acctVars
  BY <1>1 DEF acctVars, AcctIInv, AcctTypeOK, AcctRolesInv, AcctListInv, AcctFormInv, AcctReqInv
<1>2. ASSUME Accounts!CloseForm PROVE AcctIInv'
  <2>1. acctForm' = None /\ AcctFormInv(acctForm', acctPage')
    BY <1>2 DEF Accounts!CloseForm, AcctFormInv
  <2>2. QED
    BY <1>2, <2>1, AcctDialog DEF Accounts!CloseForm, Accounts!tables, Accounts!lists
<1>3. ASSUME Accounts!CreateUserDialog \/ Accounts!EditAccessDialog PROVE AcctIInv'
  <2>1. acctForm # None
    BY <1>3 DEF Accounts!CreateUserDialog, Accounts!EditAccessDialog, Accounts!InDialog
  <2>2. QED
    BY <1>2, <1>3, <2>1, AcctFields, AcctSends DEF Accounts!CreateUserDialog, Accounts!EditAccessDialog
<1>4. ASSUME Accounts!RoleEditor PROVE AcctIInv'
  <2>1. acctForm # None
    BY <1>4 DEF Accounts!RoleEditor, Accounts!InDialog
  <2>2. QED
    BY <1>2, <1>4, <2>1, AcctFields, AcctSends DEF Accounts!RoleEditor, Accounts!AccessFields
<1>5. CASE Accounts!Users
  BY <1>3, <1>5, AcctOpens, AcctSends DEF Accounts!Users
<1>6. CASE Accounts!Roles
  BY <1>4, <1>6, AcctOpens, AcctSends DEF Accounts!Roles, Accounts!RoleCard
<1>7. CASE Accounts!Next
  BY <1>5, <1>6, <1>7, AcctEnds, AcctElse, AcctListStep DEF Accounts!Next
<1>8. QED
  BY <1>1, <1>7

\* AccessAsShown: a save of a user's access changes only what was ticked in its
\* dialog (EditAccessDialog), and the list of users is what the server has once
\* every request and fetch is answered, but for roles deleted meanwhile.
THEOREM AccessIsAsShown == Spec => []AccessAsShown
<1> DEFINE Inv == page = "accounts" => AcctIInv
<1>1. Init => Inv
  BY AcctInitIInv DEF Init
<1>2. Inv /\ [Next]_vars => Inv'
  BY AcctNextIInv, PageSteps
<1>3. AcctIInv => Accounts!OnlyTicked
  BY DEF AcctIInv, AcctReqInv, Accounts!OnlyTicked
<1>4. ASSUME AcctIInv PROVE Accounts!UsersConverge
  <2> SUFFICES ASSUME userFetch = None, ~strayed, others = 0
               PROVE  /\ DOMAIN userRows = DOMAIN accounts
                      /\ \A u \in DOMAIN accounts :
                           [userRows[u] EXCEPT !.roles = @ \intersect DOMAIN roleTable] = accounts[u]
    BY DEF Accounts!UsersConverge
  <2>1. AcctSame(userRows, accounts, DOMAIN roleTable) /\ userRows \in AcctLists /\ accounts \in AcctLists
    BY <1>4 DEF AcctIInv, AcctTypeOK, AcctListInv
  <2>2. ASSUME NEW u \in DOMAIN accounts
        PROVE  [userRows[u] EXCEPT !.roles = @ \intersect DOMAIN roleTable] = accounts[u]
    <3>1. userRows[u] \in AcctRows /\ accounts[u] \in AcctRows
      BY <2>1, AcctListFacts DEF AcctSame
    <3>2. /\ userRows[u].disabled = accounts[u].disabled /\ userRows[u].custom = accounts[u].custom
          /\ userRows[u].roles \intersect DOMAIN roleTable = accounts[u].roles
      BY <2>1 DEF AcctSame
    <3>3. QED
      BY <3>1, <3>2 DEF AcctRows
  <2>3. QED
    BY <2>1, <2>2 DEF AcctSame
<1>5. Inv => AccessAsShown
  BY <1>3, <1>4 DEF AccessAsShown, Accounts!AccessAsShown
<1>6. QED
  BY <1>1, <1>2, <1>5, PTL DEF Spec

-----------------------------------------------------------------------------
(***************************************************************************)
(* What no step of a page takes away.                                      *)
(***************************************************************************)
\* The roles of a user change by a save in role mode or with a role.
LEMMA RolesAreKept ==
  ASSUME AcctIInv, Accounts!Next \/ UNCHANGED acctVars
  PROVE  Accounts!RolesKept
<1> SUFFICES ASSUME others' = others, NEW u \in DOMAIN accounts, u \in DOMAIN accounts',
                    accounts'[u].roles # accounts[u].roles
             PROVE  \E r \in requests \ requests' :
                      (r.op = "access" /\ r.clear /\ r.target = u) \/ r.op = "removeRole"
  BY DEF Accounts!RolesKept
<1>1. accounts' # accounts
  OBVIOUS
<1>2. PICK r \in requests : (Accounts!RequestSucceeds(r) \/ Accounts!RequestFails(r)) /\ Accounts!Handle(r)
  <2>1. ~UNCHANGED acctVars
    BY <1>1 DEF acctVars
  <2>2. ~Accounts!Users /\ ~Accounts!Roles
    BY <1>1 DEF Accounts!Users, Accounts!Roles, Accounts!OpenCreateUser, Accounts!OpenEditAccess,
                Accounts!OpenNewRole,
                Accounts!OpenRole, Accounts!Opens, Accounts!CreateUserDialog, Accounts!EditAccessDialog,
                Accounts!RoleEditor, Accounts!RoleCard, Accounts!AccessFields, Accounts!SetMode, Accounts!RoleSelector,
                Accounts!PermissionBuilder, Accounts!AddPermission, Accounts!RemovePermission, Accounts!ProjectSelect,
                Accounts!ToggleAction, Accounts!SetPerms, Accounts!Edits, Accounts!SetForm, Accounts!CloseForm,
                Accounts!CreateUser, Accounts!SaveAccess, Accounts!SaveRole, Accounts!ToggleDisabled,
                Accounts!RemoveUser, Accounts!RemoveRole, Accounts!Send, Accounts!tables
  <2>3. /\ ~Accounts!UsersArrive /\ ~Accounts!RolesArrive /\ ~Accounts!FocusRefetch
        /\ ~\E p \in {"users", "roles"} : Accounts!GoTo(p)
    BY <1>1 DEF Accounts!UsersArrive, Accounts!RolesArrive, Accounts!FocusRefetch, Accounts!GoTo, Accounts!tables
  <2>4. others \in Nat
    BY DEF AcctIInv, AcctTypeOK
  <2>5. ~Accounts!SomebodyElse
    BY <2>4 DEF Accounts!SomebodyElse
  <2>6. PICK r \in requests : Accounts!RequestSucceeds(r) \/ Accounts!RequestFails(r)
    BY <2>1, <2>2, <2>3, <2>5 DEF Accounts!Next
  <2>7. Accounts!Handle(r)
    BY <1>1, <2>6 DEF Accounts!RequestSucceeds, Accounts!RequestFails
  <2>8. QED
    BY <2>6, <2>7
<1>3. r \in requests \ requests'
  BY <1>2 DEF Accounts!RequestSucceeds, Accounts!RequestFails
<1>4. accounts \in AcctLists /\ accounts[u] \in AcctRows /\ AcctReqInv(r)
  BY AcctListFacts DEF AcctIInv, AcctTypeOK
<1>5. CASE Accounts!UpdateAccess(r)
  <2>1. accounts' = [accounts EXCEPT ![r.target].roles = IF Accounts!AssignsRoles(r) THEN r.roles ELSE @,
                                     ![r.target].custom = r.perms]
        /\ r.op = "access" /\ r.target \in DOMAIN accounts
    BY <1>5 DEF Accounts!UpdateAccess
  <2>2. r.target = u
    BY <2>1
  <2>3. accounts[r.target] \in AcctRows
    BY <1>4, <2>2
  <2>4. Accounts!AssignsRoles(r)
    BY <2>1, <2>2, <2>3 DEF AcctRows
  <2>5. r.clear
    BY <1>4, <2>1, <2>4 DEF Accounts!AssignsRoles, AcctReqInv
  <2>6. QED
    BY <1>3, <2>1, <2>2, <2>5
<1>6. CASE Accounts!UpdateDisabled(r)
  BY <1>4, <1>6 DEF Accounts!UpdateDisabled, AcctRows
<1>7. CASE Accounts!CreateAccount(r) \/ Accounts!DeleteAccount(r)
  BY <1>7 DEF Accounts!CreateAccount, Accounts!DeleteAccount
<1>8. CASE Accounts!CreateOrUpdateRole(r)
  BY <1>1, <1>8 DEF Accounts!CreateOrUpdateRole
<1>9. CASE Accounts!DeleteRole(r)
  BY <1>3, <1>9 DEF Accounts!DeleteRole
<1>10. QED
  BY <1>2, <1>5, <1>6, <1>7, <1>8, <1>9 DEF Accounts!Handle

\* What is asked to be removed from the page of images is shown there as unused.
LEMMA ShownUnusedOnly ==
  ASSUME Docker!Next \/ UNCHANGED dockVars, DockIInv
  PROVE  Docker!OnlyShownUnused
<1> SUFFICES ASSUME dockKind = "images", NEW r \in removals' \ removals, ~r.some, NEW i \in r.todo
             PROVE  i \in DOMAIN Docker!Shown /\ ~Docker!Shown[i]
  BY DEF Docker!OnlyShownUnused
<1>1. CASE Docker!ConfirmRemove
  <2>1. removals' = removals \union {[n |-> tasks', todo |-> Docker!deletableSelected, some |-> FALSE]}
    BY <1>1 DEF Docker!ConfirmRemove, Docker!StartRemoval
  <2>2. r.todo = Docker!deletableSelected
    BY <2>1
  <2>3. QED
    BY <2>2 DEF Docker!deletableSelected
<1>2. ASSUME NEW q \in removals, Docker!RemoveNext(q) PROVE FALSE
  <2>1. PICK j : removals' = (removals \ {q}) \union {[q EXCEPT !.todo = @ \ {j}, !.some = TRUE]}
    BY <1>2 DEF Docker!RemoveNext
  <2>2. q \in [n : Nat, todo : SUBSET Docker!Ids, some : BOOLEAN]
    BY DEF DockIInv, DockTypeOK
  <2>3. r = [q EXCEPT !.todo = @ \ {j}, !.some = TRUE]
    BY <2>1
  <2>4. QED
    BY <2>2, <2>3
<1>3. ASSUME removals' \subseteq removals PROVE FALSE
  BY <1>3
<1>4. QED
  BY <1>1, <1>2, <1>3
     DEF Docker!Next, Docker!Containers, Docker!Networks, Docker!Volumes, Docker!Images, dockVars, Docker!rest,
         Docker!forms, Docker!Search, Docker!toggleAll, Docker!AskRemove, Docker!CancelDelete, Docker!toggleSelect,
         Docker!Refetch, Docker!SomebodyElse, Docker!ListArrives, Docker!RemovalSucceeds, Docker!RemovalFails

\* NothingElseTaken: no step takes a role from a user but a save in role mode
\* and the deletion of the role (users.go), and an image is asked to be removed
\* only while the page shows it, and shows it unused (deletableSelected).
THEOREM NothingElseIsTaken == Spec => NothingElseTaken
<1> DEFINE Inv == (page = "accounts" => AcctIInv) /\ (page = "docker" => DockIInv)
           Kept == (page = "accounts" => Accounts!RolesKept) /\ (page = "docker" => Docker!OnlyShownUnused)
<1>1. Init => Inv
  BY AcctInitIInv, DockInitIInv DEF Init
<1>2. Inv /\ [Next]_vars => Inv'
  BY AcctNextIInv, DockNextIInv, PageSteps
<1>3. Inv /\ [Next]_vars => Kept
  BY RolesAreKept, ShownUnusedOnly, PageSteps
<1>4. QED
  BY <1>1, <1>2, <1>3, PTL DEF Spec, NothingElseTaken

=============================================================================
