------------------------------ MODULE Session -------------------------------
(***************************************************************************)
(* Who is signed in, in one browser tab.  The session cookie is shared by  *)
(* the tabs; what this tab shows follows the query ["me"] through the two  *)
(* guards of the router, and the pages fill the same query cache.          *)
(***************************************************************************)
CONSTANTS
  SessUsers,
  NoUser

VARIABLES
  cookie,     \* the user of the session cookie, or NoUser
  route,      \* "app" (behind AuthGuard) or "login" (behind LoginGuard)
  me,         \* the query ["me"]: its status, and the data, kept when a later fetch fails
  meFetch,    \* whether it is being fetched, and the cookie the request has
  storeUser,  \* the user of the auth store
  pages,      \* the user whose data the pages have in the cache
  pageFetch,  \* a fetch of such data, and the cookie it has
  signin,     \* the user whose sign-in is in flight, or NoUser
  signout,    \* a sign-out is in flight
  kept,       \* history: the cache was not emptied when the session ended
  untold      \* history: ["me"] missed a change of the cookie

vars == <<cookie, route, me, meFetch, storeUser, pages, pageFetch, signin, signout, kept, untold>>

NoFetch == [on |-> FALSE, as |-> NoUser]
Sent(u) == [on |-> TRUE, as |-> u]

Init ==
  /\ cookie \in SessUsers \union {NoUser}
  /\ route \in {"app", "login"}
  /\ me = [status |-> "pending", data |-> NoUser] /\ meFetch = Sent(cookie)
  /\ storeUser = NoUser /\ pages = NoUser /\ pageFetch = NoFetch
  /\ signin = NoUser /\ signout = FALSE /\ kept = FALSE /\ untold = FALSE

\* What the guards show.
isLoading       == me.status = "pending"
isAuthenticated == me.status = "success"
AppShown        == route = "app" /\ isAuthenticated
LoginShown      == route = "login" /\ ~isLoading /\ ~isAuthenticated

\* A fetch of a query without data makes it pending again.
Fetching(m) == IF m.data = NoUser THEN [m EXCEPT !.status = "pending"] ELSE m

\* The effect that fills the auth store.
setUser(m) ==
  storeUser' = IF m.data # NoUser THEN m.data ELSE IF m.status = "error" THEN NoUser ELSE storeUser

-----------------------------------------------------------------------------
(***************************************************************************)
(* The query ["me"], and the redirects of the guards.                      *)
(***************************************************************************)
AuthGuard(m)  == IF m.status = "error" THEN "login" ELSE "app"
LoginGuard(m) == IF m.status = "success" THEN "app" ELSE "login"
Redirect(m)   == IF route = "app" THEN AuthGuard(m) ELSE LoginGuard(m)

\* The query has an answer.  The guard of another route fetches it once more
\* when it is mounted.
Answered(m) ==
  /\ setUser(m)
  /\ route' = Redirect(m)
  /\ IF route' = route THEN me' = m /\ meFetch' = NoFetch
     ELSE me' = Fetching(m) /\ meFetch' = Sent(cookie)

MeArrives ==
  /\ meFetch.on
  /\ Answered(IF meFetch.as = NoUser THEN [me EXCEPT !.status = "error"]
              ELSE [status |-> "success", data |-> meFetch.as])
  /\ untold' = (untold /\ route' = route)
  /\ UNCHANGED <<cookie, pages, pageFetch, signin, signout, kept>>

\* The server cannot be reached: the guard takes that for the end of the session.
MeFails ==
  /\ meFetch.on
  /\ Answered([me EXCEPT !.status = "error"])
  /\ kept' = TRUE /\ untold' = (route' = route)
  /\ UNCHANGED <<cookie, pages, pageFetch, signin, signout>>

\* The window is looked at again.
FocusRefetch ==
  /\ ~meFetch.on
  /\ me' = Fetching(me) /\ meFetch' = Sent(cookie) /\ untold' = FALSE
  /\ UNCHANGED <<cookie, route, storeUser, pages, pageFetch, signin, signout, kept>>

\* The session expires, or another tab signs in or out.
CookieChanges ==
  /\ \E u \in SessUsers \union {NoUser} : u # cookie /\ cookie' = u
  /\ kept' = TRUE /\ untold' = TRUE
  /\ UNCHANGED <<route, me, meFetch, storeUser, pages, pageFetch, signin, signout>>

-----------------------------------------------------------------------------
(***************************************************************************)
(* The pages.                                                              *)
(***************************************************************************)
LoadPage ==
  /\ AppShown /\ ~pageFetch.on
  /\ pageFetch' = Sent(cookie)
  /\ UNCHANGED <<cookie, route, me, meFetch, storeUser, pages, signin, signout, kept, untold>>

\* Without a session the answer is 401 and the cache keeps what it has.
PageArrives ==
  /\ pageFetch.on /\ pageFetch' = NoFetch
  /\ pages' = IF pageFetch.as = NoUser THEN pages ELSE pageFetch.as
  /\ UNCHANGED <<cookie, route, me, meFetch, storeUser, signin, signout, kept, untold>>

-----------------------------------------------------------------------------
(***************************************************************************)
(* Signing in and out.                                                     *)
(***************************************************************************)
onSubmit(u) ==
  /\ LoginShown /\ signin = NoUser
  /\ signin' = u
  /\ UNCHANGED <<cookie, route, me, meFetch, storeUser, pages, pageFetch, signout, kept, untold>>

\* refetchQueries: a fetch under way is given up when the query has data, and
\* otherwise it is the answer of the older one, sent without the new cookie,
\* that counts.
refetchMe(u) ==
  IF meFetch.on /\ me.data = NoUser
  THEN untold' = TRUE /\ UNCHANGED <<me, meFetch>>
  ELSE me' = Fetching(me) /\ meFetch' = Sent(u) /\ untold' = FALSE

LoginSucceeds ==
  /\ signin # NoUser /\ signin' = NoUser
  /\ cookie' = signin /\ refetchMe(signin)
  /\ kept' = (kept \/ cookie # NoUser)
  /\ UNCHANGED <<route, storeUser, pages, pageFetch, signout>>

LoginFails ==
  /\ signin # NoUser /\ signin' = NoUser
  /\ UNCHANGED <<cookie, route, me, meFetch, storeUser, pages, pageFetch, signout, kept, untold>>

handleLogout ==
  /\ AppShown /\ ~signout /\ signout' = TRUE
  /\ UNCHANGED <<cookie, route, me, meFetch, storeUser, pages, pageFetch, signin, kept, untold>>

\* Mutant: only the query of the user is dropped.
Clear_MeOnly ==
  /\ me' = [status |-> "pending", data |-> NoUser] /\ meFetch' = Sent(NoUser)
  /\ kept' = FALSE /\ untold' = FALSE /\ UNCHANGED <<pages, pageFetch>>

\* qc.clear(): no query is left, what was in flight is not heard any more; the
\* login page asks who is signed in anew.
Clear ==
  /\ me' = [status |-> "pending", data |-> NoUser] /\ meFetch' = Sent(NoUser)
  /\ pages' = NoUser /\ pageFetch' = NoFetch
  /\ kept' = FALSE /\ untold' = FALSE

LogoutSucceeds ==
  /\ signout /\ signout' = FALSE
  /\ cookie' = NoUser /\ Clear /\ route' = "login"
  /\ UNCHANGED <<storeUser, signin>>

LogoutFails ==
  /\ signout /\ signout' = FALSE
  /\ UNCHANGED <<cookie, route, me, meFetch, storeUser, pages, pageFetch, signin, kept, untold>>

-----------------------------------------------------------------------------
\* The two ends of the router.
Login     == (\E u \in SessUsers : onSubmit(u)) \/ LoginSucceeds \/ LoginFails
AppLayout == LoadPage \/ handleLogout \/ LogoutSucceeds \/ LogoutFails

Next == MeArrives \/ MeFails \/ FocusRefetch \/ CookieChanges \/ PageArrives \/ Login \/ AppLayout

Spec == Init /\ [][Next]_vars

-----------------------------------------------------------------------------
(***************************************************************************)
(* After a sign-out nobody who signs in is shown what the pages had        *)
(* fetched for the user before, however late an answer comes.  (When the   *)
(* session ends by itself, in another tab, or because the server cannot be *)
(* reached, the cache is not emptied and the next user does see it.)       *)
(***************************************************************************)
NothingKept == AppShown /\ ~kept => pages \in {NoUser, me.data}

(***************************************************************************)
(* Once ["me"] is answered, the application is shown exactly when there is *)
(* a session, to the user whose session it is; except while a change of    *)
(* the cookie has not been asked about.                                    *)
(***************************************************************************)
GuardFollowsSession ==
  ~meFetch.on /\ ~untold =>
    IF AppShown THEN cookie # NoUser /\ storeUser = cookie ELSE LoginShown /\ cookie = NoUser

(***************************************************************************)
(* What a tab shows follows the session, and nothing outlives a sign-out.  *)
(***************************************************************************)
SessionFollowed == NothingKept /\ GuardFollowsSession

=============================================================================
