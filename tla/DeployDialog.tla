---------------------------- MODULE DeployDialog ----------------------------
(***************************************************************************)
(* Starting, updating, stopping and deleting a project from its page       *)
(* (ProjectDetail): useDeployState, the dialog of the image update, and    *)
(* the buttons of the header.  A deploy runs on the server and reports     *)
(* through a WebSocket of its own; the server goes on when the socket is   *)
(* closed.                                                                 *)
(***************************************************************************)
EXTENDS Naturals

CONSTANTS MaxSockets  \* bound: deploys started from the page

VARIABLES
  deploying, logs, action,  \* useDeployState; logs: whether there are lines
  socket,      \* per deploy: "none", "open", "closing" (its close event is to come), "closed"
  job,         \* per deploy: "none", "running" or "ended" on the server
  wsRef,       \* the deploy of the latest socket, 0 before the first
  repullOpen,
  status,      \* the project: "running", "stopped" or "deleted", as last polled
  confirm,     \* the question that is asked: "none", "stop", "restart" or "delete"
  nameTyped,   \* whether the name was typed to confirm the deletion
  pending,     \* mutations in flight
  late         \* the close event of an earlier socket hid a deploy

vars == <<deploying, logs, action, socket, job, wsRef, repullOpen, status, confirm, nameTyped, pending, late>>
hook    == <<deploying, logs, action, socket, job, wsRef, late>>
buttons == <<status, confirm, nameTyped, pending>>

Sockets == 1 .. MaxSockets

Init ==
  /\ deploying = FALSE /\ logs = FALSE /\ action = "none"
  /\ socket = [s \in Sockets |-> "none"] /\ job = [s \in Sockets |-> "none"] /\ wsRef = 0
  /\ repullOpen = FALSE /\ status = "stopped" /\ confirm = "none" /\ nameTyped = FALSE
  /\ pending = {} /\ late = FALSE

\* A modal dialog covers the header.
Header == status # "deleted" /\ ~repullOpen /\ confirm = "none"

-----------------------------------------------------------------------------
(***************************************************************************)
(* useDeployState.                                                         *)
(***************************************************************************)
start(a) ==
  LET s == wsRef + 1
  IN  /\ s \in Sockets /\ wsRef' = s
      /\ deploying' = TRUE /\ action' = a /\ logs' = FALSE
      /\ socket' = [socket EXCEPT ![s] = "open"] /\ job' = [job EXCEPT ![s] = "running"]
      /\ UNCHANGED late

\* A line of the deploy's output.
onmessage(s) ==
  /\ socket[s] = "open" /\ job[s] = "running" /\ ~logs /\ logs' = TRUE
  /\ UNCHANGED <<deploying, action, socket, job, wsRef, late, repullOpen, buttons>>

\* The deploy ends and its last message, "done", arrives.  Success fetches the
\* list of projects again.
onmessageDone(s) ==
  /\ socket[s] = "open" /\ job[s] = "running"
  /\ job' = [job EXCEPT ![s] = "ended"] /\ socket' = [socket EXCEPT ![s] = "closing"]
  /\ deploying' = FALSE /\ logs' = TRUE
  /\ status' \in {status, "running"}
  /\ UNCHANGED <<action, wsRef, late, repullOpen, confirm, nameTyped, pending>>

\* A deploy that nobody listens to ends.
JobEnds(s) ==
  /\ socket[s] \in {"closing", "closed"} /\ job[s] = "running"
  /\ job' = [job EXCEPT ![s] = "ended"] /\ status' \in {status, "running"}
  /\ UNCHANGED <<deploying, logs, action, socket, wsRef, late, repullOpen, confirm, nameTyped, pending>>

\* The connection breaks.
Lose(s) ==
  /\ socket[s] = "open" /\ socket' = [socket EXCEPT ![s] = "closing"]
  /\ UNCHANGED <<deploying, logs, action, job, wsRef, late, repullOpen, buttons>>

\* The close event, after the error event (and its line) when the connection broke.
\* Which socket it is of is not looked at.
onclose(s) ==
  /\ socket[s] = "closing" /\ socket' = [socket EXCEPT ![s] = "closed"]
  /\ deploying' = FALSE /\ logs' \in {logs, TRUE}
  /\ late' = (late \/ (deploying /\ s # wsRef))
  /\ UNCHANGED <<action, job, wsRef, repullOpen, buttons>>

-----------------------------------------------------------------------------
(***************************************************************************)
(* RepullDialog.                                                           *)
(***************************************************************************)
\* Mutant: the log takes the place of the choice with its first line.
showLogs_FromFirstLine == logs

showLogs == deploying \/ logs

OpenRepull ==
  /\ Header /\ repullOpen' = TRUE
  /\ UNCHANGED <<hook, buttons>>

StartUpdate(a) ==
  /\ repullOpen /\ ~showLogs /\ action # "deploy" /\ start(a)
  /\ UNCHANGED <<repullOpen, buttons>>

\* "Dismiss", "Cancel" of the choice, or a click beside the dialog.
Dismiss ==
  /\ repullOpen /\ repullOpen' = FALSE
  /\ UNCHANGED <<hook, buttons>>

\* "Cancel update" closes the socket.
CancelUpdate ==
  /\ repullOpen /\ deploying /\ repullOpen' = FALSE
  /\ socket' = [socket EXCEPT ![wsRef] = IF @ = "open" THEN "closing" ELSE @]
  /\ deploying' = FALSE /\ logs' = FALSE
  /\ UNCHANGED <<action, job, wsRef, late, buttons>>

\* "Close".
CloseRepull ==
  /\ repullOpen /\ showLogs /\ ~deploying /\ repullOpen' = FALSE
  /\ logs' = FALSE /\ action' = "none"
  /\ UNCHANGED <<deploying, socket, job, wsRef, late, buttons>>

\* The choice, then the log.
RepullDialog ==
  \/ StartUpdate("repull_current") \/ StartUpdate("pull_new")
  \/ Dismiss \/ CancelUpdate \/ CloseRepull

-----------------------------------------------------------------------------
(***************************************************************************)
(* The header.                                                             *)
(***************************************************************************)
Play ==
  /\ Header /\ status # "running" /\ ~deploying
  /\ start("deploy") /\ repullOpen' = TRUE
  /\ UNCHANGED buttons

AskConfirm(q) ==
  /\ Header /\ q \notin pending
  /\ q \in {"stop", "restart"} => status # "stopped" /\ ~deploying
  /\ confirm' = q /\ nameTyped' = FALSE
  /\ UNCHANGED <<hook, repullOpen, status, pending>>

TypeProjectName ==
  /\ nameTyped' = ~nameTyped
  /\ UNCHANGED <<hook, repullOpen, status, confirm, pending>>

CancelConfirm ==
  /\ confirm' = "none"
  /\ UNCHANGED <<hook, repullOpen, status, nameTyped, pending>>

Confirm ==
  /\ pending' = pending \union {confirm} /\ confirm' = "none"
  /\ UNCHANGED <<hook, repullOpen, status, nameTyped>>

SimpleConfirm == confirm \in {"stop", "restart"} /\ (Confirm \/ CancelConfirm)

\* The name of the project is to be typed first.
DeleteConfirmDialog ==
  /\ confirm = "delete"
  /\ TypeProjectName \/ (nameTyped /\ Confirm) \/ CancelConfirm

\* A mutation ends; a deletion leaves the page.
MutationEnds(q) ==
  /\ q \in pending /\ pending' = pending \ {q}
  /\ status' \in {status, CASE q = "stop" -> "stopped" [] q = "restart" -> "running" [] q = "delete" -> "deleted"}
  /\ UNCHANGED <<hook, repullOpen, confirm, nameTyped>>

Next ==
  \/ \E s \in Sockets : onmessage(s) \/ onmessageDone(s) \/ JobEnds(s) \/ Lose(s) \/ onclose(s)
  \/ OpenRepull \/ Play \/ RepullDialog
  \/ \E q \in {"stop", "restart", "delete"} : AskConfirm(q) \/ MutationEnds(q)
  \/ SimpleConfirm \/ DeleteConfirmDialog

Spec == Init /\ [][Next]_vars

-----------------------------------------------------------------------------
\* The page is not left waiting: while it says that a deploy runs, the socket of
\* that deploy has still to end, however deploys were cancelled and started.
NotLeftWaiting == deploying => wsRef # 0 /\ socket[wsRef] # "closed"

\* One deploy at a time: the page listens to two deploys only after the close
\* event of a cancelled or finished one made it forget the running one.
Running == {s \in Sockets : socket[s] = "open" /\ job[s] = "running"}
OneAtATime == ~late => \A s, t \in Running : s = t

\* The flag of the page and the sockets of its deploys agree.
DeployFollowed == NotLeftWaiting /\ OneAtATime

=============================================================================
