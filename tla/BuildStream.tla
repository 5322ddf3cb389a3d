---------------------------- MODULE BuildStream ----------------------------
(***************************************************************************)
(* Building an image and watching it: the build goroutine of               *)
(* apiBuildImage, the bounded channel of events it shares with the         *)
(* WebSocket handler wsBuildStream, and the dialog in the browser.         *)
(*                                                                         *)
(* The answer to the POST, the goroutine and the request that opens the    *)
(* stream run independently.  A build has one stream: the dialog connects  *)
(* once and never again.                                                   *)
(***************************************************************************)
EXTENDS Integers, Sequences

CONSTANTS
  Builds,   \* build ids, one per POST
  MaxLines, \* bound: lines of output of a build
  Cap,      \* capacity of a channel, 512 in the code
  None

ASSUME CapAssumption   == Cap \in Nat \ {0}
ASSUME LinesAssumption == MaxLines \in Nat
ASSUME NoneAssumption  == None \notin Builds

\* A BuildEvent: line i of the output, or one of the two that end the build (the
\* closing text that comes with the last one is left out).
Event == [kind : {"stream", "error", "done"}, line : 0 .. MaxLines]
Stream(i) == [kind |-> "stream", line |-> i]
Last(k)   == [kind |-> k, line |-> 0]

VARIABLES
  store,   \* globalBuildStore: the builds it knows
  ch,      \* the channels' contents
  job,     \* where the goroutine of a build is
  lines,   \* lines of output so far
  result,  \* what BuildImage returned
  conn,    \* the WebSocket of a build
  dialog   \* what BuildImageDialog holds and shows

vars == <<store, ch, job, lines, result, conn, dialog>>

Dialog == [at : {"closed", "form", "pending", "watching"}, build : Builds \union {None},
           logs : Seq(1 .. MaxLines), done : BOOLEAN, error : {"none", "build", "socket"}]
Form   == [at |-> "form", build |-> None, logs |-> <<>>, done |-> FALSE, error |-> "none"]
Closed == [Form EXCEPT !.at = "closed"]

Init ==
  /\ store = {} /\ ch = [b \in Builds |-> <<>>]
  /\ job = [b \in Builds |-> "none"] /\ lines = [b \in Builds |-> 0]
  /\ result = [b \in Builds |-> "none"] /\ conn = [b \in Builds |-> "none"]
  /\ dialog = Closed

-----------------------------------------------------------------------------
(***************************************************************************)
(* The dialog.                                                             *)
(***************************************************************************)
OpenDialog ==
  /\ dialog = Closed
  /\ dialog' = Form
  /\ UNCHANGED <<store, ch, job, lines, result, conn>>

\* startBuild: the server makes the channel and starts the goroutine, then
\* answers with the id.
PostBuild(b) ==
  /\ dialog = Form /\ job[b] = "none"
  /\ dialog' = [Form EXCEPT !.at = "pending", !.build = b]
  /\ store' = store \union {b}
  /\ job' = [job EXCEPT ![b] = "starting"]
  /\ UNCHANGED <<ch, lines, result, conn>>

\* onSuccess: the id is kept and the effect opens the WebSocket.
Answer(b) ==
  /\ dialog.at = "pending" /\ dialog.build = b
  /\ dialog' = [dialog EXCEPT !.at = "watching"]
  /\ conn' = [conn EXCEPT ![b] = "asked"]
  /\ UNCHANGED <<store, ch, job, lines, result>>

\* onError: the answer is lost and the form stays, while the build runs.
AnswerLost(b) ==
  /\ dialog.at = "pending" /\ dialog.build = b
  /\ dialog' = Form
  /\ UNCHANGED <<store, ch, job, lines, result, conn>>

\* Closing the dialog at any time, or "Build again" after a success: the
\* cleanup of the effect closes the WebSocket and nothing else.
Leave ==
  /\ dialog.at # "closed"
  /\ \/ dialog' = Closed
     \/ dialog.done /\ dialog.error = "none" /\ dialog' = Form
  /\ conn' = [b \in Builds |-> CASE conn[b] = "asked" -> "aborted"
                                [] conn[b] = "open"  -> "left"
                                [] OTHER             -> conn[b]]
  /\ UNCHANGED <<store, ch, job, lines, result>>

\* onmessage and onerror, of the dialog that still watches.
Shown(b, e) ==
  IF dialog.build # b \/ dialog.at # "watching" THEN dialog
  ELSE CASE e.kind = "stream" -> [dialog EXCEPT !.logs = Append(@, e.line)]
         [] e.kind = "error"  -> [dialog EXCEPT !.error = "build", !.done = TRUE]
         [] e.kind = "done"   -> [dialog EXCEPT !.done = TRUE]
SocketError(b) ==
  IF dialog.build # b \/ dialog.at # "watching" THEN dialog
  ELSE [dialog EXCEPT !.error = "socket", !.done = TRUE]

-----------------------------------------------------------------------------
(***************************************************************************)
(* wsBuildStream.                                                          *)
(***************************************************************************)
Connect(b) ==
  /\ conn[b] = "asked"
  /\ \/ b \in store /\ conn' = [conn EXCEPT ![b] = "open"] /\ UNCHANGED dialog
     \/ /\ b \notin store
        /\ conn' = [conn EXCEPT ![b] = "refused"]
        /\ dialog' = SocketError(b)
  /\ UNCHANGED <<store, ch, job, lines, result>>

\* One turn of the loop.  A write to a client that left may still succeed.
Forward(b) ==
  /\ conn[b] \in {"open", "left"} /\ ch[b] # <<>>
  /\ ch' = [ch EXCEPT ![b] = Tail(@)]
  /\ \/ conn[b] = "open" /\ dialog' = Shown(b, Head(ch[b])) /\ UNCHANGED conn
     \/ /\ conn[b] = "left" /\ UNCHANGED dialog
        /\ conn' \in {conn, [conn EXCEPT ![b] = "ended"]}
  /\ UNCHANGED <<store, job, lines, result>>

\* The channel is closed and drained: the handler returns and closes the
\* connection without a close frame, which a browser may report as an error.
EndStream(b) ==
  /\ conn[b] \in {"open", "left"} /\ ch[b] = <<>> /\ job[b] = "closed"
  /\ conn' = [conn EXCEPT ![b] = "ended"]
  /\ dialog' \in {dialog, SocketError(b)}
  /\ UNCHANGED <<store, ch, job, lines, result>>

\* The network fails under an open connection.
Break(b) ==
  /\ conn[b] = "open"
  /\ conn' = [conn EXCEPT ![b] = "left"]
  /\ dialog' = SocketError(b)
  /\ UNCHANGED <<store, ch, job, lines, result>>

-----------------------------------------------------------------------------
(***************************************************************************)
(* The goroutine.                                                          *)
(***************************************************************************)

\* Mutant: a full channel drops the event instead of blocking.
Send_Drop(b, e) == ch' = [ch EXCEPT ![b] = IF Len(@) < Cap THEN Append(@, e) ELSE @]

Send(b, e) == Len(ch[b]) < Cap /\ ch' = [ch EXCEPT ![b] = Append(@, e)]

\* No docker client, a build context that cannot be packed, or a build that
\* docker refuses: BuildImage returns an error.
FailEarly(b) ==
  /\ job[b] = "starting"
  /\ job' = [job EXCEPT ![b] = "returned"]
  /\ result' = [result EXCEPT ![b] = "refused"]
  /\ UNCHANGED <<store, ch, lines, conn, dialog>>

StartBuild(b) ==
  /\ job[b] = "starting"
  /\ job' = [job EXCEPT ![b] = "streaming"]
  /\ UNCHANGED <<store, ch, lines, result, conn, dialog>>

Output(b) ==
  /\ job[b] = "streaming" /\ lines[b] < MaxLines
  /\ Send(b, Stream(lines[b] + 1))
  /\ lines' = [lines EXCEPT ![b] = @ + 1]
  /\ UNCHANGED <<store, job, result, conn, dialog>>

\* Mutant: the end of the output is no event.
Complete_Silent(b) ==
  /\ job[b] = "streaming"
  /\ \/ Send(b, Last("error")) /\ result' = [result EXCEPT ![b] = "error"]
     \/ result' = [result EXCEPT ![b] = "done"] /\ UNCHANGED ch
  /\ job' = [job EXCEPT ![b] = "returned"]
  /\ UNCHANGED <<store, lines, conn, dialog>>

\* A message with an error, a message that does not decode, or the end.
Complete(b) ==
  /\ job[b] = "streaming"
  /\ \E k \in {"error", "done"} : Send(b, Last(k)) /\ result' = [result EXCEPT ![b] = k]
  /\ job' = [job EXCEPT ![b] = "returned"]
  /\ UNCHANGED <<store, lines, conn, dialog>>

Remove(b) ==
  /\ job[b] = "returned"
  /\ store' = store \ {b}
  /\ job' = [job EXCEPT ![b] = "removed"]
  /\ UNCHANGED <<ch, lines, result, conn, dialog>>

\* Mutant: the deferred close is forgotten.
CloseCh_Never(b) == job[b] = "removed" /\ UNCHANGED vars

CloseCh(b) ==
  /\ job[b] = "removed"
  /\ job' = [job EXCEPT ![b] = "closed"]
  /\ UNCHANGED <<store, ch, lines, result, conn, dialog>>

-----------------------------------------------------------------------------
Server(b) == Connect(b) \/ Forward(b) \/ EndStream(b)
Job(b)    == FailEarly(b) \/ StartBuild(b) \/ Output(b) \/ Complete(b)
             \/ Remove(b) \/ CloseCh(b)

Next ==
  \/ OpenDialog \/ Leave
  \/ \E b \in Builds : PostBuild(b) \/ Answer(b) \/ AnswerLost(b) \/ Break(b)
                         \/ Server(b) \/ Job(b)

\* The goroutines run, docker makes progress, and the answer arrives.
Fairness == \A b \in Builds : WF_vars(Server(b)) /\ WF_vars(Job(b)) /\ WF_vars(Answer(b))

Spec == Init /\ [][Next]_vars /\ Fairness

-----------------------------------------------------------------------------
\* The types of the variables; a channel never holds more than its capacity.
TypeOK ==
  /\ store \subseteq Builds
  /\ ch \in [Builds -> Seq(Event)] /\ \A b \in Builds : Len(ch[b]) <= Cap
  /\ job \in [Builds -> {"none", "starting", "streaming", "returned", "removed", "closed"}]
  /\ lines \in [Builds -> 0 .. MaxLines]
  /\ result \in [Builds -> {"none", "refused", "error", "done"}]
  /\ conn \in [Builds -> {"none", "asked", "aborted", "refused", "open", "left", "ended"}]
  /\ dialog \in Dialog

\* What the dialog shows happened: a success is a build that succeeded with its
\* whole output on the screen, a build error is one docker reported, and at
\* every moment the lines shown are the first ones of this build, in order.
ShownIsReal ==
  dialog.at = "watching" =>
    /\ \A i \in 1 .. Len(dialog.logs) : dialog.logs[i] = i
    /\ Len(dialog.logs) <= lines[dialog.build]
    /\ dialog.done /\ dialog.error = "none" =>
         result[dialog.build] = "done" /\ Len(dialog.logs) = lines[dialog.build]
    /\ dialog.error = "build" => result[dialog.build] = "error"

\* A build that is watched ends: the goroutine can be held up only by a full
\* channel, and only when the dialog or its connection has gone.
Unwatched(b) ==
  conn[b] \in {"aborted", "left", "ended"} \/ (conn[b] = "none" /\ dialog.build # b)
BuildEnds ==
  \A b \in Builds : job[b] = "starting" ~> job[b] = "closed" \/ Unwatched(b)

\* A stream ends: the handler is not left waiting on a channel of a build that
\* is over.
StreamEnds == \A b \in Builds : conn[b] = "open" ~> conn[b] # "open"

\* A dialog that keeps watching is told how its build ended, by an event or by
\* the browser's own error when it came too late or lost the connection.  The
\* one exception is a build that docker never started: its error is returned to
\* a caller that drops it, and the dialog may wait for ever.
DialogIsTold ==
  \A b \in Builds :
    dialog.at = "watching" /\ dialog.build = b
      ~> dialog.build # b \/ dialog.done \/ result[b] = "refused"

\* A build that is watched comes to its end and so does its stream, although
\* the sends of the build goroutine block on a bounded channel.
WatchedEnds == BuildEnds /\ StreamEnds

\* Types, and what the dialog shows.
DialogSound == TypeOK /\ ShownIsReal

=============================================================================
