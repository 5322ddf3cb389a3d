------------------------- MODULE BuildStreamProofs --------------------------
(***************************************************************************)
(* What the dialog of a build shows is real, for every number of builds,   *)
(* lines and places in a channel.  The events of a build are numbered: the *)
(* lines of its output and then, when the build ended, the one that says   *)
(* how.  A channel holds the last of those that were sent, in order, and a *)
(* dialog with an open connection has shown exactly the others.            *)
(***************************************************************************)
EXTENDS BuildStream, SequenceTheorems, TLAPS

\* How many events of a build were sent, how many were taken from its channel,
\* and which is the p-th.
SentEvents(b) == lines[b] + IF result[b] \in {"error", "done"} THEN 1 ELSE 0
Taken(b)      == SentEvents(b) - Len(ch[b])
EventAt(b, p) == IF p <= lines[b] THEN Stream(p) ELSE Last(result[b])

QueueInv ==
  \A b \in Builds :
    /\ Len(ch[b]) <= SentEvents(b)
    /\ \A i \in 1 .. Len(ch[b]) : ch[b][i] = EventAt(b, Taken(b) + i)

\* A build has no result and no last event before it ends.
JobInv ==
  \A b \in Builds : job[b] \in {"none", "starting", "streaming"} => result[b] = "none"

\* Nothing is taken from a channel that no handler reads.
ConnInv ==
  \A b \in Builds :
    /\ conn[b] \in {"none", "asked", "aborted", "refused"} => Taken(b) = 0
    /\ job[b] = "none" => conn[b] = "none"

\* The dialog has shown every event that was taken.
UpToDate(b) ==
  /\ Taken(b) <= lines[b] => Len(dialog.logs) = Taken(b) /\ ~dialog.done /\ dialog.error = "none"
  /\ Taken(b) > lines[b] => /\ Len(dialog.logs) = lines[b] /\ dialog.done
                            /\ result[b] = "error" => dialog.error = "build"
                            /\ result[b] # "error" => dialog.error = "none"

DialogInv ==
  /\ dialog.at = "pending" =>
       /\ dialog.build \in Builds /\ conn[dialog.build] = "none" /\ job[dialog.build] # "none"
       /\ dialog.logs = <<>> /\ ~dialog.done /\ dialog.error = "none"
  /\ dialog.at = "watching" =>
       /\ dialog.build \in Builds /\ conn[dialog.build] # "none"
       /\ conn[dialog.build] \in {"asked", "open"} => UpToDate(dialog.build)

IInv == TypeOK /\ QueueInv /\ JobInv /\ ConnInv /\ DialogInv /\ ShownIsReal

-----------------------------------------------------------------------------
(***************************************************************************)
(* Events.                                                                 *)
(***************************************************************************)
\* What the numbers of events are.
LEMMA Numbers ==
  ASSUME IInv, NEW b \in Builds
  PROVE  /\ lines[b] \in Nat /\ SentEvents(b) \in Nat /\ Taken(b) \in Nat /\ Len(ch[b]) \in Nat
         /\ SentEvents(b) = Taken(b) + Len(ch[b])
         /\ SentEvents(b) \in {lines[b], lines[b] + 1}
         /\ SentEvents(b) = lines[b] + 1 <=> result[b] \in {"error", "done"}
<1>1. lines[b] \in Nat /\ ch[b] \in Seq(Event) /\ Len(ch[b]) \in Nat
  BY LinesAssumption DEF IInv, TypeOK
<1>2. Len(ch[b]) <= SentEvents(b)
  BY DEF IInv, QueueInv
<1>3. QED
  BY <1>1, <1>2 DEF SentEvents, Taken

\* A build whose channel, lines and result stay has the same events.
LEMMA SameEvents ==
  ASSUME NEW b, ch'[b] = ch[b], lines'[b] = lines[b], result'[b] = result[b]
  PROVE  SentEvents(b)' = SentEvents(b) /\ Taken(b)' = Taken(b) /\ \A p : EventAt(b, p)' = EventAt(b, p)
BY DEF SentEvents, Taken, EventAt

\* The dialog and the connections change, the builds do not.
LEMMA QuietStep ==
  ASSUME IInv, UNCHANGED <<ch, lines, result>>
  PROVE  /\ QueueInv'
         /\ \A b \in Builds : Taken(b)' = Taken(b) /\ lines'[b] = lines[b] /\ result'[b] = result[b]
<1>1. \A b \in Builds : SentEvents(b)' = SentEvents(b) /\ Taken(b)' = Taken(b)
                        /\ \A p : EventAt(b, p)' = EventAt(b, p)
  BY SameEvents
<1>2. QED
  BY <1>1 DEF IInv, QueueInv

\* What a dialog that is up to date has shown is real.
LEMMA UpToDateIsReal ==
  ASSUME IInv, NEW b \in Builds, UpToDate(b)
  PROVE  /\ Len(dialog.logs) <= lines[b]
         /\ dialog.done /\ dialog.error = "none" => result[b] = "done" /\ Len(dialog.logs) = lines[b]
         /\ dialog.error = "build" => result[b] = "error"
<1>1. Taken(b) <= SentEvents(b) /\ lines[b] \in Nat /\ Taken(b) \in Nat
  BY Numbers
<1>2. Taken(b) > lines[b] => result[b] \in {"error", "done"}
  BY <1>1, Numbers
<1>3. CASE Taken(b) <= lines[b]
  BY <1>1, <1>3 DEF UpToDate
<1>4. CASE Taken(b) > lines[b]
  BY <1>1, <1>2, <1>4 DEF UpToDate
<1>5. QED
  BY <1>1, <1>3, <1>4

-----------------------------------------------------------------------------
(***************************************************************************)
(* The initial state, and the dialog.                                      *)
(***************************************************************************)
\* The empty form, and the dialog before it is opened.
LEMMA Forms ==
  /\ Form \in Dialog /\ Closed \in Dialog /\ Form.at = "form" /\ Closed.at = "closed"
  /\ \A b \in Builds : LET d == [Form EXCEPT !.at = "pending", !.build = b]
                       IN  /\ d \in Dialog /\ d.at = "pending" /\ d.build = b
                           /\ d.logs = <<>> /\ ~d.done /\ d.error = "none"
<1>1. <<>> \in Seq(1 .. MaxLines)
  OBVIOUS
<1>2. QED
  BY <1>1 DEF Dialog, Form, Closed

LEMMA InitIInv == Init => IInv
<1> SUFFICES ASSUME Init PROVE IInv
  OBVIOUS
<1>1. TypeOK
  <2>1. dialog \in Dialog
    BY Forms DEF Init
  <2>2. <<>> \in Seq(Event) /\ Len(<<>>) = 0 /\ Cap \in Nat /\ 0 \in 0 .. MaxLines
    BY CapAssumption, LinesAssumption
  <2>3. QED
    BY <2>1, <2>2 DEF Init, TypeOK
<1>2. ASSUME NEW b \in Builds PROVE SentEvents(b) = 0 /\ Len(ch[b]) = 0 /\ Taken(b) = 0
  <2>1. lines[b] = 0 /\ result[b] = "none" /\ ch[b] = <<>>
    BY DEF Init
  <2>2. QED
    BY <2>1 DEF SentEvents, Taken
<1>3. QueueInv
  <2>1. SUFFICES ASSUME NEW b \in Builds
                 PROVE  /\ Len(ch[b]) <= SentEvents(b)
                        /\ \A i \in 1 .. Len(ch[b]) : ch[b][i] = EventAt(b, Taken(b) + i)
    BY DEF QueueInv
  <2>2. QED
    BY <1>2
<1>4. JobInv /\ ConnInv
  BY <1>2 DEF Init, JobInv, ConnInv
<1>5. DialogInv /\ ShownIsReal
  BY DEF Init, DialogInv, ShownIsReal, Closed, Form
<1>6. QED
  BY <1>1, <1>3, <1>4, <1>5 DEF IInv

\* A new form, an answer that was lost.
LEMMA FormStep ==
  ASSUME IInv, OpenDialog \/ \E b \in Builds : AnswerLost(b)
  PROVE  IInv'
<1>1. dialog' = Form /\ UNCHANGED <<store, ch, job, lines, result, conn>>
  BY DEF OpenDialog, AnswerLost
<1>2. dialog' \in Dialog /\ dialog'.at = "form"
  BY <1>1, Forms
<1>3. TypeOK'
  BY <1>1, <1>2 DEF IInv, TypeOK
<1>4. QueueInv' /\ JobInv' /\ ConnInv'
  BY <1>1, QuietStep DEF IInv, JobInv, ConnInv
<1>5. DialogInv' /\ ShownIsReal'
  BY <1>2 DEF DialogInv, ShownIsReal
<1>6. QED
  BY <1>3, <1>4, <1>5 DEF IInv

LEMMA PostStep ==
  ASSUME IInv, NEW b \in Builds, PostBuild(b)
  PROVE  IInv'
<1>1. /\ job[b] = "none" /\ job' = [job EXCEPT ![b] = "starting"] /\ store' = store \union {b}
      /\ dialog' = [Form EXCEPT !.at = "pending", !.build = b] /\ UNCHANGED <<ch, lines, result, conn>>
  BY DEF PostBuild
<1>2. /\ dialog' \in Dialog /\ dialog'.at = "pending" /\ dialog'.build = b
      /\ dialog'.logs = <<>> /\ ~dialog'.done /\ dialog'.error = "none"
  BY <1>1, Forms
<1>3. \A c \in Builds : job'[c] = IF c = b THEN "starting" ELSE job[c]
  BY <1>1 DEF IInv, TypeOK
<1>4. TypeOK'
  BY <1>1, <1>2 DEF IInv, TypeOK
<1>5. QueueInv' /\ JobInv' /\ ConnInv'
  BY <1>1, <1>3, QuietStep DEF IInv, JobInv, ConnInv
<1>6. conn[b] = "none"
  BY <1>1 DEF IInv, ConnInv
<1>7. DialogInv' /\ ShownIsReal'
  <2>1. conn'[b] = "none" /\ job'[b] = "starting"
    BY <1>1, <1>3, <1>6
  <2>2. QED
    BY <1>2, <2>1 DEF DialogInv, ShownIsReal
<1>8. QED
  BY <1>4, <1>5, <1>7 DEF IInv

LEMMA AnswerStep ==
  ASSUME IInv, NEW b \in Builds, Answer(b)
  PROVE  IInv'
<1>1. /\ dialog.at = "pending" /\ dialog.build = b /\ dialog' = [dialog EXCEPT !.at = "watching"]
      /\ conn' = [conn EXCEPT ![b] = "asked"] /\ UNCHANGED <<store, ch, job, lines, result>>
  BY DEF Answer
<1>2. conn[b] = "none" /\ dialog.logs = <<>> /\ ~dialog.done /\ dialog.error = "none" /\ Taken(b) = 0
  BY <1>1 DEF IInv, DialogInv, ConnInv
<1>3. /\ dialog' \in Dialog /\ dialog'.at = "watching" /\ dialog'.build = b
      /\ dialog'.logs = <<>> /\ ~dialog'.done /\ dialog'.error = "none"
  BY <1>1, <1>2 DEF IInv, TypeOK, Dialog
<1>4. \A c \in Builds : conn'[c] = IF c = b THEN "asked" ELSE conn[c]
  BY <1>1 DEF IInv, TypeOK
<1>5. TypeOK'
  BY <1>1, <1>3 DEF IInv, TypeOK
<1>6. job[b] # "none"
  BY <1>1 DEF IInv, DialogInv
<1>7. QueueInv' /\ JobInv' /\ ConnInv'
  BY <1>1, <1>2, <1>4, <1>6, QuietStep DEF IInv, JobInv, ConnInv
<1>8. lines[b] \in Nat
  BY Numbers
<1>80. Len(dialog'.logs) = 0 /\ Taken(b)' = 0 /\ lines'[b] \in Nat /\ conn'[b] = "asked"
  BY <1>1, <1>2, <1>3, <1>4, <1>8, QuietStep
<1>9. UpToDate(b)'
  BY <1>3, <1>80 DEF UpToDate
<1>10. DialogInv' /\ ShownIsReal'
  <2>1. DialogInv'
    BY <1>3, <1>80, <1>9 DEF DialogInv
  <2>2. ShownIsReal'
    BY <1>3, <1>80 DEF ShownIsReal
  <2>3. QED
    BY <2>1, <2>2
<1>11. QED
  BY <1>5, <1>7, <1>10 DEF IInv

LEMMA LeaveStep ==
  ASSUME IInv, Leave
  PROVE  IInv'
<1>1. /\ dialog' \in {Closed, Form} /\ UNCHANGED <<store, ch, job, lines, result>>
      /\ conn' = [b \in Builds |-> CASE conn[b] = "asked" -> "aborted"
                                     [] conn[b] = "open"  -> "left"
                                     [] OTHER             -> conn[b]]
  BY DEF Leave
<1>2. dialog' \in Dialog /\ dialog'.at \in {"closed", "form"}
  BY <1>1, Forms
<1>3. conn' \in [Builds -> {"none", "asked", "aborted", "refused", "open", "left", "ended"}]
  BY <1>1 DEF IInv, TypeOK
<1>4. \A b \in Builds : /\ conn'[b] \in {"none", "asked", "aborted", "refused"} =>
                             conn[b] \in {"none", "asked", "aborted", "refused"}
                        /\ conn[b] = "none" => conn'[b] = "none"
  BY <1>1
<1>5. TypeOK'
  BY <1>1, <1>2, <1>3 DEF IInv, TypeOK
<1>6. QueueInv' /\ JobInv' /\ ConnInv'
  BY <1>1, <1>4, QuietStep DEF IInv, JobInv, ConnInv
<1>7. DialogInv' /\ ShownIsReal'
  BY <1>2 DEF DialogInv, ShownIsReal
<1>8. QED
  BY <1>5, <1>6, <1>7 DEF IInv

-----------------------------------------------------------------------------
(***************************************************************************)
(* The stream.                                                             *)
(***************************************************************************)
\* The browser's own error says nothing of the build.
LEMMA SocketErrorShown ==
  ASSUME IInv, NEW b \in Builds
  PROVE  LET d == SocketError(b)
         IN  /\ d \in Dialog /\ d.at = dialog.at /\ d.build = dialog.build /\ d.logs = dialog.logs
             /\ \/ d = dialog /\ (dialog.build # b \/ dialog.at # "watching")
                \/ dialog.build = b /\ dialog.at = "watching" /\ d.error = "socket"
<1>1. CASE dialog.build # b \/ dialog.at # "watching"
  BY <1>1 DEF SocketError, IInv, TypeOK
<1>2. CASE ~(dialog.build # b \/ dialog.at # "watching")
  <2>1. SocketError(b) = [dialog EXCEPT !.error = "socket", !.done = TRUE]
    BY <1>2 DEF SocketError
  <2>2. QED
    BY <1>2, <2>1 DEF IInv, TypeOK, Dialog
<1>3. QED
  BY <1>1, <1>2

\* A connection is refused, ends or breaks, and the dialog may say so.
LEMMA StreamOverStep ==
  ASSUME IInv, NEW b \in Builds, NEW c \in {"refused", "left", "ended"},
         conn[b] \in {"asked", "open", "left"}, c = "refused" => conn[b] = "asked",
         conn' = [conn EXCEPT ![b] = c], dialog' \in {dialog, SocketError(b)},
         UNCHANGED <<store, ch, job, lines, result>>
  PROVE  IInv'
<1>1. \A a \in Builds : conn'[a] = IF a = b THEN c ELSE conn[a]
  BY DEF IInv, TypeOK
<1>2. /\ dialog' \in Dialog /\ dialog'.at = dialog.at /\ dialog'.build = dialog.build /\ dialog'.logs = dialog.logs
      /\ dialog' = dialog \/ (dialog.build = b /\ dialog.at = "watching" /\ dialog'.error = "socket")
  BY SocketErrorShown DEF IInv, TypeOK
<1>3. TypeOK'
  BY <1>2 DEF IInv, TypeOK
<1>4. QueueInv' /\ JobInv'
  BY QuietStep DEF IInv, JobInv
<1>5. ConnInv'
  BY <1>1, QuietStep DEF IInv, ConnInv
<1>6. DialogInv'
  <2>1. CASE dialog.at = "pending"
    BY <1>1, <1>2, <2>1 DEF IInv, DialogInv
  <2>2. CASE dialog.at = "watching" /\ dialog.build = b
    BY <1>1, <1>2, <2>2 DEF IInv, DialogInv
  <2>3. CASE dialog.at = "watching" /\ dialog.build # b
    <3>1. dialog' = dialog /\ dialog.build \in Builds /\ conn'[dialog.build] = conn[dialog.build]
      BY <1>1, <1>2, <2>3 DEF IInv, DialogInv
    <3>2. UpToDate(dialog.build) => UpToDate(dialog.build)'
      BY <3>1, SameEvents DEF UpToDate
    <3>3. QED
      BY <2>3, <3>1, <3>2 DEF IInv, DialogInv
  <2>4. QED
    BY <1>2, <2>1, <2>2, <2>3 DEF DialogInv
<1>7. ShownIsReal'
  <2>1. CASE dialog' = dialog
    BY <2>1 DEF IInv, ShownIsReal
  <2>2. CASE dialog'.error = "socket"
    BY <1>2, <2>2 DEF IInv, ShownIsReal
  <2>3. QED
    BY <1>2, <2>1, <2>2
<1>8. QED
  BY <1>3, <1>4, <1>5, <1>6, <1>7 DEF IInv

LEMMA ConnectStep ==
  ASSUME IInv, NEW b \in Builds, Connect(b)
  PROVE  IInv'
<1>1. conn[b] = "asked" /\ UNCHANGED <<store, ch, job, lines, result>>
  BY DEF Connect
<1>2. CASE conn' = [conn EXCEPT ![b] = "open"] /\ UNCHANGED dialog
  <2>1. \A a \in Builds : conn'[a] = IF a = b THEN "open" ELSE conn[a]
    BY <1>2 DEF IInv, TypeOK
  <2>2. TypeOK'
    BY <1>1, <1>2 DEF IInv, TypeOK
  <2>3. QueueInv' /\ JobInv' /\ ConnInv'
    BY <1>1, <2>1, QuietStep DEF IInv, JobInv, ConnInv
  <2>4. \A a : UpToDate(a) => UpToDate(a)'
    BY <1>1, <1>2, SameEvents DEF UpToDate
  <2>5. DialogInv'
    BY <1>1, <1>2, <2>1, <2>4 DEF IInv, DialogInv
  <2>6. ShownIsReal'
    BY <1>1, <1>2 DEF IInv, ShownIsReal
  <2>7. QED
    BY <2>2, <2>3, <2>5, <2>6 DEF IInv
<1>3. CASE conn' = [conn EXCEPT ![b] = "refused"] /\ dialog' = SocketError(b)
  BY <1>1, <1>3, StreamOverStep
<1>4. QED
  BY <1>2, <1>3 DEF Connect

LEMMA EndStep ==
  ASSUME IInv, NEW b \in Builds, EndStream(b) \/ Break(b)
  PROVE  IInv'
<1>1. CASE EndStream(b)
  BY <1>1, StreamOverStep DEF EndStream
<1>2. CASE Break(b)
  BY <1>2, StreamOverStep DEF Break
<1>3. QED
  BY <1>1, <1>2

\* The next event of a channel, shown by the dialog that is up to date.
LEMMA NextEventShown ==
  ASSUME IInv, NEW b \in Builds, ch[b] # <<>>, dialog.build = b, dialog.at = "watching", UpToDate(b),
         dialog' = Shown(b, Head(ch[b])), lines'[b] = lines[b], result'[b] = result[b],
         Taken(b)' = Taken(b) + 1
  PROVE  /\ dialog' \in Dialog /\ dialog'.at = "watching" /\ dialog'.build = b
         /\ UpToDate(b)' /\ \A i \in 1 .. Len(dialog'.logs) : dialog'.logs[i] = i
<1>1. /\ lines[b] \in Nat /\ Taken(b) \in Nat /\ Len(ch[b]) \in Nat /\ Len(ch[b]) > 0
      /\ Taken(b) + 1 <= SentEvents(b) /\ SentEvents(b) \in {lines[b], lines[b] + 1}
      /\ SentEvents(b) = lines[b] + 1 => result[b] \in {"error", "done"}
  <2>1. ch[b] \in Seq(Event)
    BY DEF IInv, TypeOK
  <2>2. Len(ch[b]) \in Nat /\ Len(ch[b]) > 0
    BY <2>1, EmptySeq
  <2>3. QED
    BY <2>2, Numbers
<1>2. Head(ch[b]) = EventAt(b, Taken(b) + 1)
  <2>1. 1 \in 1 .. Len(ch[b]) /\ Head(ch[b]) = ch[b][1]
    BY <1>1 DEF IInv, TypeOK
  <2>2. QED
    BY <2>1 DEF IInv, QueueInv
<1>3. /\ dialog \in Dialog /\ dialog.logs \in Seq(1 .. MaxLines) /\ Len(dialog.logs) \in Nat
      /\ \A i \in 1 .. Len(dialog.logs) : dialog.logs[i] = i
  BY DEF IInv, TypeOK, Dialog, ShownIsReal
<1>4. Taken(b) <= lines[b] /\ Len(dialog.logs) = Taken(b) /\ ~dialog.done /\ dialog.error = "none"
  BY <1>1 DEF UpToDate
<1>5. CASE Taken(b) + 1 <= lines[b]
  <2> DEFINE n == Taken(b) + 1
             q == Append(dialog.logs, n)
  <2>1. n \in 1 .. MaxLines
    BY <1>1, <1>5, LinesAssumption DEF IInv, TypeOK
  <2>2. dialog' = [dialog EXCEPT !.logs = q]
    BY <1>2, <1>5 DEF Shown, EventAt, Stream
  <2>3. q \in Seq(1 .. MaxLines) /\ Len(q) = n /\ \A i \in 1 .. Len(q) : q[i] = i
    <3>1. q \in Seq(1 .. MaxLines) /\ Len(q) = Len(dialog.logs) + 1
          /\ \A i \in 1 .. Len(q) : q[i] = IF i = Len(dialog.logs) + 1 THEN n ELSE dialog.logs[i]
      BY <1>3, <2>1, AppendProperties
    <3>2. QED
      BY <1>3, <1>4, <3>1
  <2> HIDE DEF n, q
  <2>4. /\ dialog' \in Dialog /\ dialog'.at = "watching" /\ dialog'.build = b
        /\ dialog'.logs = q /\ dialog'.done = dialog.done /\ dialog'.error = dialog.error
    BY <1>3, <2>2, <2>3 DEF Dialog
  <2>5. UpToDate(b)'
    BY <1>1, <1>4, <1>5, <2>3, <2>4 DEF UpToDate, n
  <2>6. QED
    BY <2>3, <2>4, <2>5
<1>6. CASE ~(Taken(b) + 1 <= lines[b])
  <2>1. Taken(b) = lines[b] /\ result[b] \in {"error", "done"}
    BY <1>1, <1>4, <1>6
  <2>2. Head(ch[b]).kind = result[b]
    BY <1>2, <1>6 DEF EventAt, Last
  <2>3. CASE result[b] = "error"
    <3>1. dialog' = [dialog EXCEPT !.error = "build", !.done = TRUE]
      BY <2>2, <2>3 DEF Shown
    <3>2. /\ dialog' \in Dialog /\ dialog'.at = "watching" /\ dialog'.build = b
          /\ dialog'.logs = dialog.logs /\ dialog'.done /\ dialog'.error = "build"
      BY <1>3, <3>1 DEF Dialog
    <3>3. UpToDate(b)'
      BY <1>1, <1>4, <2>1, <2>3, <3>2 DEF UpToDate
    <3>4. QED
      BY <1>3, <3>2, <3>3
  <2>4. CASE result[b] = "done"
    <3>1. dialog' = [dialog EXCEPT !.done = TRUE]
      BY <2>2, <2>4 DEF Shown
    <3>2. /\ dialog' \in Dialog /\ dialog'.at = "watching" /\ dialog'.build = b
          /\ dialog'.logs = dialog.logs /\ dialog'.done /\ dialog'.error = "none"
      BY <1>3, <1>4, <3>1 DEF Dialog
    <3>3. UpToDate(b)'
      BY <1>1, <1>4, <2>1, <2>4, <3>2 DEF UpToDate
    <3>4. QED
      BY <1>3, <3>2, <3>3
  <2>5. QED
    BY <2>1, <2>3, <2>4
<1>7. QED
  BY <1>5, <1>6

\* The other builds keep their events; QueueInv has to be shown of one only.
LEMMA OtherBuilds ==
  ASSUME IInv, NEW b \in Builds,
         \A a \in Builds \ {b} : ch'[a] = ch[a] /\ lines'[a] = lines[a] /\ result'[a] = result[a],
         Len(ch'[b]) <= SentEvents(b)',
         \A i \in 1 .. Len(ch'[b]) : ch'[b][i] = EventAt(b, Taken(b) + i)'
  PROVE  QueueInv' /\ \A a \in Builds \ {b} : Taken(a)' = Taken(a) /\ (UNCHANGED dialog /\ UpToDate(a) => UpToDate(a)')
<1>1. ASSUME NEW a \in Builds \ {b}
      PROVE  /\ SentEvents(a)' = SentEvents(a) /\ Taken(a)' = Taken(a) /\ \A p : EventAt(a, p)' = EventAt(a, p)
             /\ ch'[a] = ch[a] /\ lines'[a] = lines[a] /\ result'[a] = result[a]
  BY SameEvents
<1>2. ASSUME NEW a \in Builds \ {b}, UNCHANGED dialog, UpToDate(a) PROVE UpToDate(a)'
  BY <1>1, <1>2 DEF UpToDate
<1>3. ASSUME NEW a \in Builds
      PROVE  /\ Len(ch[a])' <= SentEvents(a)'
             /\ \A i \in 1 .. Len(ch[a])' : ch[a][i]' = EventAt(a, Taken(a) + i)'
  <2>1. CASE a = b
    BY <2>1
  <2>2. CASE a # b
    BY <1>1, <2>2 DEF IInv, QueueInv
  <2>3. QED
    BY <2>1, <2>2
<1>4. QueueInv'
  BY <1>3 DEF QueueInv
<1>5. QED
  BY <1>1, <1>2, <1>4

LEMMA ForwardStep ==
  ASSUME IInv, NEW b \in Builds, Forward(b)
  PROVE  IInv'
<1>1. /\ conn[b] \in {"open", "left"} /\ ch[b] # <<>> /\ ch' = [ch EXCEPT ![b] = Tail(@)]
      /\ UNCHANGED <<store, job, lines, result>>
  BY DEF Forward
<1>2. \A a \in Builds : ch'[a] = IF a = b THEN Tail(ch[a]) ELSE ch[a]
  BY <1>1 DEF IInv, TypeOK
<1>3. /\ ch[b] \in Seq(Event) /\ Tail(ch[b]) \in Seq(Event) /\ Len(Tail(ch[b])) = Len(ch[b]) - 1
      /\ \A i \in 1 .. Len(Tail(ch[b])) : Tail(ch[b])[i] = ch[b][i + 1]
  BY <1>1, HeadTailProperties DEF IInv, TypeOK
<1>30. ch'[b] = Tail(ch[b]) /\ Len(ch'[b]) = Len(ch[b]) - 1
  BY <1>2, <1>3
<1>4. /\ Len(ch[b]) \in Nat /\ Len(ch[b]) <= SentEvents(b) /\ SentEvents(b) \in Nat /\ Taken(b) \in Nat
      /\ Len(ch[b]) <= Cap /\ Cap \in Nat
  BY Numbers, CapAssumption DEF IInv, TypeOK, QueueInv
<1>5. SentEvents(b)' = SentEvents(b) /\ Taken(b)' = Taken(b) + 1 /\ \A p : EventAt(b, p)' = EventAt(b, p)
  <2>1. SentEvents(b)' = SentEvents(b) /\ \A p : EventAt(b, p)' = EventAt(b, p)
    BY <1>1 DEF SentEvents, EventAt
  <2>2. Taken(b)' = SentEvents(b)' - Len(ch'[b]) /\ Taken(b) = SentEvents(b) - Len(ch[b])
    BY DEF Taken
  <2>3. QED
    BY <1>30, <1>4, <2>1, <2>2
<1>6. Len(ch'[b]) <= SentEvents(b)' /\ \A i \in 1 .. Len(ch'[b]) : ch'[b][i] = EventAt(b, Taken(b) + i)'
  <2>1. Len(ch'[b]) <= SentEvents(b)'
    BY <1>30, <1>4, <1>5
  <2>2. ASSUME NEW i \in 1 .. Len(ch'[b]) PROVE ch'[b][i] = EventAt(b, Taken(b) + i)'
    <3>1. i \in 1 .. Len(Tail(ch[b])) /\ i + 1 \in 1 .. Len(ch[b]) /\ ch'[b][i] = ch[b][i + 1]
      BY <1>30, <1>3, <1>4, <2>2
    <3>2. ch[b][i + 1] = EventAt(b, Taken(b) + (i + 1))
      BY <3>1 DEF IInv, QueueInv
    <3>3. Taken(b) + (i + 1) = Taken(b)' + i
      BY <1>4, <1>5
    <3>4. QED
      BY <1>1, <3>1, <3>2, <3>3 DEF EventAt
  <2>3. QED
    BY <2>1, <2>2
<1>7. QueueInv' /\ \A a \in Builds \ {b} : Taken(a)' = Taken(a) /\ (UNCHANGED dialog /\ UpToDate(a) => UpToDate(a)')
  BY <1>1, <1>2, <1>6, OtherBuilds
<1>8. ch' \in [Builds -> Seq(Event)] /\ \A a \in Builds : Len(ch'[a]) <= Cap
  BY <1>1, <1>2, <1>3, <1>4 DEF IInv, TypeOK
<1>9. JobInv'
  BY <1>1 DEF IInv, JobInv
<1>10. CASE conn[b] = "open" /\ dialog' = Shown(b, Head(ch[b])) /\ UNCHANGED conn
  <2>1. ConnInv'
    BY <1>1, <1>7, <1>10 DEF IInv, ConnInv
  <2>2. CASE dialog.build = b /\ dialog.at = "watching"
    <3>1. UpToDate(b)
      BY <1>10, <2>2 DEF IInv, DialogInv
    <3>2. /\ dialog' \in Dialog /\ dialog'.at = "watching" /\ dialog'.build = b
          /\ UpToDate(b)' /\ \A i \in 1 .. Len(dialog'.logs) : dialog'.logs[i] = i
      BY <1>1, <1>5, <1>10, <2>2, <3>1, NextEventShown
    <3>3. TypeOK'
      BY <1>1, <1>8, <1>10, <3>2 DEF IInv, TypeOK
    <3>4. DialogInv'
      BY <1>10, <3>2 DEF DialogInv
    <3>5. lines'[b] \in Nat /\ Taken(b)' <= SentEvents(b)' /\ Taken(b)' \in Nat
          /\ SentEvents(b)' \in {lines'[b], lines'[b] + 1}
          /\ (SentEvents(b)' = lines'[b] + 1 => result'[b] \in {"error", "done"})
      BY <1>1, <1>2, <1>3, <1>4, <1>5, Numbers DEF Taken
    <3>6. ShownIsReal'
      <4>1. CASE Taken(b)' <= lines'[b]
        BY <3>2, <3>5, <4>1 DEF ShownIsReal, UpToDate
      <4>2. CASE Taken(b)' > lines'[b]
        <5>1. result'[b] \in {"error", "done"}
          BY <3>5, <4>2
        <5>2. QED
          BY <3>2, <3>5, <4>2, <5>1 DEF ShownIsReal, UpToDate
      <4>3. QED
        BY <3>5, <4>1, <4>2
    <3>7. QED
      BY <1>7, <1>9, <2>1, <3>3, <3>4, <3>6 DEF IInv
  <2>3. CASE dialog.build # b \/ dialog.at # "watching"
    <3>1. dialog' = dialog
      BY <1>10, <2>3 DEF Shown
    <3>2. TypeOK'
      BY <1>1, <1>8, <1>10, <3>1 DEF IInv, TypeOK
    <3>3. DialogInv'
      BY <1>1, <1>7, <1>10, <2>3, <3>1 DEF IInv, DialogInv
    <3>4. ShownIsReal'
      BY <1>1, <3>1 DEF IInv, ShownIsReal
    <3>5. QED
      BY <1>7, <1>9, <2>1, <3>2, <3>3, <3>4 DEF IInv
  <2>4. QED
    BY <2>2, <2>3
<1>11. CASE conn[b] = "left" /\ UNCHANGED dialog /\ conn' \in {conn, [conn EXCEPT ![b] = "ended"]}
  <2>1. \A a \in Builds : conn'[a] = conn[a] \/ (a = b /\ conn'[a] = "ended")
    BY <1>11 DEF IInv, TypeOK
  <2>2. TypeOK'
    BY <1>1, <1>8, <1>11 DEF IInv, TypeOK
  <2>3. conn'[b] \in {"left", "ended"} /\ \A a \in Builds \ {b} : conn'[a] = conn[a]
    BY <1>11, <2>1
  <2>4. ConnInv'
    BY <1>1, <1>7, <1>11, <2>3 DEF IInv, ConnInv
  <2>5. DialogInv'
    BY <1>1, <1>7, <1>11, <2>3 DEF IInv, DialogInv
  <2>6. ShownIsReal'
    BY <1>1, <1>11 DEF IInv, ShownIsReal
  <2>7. QED
    BY <1>7, <1>9, <2>2, <2>4, <2>5, <2>6 DEF IInv
<1>12. QED
  BY <1>10, <1>11 DEF Forward

-----------------------------------------------------------------------------
(***************************************************************************)
(* The goroutine.                                                          *)
(***************************************************************************)
\* A build that has not ended sends more, or ends: what is shown stays true.
LEMMA JobShows ==
  ASSUME IInv, NEW b \in Builds, result[b] = "none", job'[b] # "none",
         \A a \in Builds \ {b} : lines'[a] = lines[a] /\ result'[a] = result[a] /\ job'[a] = job[a],
         \A a \in Builds \ {b} : Taken(a)' = Taken(a) /\ (UNCHANGED dialog /\ UpToDate(a) => UpToDate(a)'),
         lines'[b] \in {lines[b], lines[b] + 1}, Taken(b)' = Taken(b), UNCHANGED <<conn, dialog>>
  PROVE  DialogInv' /\ ShownIsReal'
<1>1. lines[b] \in Nat /\ Taken(b) \in Nat /\ Taken(b) <= lines[b]
  BY Numbers
<1>2. UpToDate(b) => UpToDate(b)'
  BY <1>1 DEF UpToDate
<1>3. \A a \in Builds : UpToDate(a) => UpToDate(a)'
  BY <1>2
<1>4. DialogInv'
  BY <1>3 DEF IInv, DialogInv
<1>5. CASE dialog.at = "watching" /\ dialog.build = b
  <2>1. dialog.logs \in Seq(1 .. MaxLines) /\ Len(dialog.logs) \in Nat
    BY DEF IInv, TypeOK, Dialog
  <2>2. Len(dialog.logs) <= lines'[b]
    BY <1>1, <1>5, <2>1 DEF IInv, ShownIsReal
  <2>3. QED
    BY <1>4, <1>5, <2>2 DEF IInv, ShownIsReal
<1>6. CASE dialog.at = "watching" /\ dialog.build # b
  BY <1>4, <1>6 DEF IInv, DialogInv, ShownIsReal
<1>7. CASE dialog.at # "watching"
  BY <1>4, <1>7 DEF ShownIsReal
<1>8. QED
  BY <1>5, <1>6, <1>7

\* The end of the goroutine changes no event.
LEMMA GoroutineStep ==
  ASSUME IInv, NEW b \in Builds, StartBuild(b) \/ Remove(b) \/ CloseCh(b)
  PROVE  IInv'
<1>1. UNCHANGED <<ch, lines, result, conn, dialog>>
  BY DEF StartBuild, Remove, CloseCh
<1>2. PICK s \in {"streaming", "removed", "closed"} :
        job' = [job EXCEPT ![b] = s] /\ (s = "streaming" => job[b] = "starting")
  BY DEF StartBuild, Remove, CloseCh
<1>3. job[b] # "none"
  BY DEF StartBuild, Remove, CloseCh
<1>4. \A a \in Builds : job'[a] = IF a = b THEN s ELSE job[a]
  BY <1>2 DEF IInv, TypeOK
<1>5. store' \subseteq Builds
  BY DEF StartBuild, Remove, CloseCh, IInv, TypeOK
<1>6. TypeOK'
  BY <1>1, <1>2, <1>5 DEF IInv, TypeOK
<1>7. QueueInv' /\ JobInv' /\ ConnInv'
  BY <1>1, <1>2, <1>3, <1>4, QuietStep DEF IInv, JobInv, ConnInv
<1>8. \A a : UpToDate(a) => UpToDate(a)'
  BY <1>1, SameEvents DEF UpToDate
<1>9. DialogInv' /\ ShownIsReal'
  BY <1>1, <1>3, <1>4, <1>8 DEF IInv, DialogInv, ShownIsReal
<1>10. QED
  BY <1>6, <1>7, <1>9 DEF IInv

LEMMA FailEarlyStep ==
  ASSUME IInv, NEW b \in Builds, FailEarly(b)
  PROVE  IInv'
<1>1. /\ job[b] = "starting" /\ job' = [job EXCEPT ![b] = "returned"]
      /\ result' = [result EXCEPT ![b] = "refused"] /\ UNCHANGED <<store, ch, lines, conn, dialog>>
  BY DEF FailEarly
<1>2. \A a \in Builds : /\ job'[a] = IF a = b THEN "returned" ELSE job[a]
                        /\ result'[a] = IF a = b THEN "refused" ELSE result[a]
  BY <1>1 DEF IInv, TypeOK
<1>3. result[b] = "none"
  BY <1>1 DEF IInv, JobInv
<1>4. SentEvents(b)' = SentEvents(b) /\ Taken(b)' = Taken(b) /\ SentEvents(b) = lines[b]
  BY <1>1, <1>2, <1>3, Numbers DEF SentEvents, Taken
<1>5. Len(ch'[b]) <= SentEvents(b)' /\ \A i \in 1 .. Len(ch'[b]) : ch'[b][i] = EventAt(b, Taken(b) + i)'
  <2>1. Len(ch'[b]) <= SentEvents(b)'
    BY <1>1, <1>4 DEF IInv, QueueInv
  <2>2. ASSUME NEW i \in 1 .. Len(ch'[b]) PROVE ch'[b][i] = EventAt(b, Taken(b) + i)'
    <3>1. ch[b][i] = EventAt(b, Taken(b) + i) /\ Taken(b) + i <= lines[b]
      BY <1>1, <1>4, <2>2, Numbers DEF IInv, QueueInv
    <3>2. QED
      BY <1>1, <1>4, <3>1 DEF EventAt
  <2>3. QED
    BY <2>1, <2>2
<1>6. QueueInv' /\ \A a \in Builds \ {b} : Taken(a)' = Taken(a) /\ (UNCHANGED dialog /\ UpToDate(a) => UpToDate(a)')
  BY <1>1, <1>2, <1>5, OtherBuilds
<1>7. TypeOK'
  BY <1>1 DEF IInv, TypeOK
<1>8. JobInv' /\ ConnInv'
  BY <1>1, <1>2, <1>4, <1>6 DEF IInv, JobInv, ConnInv
<1>9. DialogInv' /\ ShownIsReal'
  BY <1>1, <1>2, <1>3, <1>4, <1>6, JobShows
<1>10. QED
  BY <1>6, <1>7, <1>8, <1>9 DEF IInv

\* The next event of a build that has not ended goes to the end of its channel.
LEMMA SendStep ==
  ASSUME IInv, NEW b \in Builds, NEW e \in Event, Send(b, e), result[b] = "none",
         \A a \in Builds \ {b} : lines'[a] = lines[a] /\ result'[a] = result[a],
         lines'[b] \in Nat, lines'[b] >= lines[b],
         SentEvents(b)' = SentEvents(b) + 1, e = EventAt(b, SentEvents(b))'
  PROVE  /\ QueueInv' /\ ch' \in [Builds -> Seq(Event)] /\ \A a \in Builds : Len(ch'[a]) <= Cap
         /\ Taken(b)' = Taken(b)
         /\ \A a \in Builds \ {b} : Taken(a)' = Taken(a) /\ (UNCHANGED dialog /\ UpToDate(a) => UpToDate(a)')
<1> DEFINE q == Append(ch[b], e)
<1>1. Len(ch[b]) < Cap /\ ch' = [ch EXCEPT ![b] = q]
  BY DEF Send
<1>2. \A a \in Builds : ch'[a] = IF a = b THEN q ELSE ch[a]
  BY <1>1 DEF IInv, TypeOK
<1>3. /\ q \in Seq(Event) /\ Len(q) = Len(ch[b]) + 1
      /\ \A i \in 1 .. Len(q) : q[i] = IF i = Len(ch[b]) + 1 THEN e ELSE ch[b][i]
  BY AppendProperties DEF IInv, TypeOK
<1>4. /\ lines[b] \in Nat /\ Taken(b) \in Nat /\ Len(ch[b]) \in Nat /\ SentEvents(b) = lines[b]
      /\ SentEvents(b) = Taken(b) + Len(ch[b]) /\ Cap \in Nat
  BY Numbers, CapAssumption
<1> HIDE DEF q
<1>30. ch'[b] = q
  BY <1>2
<1>5. ch' \in [Builds -> Seq(Event)] /\ \A a \in Builds : Len(ch'[a]) <= Cap
  BY <1>1, <1>2, <1>3, <1>4 DEF IInv, TypeOK
<1>6. Taken(b)' = Taken(b)
  <2>1. Taken(b)' = SentEvents(b)' - Len(ch'[b]) /\ Taken(b) = SentEvents(b) - Len(ch[b])
    BY DEF Taken
  <2>2. QED
    BY <1>3, <1>30, <1>4, <2>1
<1>7. Len(ch'[b]) <= SentEvents(b)' /\ \A i \in 1 .. Len(ch'[b]) : ch'[b][i] = EventAt(b, Taken(b) + i)'
  <2>1. Len(ch'[b]) <= SentEvents(b)'
    BY <1>2, <1>3, <1>4
  <2>2. ASSUME NEW i \in 1 .. Len(ch'[b]) PROVE ch'[b][i] = EventAt(b, Taken(b) + i)'
    <3>1. CASE i = Len(ch[b]) + 1
      <4>1. q[i] = e
        BY <1>3, <1>30, <2>2, <3>1
      <4>2. Taken(b)' + i = SentEvents(b)'
        BY <1>4, <1>6, <3>1
      <4>3. QED
        BY <1>30, <4>1, <4>2 DEF EventAt
    <3>2. CASE i # Len(ch[b]) + 1
      <4>1. i \in 1 .. Len(ch[b]) /\ ch'[b][i] = ch[b][i]
        BY <1>3, <1>30, <1>4, <2>2, <3>2
      <4>2. ch[b][i] = EventAt(b, Taken(b) + i) /\ Taken(b) + i <= lines[b] /\ Taken(b) + i \in Nat
        BY <1>4, <4>1 DEF IInv, QueueInv
      <4>3. ch[b][i] = Stream(Taken(b) + i)
        BY <4>2 DEF EventAt
      <4>30. Taken(b) + i <= lines'[b]
        BY <1>4, <4>2
      <4>4. QED
        BY <1>6, <4>1, <4>3, <4>30 DEF EventAt
    <3>3. QED
      BY <3>1, <3>2
  <2>3. QED
    BY <2>1, <2>2
<1>8. QED
  BY <1>2, <1>5, <1>6, <1>7, OtherBuilds

LEMMA OutputStep ==
  ASSUME IInv, NEW b \in Builds, Output(b)
  PROVE  IInv'
<1> DEFINE e == Stream(lines[b] + 1)
<1>1. /\ job[b] = "streaming" /\ lines[b] < MaxLines /\ Send(b, e)
      /\ lines' = [lines EXCEPT ![b] = @ + 1] /\ UNCHANGED <<store, job, result, conn, dialog>>
  BY DEF Output
<1>2. lines'[b] = lines[b] + 1 /\ \A a \in Builds \ {b} : lines'[a] = lines[a]
  BY <1>1 DEF IInv, TypeOK
<1>3. lines[b] \in Nat /\ lines[b] + 1 \in 0 .. MaxLines /\ result[b] = "none"
  BY <1>1, LinesAssumption DEF IInv, TypeOK, JobInv
<1>4. e \in Event
  BY <1>3 DEF Stream, Event
<1>5. SentEvents(b) = lines[b] /\ SentEvents(b)' = lines[b] + 1
  BY <1>1, <1>2, <1>3 DEF SentEvents
<1>6. e = EventAt(b, SentEvents(b))'
  BY <1>2, <1>3, <1>5 DEF EventAt
<1>7. lines'[b] \in Nat /\ lines'[b] >= lines[b] /\ SentEvents(b)' = SentEvents(b) + 1
  BY <1>2, <1>3, <1>5
<1> HIDE DEF e
<1>8. /\ QueueInv' /\ ch' \in [Builds -> Seq(Event)] /\ \A a \in Builds : Len(ch'[a]) <= Cap
      /\ Taken(b)' = Taken(b)
      /\ \A a \in Builds \ {b} : Taken(a)' = Taken(a) /\ (UNCHANGED dialog /\ UpToDate(a) => UpToDate(a)')
  BY <1>1, <1>2, <1>3, <1>4, <1>6, <1>7, SendStep
<1>9. TypeOK'
  BY <1>1, <1>3, <1>8 DEF IInv, TypeOK
<1>10. JobInv' /\ ConnInv'
  BY <1>1, <1>8 DEF IInv, JobInv, ConnInv
<1>11. DialogInv' /\ ShownIsReal'
  BY <1>1, <1>2, <1>3, <1>8, JobShows
<1>12. QED
  BY <1>8, <1>9, <1>10, <1>11 DEF IInv

LEMMA CompleteStep ==
  ASSUME IInv, NEW b \in Builds, Complete(b)
  PROVE  IInv'
<1>1. PICK k \in {"error", "done"} : Send(b, Last(k)) /\ result' = [result EXCEPT ![b] = k]
  BY DEF Complete
<1>2. /\ job[b] = "streaming" /\ job' = [job EXCEPT ![b] = "returned"]
      /\ UNCHANGED <<store, lines, conn, dialog>>
  BY DEF Complete
<1>3. /\ result'[b] = k /\ \A a \in Builds \ {b} : result'[a] = result[a]
      /\ job'[b] = "returned" /\ \A a \in Builds \ {b} : job'[a] = job[a]
  BY <1>1, <1>2 DEF IInv, TypeOK
<1>4. lines[b] \in Nat /\ lines'[b] = lines[b] /\ result[b] = "none"
  BY <1>2, LinesAssumption DEF IInv, TypeOK, JobInv
<1>5. Last(k) \in Event
  BY LinesAssumption DEF Last, Event
<1>6. SentEvents(b) = lines[b] /\ SentEvents(b)' = lines[b] + 1
  BY <1>3, <1>4 DEF SentEvents
<1>7. Last(k) = EventAt(b, SentEvents(b))'
  BY <1>3, <1>4, <1>6 DEF EventAt
<1>8. lines'[b] \in Nat /\ lines'[b] >= lines[b] /\ SentEvents(b)' = SentEvents(b) + 1
  BY <1>4, <1>6
<1>9. /\ QueueInv' /\ ch' \in [Builds -> Seq(Event)] /\ \A a \in Builds : Len(ch'[a]) <= Cap
      /\ Taken(b)' = Taken(b)
      /\ \A a \in Builds \ {b} : Taken(a)' = Taken(a) /\ (UNCHANGED dialog /\ UpToDate(a) => UpToDate(a)')
  BY <1>1, <1>2, <1>3, <1>4, <1>5, <1>7, <1>8, SendStep
<1>10. TypeOK'
  BY <1>1, <1>2, <1>9 DEF IInv, TypeOK
<1>11. JobInv' /\ ConnInv'
  BY <1>2, <1>3, <1>9 DEF IInv, JobInv, ConnInv
<1>12. DialogInv' /\ ShownIsReal'
  BY <1>2, <1>3, <1>4, <1>9, JobShows
<1>13. QED
  BY <1>9, <1>10, <1>11, <1>12 DEF IInv

-----------------------------------------------------------------------------
\* Every step keeps the invariant.
LEMMA NextIInv == IInv /\ [Next]_vars => IInv'
<1> SUFFICES ASSUME IInv, [Next]_vars PROVE IInv'
  OBVIOUS
<1>1. CASE UNCHANGED vars
  <2>1. UNCHANGED <<store, ch, job, lines, result, conn, dialog>>
    BY <1>1 DEF vars
  <2>2. \A a : UpToDate(a) => UpToDate(a)'
    BY <2>1, SameEvents DEF UpToDate
  <2>3. QueueInv' /\ ConnInv'
    BY <2>1, QuietStep DEF IInv, ConnInv
  <2>4. TypeOK' /\ JobInv' /\ DialogInv' /\ ShownIsReal'
    BY <2>1, <2>2 DEF IInv, TypeOK, JobInv, DialogInv, ShownIsReal
  <2>5. QED
    BY <2>3, <2>4 DEF IInv
<1>2. CASE Next
  BY <1>2, FormStep, PostStep, AnswerStep, LeaveStep, ConnectStep, ForwardStep, EndStep, FailEarlyStep,
     GoroutineStep, OutputStep, CompleteStep
     DEF Next, Server, Job
<1>3. QED
  BY <1>1, <1>2

\* DialogSound: a channel never holds more than its capacity; the lines in the
\* dialog are the first of the build, in order, a success is shown of a build
\* that succeeded with all its output, and an error of one that docker reported,
\* whatever the goroutine, the handler and the browser did meanwhile
\* (apiBuildImage, wsBuildStream, BuildImageDialog).
THEOREM BuildDialogSound == Spec => []DialogSound
<1>1. IInv => DialogSound
  BY DEF IInv, DialogSound
<1>2. QED
  BY <1>1, InitIInv, NextIInv, PTL DEF Spec

=============================================================================
