----------------------------- MODULE LogBuffer -----------------------------
(***************************************************************************)
(* The in-memory log of the server (internal/logbuffer) and the WebSocket  *)
(* viewers that read it (wsServerLogs).                                    *)
(*                                                                         *)
(* A ring of Size slots holds the last lines; every subscriber has a       *)
(* buffered channel into which a new line is put unless it is full.  The   *)
(* n-th line that was logged is the number n: its text is of no interest   *)
(* here.  Each action is one critical section of RingBuffer.mu, or one     *)
(* write to a socket.                                                      *)
(***************************************************************************)
EXTENDS Integers, Sequences

CONSTANTS Size,      \* capacity of the ring (DefaultSize)
          Cap,       \* capacity of a subscriber's channel
          Replayed,  \* lines a viewer is sent when it connects
          Viewers,   \* connections to the log socket
          MaxLines   \* bound on the lines logged

ASSUME SizeAssumption == Size \in Nat \ {0}
ASSUME CapAssumption == Cap \in Nat \ {0}
ASSUME ReplayedAssumption == Replayed \in Nat
ASSUME MaxLinesAssumption == MaxLines \in Nat

VARIABLES
  lines,   \* the slots; 0 in a slot never written
  head,    \* next slot to write
  count,   \* valid slots
  subs,    \* viewers whose channel is registered
  closed,  \* viewers whose last channel is closed
  chan,    \* the channels
  pc,      \* where each viewer's handler is
  todo,    \* lines of the replay not yet sent
  stored,  \* history: lines logged so far
  last,    \* history: the line a viewer was sent last, 0 for none
  missed   \* history: viewers that were not offered some line

ringVars   == <<lines, head, count, stored>>
viewerVars == <<subs, closed, chan, pc, todo, last, missed>>
vars       == <<lines, head, count, stored, subs, closed, chan, pc, todo, last, missed>>

Init ==
  /\ lines = [i \in 0 .. Size - 1 |-> 0] /\ head = 0 /\ count = 0 /\ stored = 0
  /\ subs = {} /\ closed = {} /\ missed = {}
  /\ chan = [v \in Viewers |-> <<>>]
  /\ pc = [v \in Viewers |-> "off"]
  /\ todo = [v \in Viewers |-> <<>>]
  /\ last = [v \in Viewers |-> 0]

-----------------------------------------------------------------------------

NextSlot(h) == (h + 1) % Size

\* Mutant: a channel without a buffer takes a line only while its reader waits.
Offer_Unbuffered(ch, x) == IF ch = <<>> THEN Append(ch, x) ELSE ch

\* A send that gives up when the channel is full.
Offer(ch, x) == IF Len(ch) < Cap THEN Append(ch, x) ELSE ch

\* storeLocked: the line replaces the oldest one and goes to every subscriber.
StoreLocked ==
  LET x == stored + 1
      passedOver == {v \in subs : Len(chan[v]) >= Cap}
                      \union {v \in Viewers : pc[v] = "replay"}
  IN  /\ stored < MaxLines
      /\ stored' = x
      /\ lines' = [lines EXCEPT ![head] = x]
      /\ head' = NextSlot(head)
      /\ count' = IF count < Size THEN count + 1 ELSE count
      /\ chan' = [v \in Viewers |-> IF v \in subs THEN Offer(chan[v], x) ELSE chan[v]]
      /\ missed' = missed \union passedOver
      /\ UNCHANGED <<subs, closed, pc, todo, last>>

\* Mutant: the window starts one slot late.
Lines_Late(n) ==
  LET m     == IF n > count THEN count ELSE n
      start == (head - m + 1 + Size * 2) % Size
  IN  [i \in 1 .. m |-> lines[(start + (i - 1)) % Size]]

\* The last n lines in chronological order.
Lines(n) ==
  LET m     == IF n > count THEN count ELSE n
      start == (head - m + Size * 2) % Size
  IN  [i \in 1 .. m |-> lines[(start + (i - 1)) % Size]]

-----------------------------------------------------------------------------
\* A connection arrives and takes its copy of the recent lines.
Open(v) ==
  /\ pc[v] = "off"
  /\ pc' = [pc EXCEPT ![v] = "replay"]
  /\ todo' = [todo EXCEPT ![v] = Lines(Replayed)]
  /\ last' = [last EXCEPT ![v] = 0]
  /\ missed' = missed \ {v}
  /\ UNCHANGED <<ringVars, subs, closed, chan>>

\* One line of the replay is written to the socket; a failed write ends the
\* handler, which has nothing to unsubscribe yet.
Replay(v) ==
  /\ pc[v] = "replay" /\ todo[v] # <<>>
  /\ \/ /\ last' = [last EXCEPT ![v] = Head(todo[v])]
        /\ todo' = [todo EXCEPT ![v] = Tail(todo[v])]
        /\ UNCHANGED pc
     \/ /\ pc' = [pc EXCEPT ![v] = "off"]
        /\ todo' = [todo EXCEPT ![v] = <<>>]
        /\ UNCHANGED last
  /\ UNCHANGED <<ringVars, subs, closed, chan, missed>>

Subscribe(v) ==
  /\ pc[v] = "replay" /\ todo[v] = <<>>
  /\ pc' = [pc EXCEPT ![v] = "stream"]
  /\ subs' = subs \union {v}
  /\ chan' = [chan EXCEPT ![v] = <<>>]
  /\ closed' = closed \ {v}
  /\ UNCHANGED <<ringVars, todo, last, missed>>

\* A line is received and written to the socket; a failed write leaves the loop.
\* The loop's other exit is not a step: once the upgrade has taken the connection
\* over, net/http cancels r.Context() only when the handler has returned.
Receive(v) ==
  /\ pc[v] = "stream" /\ chan[v] # <<>>
  /\ chan' = [chan EXCEPT ![v] = Tail(chan[v])]
  /\ \/ last' = [last EXCEPT ![v] = Head(chan[v])] /\ UNCHANGED pc
     \/ pc' = [pc EXCEPT ![v] = "remove"] /\ UNCHANGED last
  /\ UNCHANGED <<ringVars, subs, closed, todo, missed>>

\* Mutant: Unsubscribe that closes the channel before it is removed.
Unregister_CloseFirst(v) ==
  /\ pc[v] = "remove"
  /\ pc' = [pc EXCEPT ![v] = "close"]
  /\ closed' = closed \union {v}
  /\ UNCHANGED <<ringVars, subs, chan, todo, last, missed>>

\* Unsubscribe: the channel is removed under the lock and closed after it.
Unregister(v) ==
  /\ pc[v] = "remove"
  /\ pc' = [pc EXCEPT ![v] = "close"]
  /\ subs' = subs \ {v}
  /\ UNCHANGED <<ringVars, closed, chan, todo, last, missed>>

Close(v) ==
  /\ pc[v] = "close"
  /\ pc' = [pc EXCEPT ![v] = "off"]
  /\ closed' = closed \union {v}
  /\ UNCHANGED <<ringVars, subs, chan, todo, last, missed>>

ViewerStep(v) ==
  Open(v) \/ Replay(v) \/ Subscribe(v) \/ Receive(v) \/ Unregister(v) \/ Close(v)

Next == StoreLocked \/ \E v \in Viewers : ViewerStep(v)

Spec == Init /\ [][Next]_vars

-----------------------------------------------------------------------------
PCs == {"off", "replay", "stream", "remove", "close"}

\* The types of the variables.
TypeOK ==
  /\ lines \in [0 .. Size - 1 -> Nat] /\ head \in 0 .. Size - 1
  /\ count \in 0 .. Size /\ stored \in Nat
  /\ subs \in SUBSET Viewers /\ closed \in SUBSET Viewers /\ missed \in SUBSET Viewers
  /\ chan \in [Viewers -> Seq(Nat)] /\ todo \in [Viewers -> Seq(Nat)]
  /\ pc \in [Viewers -> PCs] /\ last \in [Viewers -> Nat]

\* The last n lines are what Lines(n) returns, whatever the position of head:
\* they end with the line stored last and miss none in between.
TailIsExact ==
  \A n \in 0 .. Size :
    LET m == IF n > stored THEN stored ELSE n
    IN  Lines(n) = [i \in 1 .. m |-> stored - m + i]

\* The ring and Lines(Size) implement the abstract log.
Recent == INSTANCE LogTail WITH window <- Lines(Size), Line <- 1 .. MaxLines
ImplementsTail == Recent!Spec

\* storeLocked never sends on a closed channel, which would panic: a channel is
\* out of subs before Unsubscribe closes it.
NoSendOnClosed == subs \intersect closed = {}

\* A channel holds at most Cap lines, newer than what its viewer was sent and
\* in the order they were logged.
InOrder ==
  \A v \in subs :
    /\ Len(chan[v]) <= Cap
    /\ \A i \in 1 .. Len(chan[v]) : last[v] < chan[v][i] /\ chan[v][i] <= stored
    /\ \A i, j \in 1 .. Len(chan[v]) : i < j => chan[v][i] < chan[v][j]

\* A viewer sees no line twice and no older line after a newer one, and it skips
\* a line only if it was not offered it: its channel was full, or the line was
\* logged between its replay and its subscription.
NoSilentGap ==
  [][ \A v \in Viewers :
        last[v] > 0 /\ last'[v] # last[v] /\ last'[v] > 0
          => /\ last'[v] > last[v]
             /\ last'[v] = last[v] + 1 \/ v \in missed ]_vars

\* The ring and its viewers: types, the exact tail, no send on a closed channel,
\* and lines that reach a viewer in the order they were logged.
RingSound == TypeOK /\ TailIsExact /\ NoSendOnClosed /\ InOrder

=============================================================================
