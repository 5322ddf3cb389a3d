-------------------------- MODULE LogBufferProofs --------------------------
(***************************************************************************)
(* The ring of internal/logbuffer proved for every size, channel capacity, *)
(* number of viewers and bound on the lines: what Lines returns, that the  *)
(* ring implements LogTail, and that storeLocked never sends on a closed   *)
(* channel.                                                                *)
(*                                                                         *)
(* The type invariant says nothing about which slot holds which line, so   *)
(* the inductive invariant counts backwards from head: the i-th slot       *)
(* before it holds the i-th newest line.  Wrap is that index without the   *)
(* modulo of the code, with which the provers can calculate.               *)
(***************************************************************************)
EXTENDS LogBuffer, SequenceTheorems, TLAPS

Wrap(x) == IF x < 0 THEN x + Size ELSE x

\* Counting back from head, slots hold the newest lines, down to the oldest kept.
RingInv ==
  /\ count = IF stored < Size THEN stored ELSE Size
  /\ \A i \in 1 .. count : lines[Wrap(head - i)] = stored + 1 - i

\* A registered channel belongs to a handler that has not unsubscribed it yet.
ChannelInv ==
  \A v \in subs : pc[v] \in {"stream", "remove"} /\ v \notin closed

IInv == TypeOK /\ RingInv /\ ChannelInv

-----------------------------------------------------------------------------
\* The modulo that moves head on: it is reduced at most once.
LEMMA ModOnce ==
  ASSUME NEW x \in 0 .. 2 * Size - 1
  PROVE  x % Size = IF x < Size THEN x ELSE x - Size
<1>1. CASE x < Size
  BY <1>1, SizeAssumption
<1>2. CASE x >= Size
  BY <1>2, SizeAssumption
<1>. QED  BY <1>1, <1>2, SizeAssumption

\* The start of the window in Lines: the code adds Size * 2 before the modulo.
LEMMA ModTwice ==
  ASSUME NEW x \in -Size .. Size - 1
  PROVE  (x + Size * 2) % Size = Wrap(x)
<1>1. CASE x < 0
  BY <1>1, SizeAssumption DEF Wrap
<1>2. CASE x >= 0
  BY <1>2, SizeAssumption DEF Wrap
<1>. QED  BY <1>1, <1>2, SizeAssumption

\* Lines(n) read back through Wrap: slot by slot the m newest lines.
LEMMA LinesAreNewest ==
  ASSUME TypeOK, RingInv, NEW n \in Nat
  PROVE  Lines(n) = LET m == IF n > count THEN count ELSE n
                    IN  [i \in 1 .. m |-> stored - m + i]
<1>. DEFINE m == IF n > count THEN count ELSE n
            start == (head - m + Size * 2) % Size
<1>1. m \in 0 .. count /\ count \in 0 .. Size /\ head \in 0 .. Size - 1 /\ stored \in Nat
  BY SizeAssumption DEF TypeOK
<1>2. start = Wrap(head - m)
  <2>1. head - m \in -Size .. Size - 1
    BY <1>1, SizeAssumption
  <2>. QED  BY <2>1, ModTwice
<1>3. ASSUME NEW i \in 1 .. m
      PROVE  lines[(start + (i - 1)) % Size] = stored - m + i
  <2>1. (start + (i - 1)) % Size = Wrap(head - (m + 1 - i))
    <3>. HIDE DEF m
    <3>1. Wrap(head - m) \in 0 .. Size - 1
      BY <1>1, SizeAssumption DEF Wrap
    <3>. DEFINE x == Wrap(head - m) + (i - 1)
    <3>2. x \in 0 .. 2 * Size - 1
      BY <1>1, <3>1, SizeAssumption
    <3>3. x % Size = IF x < Size THEN x ELSE x - Size
      <4>. HIDE DEF x
      <4>. QED  BY <3>2, ModOnce
    <3>4. (start + (i - 1)) % Size = x % Size
      BY <1>2
    <3>5. (IF x < Size THEN x ELSE x - Size) = Wrap(head - (m + 1 - i))
      BY <1>1, SizeAssumption DEF Wrap
    <3>. QED  BY <3>3, <3>4, <3>5
  <2>2. m + 1 - i \in 1 .. count /\ stored + 1 - (m + 1 - i) = stored - m + i
    BY <1>1
  <2>. QED  BY <2>1, <2>2 DEF RingInv
<1>4. Lines(n) = [i \in 1 .. m |-> lines[(start + (i - 1)) % Size]]
  BY DEF Lines
<1>. QED  BY <1>3, <1>4

-----------------------------------------------------------------------------
\* storeLocked advances the ring: what was the i-th newest line is the (i+1)-th.
LEMMA StorePreservesRing ==
  ASSUME TypeOK, RingInv, StoreLocked
  PROVE  /\ RingInv'
         /\ head' \in 0 .. Size - 1 /\ count' \in 0 .. Size
         /\ lines' \in [0 .. Size - 1 -> Nat] /\ stored' \in Nat
<1>1. /\ lines \in [0 .. Size - 1 -> Nat] /\ head \in 0 .. Size - 1
      /\ count \in 0 .. Size /\ stored \in Nat
  BY DEF TypeOK
<1>2. /\ stored' = stored + 1 /\ lines' = [lines EXCEPT ![head] = stored + 1]
      /\ head' = (head + 1) % Size /\ count' = IF count < Size THEN count + 1 ELSE count
  BY DEF StoreLocked, NextSlot
<1>3. head' = IF head + 1 < Size THEN head + 1 ELSE 0
  <2>. DEFINE x == head + 1
  <2>1. x \in 0 .. 2 * Size - 1
    BY <1>1, SizeAssumption
  <2>2. x % Size = IF x < Size THEN x ELSE x - Size
    <3>. HIDE DEF x
    <3>. QED  BY <2>1, ModOnce
  <2>. QED  BY <1>1, <1>2, <2>2, SizeAssumption
<1>4. /\ head' \in 0 .. Size - 1 /\ count' \in 0 .. Size
      /\ lines' \in [0 .. Size - 1 -> Nat] /\ stored' \in Nat
  BY <1>1, <1>2, <1>3, SizeAssumption
<1>5. count' = IF stored' < Size THEN stored' ELSE Size
  BY <1>1, <1>2, SizeAssumption DEF RingInv
<1>6. ASSUME NEW i \in 1 .. count'
      PROVE  lines'[Wrap(head' - i)] = stored' + 1 - i
  <2>1. CASE i = 1
    <3>1. Wrap(head' - 1) = head
      BY <1>1, <1>3, SizeAssumption DEF Wrap
    <3>. QED  BY <1>1, <1>2, <2>1, <3>1
  <2>2. CASE i # 1
    <3>1. i - 1 \in 1 .. count /\ i \in 2 .. Size
      BY <1>1, <1>2, <1>4, <2>2, SizeAssumption
    <3>2. Wrap(head' - i) = Wrap(head - (i - 1)) /\ Wrap(head - (i - 1)) # head
      BY <1>1, <1>3, <3>1, SizeAssumption DEF Wrap
    <3>3. Wrap(head - (i - 1)) \in 0 .. Size - 1
      BY <1>1, <3>1, SizeAssumption DEF Wrap
    <3>4. lines[Wrap(head - (i - 1))] = stored + 1 - (i - 1)
      BY <3>1 DEF RingInv
    <3>. QED  BY <1>1, <1>2, <3>1, <3>2, <3>3, <3>4
  <2>. QED  BY <2>1, <2>2
<1>7. RingInv'
  BY <1>5, <1>6 DEF RingInv, Wrap
<1>. QED  BY <1>4, <1>7

-----------------------------------------------------------------------------
\* A copy of the newest lines is a sequence of lines.
LEMMA LinesAreSequence ==
  ASSUME TypeOK, RingInv, NEW n \in Nat
  PROVE  Lines(n) \in Seq(Nat)
<1>. DEFINE m == IF n > count THEN count ELSE n
<1>1. m \in Nat /\ m <= stored /\ stored \in Nat
  BY SizeAssumption DEF TypeOK, RingInv
<1>2. Lines(n) = [i \in 1 .. m |-> stored - m + i]
  BY LinesAreNewest
<1>. HIDE DEF m
<1>3. \A i \in 1 .. m : stored - m + i \in Nat
  BY <1>1
<1>. QED  BY <1>1, <1>2, <1>3

\* The initial ring is empty.
LEMMA InitIInv == Init => IInv
BY SizeAssumption DEF Init, IInv, TypeOK, PCs, RingInv, ChannelInv

\* storeLocked leaves registrations alone and puts lines into channels.
LEMMA StoreIInv ==
  ASSUME IInv, StoreLocked
  PROVE  IInv'
<1>1. TypeOK /\ RingInv /\ ChannelInv
  BY DEF IInv
<1>2. /\ RingInv'
      /\ head' \in 0 .. Size - 1 /\ count' \in 0 .. Size
      /\ lines' \in [0 .. Size - 1 -> Nat] /\ stored' \in Nat
  BY <1>1, StorePreservesRing
<1>3. chan' \in [Viewers -> Seq(Nat)]
  <2>1. \A v \in Viewers : chan[v] \in Seq(Nat) /\ Append(chan[v], stored + 1) \in Seq(Nat)
    BY <1>1 DEF TypeOK
  <2>2. chan' = [v \in Viewers |-> IF v \in subs THEN Offer(chan[v], stored + 1) ELSE chan[v]]
    BY DEF StoreLocked
  <2>. QED  BY <2>1, <2>2 DEF Offer
<1>4. missed' \in SUBSET Viewers
  BY <1>1 DEF StoreLocked, TypeOK
<1>5. TypeOK'
  BY <1>1, <1>2, <1>3, <1>4 DEF StoreLocked, TypeOK
<1>6. ChannelInv'
  BY <1>1 DEF StoreLocked, ChannelInv
<1>. QED  BY <1>2, <1>5, <1>6 DEF IInv

\* No step of a viewer touches the ring; a channel is closed only after it was
\* removed from subs, and a new one takes its place before it is registered.
LEMMA ViewerIInv ==
  ASSUME IInv, NEW v \in Viewers, ViewerStep(v)
  PROVE  IInv' /\ UNCHANGED ringVars
<1>1. TypeOK /\ RingInv /\ ChannelInv
  BY DEF IInv
<1>2. UNCHANGED ringVars
  BY DEF ViewerStep, Open, Replay, Subscribe, Receive, Unregister, Close
<1>3. RingInv'
  BY <1>1, <1>2 DEF RingInv, ringVars, Wrap
<1>4. TypeOK' /\ ChannelInv'
  <2>1. CASE Open(v)
    <3>1. Lines(Replayed) \in Seq(Nat)
      BY <1>1, LinesAreSequence, ReplayedAssumption
    <3>. QED  BY <1>1, <1>2, <2>1, <3>1 DEF Open, TypeOK, PCs, ChannelInv, ringVars
  <2>2. CASE Replay(v)
    <3>1. Head(todo[v]) \in Nat /\ Tail(todo[v]) \in Seq(Nat) /\ <<>> \in Seq(Nat)
      BY <1>1, <2>2 DEF Replay, TypeOK
    <3>. QED  BY <1>1, <1>2, <2>2, <3>1 DEF Replay, TypeOK, PCs, ChannelInv, ringVars
  <2>3. CASE Subscribe(v)
    BY <1>1, <1>2, <2>3 DEF Subscribe, TypeOK, PCs, ChannelInv, ringVars
  <2>4. CASE Receive(v)
    <3>1. Head(chan[v]) \in Nat /\ Tail(chan[v]) \in Seq(Nat)
      BY <1>1, <2>4 DEF Receive, TypeOK
    <3>. QED  BY <1>1, <1>2, <2>4, <3>1 DEF Receive, TypeOK, PCs, ChannelInv, ringVars
  <2>5. CASE Unregister(v)
    BY <1>1, <1>2, <2>5 DEF Unregister, TypeOK, PCs, ChannelInv, ringVars
  <2>6. CASE Close(v)
    BY <1>1, <1>2, <2>6 DEF Close, TypeOK, PCs, ChannelInv, ringVars
  <2>. QED  BY <2>1, <2>2, <2>3, <2>4, <2>5, <2>6 DEF ViewerStep
<1>. QED  BY <1>2, <1>3, <1>4 DEF IInv

\* The inductive invariant holds in every reachable state of the server log.
THEOREM RingInvariance == Spec => []IInv
<1>1. Init => IInv
  BY InitIInv
<1>2. IInv /\ [Next]_vars => IInv'
  <2>. SUFFICES ASSUME IInv, [Next]_vars  PROVE  IInv'
    OBVIOUS
  <2>1. CASE StoreLocked
    BY <2>1, StoreIInv
  <2>2. CASE \E v \in Viewers : ViewerStep(v)
    BY <2>2, ViewerIInv
  <2>3. CASE UNCHANGED vars
    BY <2>3 DEF vars, IInv, TypeOK, RingInv, ChannelInv, Wrap
  <2>. QED  BY <2>1, <2>2, <2>3 DEF Next
<1>. QED  BY <1>1, <1>2, PTL DEF Spec

\* Every variable of the ring and its viewers keeps its type; head stays a slot.
THEOREM RingTypeCorrect == Spec => []TypeOK
<1>1. IInv => TypeOK
  BY DEF IInv
<1>. QED  BY <1>1, RingInvariance, PTL

\* Lines(n) returns exactly the n newest lines in order, wherever head is.
THEOREM TailStaysExact == Spec => []TailIsExact
<1>1. IInv => TailIsExact
  <2>. SUFFICES ASSUME IInv, NEW n \in 0 .. Size
                PROVE  LET m == IF n > stored THEN stored ELSE n
                       IN  Lines(n) = [i \in 1 .. m |-> stored - m + i]
    BY DEF TailIsExact
  <2>1. TypeOK /\ RingInv /\ n \in Nat
    BY SizeAssumption DEF IInv
  <2>2. (IF n > count THEN count ELSE n) = (IF n > stored THEN stored ELSE n)
    BY <2>1, SizeAssumption DEF RingInv, TypeOK
  <2>. QED  BY <2>1, <2>2, LinesAreNewest
<1>. QED  BY <1>1, RingInvariance, PTL

\* storeLocked never sends on a channel that Unsubscribe has closed.
THEOREM NeverSendsOnClosed == Spec => []NoSendOnClosed
<1>1. IInv => NoSendOnClosed
  BY DEF IInv, ChannelInv, NoSendOnClosed
<1>. QED  BY <1>1, RingInvariance, PTL

-----------------------------------------------------------------------------
(***************************************************************************)
(* What viewers get.  A sequence of lines ascends above the line that was  *)
(* sent last; while nothing was passed over it is the end of the log.      *)
(***************************************************************************)
Ascends(s, x) ==
  /\ \A i \in 1 .. Len(s) : x < s[i] /\ s[i] <= stored
  /\ \A i, j \in 1 .. Len(s) : i < j => s[i] < s[j]

Newest(s, x) ==
  /\ \A i \in 1 .. Len(s) : s[i] = stored - Len(s) + i
  /\ x > 0 => x = stored - Len(s)

InStep(v) ==
  /\ last[v] <= stored
  /\ pc[v] = "stream" => v \in subs
  /\ pc[v] = "replay" => Ascends(todo[v], last[v])
  /\ v \in subs => Ascends(chan[v], last[v]) /\ Len(chan[v]) <= Cap
  /\ pc[v] = "replay" /\ v \notin missed => Newest(todo[v], last[v])
  /\ pc[v] = "stream" /\ v \notin missed => Newest(chan[v], last[v])

OrderInv == \A v \in Viewers : InStep(v)

\* Taking the first line off a sequence moves the others up.
LEMMA TakeFirst ==
  ASSUME NEW s \in Seq(Nat), s # <<>>
  PROVE  /\ Head(s) = s[1] /\ Head(s) \in Nat /\ 1 \in 1 .. Len(s) /\ Len(s) \in Nat
         /\ Tail(s) \in Seq(Nat) /\ Len(Tail(s)) = Len(s) - 1
         /\ \A i \in 1 .. Len(Tail(s)) : Tail(s)[i] = s[i + 1] /\ i + 1 \in 1 .. Len(s)
<1>1. Len(s) \in Nat /\ Len(s) # 0
  BY EmptySeq
<1>. QED  BY <1>1, HeadTailProperties

\* The rest ascends above the line that is sent, and above the one before it.
LEMMA RestAscends ==
  ASSUME NEW s \in Seq(Nat), s # <<>>, NEW x \in Nat, stored \in Nat, Ascends(s, x)
  PROVE  /\ Ascends(Tail(s), Head(s)) /\ Ascends(Tail(s), x)
         /\ x < Head(s) /\ Head(s) <= stored
<1>1. /\ Head(s) = s[1] /\ Head(s) \in Nat /\ 1 \in 1 .. Len(s) /\ Len(s) \in Nat
      /\ Tail(s) \in Seq(Nat) /\ Len(Tail(s)) = Len(s) - 1
      /\ \A i \in 1 .. Len(Tail(s)) : Tail(s)[i] = s[i + 1] /\ i + 1 \in 1 .. Len(s)
  BY TakeFirst
<1>2. \A i \in 1 .. Len(s) : s[i] \in Nat
  OBVIOUS
<1>3. \A i \in 1 .. Len(Tail(s)) : Head(s) < Tail(s)[i] /\ x < Tail(s)[i] /\ Tail(s)[i] <= stored
  BY <1>1, <1>2 DEF Ascends
<1>4. \A i, j \in 1 .. Len(Tail(s)) : i < j => Tail(s)[i] < Tail(s)[j]
  BY <1>1 DEF Ascends
<1>. QED  BY <1>1, <1>3, <1>4 DEF Ascends

\* The rest is still the end of the log, and the line sent is the one before it.
LEMMA RestNewest ==
  ASSUME NEW s \in Seq(Nat), s # <<>>, NEW x \in Nat, stored \in Nat, Newest(s, x)
  PROVE  Newest(Tail(s), Head(s)) /\ (x > 0 => Head(s) = x + 1)
<1>1. /\ Head(s) = s[1] /\ Head(s) \in Nat /\ 1 \in 1 .. Len(s) /\ Len(s) \in Nat
      /\ Tail(s) \in Seq(Nat) /\ Len(Tail(s)) = Len(s) - 1
      /\ \A i \in 1 .. Len(Tail(s)) : Tail(s)[i] = s[i + 1] /\ i + 1 \in 1 .. Len(s)
  BY TakeFirst
<1>2. Head(s) = stored - Len(s) + 1
  BY <1>1 DEF Newest
<1>3. \A i \in 1 .. Len(Tail(s)) : Tail(s)[i] = stored - Len(Tail(s)) + i
  BY <1>1 DEF Newest
<1>. QED  BY <1>1, <1>2, <1>3 DEF Newest

\* A newer line at the end of a channel: one longer, and the other lines stay.
LEMMA AppendLine ==
  ASSUME NEW c \in Seq(Nat), NEW y \in Nat
  PROVE  /\ Len(Append(c, y)) = Len(c) + 1 /\ Len(c) \in Nat
         /\ \A i \in 1 .. Len(c) : Append(c, y)[i] = c[i] /\ c[i] \in Nat
         /\ Append(c, y)[Len(c) + 1] = y
         /\ \A i \in 1 .. Len(Append(c, y)) : i = Len(c) + 1 \/ i \in 1 .. Len(c)
<1>1. Len(Append(c, y)) = Len(c) + 1 /\ Len(c) \in Nat
  OBVIOUS
<1>. QED  BY <1>1

LEMMA AppendAscends ==
  ASSUME NEW c \in Seq(Nat), NEW x \in Nat, stored \in Nat, x <= stored, Ascends(c, x)
  PROVE  LET d == Append(c, stored + 1)
         IN  /\ Len(d) = Len(c) + 1
             /\ \A i \in 1 .. Len(d) : x < d[i] /\ d[i] <= stored + 1
             /\ \A i, j \in 1 .. Len(d) : i < j => d[i] < d[j]
<1>. DEFINE y == stored + 1
            d == Append(c, y)
<1>1. y \in Nat /\ y = stored + 1
  OBVIOUS
<1>. HIDE DEF y
<1>2. /\ Len(d) = Len(c) + 1 /\ Len(c) \in Nat
      /\ \A i \in 1 .. Len(c) : d[i] = c[i] /\ c[i] \in Nat
      /\ d[Len(c) + 1] = y
      /\ \A i \in 1 .. Len(d) : i = Len(c) + 1 \/ i \in 1 .. Len(c)
  BY <1>1, AppendLine
<1>. HIDE DEF d
<1>3. \A i \in 1 .. Len(d) : x < d[i] /\ d[i] <= y
  <2>1. \A i \in 1 .. Len(c) : x < d[i] /\ d[i] <= y
    BY <1>1, <1>2 DEF Ascends
  <2>. QED  BY <1>1, <1>2, <2>1
<1>4. ASSUME NEW i \in 1 .. Len(d), NEW j \in 1 .. Len(d), i < j  PROVE  d[i] < d[j]
  <2>1. i \in 1 .. Len(c) /\ d[i] = c[i]
    BY <1>2, <1>4
  <2>2. d[i] <= stored
    BY <2>1 DEF Ascends
  <2>3. CASE j = Len(c) + 1
    BY <1>1, <1>2, <2>1, <2>2, <2>3
  <2>4. CASE j \in 1 .. Len(c)
    BY <1>2, <1>4, <2>1, <2>4 DEF Ascends
  <2>. QED  BY <1>2, <2>3, <2>4
<1>. QED  BY <1>1, <1>2, <1>3, <1>4 DEF d, y

LEMMA AppendNewest ==
  ASSUME NEW c \in Seq(Nat), NEW x \in Nat, stored \in Nat
  PROVE  LET d == Append(c, stored + 1)
         IN  Newest(c, x) => /\ \A i \in 1 .. Len(d) : d[i] = stored + 1 - Len(d) + i
                             /\ x > 0 => x = stored + 1 - Len(d)
<1>. DEFINE y == stored + 1
            d == Append(c, y)
<1>. SUFFICES ASSUME Newest(c, x)
              PROVE  /\ \A i \in 1 .. Len(d) : d[i] = stored + 1 - Len(d) + i
                     /\ x > 0 => x = stored + 1 - Len(d)
  OBVIOUS
<1>1. y \in Nat /\ y = stored + 1
  OBVIOUS
<1>. HIDE DEF y
<1>2. /\ Len(d) = Len(c) + 1 /\ Len(c) \in Nat
      /\ \A i \in 1 .. Len(c) : d[i] = c[i] /\ c[i] \in Nat
      /\ d[Len(c) + 1] = y
      /\ \A i \in 1 .. Len(d) : i = Len(c) + 1 \/ i \in 1 .. Len(c)
  BY <1>1, AppendLine
<1>. HIDE DEF d
<1>3. \A i \in 1 .. Len(c) : d[i] = stored + 1 - Len(d) + i
  BY <1>2 DEF Newest
<1>. QED  BY <1>1, <1>2, <1>3, SMTT(40) DEF Newest

\* storeLocked appends a line that is newer than all of them, or passes over
\* the viewer and says so in missed.
LEMMA StoreInStep ==
  ASSUME IInv, OrderInv, StoreLocked
  PROVE  OrderInv'
<1>. SUFFICES ASSUME NEW v \in Viewers  PROVE  InStep(v)'
  BY DEF OrderInv
<1>1. /\ stored \in Nat /\ stored' = stored + 1 /\ chan[v] \in Seq(Nat) /\ todo[v] \in Seq(Nat)
      /\ last[v] \in Nat /\ Len(chan[v]) \in Nat /\ Cap \in Nat
  BY CapAssumption DEF IInv, TypeOK, StoreLocked
<1>2. /\ InStep(v) /\ subs' = subs /\ pc' = pc /\ todo' = todo /\ last' = last
      /\ chan'[v] = IF v \in subs THEN Offer(chan[v], stored + 1) ELSE chan[v]
      /\ missed \subseteq missed' /\ (pc[v] = "replay" => v \in missed')
      /\ v \in subs /\ Len(chan[v]) >= Cap => v \in missed'
  BY DEF OrderInv, StoreLocked
<1>3. last'[v] <= stored' /\ (pc'[v] = "stream" => v \in subs')
  BY <1>1, <1>2 DEF InStep
<1>4. pc'[v] = "replay" => Ascends(todo[v], last[v])' /\ v \in missed'
  <2>1. \A i \in 1 .. Len(todo[v]) : todo[v][i] \in Nat
    BY <1>1
  <2>. QED  BY <1>1, <1>2, <2>1 DEF InStep, Ascends
<1>5. ASSUME v \in subs
      PROVE  /\ Ascends(chan[v], last[v])' /\ Len(chan'[v]) <= Cap
             /\ pc'[v] = "stream" /\ v \notin missed' => Newest(chan[v], last[v])'
  <2>1. \A i \in 1 .. Len(chan[v]) : chan[v][i] \in Nat
    BY <1>1
  <2>2. Ascends(chan[v], last[v]) /\ Len(chan[v]) <= Cap /\ last[v] <= stored
    BY <1>2, <1>5 DEF InStep
  <2>3. CASE Len(chan[v]) < Cap
    <3>1. chan'[v] = Append(chan[v], stored + 1)
      BY <1>2, <1>5, <2>3 DEF Offer
    <3>2. /\ Len(chan'[v]) = Len(chan[v]) + 1
          /\ \A i \in 1 .. Len(chan'[v]) : last[v] < chan'[v][i] /\ chan'[v][i] <= stored + 1
          /\ \A i, j \in 1 .. Len(chan'[v]) : i < j => chan'[v][i] < chan'[v][j]
      BY <1>1, <2>2, <3>1, AppendAscends
    <3>3. Newest(chan[v], last[v]) =>
            /\ \A i \in 1 .. Len(chan'[v]) : chan'[v][i] = stored + 1 - Len(chan'[v]) + i
            /\ last[v] > 0 => last[v] = stored + 1 - Len(chan'[v])
      BY <1>1, <3>1, AppendNewest
    <3>4. Ascends(chan[v], last[v])' /\ Len(chan'[v]) <= Cap
      BY <1>1, <1>2, <2>3, <3>2 DEF Ascends
    <3>5. pc'[v] = "stream" /\ v \notin missed' => Newest(chan[v], last[v])
      BY <1>2 DEF InStep
    <3>6. ASSUME pc'[v] = "stream", v \notin missed'  PROVE  Newest(chan[v], last[v])'
      <4>. DEFINE ch == chan'[v]
                  l  == Len(chan'[v])
      <4>1. /\ \A i \in 1 .. l : ch[i] = stored + 1 - l + i
            /\ last[v] > 0 => last[v] = stored + 1 - l
        BY <3>3, <3>5, <3>6
      <4>2. /\ stored' = stored + 1 /\ last'[v] = last[v] /\ l \in Nat
            /\ stored \in Nat /\ last[v] \in Nat
        BY <1>1, <1>2, <3>2
      <4>. HIDE DEF ch, l
      <4>3. /\ \A i \in 1 .. l : ch[i] = stored' - l + i
            /\ last'[v] > 0 => last'[v] = stored' - l
        BY <4>1, <4>2
      <4>. QED  BY <4>3 DEF Newest, ch, l
    <3>. QED  BY <3>4, <3>6
  <2>4. CASE Len(chan[v]) >= Cap
    <3>1. chan'[v] = chan[v] /\ v \in missed'
      BY <1>1, <1>2, <1>5, <2>4 DEF Offer
    <3>2. \A i \in 1 .. Len(chan[v]) : last[v] < chan[v][i] /\ chan[v][i] <= stored + 1
      BY <1>1, <2>1, <2>2 DEF Ascends
    <3>3. Ascends(chan[v], last[v])'
      BY <1>1, <1>2, <2>2, <3>1, <3>2 DEF Ascends
    <3>. QED  BY <2>2, <3>1, <3>3
  <2>. QED  BY <1>1, <2>3, <2>4
<1>. QED  BY <1>2, <1>3, <1>4, <1>5 DEF InStep

\* A viewer's own step, and what it does to nobody else.
LEMMA ViewerInStep ==
  ASSUME IInv, OrderInv, NEW v \in Viewers, ViewerStep(v)
  PROVE  OrderInv'
<1>1. /\ stored \in Nat /\ stored' = stored /\ chan[v] \in Seq(Nat) /\ todo[v] \in Seq(Nat)
      /\ last[v] \in Nat /\ Cap \in Nat /\ InStep(v) /\ TypeOK /\ RingInv /\ ChannelInv
  BY ViewerIInv, CapAssumption DEF IInv, TypeOK, OrderInv, ringVars
<1>2. /\ DOMAIN pc = Viewers /\ DOMAIN chan = Viewers /\ DOMAIN todo = Viewers /\ DOMAIN last = Viewers
  BY <1>1 DEF TypeOK
<1>3. ASSUME NEW w \in Viewers, w # v  PROVE  InStep(w)'
  <2>1. /\ pc'[w] = pc[w] /\ chan'[w] = chan[w] /\ todo'[w] = todo[w] /\ last'[w] = last[w]
        /\ (w \in subs' <=> w \in subs) /\ (w \in missed' <=> w \in missed)
    BY <1>2, <1>3 DEF ViewerStep, Open, Replay, Subscribe, Receive, Unregister, Close
  <2>2. InStep(w)
    BY DEF OrderInv
  <2>. QED  BY <1>1, <2>1, <2>2 DEF InStep, Ascends, Newest
<1>4. InStep(v)'
  <2>1. CASE Open(v)
    <3>. DEFINE m == IF Replayed > count THEN count ELSE Replayed
                t == [i \in 1 .. m |-> stored - m + i]
    <3>1. todo'[v] = t /\ pc'[v] = "replay" /\ last'[v] = 0 /\ v \notin subs'
      <4>1. Lines(Replayed) = t
        BY <1>1, LinesAreNewest, ReplayedAssumption
      <4>. QED  BY <1>1, <1>2, <2>1, <4>1 DEF Open, ChannelInv
    <3>2. m \in Nat /\ m <= stored
      BY <1>1, SizeAssumption, ReplayedAssumption DEF TypeOK, RingInv
    <3>. HIDE DEF m
    <3>3. Len(t) = m /\ \A i \in 1 .. m : t[i] = stored - m + i
      BY <3>2
    <3>. HIDE DEF t
    <3>4. Ascends(todo[v], last[v])' /\ Newest(todo[v], last[v])'
      BY <1>1, <3>1, <3>2, <3>3 DEF Ascends, Newest
    <3>. QED  BY <1>1, <3>1, <3>4 DEF InStep
  <2>2. CASE Replay(v)
    <3>1. /\ pc[v] = "replay" /\ todo[v] # <<>> /\ v \notin subs /\ subs' = subs /\ missed' = missed
          /\ Ascends(todo[v], last[v]) /\ (v \notin missed => Newest(todo[v], last[v]))
      BY <1>1, <2>2 DEF Replay, InStep, ChannelInv
    <3>2. Ascends(Tail(todo[v]), Head(todo[v])) /\ Head(todo[v]) <= stored
      BY <1>1, <3>1, RestAscends
    <3>3. v \notin missed => Newest(Tail(todo[v]), Head(todo[v]))
      BY <1>1, <3>1, RestNewest
    <3>4. CASE pc'[v] = "off"
      <4>1. last'[v] \in {last[v], Head(todo[v])}
        BY <1>2, <2>2 DEF Replay
      <4>. QED  BY <1>1, <3>1, <3>2, <3>4, <4>1 DEF InStep
    <3>5. CASE pc'[v] # "off"
      <4>1. pc'[v] = "replay" /\ todo'[v] = Tail(todo[v]) /\ last'[v] = Head(todo[v])
        BY <1>2, <2>2, <3>1, <3>5 DEF Replay
      <4>. QED  BY <1>1, <3>1, <3>2, <3>3, <4>1 DEF InStep, Ascends, Newest
    <3>. QED  BY <3>4, <3>5
  <2>3. CASE Subscribe(v)
    <3>1. /\ pc[v] = "replay" /\ todo[v] = <<>> /\ pc'[v] = "stream" /\ v \in subs'
          /\ chan'[v] = <<>> /\ last'[v] = last[v] /\ missed' = missed
      BY <1>2, <2>3 DEF Subscribe
    <3>2. Ascends(chan[v], last[v])' /\ Len(chan'[v]) <= Cap
      BY <1>1, <3>1 DEF Ascends
    <3>3. v \notin missed' => Newest(chan[v], last[v])'
      <4>1. v \notin missed => (last[v] > 0 => last[v] = stored)
        BY <1>1, <3>1 DEF InStep, Newest
      <4>. QED  BY <1>1, <3>1, <4>1 DEF Newest
    <3>. QED  BY <1>1, <3>1, <3>2, <3>3 DEF InStep
  <2>4. CASE Receive(v)
    <3>1. /\ pc[v] = "stream" /\ chan[v] # <<>> /\ v \in subs /\ subs' = subs /\ missed' = missed
          /\ chan'[v] = Tail(chan[v]) /\ Ascends(chan[v], last[v]) /\ Len(chan[v]) <= Cap
          /\ (v \notin missed => Newest(chan[v], last[v]))
      BY <1>1, <1>2, <2>4 DEF Receive, InStep
    <3>2. /\ Ascends(Tail(chan[v]), Head(chan[v])) /\ Ascends(Tail(chan[v]), last[v])
          /\ Head(chan[v]) <= stored
      BY <1>1, <3>1, RestAscends
    <3>3. v \notin missed => Newest(Tail(chan[v]), Head(chan[v]))
      BY <1>1, <3>1, RestNewest
    <3>4. Len(Tail(chan[v])) <= Cap
      BY <1>1, <3>1, TakeFirst
    <3>5. \/ pc'[v] = "stream" /\ last'[v] = Head(chan[v])
          \/ pc'[v] = "remove" /\ last'[v] = last[v]
      BY <1>2, <2>4, <3>1 DEF Receive
    <3>6. Ascends(chan[v], last[v])'
      BY <1>1, <3>1, <3>2, <3>5 DEF Ascends
    <3>7. pc'[v] = "stream" /\ v \notin missed' => Newest(chan[v], last[v])'
      BY <1>1, <3>1, <3>3, <3>5 DEF Newest
    <3>8. last'[v] <= stored'
      BY <1>1, <3>2, <3>5 DEF InStep
    <3>. QED  BY <3>1, <3>4, <3>5, <3>6, <3>7, <3>8 DEF InStep
  <2>5. CASE Unregister(v)
    BY <1>1, <1>2, <2>5 DEF Unregister, InStep, Ascends
  <2>6. CASE Close(v)
    <3>1. v \notin subs
      BY <1>1, <2>6 DEF Close, ChannelInv
    <3>. QED  BY <1>1, <1>2, <2>6, <3>1 DEF Close, InStep
  <2>. QED  BY <2>1, <2>2, <2>3, <2>4, <2>5, <2>6 DEF ViewerStep
<1>. QED  BY <1>3, <1>4 DEF OrderInv

\* Lines reach a viewer in order, and unless it was passed over without a gap.
THEOREM OrderInvariance == Spec => []OrderInv
<1>1. Init => OrderInv
  BY CapAssumption DEF Init, OrderInv, InStep
<1>2. IInv /\ OrderInv /\ [Next]_vars => OrderInv'
  <2>. SUFFICES ASSUME IInv, OrderInv, [Next]_vars  PROVE  OrderInv'
    OBVIOUS
  <2>1. CASE StoreLocked
    BY <2>1, StoreInStep
  <2>2. CASE \E v \in Viewers : ViewerStep(v)
    BY <2>2, ViewerInStep
  <2>3. CASE UNCHANGED vars
    BY <2>3 DEF vars, OrderInv, InStep, Ascends, Newest
  <2>. QED  BY <2>1, <2>2, <2>3 DEF Next
<1>. QED  BY <1>1, <1>2, RingInvariance, PTL DEF Spec

\* Types, the exact tail, no send on a closed channel, and lines in order, for
\* every ring size, channel capacity and number of viewers.
THEOREM RingStaysSound == Spec => []RingSound
<1>1. IInv /\ OrderInv => InOrder
  BY DEF IInv, TypeOK, OrderInv, InStep, InOrder, Ascends
<1>. QED  BY <1>1, RingTypeCorrect, TailStaysExact, NeverSendsOnClosed, RingInvariance,
             OrderInvariance, PTL DEF RingSound

\* No viewer is sent a line twice, or an older one after a newer one, or skips
\* one that it was offered.
THEOREM NoLineSkipped == Spec => NoSilentGap
<1>1. IInv /\ OrderInv /\ [Next]_vars =>
        [\A v \in Viewers :
           last[v] > 0 /\ last'[v] # last[v] /\ last'[v] > 0
             => /\ last'[v] > last[v]
                /\ last'[v] = last[v] + 1 \/ v \in missed]_vars
  <2>. SUFFICES ASSUME IInv, OrderInv, Next, NEW v \in Viewers,
                       last[v] > 0, last'[v] # last[v], last'[v] > 0
                PROVE  last'[v] > last[v] /\ (last'[v] = last[v] + 1 \/ v \in missed)
    OBVIOUS
  <2>1. /\ stored \in Nat /\ chan[v] \in Seq(Nat) /\ todo[v] \in Seq(Nat) /\ last[v] \in Nat
        /\ InStep(v) /\ DOMAIN last = Viewers
    BY DEF IInv, TypeOK, OrderInv
  <2>2. PICK w \in Viewers : ViewerStep(w)
    BY DEF Next, StoreLocked
  <2>3. w = v
    BY <2>1, <2>2 DEF ViewerStep, Open, Replay, Subscribe, Receive, Unregister, Close
  <2>4. CASE Replay(v) /\ last'[v] = Head(todo[v])
    <3>1. /\ todo[v] # <<>> /\ Ascends(todo[v], last[v]) /\ (v \notin missed => Newest(todo[v], last[v]))
      BY <2>1, <2>4 DEF Replay, InStep
    <3>2. last[v] < Head(todo[v]) /\ Head(todo[v]) \in Nat
      BY <2>1, <3>1, RestAscends, TakeFirst
    <3>3. v \notin missed => Head(todo[v]) = last[v] + 1
      BY <2>1, <3>1, RestNewest
    <3>. QED  BY <2>1, <2>4, <3>2, <3>3
  <2>5. CASE Receive(v) /\ last'[v] = Head(chan[v])
    <3>1. /\ chan[v] # <<>> /\ Ascends(chan[v], last[v]) /\ (v \notin missed => Newest(chan[v], last[v]))
      BY <2>1, <2>5 DEF Receive, InStep
    <3>2. last[v] < Head(chan[v]) /\ Head(chan[v]) \in Nat
      BY <2>1, <3>1, RestAscends, TakeFirst
    <3>3. v \notin missed => Head(chan[v]) = last[v] + 1
      BY <2>1, <3>1, RestNewest
    <3>. QED  BY <2>1, <2>5, <3>2, <3>3
  <2>. QED  BY <2>1, <2>2, <2>3, <2>4, <2>5 DEF ViewerStep, Open, Replay, Subscribe, Receive, Unregister, Close
<1>. QED  BY <1>1, RingInvariance, OrderInvariance, PTL DEF Spec, NoSilentGap

-----------------------------------------------------------------------------
\* The newest c of s lines with one more: appended while there is room, and
\* without the oldest when there is none.
LEMMA WindowGrows ==
  ASSUME NEW c \in Nat, NEW s \in Nat, c <= s
  PROVE  LET W == [i \in 1 .. c |-> s - c + i]
         IN  /\ Len(Append(W, s + 1)) = c + 1
             /\ Append(W, s + 1) = [i \in 1 .. c + 1 |-> s - c + i]
             /\ Tail(Append(W, s + 1)) = [i \in 1 .. c |-> s + 1 - c + i]
<1>. DEFINE W == [i \in 1 .. c |-> s - c + i]
            L == [i \in 1 .. c + 1 |-> s - c + i]
<1>1. W \in Seq(Nat) /\ Len(W) = c
  <2>1. \A i \in 1 .. c : s - c + i \in Nat
    OBVIOUS
  <2>. QED  BY <2>1
<1>2. Append(W, s + 1) = L
  <2>1. Append(W, s + 1) = [i \in 1 .. c + 1 |-> IF i = c + 1 THEN s + 1 ELSE W[i]]
    BY <1>1
  <2>2. \A i \in 1 .. c + 1 : (IF i = c + 1 THEN s + 1 ELSE W[i]) = s - c + i
    OBVIOUS
  <2>. QED  BY <2>1, <2>2
<1>3. L \in Seq(Nat) /\ Len(L) = c + 1
  <2>1. \A i \in 1 .. c + 1 : s - c + i \in Nat
    OBVIOUS
  <2>. QED  BY <2>1
<1>4. Tail(L) = [i \in 1 .. c |-> s + 1 - c + i]
  <2>. DEFINE R == [i \in 1 .. c |-> s + 1 - c + i]
  <2>1. R \in Seq(Nat) /\ Len(R) = c
    <3>1. \A i \in 1 .. c : s + 1 - c + i \in Nat
      OBVIOUS
    <3>. QED  BY <3>1
  <2>2. L # << >>
    BY <1>3
  <2>3. /\ Tail(L) \in Seq(Nat) /\ Len(Tail(L)) = Len(L) - 1
        /\ \A i \in 1 .. Len(Tail(L)) : Tail(L)[i] = L[i + 1]
    <3>. HIDE DEF L
    <3>. QED  BY <1>3, <2>2, HeadTailProperties
  <2>4. Len(Tail(L)) = c
    BY <1>3, <2>3
  <2>5. \A i \in 1 .. c : L[i + 1] = R[i]
    OBVIOUS
  <2>. HIDE DEF L, R
  <2>6. Tail(L) = R
    BY <2>1, <2>3, <2>4, <2>5, SeqEqual
  <2>. QED  BY <2>6 DEF R
<1>. QED  BY <1>2, <1>3, <1>4

\* The whole window, as the refinement needs it.
LEMMA WindowIs == IInv => Lines(Size) = [i \in 1 .. count |-> stored - count + i]
<1>. SUFFICES ASSUME IInv  PROVE  Lines(Size) = [i \in 1 .. count |-> stored - count + i]
  OBVIOUS
<1>1. TypeOK /\ RingInv /\ Size \in Nat
  BY SizeAssumption DEF IInv
<1>2. (IF Size > count THEN count ELSE Size) = count
  BY <1>1 DEF TypeOK
<1>. QED  BY <1>1, <1>2, LinesAreNewest

\* What Lines(Size) shows is the log that LogTail describes: a store is one
\* logged line and nothing that a viewer does changes it.
THEOREM RingImplementsTail == Spec => ImplementsTail
<1>1. Init => Recent!Init
  <2>. SUFFICES ASSUME Init  PROVE  Lines(Size) = <<>>
    BY DEF Recent!Init
  <2>1. IInv /\ count = 0
    BY InitIInv DEF Init
  <2>2. Lines(Size) = [i \in 1 .. 0 |-> stored - 0 + i]
    BY <2>1, WindowIs
  <2>. QED  BY <2>2
<1>2. IInv' => (Lines(Size) = [i \in 1 .. count |-> stored - count + i])'
  BY WindowIs, PTL
<1>3. IInv /\ IInv' /\ [Next]_vars => [Recent!Next]_(Lines(Size))
  <2>. SUFFICES ASSUME IInv, IInv', [Next]_vars
                PROVE  Recent!Next \/ Lines(Size)' = Lines(Size)
    OBVIOUS
  <2>1. CASE StoreLocked
    <3>. DEFINE c == count
                s == stored
                W == [i \in 1 .. c |-> s - c + i]
    <3>1. /\ TypeOK /\ RingInv /\ Size \in Nat /\ Size > 0
          /\ c \in Nat /\ s \in Nat /\ c <= s /\ c <= Size
      <4>1. TypeOK /\ RingInv
        BY DEF IInv
      <4>2. c \in Nat /\ s \in Nat /\ c <= Size
        BY <4>1 DEF TypeOK
      <4>3. count = IF stored < Size THEN stored ELSE Size
        BY <4>1 DEF RingInv
      <4>4. c <= s
        BY <4>2, <4>3, SizeAssumption
      <4>. QED  BY SizeAssumption, <4>1, <4>2, <4>4
    <3>2. Lines(Size) = W
      BY WindowIs
    <3>3. Lines(Size)' = [i \in 1 .. count' |-> stored' - count' + i]
      BY <1>2
    <3>4. /\ stored' = s + 1 /\ s + 1 \in 1 .. MaxLines
          /\ count' = IF c < Size THEN c + 1 ELSE c
      BY <2>1, <3>1, MaxLinesAssumption DEF StoreLocked
    <3>5. /\ Len(Append(W, s + 1)) = c + 1
          /\ Append(W, s + 1) = [i \in 1 .. c + 1 |-> s - c + i]
          /\ Tail(Append(W, s + 1)) = [i \in 1 .. c |-> s + 1 - c + i]
      BY <3>1, WindowGrows
    <3>6. Lines(Size)' = IF Len(Append(W, s + 1)) > Size THEN Tail(Append(W, s + 1))
                         ELSE Append(W, s + 1)
      <4>. HIDE DEF W, c, s
      <4>1. CASE c < Size
        <5>1. count' = c + 1 /\ ~(c + 1 > Size) /\ stored' - count' = s - c
          BY <3>1, <3>4, <4>1
        <5>. QED  BY <3>3, <3>5, <5>1
      <4>2. CASE c >= Size
        <5>1. count' = c /\ c + 1 > Size /\ stored' - count' = s + 1 - c
          BY <3>1, <3>4, <4>2
        <5>. QED  BY <3>3, <3>5, <5>1
      <4>. QED  BY <3>1, <4>1, <4>2
    <3>. QED  BY <3>2, <3>4, <3>6 DEF Recent!Next, Recent!Log
  <2>2. CASE \E v \in Viewers : ViewerStep(v)
    BY <2>2, ViewerIInv DEF ringVars, Lines
  <2>3. CASE UNCHANGED vars
    BY <2>3 DEF vars, Lines
  <2>. QED  BY <2>1, <2>2, <2>3 DEF Next
<1>. QED  BY <1>1, <1>3, RingInvariance, PTL DEF Spec, ImplementsTail, Recent!Spec
=============================================================================
