------------------------------ MODULE LogTail ------------------------------
(***************************************************************************)
(* What the server promises about its recent log: the last Size lines, in  *)
(* the order they were logged.                                             *)
(***************************************************************************)
EXTENDS Integers, Sequences

CONSTANTS Size,  \* how many lines are kept
          Line   \* the lines that can be logged

VARIABLE window

Init == window = <<>>

Log(x) ==
  LET longer == Append(window, x)
  IN  window' = IF Len(longer) > Size THEN Tail(longer) ELSE longer

Next == \E x \in Line : Log(x)

Spec == Init /\ [][Next]_window
=============================================================================
