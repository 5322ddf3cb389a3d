-------------------------- MODULE MCProjectStore --------------------------
(***************************************************************************)
(* Small instances of ProjectStore for TLC: two contents of the compose    *)
(* file, the second being the first with its images updated.               *)
(***************************************************************************)
EXTENDS ProjectStore, TLC

CONSTANTS c1, c2

MCNewer == (c1 :> c2) @@ (c2 :> c2)
MCSymmetry == Permutations(Reqs)
===========================================================================
