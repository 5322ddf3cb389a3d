----------------------------- MODULE MCAccounts -----------------------------
(***************************************************************************)
(* Small instances of Accounts for TLC.  The names are symmetric where     *)
(* Linux is empty.                                                         *)
(***************************************************************************)
EXTENDS Accounts, TLC

MCSymmetry == Permutations(Reqs) \union Permutations(Names)
=============================================================================
