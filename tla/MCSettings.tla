----------------------------- MODULE MCSettings -----------------------------
EXTENDS Settings, TLC

\* Saves have no identity.
MCSymmetry == Permutations(Reqs)

=============================================================================
