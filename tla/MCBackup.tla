------------------------------ MODULE MCBackup ------------------------------
EXTENDS Backup, TLC

\* Projects are interchangeable.
MCSymmetry == Permutations(Projects)

=============================================================================
