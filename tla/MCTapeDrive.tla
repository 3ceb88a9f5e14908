---------------------------- MODULE MCTapeDrive -----------------------------
EXTENDS TapeDriveProperties, TLC
MCCounts == {-1, 1}
Sym == Permutations(Tape) \cup Permutations(Proc)
=============================================================================
