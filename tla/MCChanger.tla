----------------------------- MODULE MCChanger ------------------------------
EXTENDS ChangerProperties, TLC
Sym == Permutations(Tape) \cup Permutations(Proc)
MCAddress == Element \cup {MaxSlots}
=============================================================================
