----------------------------- MODULE MCCatalog ------------------------------
EXTENDS CatalogProperties, TLC

NullSlot == -1
Symmetric == Permutations(Tape)
=============================================================================
