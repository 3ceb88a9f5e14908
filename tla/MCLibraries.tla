----------------------------- MODULE MCLibraries -----------------------------
EXTENDS LibrariesProperties, TLC
Conf(mode, ioctl, reload, script, hot) ==
    [mode |-> mode, ioctl |-> ioctl, reload |-> reload, script |-> script, hot |-> hot]
MCConfs == {
    Conf("fixed", TRUE, FALSE, FALSE, FALSE),
    Conf("legacy", TRUE, FALSE, FALSE, FALSE),
    Conf("legacy", TRUE, TRUE, TRUE, TRUE),
    Conf("legacy", FALSE, FALSE, FALSE, FALSE)}
Symmetry == Permutations(Proc) \cup Permutations(Library)
=============================================================================
