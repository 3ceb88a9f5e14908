------------------------------ MODULE MCHost --------------------------------
EXTENDS HostProperties, TLC
Growing == {<<1>>, <<1, 2>>}
SpecsUpTo2 == {<<1>>, <<1, 2>>, <<2, 1>>}
MCSpecs == Growing \cup {<<9, 1>>, << >>}
NoWrites == {}
\* What is written while the properties of host_default are to hold.
WritesOfDefault == {<<"allow_hot_geom", TRUE>>}
WritesOfRebuild == {<<"serial_full_bringup", TRUE>>, <<"noscan", TRUE>>}
\* Bound: with allow_hot_geom=Y, where a changer may be freed under an ioctl, no
\* ioctl works on one.
UsesWhenSafe == hotGeom => \A c \in Callers : pc[c] # "using"
CallerSymmetry == Permutations(Callers)
=============================================================================
