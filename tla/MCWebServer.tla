----------------------------- MODULE MCWebServer ----------------------------
EXTENDS WebServerProperties, TLC
Symmetry == Permutations(Web) \cup Permutations(Slot)

\* Bounds: of the two threads and the invocation of vtladm two work at a time,
\* and commands on tapes are not followed beside changes of the credentials,
\* with which they have no variable in common.
TwoAtATime == Cardinality({p \in Proc : ~Idle(p)}) <= 2
Apart == (\A p \in Proc : pc[p] = "idle") \/ (\A p \in Proc : step[p] = "idle")
=============================================================================
