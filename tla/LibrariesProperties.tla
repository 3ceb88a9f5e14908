------------------------- MODULE LibrariesProperties -------------------------
(* Properties of Libraries and IscsiExport.                                *)
EXTENDS IscsiExport

Idle(p) == pc[p] = "idle"
Quiet == ~disturbed

TypeOK ==
    /\ online \in Seq(Library) /\ rows \in [Library -> 0 .. Full]
    /\ tape \in [Library -> 0 .. Nowhere]
    /\ hosts \in Seq([slots : Slot, media : [Slot -> Library \cup {NoLib, Gone}]])
    /\ backs \in [Library -> 0 .. MaxHosts] /\ targets \subseteq Library
    /\ record \in [Library -> 0 .. MaxHosts] /\ halfway \subseteq Library
    /\ cache \in Geometry /\ conf \in Confs
    /\ pc \in [Proc -> {"idle", "create", "delete", "spec", "check", "recheck", "ioctl", "script",
                        "run", "kernelctl", "applied", "pull", "phase1", "phase2", "save",
                        "unexport", "forget"}]
    /\ arg \in [Proc -> [lib : Library \cup {NoLib}, n : 0 .. MaxHosts + Full]]
    /\ want \in [Proc -> Geometry] /\ todo \in [Proc -> Seq(Library)]
    /\ disturbed \in BOOLEAN /\ shifted \in BOOLEAN /\ ops \in 0 .. MaxOps

\* However many processes create libraries at a time, there are never more than
\* the kernel has hosts for, and none twice.
LibrariesFit == Len(online) <= MaxHosts /\ IsInjective(online)

\* A synchronisation that reports success (by rescan, ioctl or script) leaves
\* the hosts with the geometry of the database, if nothing interfered with this
\* one or with an earlier one: the cached spec is never ahead of the kernel.
\* Every library has its host then, but in fixed mode with a reload script: a
\* reload that fails, followed by one that succeeds, leaves only as many hosts as
\* there were libraries, and the padded spec is cut to them ever after.
SyncedMatches ==
    \A p \in Proc : pc[p] = "pull" /\ Quiet
        => /\ Len(online) <= Len(hosts) \/ (conf.mode = "fixed" /\ conf.reload)
           /\ \A i \in DOMAIN online : i <= Len(hosts) => hosts[i].slots = rows[online[i]]

\* After its pull the catalogue has every tape where the host of its library
\* has it.
PulledAgrees ==
    \A p \in Proc : pc[p] = "pull" /\ todo[p] = << >> /\ Quiet
        => \A l \in ToSet(online) :
               Served(l) /\ tape[l] \in Slot => hosts[Index(l)].media[tape[l]] = l

\* Unless a library was deleted from in front of another, media are in the host
\* of their own library.
OwnHost ==
    ~shifted => \A l \in ToSet(online), i \in DOMAIN hosts, s \in Slot :
        hosts[i].media[s] = l => i = Index(l)

\* A process working alone changes neither the sizes nor the media of hosts
\* under an export, but by a command that moves a tape, and when a library is
\* deleted (its media stay where they are, without a row).
NotUnderExport ==
    [][Exported /\ hosts' # hosts
       => disturbed \/ (Sizes' = Sizes /\ (Tapes \/ \E p \in Proc : Delete(p)))]_vars

\* What the database records as exported has its target, whichever batches of
\* an export failed and wherever.  Not so with unexports: one that has run is
\* about to delete the record, and one that took the target away and then failed
\* leaves the record until it is repeated with success.
RecordsHaveTargets ==
    \A l \in Library : record[l] # 0 /\ Quiet
        => \/ l \in targets \cup halfway
           \/ \E p \in Proc : pc[p] = "forget" /\ arg[p].lib = l
=============================================================================
