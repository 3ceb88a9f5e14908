-------------------------- MODULE HostProperties ----------------------------
(***************************************************************************)
(* What is checked about module HostLifecycle.                             *)
(***************************************************************************)
EXTENDS HostLifecycle

Sizes == 1 .. MaxDrives \cup NumDrives
Geometry == UNION {[1 .. n -> Sizes] : n \in 0 .. MaxHosts}
InRange(g) == \A i \in DOMAIN g : g[i] \in 1 .. MaxDrives
Result == {"ok", "EBUSY", "EINVAL", "EIO", "ENODEV"}

\* The type invariant of the hosts, their works and the calls about them.
TypeOK ==
    /\ live \in Geometry /\ published \in Specs \cup Geometry
    /\ table \in BOOLEAN
    /\ pdev \in [Hosts -> {"none", "bound", "unbound"}]
    /\ list \in UNION {[1 .. n -> Hosts] : n \in 0 .. MaxHosts}
    /\ changer \in [Hosts -> 0 .. MaxDrives]
    /\ registered \in [Hosts -> BOOLEAN] /\ scanDone \in [Hosts -> BOOLEAN]
    /\ sdev \in [Hosts -> BOOLEAN] /\ cmd \in [Hosts -> BOOLEAN]
    /\ work \in [Work -> {"none", "pending", "mutex", "add", "scan", "scanning", "out"}]
    /\ fullMutex \in Hosts \cup {NoHost} /\ scanMutex \in Work \cup {NoWork}
    /\ serialFull \in BOOLEAN /\ noscan \in BOOLEAN /\ hotGeom \in BOOLEAN
    /\ reconfigActive \in BOOLEAN /\ unloading \in BOOLEAN
    /\ task \in {"off", "none", "init", "check", "teardown", "set", "rollback", "exit"}
    /\ step \in {"none", "table", "register", "quiesce", "cancel", "count", "remove", "unregister"}
    /\ at \in Nat /\ target \in Geometry /\ prev \in Geometry
    /\ pc \in [Callers -> {"idle", "queued", "submitted", "allowed", "woken", "read", "resizing",
                           "undoing", "using"}]
    /\ spec \in [Callers -> Specs \cup {<< >>}]
    /\ held \in [Callers -> Hosts \cup {NoHost, Dangling}]
    /\ jobRet \in Result

\* The comment on vtl_quiesce_all_hosts: before any platform device is
\* unregistered, deferred bring-up and scan have stopped on every host and
\* every SCSI host has been removed.
QuietBeforeUnregister ==
    step = "unregister" =>
        /\ \A w \in Work : work[w] = "none"
        /\ \A h \in Hosts : ~registered[h]

\* A SCSI command that passed the test of queuecommand finds its changer until
\* it ends, whatever tears the host down meanwhile.
CommandsSeeChanger == \A h \in Hosts : cmd[h] => changer[h] # 0

\* As long as allow_hot_geom has been N since insmod, the changer an ioctl has
\* looked up is never freed while the ioctl works on it: nothing but rmmod frees
\* one.  (No N is written again after Y: what Y let in goes on.)
PointersLive == ~hotGeom => \A c \in Callers : held[c] # Dangling

\* The comment on vtl_serial_full_bringup: one host at a time is between
\* scsi_add_host and the end of its scan, also when two works run at once, as
\* long as the parameter has been Y since insmod.
OneHostComesUp ==
    \A g, h \in Hosts :
        /\ g # h /\ serialFull
        /\ work[<<g, "bringup">>] \in {"add", "scan", "scanning"}
        => work[<<h, "bringup">>] \notin {"add", "scan", "scanning"}

\* Outside a rebuild, unless a probe failed, the hosts are exactly those of the
\* live geometry, in its order: position i of the list, by which ioctls name a
\* library, is host i, and its changer has the size the module believes in,
\* whichever other step of a registration, a resize or their roll back failed.
HostsMatch ==
    task = "none" /\ (\A i \in DOMAIN live : pdev[i] # "unbound") =>
        /\ list = [i \in DOMAIN live |-> i]
        /\ \A i \in DOMAIN live : changer[i] \in {0, live[i]}

\* When insmod, a rebuild or its roll back ends, well or not, what sysfs shows,
\* read back as vtl_parse_spec_tokens reads it, is the live geometry.  Two
\* exceptions: num_drives out of range, which insmod without vtl_instances takes
\* and shows as it is and a spec may not hold; and a roll back to a geometry that
\* sysfs did not show before either, as a resize half undone leaves one.
PublishedIsLive == [][
    /\ task \in {"init", "set", "rollback"} /\ task' = "none" /\ InRange(live')
    /\ task = "rollback" => Parse(published) \in {prev, << >>}
    => live' = Parse(published')
    ]_vars

\* Every SET_INSTANCES returns.
SetReturns == \A c \in Callers : pc[c] = "queued" ~> pc[c] = "idle"

\* rmmod, and an insmod that fails, come to an end.
UnloadEnds == task = "exit" ~> task = "off"

\* A host whose bring-up is scheduled comes up: its scan ends, or scsi_add_host
\* has failed.  Exceptions: the host is removed; a resize is in progress when the
\* bring-up may fire, which is then dropped (see ScanDoneWhenOver); and with
\* allow_hot_geom=Y SET_INSTANCES cancels what is scheduled, also when it then
\* refuses, or has vtl_reconfig_active set while it registers the new hosts.
HostComesUp == \A h \in Hosts :
    work[<<h, "bringup">>] = "pending" ~>
        \/ scanDone[h] \/ pdev[h] # "bound" \/ hotGeom
        \/ Resizing /\ work[<<h, "bringup">>] = "pending"

-----------------------------------------------------------------------------
(* What comments say and the code does not do                              *)

\* vtl.h: scan_done is "set after scsi_scan_host (+ quiesce) completes or
\* bringup aborted": a host whose works are over has it set.
ScanDoneWhenOver ==
    \A h \in Hosts :
        (\E i \in DOMAIN list : list[i] = h)
            /\ (\A kind \in {"bringup", "scan"} : work[<<h, kind>>] = "none")
        => scanDone[h]
=============================================================================
