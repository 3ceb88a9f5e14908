--------------------------- MODULE HostLifecycle ----------------------------
(***************************************************************************)
(* The life of the SCSI hosts of the kernel module (kernel/src/vtl_main.c) *)
(*                                                                         *)
(* insmod registers one platform device per library; each probe allocates  *)
(* a changer and defers scsi_add_host and scsi_scan_host to a workqueue.   *)
(* SET_INSTANCES (on its own workqueue) tears all hosts down and builds    *)
(* others, rolling back when that fails; RESIZE_GEOMETRY changes hosts in  *)
(* place; rmmod tears everything down.  SCSI commands and ioctls use the   *)
(* changers meanwhile.                                                     *)
(*                                                                         *)
(* One thread at a time is inside insmod, a SET_INSTANCES job or rmmod     *)
(* (the ioctls keep the module busy): variables task, step and at are its  *)
(* progress.  A geometry is a sequence with the number of drives of each   *)
(* host.  Waits bounded by a timeout end at any moment.                    *)
(***************************************************************************)
EXTENDS Integers, FiniteSets, SequencesExt

CONSTANTS
    MaxHosts, MaxDrives,   \* VTL_MAX_SCSI_INSTANCES, VTL_MAX_DRIVES
    ManyHosts, ManyLuns,   \* from here on a geometry is heavy (4 and 48)
    Specs,                 \* specs given to insmod and to the ioctls
    NumDrives,             \* num_drives of an insmod without vtl_instances
    Callers, Calls,        \* processes, and the ioctls they use:
                           \* "set", "resize", "use" (any that names a changer)
    Served,                \* hosts that get SCSI commands
    Workers,               \* works vtl_bringup_wq runs at once (max_active is
                           \* 1 for each NUMA node, the queue being unbound)
    SerialFull, NoScan, AllowHotGeom,   \* values insmod may give these parameters
    Writes,                \* bound: <<parameter, value>> written through sysfs
    RequireNoSdevs,        \* hotgeom_require_no_sdevs
    Faults                 \* what may fail: "table", "device", "probe",
                           \* "add_host", "misc"

ASSUME HostAssumption ==
    /\ MaxHosts \in Nat \ {0} /\ MaxDrives \in Nat \ {0}
    /\ ManyHosts \in Nat /\ ManyLuns \in Nat
    /\ Specs \subseteq Seq(Int) /\ NumDrives \subseteq Int
    /\ Calls \subseteq {"set", "resize", "use"}
    /\ Workers \in Nat \ {0} /\ Served \subseteq 1 .. MaxHosts
    /\ SerialFull \subseteq BOOLEAN /\ NoScan \subseteq BOOLEAN
    /\ AllowHotGeom \subseteq BOOLEAN /\ RequireNoSdevs \in BOOLEAN
    /\ Writes \subseteq {"serial_full_bringup", "noscan", "allow_hot_geom"} \X BOOLEAN

Hosts == 1 .. MaxHosts
NoHost == 0
Dangling == -1   \* what a pointer to a freed changer becomes
Work == Hosts \X {"bringup", "scan"}   \* scan_work, post_add_scan_work
NoWork == <<NoHost, "none">>

VARIABLES
    live,          \* vtl_inst_drives[0 .. vtl_ninstances - 1]
    published,     \* vtl_instances as sysfs shows it; << >> is "(null)"
    table,         \* vtl_pdev_tab # NULL
    pdev,          \* per host: "none", "bound" or "unbound" (probe failed)
    list,          \* vtl_host_list
    changer,       \* per host: drives of its changer, 0 when there is none
    registered, scanDone,          \* vtl_host.scsi_registered, scan_done
    sdev,          \* the host has SCSI devices
    cmd,           \* a SCSI command is inside queuecommand of the host
    work,          \* progress of each deferred work
    fullMutex, scanMutex,          \* owners of vtl_full_bringup_mutex and
                                   \* vtl_host_scan_mutex
    serialFull, noscan,            \* vtl_serial_full_bringup, vtl_noscan
    hotGeom,                       \* vtl_allow_hot_geom
    reconfigActive, unloading,     \* vtl_reconfig_active, vtl_module_unloading
    task, step, at,                \* the thread that builds or tears down
    target, prev,                  \* geometry asked for, and the snapshot
    pc, spec, held,                \* per caller: progress, argument, changer
    jobRet                         \* vtl_geom_job.ret

geometry == <<live, published, table>>
devices == <<pdev, list, changer>>
scsi == <<registered, scanDone, sdev, cmd>>
works == <<work, fullMutex, scanMutex>>
params == <<serialFull, noscan, hotGeom>>
flags == <<reconfigActive, unloading>>
thread == <<task, step, at, target, prev>>
calls == <<pc, spec, held, jobRet>>
vars == <<geometry, devices, scsi, works, params, flags, thread, calls>>

-----------------------------------------------------------------------------
(* Helpers                                                                 *)

Clamp(n, top) == IF n < 1 THEN 1 ELSE IF n > top THEN top ELSE n

\* Mutant: numbers out of range are taken as they are.
ParseUnclamped(s) == IF Len(s) > MaxHosts THEN << >> ELSE s

\* vtl_parse_spec_tokens; << >> when it refuses the spec.
Parse(s) == IF Len(s) > MaxHosts THEN << >>
            ELSE [i \in DOMAIN s |-> Clamp(s[i], MaxDrives)]

TotalLuns(g) == FoldSeq(LAMBDA drives, n : drives + 1 + n, 0, g)
Heavy(g) == Len(g) >= ManyHosts \/ TotalLuns(g) > ManyLuns

\* The module answers on /dev/vtl between vtl_misc_init and vtl_misc_exit.
Loaded == task \notin {"off", "init", "exit"}
InProgress == reconfigActive \/ unloading
\* vtl_list_lock is held across blocking calls in these two loops only.
ListLocked == step \in {"cancel", "remove"}
Resizing == \E c \in Callers : pc[c] \in {"resizing", "undoing"}
ReconfigLocked == Resizing \/ task \in {"check", "teardown", "set", "rollback"}
JobQueueLocked == \E c \in Callers : pc[c] \in {"submitted", "allowed", "woken"}

Running(w) == work[w] \notin {"none", "pending"}
PoolBusy == Cardinality({w \in Work : Running(w)}) >= Workers

\* vtl_changer_free: a caller that still has the pointer has a dangling one.
Freed(h) == [c \in Callers |-> IF held[c] = h THEN Dangling ELSE held[c]]

GoTo(s, i) == step' = s /\ at' = i

Init ==
    /\ live = << >> /\ published = << >> /\ table = FALSE
    /\ pdev = [h \in Hosts |-> "none"] /\ list = << >>
    /\ changer = [h \in Hosts |-> 0]
    /\ registered = [h \in Hosts |-> FALSE]
    /\ scanDone = [h \in Hosts |-> FALSE]
    /\ sdev = [h \in Hosts |-> FALSE] /\ cmd = [h \in Hosts |-> FALSE]
    /\ work = [w \in Work |-> "none"]
    /\ fullMutex = NoHost /\ scanMutex = NoWork
    /\ serialFull = TRUE /\ noscan = FALSE /\ hotGeom = FALSE
    /\ reconfigActive = FALSE /\ unloading = FALSE
    /\ task = "off" /\ step = "none" /\ at = 0
    /\ target = << >> /\ prev = << >>
    /\ pc = [c \in Callers |-> "idle"]
    /\ spec = [c \in Callers |-> << >>]
    /\ held = [c \in Callers |-> NoHost]
    /\ jobRet = "ok"

-----------------------------------------------------------------------------
(* Deferred bring-up of a host: vtl_host_bringup_handler and               *)
(* vtl_host_scan_handler                                                   *)

\* vtl_serial_full_bringup is looked at before the wait for the mutex, again
\* before the scan, and again before the mutex is released.
BringupStart(h) ==
    /\ work[<<h, "bringup">>] = "pending" /\ ~PoolBusy
    /\ work' = [work EXCEPT ![<<h, "bringup">>] =
                    IF InProgress THEN "none" ELSE IF serialFull THEN "mutex" ELSE "add"]
    /\ UNCHANGED <<geometry, devices, scsi, fullMutex, scanMutex, params, flags, thread, calls>>

\* Mutant: vtl_full_bringup_mutex is not taken.
BringupUnlocked(h) ==
    /\ work[<<h, "bringup">>] = "mutex"
    /\ work' = [work EXCEPT ![<<h, "bringup">>] = "add"]
    /\ UNCHANGED <<geometry, devices, scsi, fullMutex, scanMutex, params, flags, thread, calls>>

BringupLock(h) ==
    /\ work[<<h, "bringup">>] = "mutex"
    /\ fullMutex = NoHost /\ fullMutex' = h
    /\ work' = [work EXCEPT ![<<h, "bringup">>] = "add"]
    /\ UNCHANGED <<geometry, devices, scsi, scanMutex, params, flags, thread, calls>>

\* Mutant: the failure of scsi_add_host does not set scan_done.
BringupAddFailsSilently(h) ==
    /\ work[<<h, "bringup">>] = "add" /\ "add_host" \in Faults
    /\ work' = [work EXCEPT ![<<h, "bringup">>] = "out"]
    /\ UNCHANGED <<geometry, devices, scsi, fullMutex, scanMutex, params, flags, thread, calls>>

\* scsi_add_host fails, or registers the host and the handler goes on.
BringupAddFails(h) ==
    /\ work[<<h, "bringup">>] = "add" /\ "add_host" \in Faults
    /\ scanDone' = [scanDone EXCEPT ![h] = TRUE]
    /\ work' = [work EXCEPT ![<<h, "bringup">>] = "out"]
    /\ UNCHANGED <<geometry, devices, registered, sdev, cmd, fullMutex, scanMutex, params,
                   flags, thread, calls>>

BringupAdd(h) ==
    /\ work[<<h, "bringup">>] = "add"
    /\ registered' = [registered EXCEPT ![h] = TRUE]
    /\ scanDone' = [scanDone EXCEPT ![h] = @ \/ noscan]
    /\ work' = IF ~noscan /\ serialFull
               THEN [work EXCEPT ![<<h, "bringup">>] = "scan"]
               ELSE [work EXCEPT ![<<h, "bringup">>] = "out",
                                 ![<<h, "scan">>] = IF noscan \/ unloading THEN @ ELSE "pending"]
    /\ UNCHANGED <<geometry, devices, sdev, cmd, fullMutex, scanMutex, params, flags, thread, calls>>

\* Mutant: vtl_full_bringup_mutex stays locked.
BringupOutLocked(h) ==
    /\ work[<<h, "bringup">>] = "out"
    /\ work' = [work EXCEPT ![<<h, "bringup">>] = "none"]
    /\ UNCHANGED <<geometry, devices, scsi, fullMutex, scanMutex, params, flags, thread, calls>>

\* What was not locked may be unlocked, and what was locked may stay so.
BringupOut(h) ==
    /\ work[<<h, "bringup">>] = "out"
    /\ work' = [work EXCEPT ![<<h, "bringup">>] = "none"]
    /\ fullMutex' = IF serialFull THEN NoHost ELSE fullMutex
    /\ UNCHANGED <<geometry, devices, scsi, scanMutex, params, flags, thread, calls>>

ScanStart(h) ==
    /\ work[<<h, "scan">>] = "pending" /\ ~PoolBusy
    /\ work' = [work EXCEPT ![<<h, "scan">>] =
                    IF serialFull \/ InProgress \/ ~registered[h] THEN "none" ELSE "scan"]
    /\ UNCHANGED <<geometry, devices, scsi, fullMutex, scanMutex, params, flags, thread, calls>>

\* scsi_scan_host under vtl_host_scan_mutex (serial_scsi_scan); it finds no
\* device while queuecommand refuses its INQUIRY.
Scan(w) ==
    /\ work[w] = "scan" /\ scanMutex = NoWork
    /\ scanMutex' = w
    /\ work' = [work EXCEPT ![w] = "scanning"]
    /\ sdev' = [sdev EXCEPT ![w[1]] = @ \/ ~InProgress]
    /\ UNCHANGED <<geometry, devices, registered, scanDone, cmd, fullMutex, params, flags,
                   thread, calls>>

ScanEnd(w) ==
    /\ work[w] = "scanning"
    /\ scanMutex' = NoWork
    /\ scanDone' = [scanDone EXCEPT ![w[1]] = TRUE]
    /\ work' = [work EXCEPT ![w] = IF w[2] = "bringup" THEN "out" ELSE "none"]
    /\ UNCHANGED <<geometry, devices, registered, sdev, cmd, fullMutex, params, flags, thread, calls>>

-----------------------------------------------------------------------------
(* SCSI traffic                                                            *)

\* The administrator scans a host by hand (echo "- - -" > .../scan).
ScanByHand(h) ==
    /\ registered[h] /\ ~sdev[h] /\ ~InProgress
    /\ sdev' = [sdev EXCEPT ![h] = TRUE]
    /\ UNCHANGED <<geometry, devices, registered, scanDone, cmd, works, params, flags, thread, calls>>

\* vtl_scsi_queuecommand past its test; otherwise it answers DID_NO_CONNECT.
CommandStart(h) ==
    /\ registered[h] /\ sdev[h] /\ ~cmd[h]
    /\ ~InProgress /\ changer[h] # 0
    /\ cmd' = [cmd EXCEPT ![h] = TRUE]
    /\ UNCHANGED <<geometry, devices, registered, scanDone, sdev, works, params, flags, thread, calls>>

CommandEnd(h) ==
    /\ cmd[h]
    /\ cmd' = [cmd EXCEPT ![h] = FALSE]
    /\ UNCHANGED <<geometry, devices, registered, scanDone, sdev, works, params, flags, thread, calls>>

-----------------------------------------------------------------------------
(* The parameters under /sys/module/vtl/parameters                         *)

\* These three have mode 0644: the administrator writes one at any time.
WriteParam(p, v) ==
    /\ task # "off" /\ <<p, v>> \in Writes
    /\ serialFull' = IF p = "serial_full_bringup" THEN v ELSE serialFull
    /\ noscan' = IF p = "noscan" THEN v ELSE noscan
    /\ hotGeom' = IF p = "allow_hot_geom" THEN v ELSE hotGeom
    /\ UNCHANGED <<geometry, devices, scsi, works, flags, thread, calls>>

-----------------------------------------------------------------------------
(* Registering the platform devices: vtl_register_all_pdevs, vtl_probe     *)

Building == task \in {"init", "set", "rollback"}

RegisterBegin ==
    /\ Building /\ step = "table"
    /\ table' = TRUE /\ GoTo("register", 1)
    /\ UNCHANGED <<live, published, devices, scsi, works, params, flags, task, target, prev, calls>>

RegisterDevice ==
    /\ Building /\ step = "register" /\ at <= Len(live) /\ live[at] \in 1 .. MaxDrives
    /\ pdev' = [pdev EXCEPT ![at] = "bound"]
    /\ list' = Append(list, at)
    /\ changer' = [changer EXCEPT ![at] = live[at]]
    /\ registered' = [registered EXCEPT ![at] = FALSE]
    /\ scanDone' = [scanDone EXCEPT ![at] = FALSE]
    /\ work' = [work EXCEPT ![<<at, "bringup">>] = "pending"]
    /\ GoTo("register", at + 1)
    /\ UNCHANGED <<geometry, sdev, cmd, fullMutex, scanMutex, params, flags, task, target,
                   prev, calls>>

\* platform_device_add reports success although the probe failed, as it does
\* for a number of drives out of range.
ProbeFails ==
    /\ Building /\ step = "register" /\ at <= Len(live)
    /\ "probe" \in Faults \/ live[at] \notin 1 .. MaxDrives
    /\ pdev' = [pdev EXCEPT ![at] = "unbound"]
    /\ GoTo("register", at + 1)
    /\ UNCHANGED <<geometry, list, changer, scsi, works, params, flags, task, target, prev, calls>>

DeviceFails ==
    /\ Building /\ step = "register" /\ at <= Len(live) /\ "device" \in Faults
    /\ GoTo("quiesce", 0)
    /\ UNCHANGED <<geometry, devices, scsi, works, params, flags, task, target, prev, calls>>

-----------------------------------------------------------------------------
(* Tearing down: vtl_quiesce_all_hosts, vtl_unregister_all_hosts,          *)
(* vtl_remove                                                              *)

Quiesce ==
    /\ step = "quiesce"
    /\ reconfigActive' = TRUE
    /\ unloading' = (unloading \/ task = "exit")
    /\ GoTo("cancel", 1)
    /\ UNCHANGED <<geometry, devices, scsi, works, params, task, target, prev, calls>>

\* Mutant: the scan is cancelled before the bring-up that schedules it.
CancelScanFirst == <<"scan", "bringup">>

\* cancel_delayed_work_sync on the works of each host in turn, under
\* vtl_list_lock: a pending work is dropped, a running one is waited for.
CancelOrder == <<"bringup", "scan">>
CancelWork ==
    /\ step = "cancel" /\ at <= 2 * Len(list)
    /\ LET w == <<list[(at + 1) \div 2], CancelOrder[((at + 1) % 2) + 1]>> IN
        /\ ~Running(w)
        /\ work' = [work EXCEPT ![w] = "none"]
    /\ GoTo("cancel", at + 1)
    /\ UNCHANGED <<geometry, devices, scsi, fullMutex, scanMutex, params, flags, task, target,
                   prev, calls>>

\* The list is unlocked and the workqueue flushed; a teardown then waits for
\* scan_done of all hosts or the timeout, SET_INSTANCES goes on to count.
CancelEnd ==
    /\ step = "cancel" /\ at > 2 * Len(list)
    /\ \A w \in Work : ~Running(w)
    /\ IF task = "check" THEN GoTo("count", 0) ELSE GoTo("remove", 1)
    /\ UNCHANGED <<geometry, devices, scsi, works, params, flags, task, target, prev, calls>>

\* Mutant: the changer is freed before scsi_remove_host has waited.
DetachEarly(h) ==
    /\ registered' = [registered EXCEPT ![h] = FALSE]
    /\ sdev' = [sdev EXCEPT ![h] = FALSE]
    /\ changer' = [changer EXCEPT ![h] = 0]
    /\ held' = Freed(h)

\* What taking a registered host h apart leaves: scsi_remove_host detaches its
\* devices after the commands inside queuecommand, then the changer is freed.
Detach(h) ==
    /\ ~cmd[h]
    /\ registered' = [registered EXCEPT ![h] = FALSE]
    /\ sdev' = [sdev EXCEPT ![h] = FALSE]
    /\ changer' = [changer EXCEPT ![h] = 0]
    /\ held' = Freed(h)

RemoveHost ==
    /\ step = "remove" /\ at <= Len(list)
    /\ IF registered[list[at]] THEN Detach(list[at])
       ELSE UNCHANGED <<registered, sdev, changer, held>>
    /\ GoTo("remove", at + 1)
    /\ UNCHANGED <<geometry, pdev, list, scanDone, cmd, works, params, flags, task, target, prev,
                   pc, spec, jobRet>>

RemoveEnd ==
    /\ step = "remove" /\ at > Len(list)
    /\ GoTo("unregister", 1)
    /\ UNCHANGED <<geometry, devices, scsi, works, params, flags, task, target, prev, calls>>

\* list_del
Unlisted(s, h) ==
    LET i == CHOOSE i \in DOMAIN s : s[i] = h
    IN  IF h \in ToSet(s) THEN RemoveAt(s, i) ELSE s

\* platform_device_unregister, which runs vtl_remove on a bound device.
Unregister ==
    /\ step = "unregister" /\ table /\ at <= Len(live)
    /\ IF pdev[at] = "bound"
       THEN /\ \A kind \in {"bringup", "scan"} : ~Running(<<at, kind>>)
            /\ work' = [work EXCEPT ![<<at, "bringup">>] = "none", ![<<at, "scan">>] = "none"]
            /\ list' = Unlisted(list, at)
            /\ Detach(at)
       ELSE UNCHANGED <<work, list, registered, sdev, changer, held>>
    /\ pdev' = [pdev EXCEPT ![at] = "none"]
    /\ GoTo("unregister", at + 1)
    /\ UNCHANGED <<geometry, scanDone, cmd, fullMutex, scanMutex, params, flags, task, target,
                   prev, pc, spec, jobRet>>

\* The device table goes, and with it vtl_ninstances; without a table neither
\* is touched.
Unregistered == step = "unregister" /\ (table => at > Len(live))
LiveKept == live   \* Mutant: vtl_ninstances is not reset.
LiveAfter == IF table THEN << >> ELSE live

-----------------------------------------------------------------------------
(* insmod and rmmod: vtl_init, vtl_exit                                    *)

\* vtl_apply_conservative_bringup_tuning, which looks at the new geometry
\* when its hosts are registered already.
Tune ==
    /\ serialFull' = (serialFull \/ Heavy(live))
    /\ noscan' = (noscan \/ Heavy(live))
    /\ UNCHANGED hotGeom

\* One host with num_drives, as it is, without vtl_instances.
ParseInstances(s) ==
    \/ Parse(s) # << >> /\ live' = Parse(s)
    \/ s = << >> /\ \E n \in NumDrives : live' = <<n>>

Insmod(s, serial, no, hot) ==
    /\ task = "off" /\ ParseInstances(s) /\ published' = s
    /\ serialFull' = serial /\ noscan' = no /\ hotGeom' = hot
    /\ task' = "init" /\ GoTo("table", 0)
    /\ UNCHANGED <<table, devices, scsi, works, flags, target, prev, calls>>

\* vtl_misc_init may fail when everything else is up.
InsmodEnd ==
    /\ task = "init" /\ step = "register" /\ at > Len(live)
    /\ published' = live /\ Tune
    /\ \/ task' = "none" /\ GoTo("none", 0)
       \/ "misc" \in Faults /\ task' = "exit" /\ GoTo("quiesce", 0)
    /\ UNCHANGED <<live, table, devices, scsi, works, flags, target, prev, calls>>

\* rmmod is refused while a process is inside an ioctl (.owner of the fops).
Rmmod ==
    /\ task = "none" /\ \A c \in Callers : pc[c] = "idle"
    /\ task' = "exit" /\ GoTo("quiesce", 0)
    /\ UNCHANGED <<geometry, devices, scsi, works, params, flags, target, prev, calls>>

ModuleGone ==
    /\ \/ task \in {"init", "exit"} /\ Unregistered
       \/ task = "init" /\ step = "table" /\ "table" \in Faults
    /\ live' = << >> /\ published' = << >> /\ table' = FALSE
    /\ reconfigActive' = FALSE /\ unloading' = FALSE
    /\ task' = "off" /\ GoTo("none", 0) /\ target' = << >> /\ prev' = << >>
    /\ UNCHANGED <<devices, scsi, works, params, calls>>

-----------------------------------------------------------------------------
(* SET_INSTANCES: vtl_apply_instances_spec hands the spec to vtl_geom_wq   *)

CallSet(c, s) ==
    /\ "set" \in Calls /\ Loaded /\ pc[c] = "idle"
    /\ pc' = [pc EXCEPT ![c] = "queued"] /\ spec' = [spec EXCEPT ![c] = s]
    /\ UNCHANGED <<geometry, devices, scsi, works, params, flags, thread, held, jobRet>>

Submit(c) ==
    /\ pc[c] = "queued" /\ ~JobQueueLocked
    /\ pc' = [pc EXCEPT ![c] = "submitted"]
    /\ UNCHANGED <<geometry, devices, scsi, works, params, flags, thread, spec, held, jobRet>>

\* The job of c returns r and wakes c.
Answer(c, r) ==
    /\ pc' = [pc EXCEPT ![c] = "woken"]
    /\ jobRet' = r
    /\ UNCHANGED <<spec, held>>

\* The same, and it leaves the hosts to others.
JobEnds(c, r) ==
    /\ pc[c] = "allowed" /\ Answer(c, r)
    /\ task' = "none" /\ GoTo("none", 0) /\ target' = << >> /\ prev' = << >>

\* allow_hot_geom is looked at before vtl_reconfig_mutex is taken.
JobRefused(c) ==
    /\ pc[c] = "submitted" /\ ~hotGeom
    /\ Answer(c, "EBUSY")
    /\ UNCHANGED <<geometry, devices, scsi, works, params, flags, thread>>

\* Mutant: allow_hot_geom is not looked at.
JobAllowedAnyway(c) ==
    /\ pc[c] = "submitted"
    /\ pc' = [pc EXCEPT ![c] = "allowed"]
    /\ UNCHANGED <<geometry, devices, scsi, works, params, flags, thread, spec, held, jobRet>>

JobAllowed(c) ==
    /\ pc[c] = "submitted" /\ hotGeom
    /\ pc' = [pc EXCEPT ![c] = "allowed"]
    /\ UNCHANGED <<geometry, devices, scsi, works, params, flags, thread, spec, held, jobRet>>

JobNothingToDo(c) ==
    /\ task = "none" /\ pc[c] = "allowed" /\ ~Resizing
    /\ \/ Parse(spec[c]) = << >> /\ Answer(c, "EINVAL") /\ UNCHANGED published
       \/ /\ live # << >> /\ Parse(spec[c]) = live
          /\ published' = spec[c] /\ Answer(c, "ok")
    /\ UNCHANGED <<live, table, devices, scsi, works, params, flags, thread>>

\* The job waits for scan_done of all hosts, or hotgeom_bringup_wait_ms.
JobBegin(c) ==
    /\ task = "none" /\ pc[c] = "allowed" /\ ~Resizing
    /\ Parse(spec[c]) \notin {<< >>, live}
    /\ target' = Parse(spec[c]) /\ prev' = live
    /\ task' = "check" /\ GoTo("cancel", 1)
    /\ UNCHANGED <<geometry, devices, scsi, works, params, flags, calls>>

\* Mutant: the refusal leaves vtl_reconfig_mutex locked.
JobBusyKeepsLock(c) ==
    /\ step = "count" /\ RequireNoSdevs
    /\ \E h \in Hosts : registered[h] /\ sdev[h]
    /\ pc[c] = "allowed"
    /\ pc' = [pc EXCEPT ![c] = "woken"]
    /\ jobRet' = "EBUSY"
    /\ GoTo("none", 0)
    /\ UNCHANGED <<task, target, prev, spec, held, geometry, devices, scsi, works, params, flags>>

JobBusy(c) ==
    /\ step = "count" /\ RequireNoSdevs
    /\ \E h \in Hosts : registered[h] /\ sdev[h]
    /\ JobEnds(c, "EBUSY")
    /\ UNCHANGED <<geometry, devices, scsi, works, params, flags>>

JobTearsDown ==
    /\ step = "count"
    /\ RequireNoSdevs => \A h \in Hosts : ~(registered[h] /\ sdev[h])
    /\ reconfigActive' = TRUE
    /\ task' = "teardown" /\ GoTo("quiesce", 0)
    /\ UNCHANGED <<geometry, devices, scsi, works, params, unloading, target, prev, calls>>

JobRebuilds ==
    /\ task = "teardown" /\ Unregistered
    /\ table' = FALSE /\ live' = target
    /\ task' = "set" /\ GoTo("table", 0)
    /\ UNCHANGED <<published, devices, scsi, works, params, flags, target, prev, calls>>

\* Mutant: the spec is not published.
JobSucceedsUnpublished(c) ==
    /\ task = "set" /\ step = "register" /\ at > Len(live)
    /\ Tune
    /\ reconfigActive' = FALSE /\ JobEnds(c, "ok")
    /\ UNCHANGED <<geometry, devices, scsi, works, unloading>>

JobSucceeds(c) ==
    /\ task = "set" /\ step = "register" /\ at > Len(live)
    /\ published' = spec[c] /\ Tune
    /\ reconfigActive' = FALSE /\ JobEnds(c, "ok")
    /\ UNCHANGED <<live, table, devices, scsi, works, unloading>>

\* vtl_register_all_pdevs has failed: it had no table, or it has unregistered
\* what it had registered.
RegisterFailed ==
    \/ step = "table" /\ "table" \in Faults
    \/ Unregistered

JobRollsBack ==
    /\ task = "set" /\ RegisterFailed /\ prev # << >>
    /\ table' = FALSE /\ live' = prev
    /\ task' = "rollback" /\ GoTo("table", 0)
    /\ UNCHANGED <<published, devices, scsi, works, params, flags, target, prev, calls>>

RollbackSucceeds(c) ==
    /\ task = "rollback" /\ step = "register" /\ at > Len(live)
    /\ published' = IF published = << >> THEN live ELSE published
    /\ reconfigActive' = FALSE /\ JobEnds(c, "EIO")
    /\ UNCHANGED <<live, table, devices, scsi, works, params, unloading>>

\* The module is left without hosts ("manual vtl-kernelctl reload required").
RollbackFails(c) ==
    /\ RegisterFailed
    /\ \/ task = "rollback" /\ published' = << >>
       \/ task = "set" /\ prev = << >> /\ UNCHANGED published
    /\ live' = LiveAfter /\ table' = FALSE
    /\ reconfigActive' = FALSE /\ JobEnds(c, "ENODEV")
    /\ UNCHANGED <<devices, scsi, works, params, unloading>>

\* vtl_geom_q_mutex is released before vtl_geom_job.ret is read.
UnlockJob(c) ==
    /\ pc[c] = "woken"
    /\ pc' = [pc EXCEPT ![c] = "read"]
    /\ UNCHANGED <<geometry, devices, scsi, works, params, flags, thread, spec, held, jobRet>>

\* The ioctl returns jobRet, which another caller's job may have replaced.
ReadResult(c) ==
    /\ pc[c] = "read"
    /\ pc' = [pc EXCEPT ![c] = "idle"] /\ spec' = [spec EXCEPT ![c] = << >>]
    /\ UNCHANGED <<geometry, devices, scsi, works, params, flags, thread, held, jobRet>>

-----------------------------------------------------------------------------
(* RESIZE_GEOMETRY: vtl_apply_geom_resize_only, under vtl_reconfig_mutex   *)

\* EINVAL for a spec that is bad or has another number of hosts; a spec that
\* is live already only replaces what sysfs shows.
ResizeNothing(c, s) ==
    /\ "resize" \in Calls /\ Loaded /\ pc[c] = "idle" /\ ~ReconfigLocked
    /\ live # << >> /\ Parse(s) = live
    /\ published' = s
    /\ UNCHANGED <<live, table, devices, scsi, works, params, flags, thread, calls>>

ResizeBegin(c, s) ==
    /\ "resize" \in Calls /\ Loaded /\ pc[c] = "idle" /\ ~ReconfigLocked
    /\ live # << >> /\ Len(Parse(s)) = Len(live) /\ Parse(s) # live
    /\ target' = Parse(s) /\ prev' = live
    /\ reconfigActive' = TRUE /\ at' = 1
    /\ pc' = [pc EXCEPT ![c] = "resizing"]
    /\ UNCHANGED <<geometry, devices, scsi, works, params, unloading, task, step, spec, held,
                   jobRet>>

\* vtl_resize_host_geometry: h takes drives drives.  A host that did not come
\* up has no changer (ENODEV); media in what is to go refuse a shrink (EBUSY).
Resized(h, drives) ==
    /\ changer[h] # 0
    /\ changer' = [changer EXCEPT ![h] = Clamp(drives, MaxDrives)]
    /\ live' = [live EXCEPT ![h] = Clamp(drives, MaxDrives)]
NotResized(h, drives) ==
    /\ changer[h] = 0 \/ Clamp(drives, MaxDrives) < changer[h]
    /\ UNCHANGED <<changer, live>>

ResizeHost(c) ==
    /\ pc[c] = "resizing" /\ at <= Len(target)
    /\ \/ /\ Resized(at, target[at])
          /\ at' = at + 1 /\ UNCHANGED <<pc, target>>
       \/ /\ NotResized(at, target[at])
          /\ pc' = [pc EXCEPT ![c] = "undoing"]
          /\ target' = SubSeq(prev, 1, at - 1) /\ at' = 1
    /\ UNCHANGED <<published, table, pdev, list, scsi, works, params, flags, task, step, prev,
                   spec, held, jobRet>>

\* The hosts already resized are put back; what that returns is ignored.
ResizeUndo(c) ==
    /\ pc[c] = "undoing" /\ at <= Len(target)
    /\ Resized(at, target[at]) \/ NotResized(at, target[at])
    /\ at' = at + 1
    /\ UNCHANGED <<published, table, pdev, list, scsi, works, params, flags, task, step, target,
                   prev, calls>>

\* It returns 0 or EIO.
ResizeEnd(c) ==
    /\ pc[c] \in {"resizing", "undoing"} /\ at > Len(target)
    /\ published' = IF pc[c] = "resizing" THEN live ELSE published
    /\ reconfigActive' = FALSE /\ at' = 0 /\ target' = << >> /\ prev' = << >>
    /\ pc' = [pc EXCEPT ![c] = "idle"]
    /\ UNCHANGED <<live, table, devices, scsi, works, params, unloading, task, step, spec, held,
                   jobRet>>

-----------------------------------------------------------------------------
(* The ioctls that name a changer by its position in the list              *)
(* (vtl_changer_get_instance) and then work on it                          *)

GetChanger(c, i) ==
    /\ "use" \in Calls /\ Loaded /\ pc[c] = "idle" /\ ~ListLocked
    /\ i <= Len(list) /\ changer[list[i]] # 0
    /\ held' = [held EXCEPT ![c] = list[i]]
    /\ pc' = [pc EXCEPT ![c] = "using"]
    /\ UNCHANGED <<geometry, devices, scsi, works, params, flags, thread, spec, jobRet>>

ReleaseChanger(c) ==
    /\ pc[c] = "using"
    /\ held' = [held EXCEPT ![c] = NoHost]
    /\ pc' = [pc EXCEPT ![c] = "idle"]
    /\ UNCHANGED <<geometry, devices, scsi, works, params, flags, thread, spec, jobRet>>

-----------------------------------------------------------------------------
(* The next-state relation                                                 *)

\* The handler of a deferred work runs.
Handler(w) ==
    \/ /\ w[2] = "bringup"
       /\ \/ BringupStart(w[1]) \/ BringupLock(w[1]) \/ BringupOut(w[1])
          \/ BringupAdd(w[1]) \/ BringupAddFails(w[1])
    \/ w[2] = "scan" /\ ScanStart(w[1])
    \/ Scan(w) \/ ScanEnd(w)

Traffic ==
    \/ \E h \in Hosts : ScanByHand(h)
    \/ \E h \in Served : CommandStart(h)

Register == RegisterBegin \/ RegisterDevice \/ ProbeFails \/ DeviceFails

TearDown == Quiesce \/ CancelWork \/ CancelEnd \/ RemoveHost \/ RemoveEnd \/ Unregister

\* The steps of the thread once it is inside insmod, a job or rmmod.
Thread ==
    \/ Register \/ TearDown \/ InsmodEnd \/ ModuleGone
    \/ JobTearsDown \/ JobRebuilds \/ JobRollsBack
    \/ \E c \in Callers : JobBusy(c) \/ JobSucceeds(c) \/ RollbackSucceeds(c) \/ RollbackFails(c)

\* A caller calls an ioctl; the ioctl goes on.
Call(c) ==
    \/ \E s \in Specs : CallSet(c, s) \/ ResizeNothing(c, s) \/ ResizeBegin(c, s)
    \/ \E i \in Hosts : GetChanger(c, i)

GoesOn(c) ==
    \/ Submit(c) \/ JobRefused(c) \/ JobAllowed(c) \/ JobNothingToDo(c) \/ JobBegin(c) \/ UnlockJob(c) \/ ReadResult(c)
    \/ ResizeHost(c) \/ ResizeUndo(c) \/ ResizeEnd(c)
    \/ ReleaseChanger(c)

Administration == \E w \in Writes : WriteParam(w[1], w[2])

Load == \E s \in Specs \cup {<< >>}, serial \in SerialFull, no \in NoScan, hot \in AllowHotGeom :
    Insmod(s, serial, no, hot)

Next ==
    \/ Load \/ Rmmod \/ Thread \/ Traffic
    \/ Administration
    \/ \E h \in Hosts : CommandEnd(h)
    \/ \E w \in Work : Handler(w)
    \/ \E c \in Callers : Call(c) \/ GoesOn(c)

Spec == Init /\ [][Next]_vars

\* Threads, commands, works and ioctls go on.  A wait for a mutex or a worker
\* ends although others keep taking it: both are handed over in order.
Fairness ==
    /\ WF_vars(Thread)
    /\ \A h \in Hosts : WF_vars(CommandEnd(h))
    /\ \A w \in Work : SF_vars(Handler(w))
    /\ \A c \in Callers : SF_vars(GoesOn(c))

FairSpec == Spec /\ Fairness
=============================================================================
