------------------------------ MODULE Libraries ------------------------------
(***************************************************************************)
(* The online libraries of the database, the SCSI hosts of vtl.ko that     *)
(* serve them, and how a process brings the hosts in line after a change   *)
(* (maybe_reload_kernel_vtl_after_db_change): with the spec cached in      *)
(* .last_vtl_instances_spec, by ioctl, by script or by vtl-kernelctl.      *)
(*                                                                         *)
(* A library is found in the kernel by its position among the online       *)
(* libraries, not by name.  Abstracted: a geometry is a number of slots, a *)
(* library has one tape, moving a tape is one step (module Catalog has its *)
(* parts), and how a host is rebuilt is in HostLifecycle.                  *)
(***************************************************************************)
EXTENDS Naturals, Sequences, SequencesExt

CONSTANTS
    Library, NoLib,   \* names of libraries
    Gone,             \* a medium whose row was deleted with its library
    MaxHosts, Full,   \* VTL_KERNEL_MAX_ONLINE_LIBRARIES, and slots of a host
                      \* in the topology "8x256" of the fixed mode
    Confs,            \* vtl.conf and the parameters of vtl.ko, see conf
    Proc,             \* processes: commands and threads of the web server
    MaxOps            \* bound: operations in a behaviour

ASSUME LibrariesAssumption ==
    /\ NoLib \notin Library /\ Gone \notin Library
    /\ MaxHosts \in Nat \ {0} /\ Full \in Nat \ {0} /\ MaxOps \in Nat
    /\ Confs \subseteq [mode : {"fixed", "legacy"}, ioctl : BOOLEAN, reload : BOOLEAN,
                        script : BOOLEAN, hot : BOOLEAN]

Shelf == 0
Nowhere == Full + 1   \* neither in a slot nor on a shelf
Slot == 1 .. Full
Geometry == UNION {[1 .. n -> Slot] : n \in 0 .. MaxHosts}

VARIABLES
    online,      \* vtl_libraries in the order of id, without __offline__
    rows,        \* per library: rows of slots (0 when it is not online)
    tape,        \* per library: where the catalogue has its tape
    hosts,       \* the hosts of vtl.ko: slots and media; << >> when unloaded
    backs,       \* per library: the host its pscsi backstores refer to, or 0
    targets,     \* libraries with an iSCSI target
    record,      \* per library: the host iscsi_library_exports names, or 0
    halfway,     \* history: libraries whose unexport took the target away and
                 \* then failed
    cache,       \* .last_vtl_instances_spec
    conf,        \* [mode, ioctl, reload, script, hot]: kernel_geometry_mode,
                 \* kernel_geom_prefer_ioctl, kernel_reload_on_db_change, is
                 \* there a script, and does vtl.ko rebuild while it runs
    pc, arg, want, todo,   \* per process: step, operands, spec, libraries
                           \* still to pull
    disturbed,   \* two operations overlapped, one was killed or failed half
                 \* way, or somebody reloaded vtl.ko by hand
    shifted,     \* a library was deleted from in front of another
    ops          \* operations so far

db == <<online, rows, tape>>
lio == <<backs, targets, record, halfway>>
proc == <<pc, arg, want, todo>>
history == <<disturbed, shifted, ops>>
vars == <<db, hosts, lio, cache, conf, proc, history>>

Online(l) == Contains(online, l)
Without(s, l) == RemoveAt(s, CHOOSE i \in DOMAIN s : s[i] = l)

\* Mutant: the newest library comes first.
NewestFirst(l) == Len(online) + 1 - (CHOOSE i \in DOMAIN online : online[i] = l)

\* library_kernel_instance_index, online_library_export_index
Index(l) == CHOOSE i \in DOMAIN online : online[i] = l
Served(l) == Online(l) /\ Index(l) <= Len(hosts)

EmptyHost(n) == [slots |-> n, media |-> [s \in Slot |-> NoLib]]
Rebuilt(spec) == [i \in DOMAIN spec |-> EmptyHost(spec[i])]
Sizes == [i \in DOMAIN hosts |-> hosts[i].slots]

-----------------------------------------------------------------------------
(* The specs                                                               *)

DbSpec == [i \in DOMAIN online |-> rows[online[i]]]

\* In fixed mode hosts without a library keep what sysfs shows.
Padded == [i \in DOMAIN hosts |-> IF i <= Len(online) THEN DbSpec[i] ELSE hosts[i].slots]
Wanted == IF conf.mode = "fixed" /\ hosts # << >> /\ online # << >> THEN Padded ELSE DbSpec

\* What vtl-kernelctl gives insmod: the full topology in fixed mode.
KernelctlSpec == IF conf.mode = "fixed" THEN [i \in 1 .. MaxHosts |-> Full] ELSE DbSpec

-----------------------------------------------------------------------------
(* The geometry ioctls, and how vtl.ko answers                             *)

\* RESIZE_GEOMETRY keeps the media, so no slot that goes may hold one.
Shrinks(spec) == \A i \in DOMAIN spec, s \in Slot : s > spec[i] => hosts[i].media[s] = NoLib
Resized(spec) == [i \in DOMAIN hosts |-> [hosts[i] EXCEPT !.slots = spec[i]]]
Resize(spec) ==
    IF hosts = << >> THEN "ENOENT"
    ELSE IF Len(spec) # Len(hosts) THEN "EINVAL"
    ELSE IF Shrinks(spec) THEN "ok" ELSE "EIO"

\* SET_INSTANCES with allow_hot_geom=N, or with SCSI devices on the hosts,
\* answers EBUSY; otherwise it may fail after the hosts are gone (SetFails).
Set(spec) == IF hosts = << >> THEN "ENOENT" ELSE IF conf.hot THEN "ok" ELSE "EBUSY"
SetResult(spec) == IF spec = Sizes THEN hosts ELSE Rebuilt(spec)

\* The scan files of the hosts are written to.  Without a host that fails, and
\* reading sysfs or writing to any of the files may.
scsi_rescan_vtl_hosts == IF hosts = << >> THEN {FALSE} ELSE BOOLEAN

\* Any program may have a device node open at any time.
VtlHoldersProbe == {"Clear", "Busy", "FuserUnavailable"}

-----------------------------------------------------------------------------
(* Processes                                                               *)

\* lio_pscsi_references_vtl_sg
Exported == hosts # << >> /\ \E l \in Library : backs[l] # 0

GoTo(p, step) == pc' = [pc EXCEPT ![p] = step]
NoArg == [lib |-> NoLib, n |-> 0]
ReturnFrom(p) ==
    /\ GoTo(p, "idle") /\ arg' = [arg EXCEPT ![p] = NoArg]
    /\ want' = [want EXCEPT ![p] = << >>] /\ todo' = [todo EXCEPT ![p] = << >>]

\* The geometry follows; the operands are not needed any more.
ToSpec(p) ==
    /\ GoTo(p, "spec") /\ arg' = [arg EXCEPT ![p] = NoArg] /\ UNCHANGED <<want, todo>>

\* A process starts an operation on library l.
Start(p, step, l, n) ==
    /\ pc[p] = "idle" /\ GoTo(p, step)
    /\ arg' = [arg EXCEPT ![p] = [lib |-> l, n |-> n]]
    /\ disturbed' = (disturbed \/ \E q \in Proc : pc[q] # "idle")
    /\ ops < MaxOps /\ ops' = ops + 1
    /\ UNCHANGED <<want, todo, shifted>>

Init ==
    /\ online \in {<<l>> : l \in Library}
    /\ rows = [l \in Library |-> IF Online(l) THEN 1 ELSE 0]
    /\ tape = [l \in Library |-> Shelf]
    /\ conf \in Confs
    /\ hosts = Rebuilt(KernelctlSpec)
    /\ backs = [l \in Library |-> 0] /\ targets = {} /\ record = [l \in Library |-> 0]
    /\ halfway = {}
    /\ cache = << >>
    /\ pc = [p \in Proc |-> "idle"] /\ arg = [p \in Proc |-> NoArg]
    /\ want = [p \in Proc |-> << >>] /\ todo = [p \in Proc |-> << >>]
    /\ disturbed = FALSE /\ shifted = FALSE /\ ops = 0

-----------------------------------------------------------------------------
(* Libraries: create_named_library, delete_named_library, config_set       *)

\* Whether the library exists is asked before the transaction.
create_named_library(p, l, n) ==
    /\ ~Online(l) /\ Start(p, "create", l, n)
    /\ UNCHANGED <<db, hosts, lio, cache, conf>>

\* Mutant: the limit is looked at before the transaction only.
InsertUncounted(p) ==
    LET l == arg[p].lib IN
    /\ pc[p] = "create"
    /\ online' = IF Online(l) THEN online ELSE Append(online, l)
    /\ rows' = [rows EXCEPT ![l] = IF @ > arg[p].n THEN @ ELSE arg[p].n]
    /\ ToSpec(p)
    /\ UNCHANGED <<tape, hosts, lio, cache, conf, history>>

\* A library created meanwhile is taken over: its rows only grow.
Insert(p) ==
    LET l == arg[p].lib IN
    /\ pc[p] = "create"
    /\ \/ /\ Online(l) \/ Len(online) < MaxHosts
          /\ online' = IF Online(l) THEN online ELSE Append(online, l)
          /\ rows' = [rows EXCEPT ![l] = IF @ > arg[p].n THEN @ ELSE arg[p].n]
          /\ ToSpec(p)
       \/ /\ ~Online(l) /\ Len(online) >= MaxHosts
          /\ ReturnFrom(p) /\ UNCHANGED <<online, rows>>
    /\ UNCHANGED <<tape, hosts, lio, cache, conf, history>>

\* The last library stays, as counted before the transaction.
delete_named_library(p, l) ==
    /\ Online(l) /\ Len(online) > 1 /\ Start(p, "delete", l, 0)
    /\ UNCHANGED <<db, hosts, lio, cache, conf>>

\* The transaction names the library by the id read before: another process
\* that holds the same id deletes nothing.  The record of the export goes with
\* the library (ON DELETE CASCADE); the export itself and the media stay.
Delete(p) ==
    LET l == arg[p].lib IN
    /\ pc[p] = "delete" /\ GoTo(p, "spec")
    /\ IF l = NoLib
       THEN UNCHANGED <<online, rows, tape, hosts, record, arg, shifted>>
       ELSE /\ online' = Without(online, l) /\ rows' = [rows EXCEPT ![l] = 0]
            /\ tape' = [tape EXCEPT ![l] = Shelf]
            /\ record' = [record EXCEPT ![l] = 0]
            /\ hosts' = [i \in DOMAIN hosts |-> [hosts[i] EXCEPT !.media =
                   [s \in Slot |-> IF @[s] = l THEN Gone ELSE @[s]]]]
            /\ arg' = [q \in Proc |-> IF pc[q] = "delete" /\ arg[q].lib = l
                                      THEN NoArg ELSE arg[q]]
            /\ shifted' = (shifted \/ l # Last(online))
    /\ UNCHANGED <<backs, targets, halfway, cache, conf, want, todo, disturbed, ops>>

\* Rows are added, never removed; the hosts are brought in line in any case.
config_set(p, l, n) ==
    /\ Online(l) /\ Start(p, "spec", NoLib, 0)
    /\ rows' = [rows EXCEPT ![l] = IF @ > n THEN @ ELSE n]
    /\ UNCHANGED <<online, tape, hosts, lio, cache, conf>>

kernel_align(p) ==
    /\ Start(p, "spec", NoLib, 0)
    /\ UNCHANGED <<db, hosts, lio, cache, conf>>

-----------------------------------------------------------------------------
(* maybe_reload_kernel_vtl_after_db_change                                 *)

\* pull_all_online_libraries_from_kernel, of the libraries online by now
StartPull(p) ==
    /\ GoTo(p, "pull") /\ todo' = [todo EXCEPT ![p] = online]
    /\ want' = [want EXCEPT ![p] = << >>]

\* The spec is built and compared with the cached one; equal, the hosts are
\* only scanned again, and brought in line after all when that fails.
BuildSpec(p) ==
    /\ pc[p] = "spec"
    /\ \/ Wanted = << >> /\ ReturnFrom(p)
       \/ /\ Wanted # << >> /\ cache = Wanted /\ TRUE \in scsi_rescan_vtl_hosts
          /\ StartPull(p) /\ UNCHANGED arg
       \/ /\ Wanted # << >> /\ (cache # Wanted \/ FALSE \in scsi_rescan_vtl_hosts)
          /\ want' = [want EXCEPT ![p] = Wanted]
          /\ conf.ioctl \/ conf.reload
          /\ GoTo(p, IF conf.ioctl THEN "check" ELSE "script")
          /\ UNCHANGED <<arg, todo>>
       \/ /\ Wanted # << >> /\ (cache # Wanted \/ FALSE \in scsi_rescan_vtl_hosts)
          /\ ~conf.ioctl /\ ~conf.reload /\ ReturnFrom(p)
    /\ UNCHANGED <<db, hosts, lio, cache, conf, history>>

\* Mutant: exports are not looked at.
PreflightHolders(p) ==
    /\ pc[p] \in {"check", "recheck"}
    /\ \E probe \in VtlHoldersProbe :
          IF probe # "Clear"
          THEN ReturnFrom(p)
          ELSE GoTo(p, IF pc[p] = "check" THEN "ioctl" ELSE "kernelctl")
               /\ UNCHANGED <<arg, want, todo>>
    /\ UNCHANGED <<db, hosts, lio, cache, conf, history>>

\* lio_exported, holders_busy
Preflight(p) ==
    /\ pc[p] \in {"check", "recheck"}
    /\ \E probe \in VtlHoldersProbe :
          IF Exported \/ probe # "Clear"
          THEN ReturnFrom(p)
          ELSE GoTo(p, IF pc[p] = "check" THEN "ioctl" ELSE "kernelctl")
               /\ UNCHANGED <<arg, want, todo>>
    /\ UNCHANGED <<db, hosts, lio, cache, conf, history>>

\* RESIZE_GEOMETRY in fixed mode, and in legacy mode when SET_INSTANCES
\* answers EBUSY
IoctlResizes(p) ==
    /\ pc[p] = "ioctl" /\ Resize(want[p]) = "ok"
    /\ conf.mode = "legacy" => Set(want[p]) = "EBUSY"
    /\ hosts' = Resized(want[p]) /\ GoTo(p, "applied")
    /\ UNCHANGED <<db, lio, cache, conf, arg, want, todo, history>>

IoctlSets(p) ==
    /\ pc[p] = "ioctl" /\ conf.mode = "legacy" /\ Set(want[p]) = "ok"
    /\ hosts' = SetResult(want[p]) /\ GoTo(p, "applied")
    /\ UNCHANGED <<db, lio, cache, conf, arg, want, todo, history>>

\* What remains after an error: EBUSY goes on to the script or vtl-kernelctl,
\* EINVAL in fixed mode asks for a reload, others go on if reloads are allowed.
AfterError(p, errno) ==
    IF errno = "EBUSY" THEN GoTo(p, IF conf.script THEN "script" ELSE "recheck")
                            /\ UNCHANGED <<arg, want, todo>>
    ELSE IF conf.reload /\ ~(errno = "EINVAL" /\ conf.mode = "fixed")
         THEN GoTo(p, "script") /\ UNCHANGED <<arg, want, todo>>
         ELSE ReturnFrom(p)

\* Mutant: the spec is cached whatever the ioctl said.
CacheAnyway(p) ==
    /\ pc[p] = "ioctl" /\ Resize(want[p]) # "ok"
    /\ conf.mode = "legacy" => Set(want[p]) # "ok"
    /\ AfterError(p, IF conf.mode = "fixed" THEN Resize(want[p]) ELSE Set(want[p]))
    /\ cache' = want[p]
    /\ UNCHANGED <<db, hosts, lio, conf, history>>

IoctlFails(p) ==
    /\ pc[p] = "ioctl" /\ Resize(want[p]) # "ok"
    /\ conf.mode = "legacy" => Set(want[p]) # "ok"
    /\ AfterError(p, IF conf.mode = "fixed" THEN Resize(want[p]) ELSE Set(want[p]))
    /\ UNCHANGED <<db, hosts, lio, cache, conf, history>>

\* A rebuild that fails puts the old geometry back, or leaves no host.
SetFails(p) ==
    /\ pc[p] = "ioctl" /\ conf.mode = "legacy" /\ Set(want[p]) = "ok" /\ want[p] # Sizes
    /\ hosts' \in {Rebuilt(Sizes), << >>} /\ AfterError(p, "EIO")
    /\ UNCHANGED <<db, lio, cache, conf, history>>

\* rmmod fails while a device node is open or LIO holds it, and insmod then
\* finds the module loaded; insmod may fail as well.
Reloads(p, spec) ==
    \/ ~Exported /\ hosts' = Rebuilt(spec) /\ GoTo(p, "applied")
       /\ UNCHANGED <<arg, want, todo>>
    \/ hosts' \in {hosts, IF Exported THEN hosts ELSE << >>} /\ ReturnFrom(p)

\* Without a script there is nothing left but, after EBUSY, vtl-kernelctl.
\* Exports are not looked at before a script is run.
Script(p) ==
    /\ pc[p] = "script"
    /\ \E probe \in VtlHoldersProbe :
          IF conf.script /\ probe = "Clear"
          THEN GoTo(p, "run") /\ UNCHANGED <<arg, want, todo>>
          ELSE ReturnFrom(p)
    /\ UNCHANGED <<db, hosts, lio, cache, conf, history>>

RunScript(p) ==
    /\ pc[p] = "run" /\ Reloads(p, want[p])
    /\ UNCHANGED <<db, lio, cache, conf, history>>

\* vtl-kernelctl reload asks the database again.
Kernelctl(p) ==
    /\ pc[p] = "kernelctl" /\ DbSpec # << >> /\ Reloads(p, DbSpec)
    /\ UNCHANGED <<db, lio, cache, conf, history>>

write_vtl_inst_spec_cache(p) ==
    /\ pc[p] = "applied"
    /\ cache' = want[p] /\ StartPull(p)
    /\ UNCHANGED <<db, hosts, lio, conf, arg, history>>

\* Mutant: a tape that is not found keeps its slot.
PulledFound(l) ==
    LET found == {s \in Slot : hosts[Index(l)].media[s] = l}
    IN  IF found # {} THEN CHOOSE s \in found : TRUE ELSE tape[l]

\* Where the tape of l is, as the host of l has it.  A tape on a shelf stays
\* there; any other that is not found is nowhere.
PulledTape(l) ==
    LET found == {s \in Slot : hosts[Index(l)].media[s] = l}
    IN  IF found # {} THEN CHOOSE s \in found : TRUE
        ELSE IF tape[l] = Shelf THEN Shelf ELSE Nowhere

\* A library without a host, or gone by now, is skipped.
Pull(p) ==
    /\ pc[p] = "pull" /\ todo[p] # << >>
    /\ LET l == Head(todo[p]) IN
       tape' = IF Served(l) THEN [tape EXCEPT ![l] = PulledTape(l)] ELSE tape
    /\ todo' = [todo EXCEPT ![p] = Tail(@)]
    /\ UNCHANGED <<online, rows, hosts, lio, cache, conf, pc, arg, want, history>>

PullEnds(p) ==
    /\ pc[p] = "pull" /\ todo[p] = << >> /\ ReturnFrom(p)
    /\ UNCHANGED <<db, hosts, lio, cache, conf, history>>

-----------------------------------------------------------------------------
(* Tapes: a command names the host by its index and evacuates it           *)

\* What is in host i after a command of l that has its tape at place at: media
\* that the rows of l do not have are taken out.
Evacuated(i, l, at) ==
    [hosts EXCEPT ![i].media =
        [s \in Slot |-> IF @[s] = l /\ at \in Slot THEN l ELSE NoLib]]

Alone ==
    /\ ops < MaxOps /\ ops' = ops + 1
    /\ disturbed' = (disturbed \/ \E p \in Proc : pc[p] # "idle")

\* assign-slot: the row, then SLOT_PLACE, which an occupied or missing slot
\* refuses, then the evacuation
AssignSlot(l, s) ==
    /\ Online(l) /\ tape[l] \notin Slot /\ s <= rows[l]
    /\ tape' = [tape EXCEPT ![l] = s]
    /\ hosts' = IF ~Served(l) THEN hosts ELSE
         LET i == Index(l) IN
         IF s <= hosts[i].slots /\ hosts[i].media[s] = NoLib
         THEN [hosts EXCEPT ![i].media =
                  [r \in Slot |-> IF r = s \/ @[r] = l THEN l ELSE NoLib]]
         ELSE Evacuated(i, l, s)
    /\ Alone /\ UNCHANGED <<online, rows, lio, cache, conf, proc, shifted>>

ShelfPlace(l) ==
    /\ Online(l) /\ tape[l] # Shelf
    /\ tape' = [tape EXCEPT ![l] = Shelf]
    /\ hosts' = IF Served(l) THEN Evacuated(Index(l), l, Shelf) ELSE hosts
    /\ Alone /\ UNCHANGED <<online, rows, lio, cache, conf, proc, shifted>>

-----------------------------------------------------------------------------
(* The environment                                                         *)

\* vtl-kernelctl reload and stop, by hand
ReloadByHand ==
    /\ ~Exported
    /\ hosts' \in {Rebuilt(KernelctlSpec), << >>}
    /\ disturbed' = TRUE /\ ops < MaxOps /\ ops' = ops + 1
    /\ UNCHANGED <<db, lio, cache, conf, proc, shifted>>

\* A process is killed.
Crash(p) ==
    /\ pc[p] # "idle" /\ ReturnFrom(p)
    /\ disturbed' = TRUE
    /\ UNCHANGED <<db, hosts, lio, cache, conf, shifted, ops>>

Sync(p) ==
    \/ BuildSpec(p) \/ Preflight(p) \/ IoctlResizes(p) \/ IoctlSets(p) \/ IoctlFails(p)
    \/ SetFails(p) \/ Script(p) \/ RunScript(p) \/ Kernelctl(p)
    \/ write_vtl_inst_spec_cache(p) \/ Pull(p) \/ PullEnds(p)

Administration(p) ==
    \/ \E l \in Library, n \in Slot : create_named_library(p, l, n) \/ config_set(p, l, n)
    \/ \E l \in Library : delete_named_library(p, l)
    \/ Insert(p) \/ Delete(p) \/ kernel_align(p)

Tapes == \E l \in Library : ShelfPlace(l) \/ \E s \in Slot : AssignSlot(l, s)

Environment == ReloadByHand \/ \E p \in Proc : Crash(p)
=============================================================================
