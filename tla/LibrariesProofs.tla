--------------------------- MODULE LibrariesProofs ---------------------------
(***************************************************************************)
(* For any number of processes, libraries, hosts and operations: what the  *)
(* database records as exported has its target, unless an unexport took it *)
(* away and failed, and no process that works alone changes hosts under an *)
(* export; the catalogue never has more libraries than the kernel has      *)
(* hosts for, and a synchronisation that reports success has brought the   *)
(* hosts in line with it, media included.                                  *)
(***************************************************************************)
EXTENDS LibrariesProperties, SequenceTheorems, TLAPS

Shape ==
    /\ pc = [p \in Proc |-> pc[p]] /\ arg = [p \in Proc |-> arg[p]]
    /\ record = [l \in Library |-> record[l]] /\ backs = [l \in Library |-> backs[l]]
    /\ disturbed \in BOOLEAN

\* As long as nothing interferes one process works at a time.
OneAtATime == \A p, q \in Proc : ~Idle(p) /\ ~Idle(q) => p = q

\* The target was made before the record is saved.
SavesTargets == \A p \in Proc : pc[p] = "save" => arg[p].lib \in targets

\* Whoever has found no export and is about to change the hosts.
NoExport == \A p \in Proc : pc[p] = "ioctl" => ~Exported

Inv == Shape /\ (Quiet => OneAtATime /\ SavesTargets /\ RecordsHaveTargets /\ NoExport)

LEMMA Begins == Init => Inv
  BY DEF Init, Inv, Shape, Quiet, OneAtATime, SavesTargets, RecordsHaveTargets, NoExport, Idle

\* A step inside an operation that is neither an unexport's last nor on the way
\* to a record.
LEMMA Within ==
    ASSUME NEW p \in Proc, Inv, Shape', disturbed' = disturbed,
           pc[p] \notin {"idle", "forget"},
           \A q \in Proc \ {p} : pc'[q] = pc[q],
           pc'[p] # "save", pc'[p] = "ioctl" => ~Exported',
           targets' = targets, halfway' = halfway,
           \A l \in Library : record'[l] \in {record[l], 0}
    PROVE  Inv'
<1> SUFFICES ASSUME Quiet
             PROVE  OneAtATime' /\ SavesTargets' /\ RecordsHaveTargets' /\ NoExport'
  BY DEF Inv, Quiet
<1>1. \A q \in Proc \ {p} : pc[q] = "idle" /\ pc'[q] = "idle"
  BY DEF Inv, OneAtATime, Idle
<1>2. OneAtATime' /\ SavesTargets' /\ NoExport'
  BY <1>1 DEF OneAtATime, SavesTargets, NoExport, Idle
<1>3. \A l \in Library : record[l] # 0 => l \in targets \cup halfway
  BY <1>1 DEF Inv, RecordsHaveTargets
<1>4. RecordsHaveTargets'
  BY <1>3 DEF RecordsHaveTargets
<1> QED
  BY <1>2, <1>4

\* An operation begins: alone, or with everybody disturbed.
LEMMA Starts ==
    ASSUME NEW p \in Proc, NEW step, NEW l, NEW n, Inv, Start(p, step, l, n),
           step \notin {"save", "ioctl"},
           UNCHANGED <<record, backs, targets, halfway>>
    PROVE  Inv'
<1>1. /\ pc[p] = "idle" /\ pc' = [pc EXCEPT ![p] = step]
      /\ arg' = [arg EXCEPT ![p] = [lib |-> l, n |-> n]]
      /\ disturbed' = (disturbed \/ \E q \in Proc : pc[q] # "idle")
  BY DEF Start, GoTo
<1>2. Shape'
  BY <1>1 DEF Inv, Shape
<1> SUFFICES ASSUME Quiet'
             PROVE  OneAtATime' /\ SavesTargets' /\ RecordsHaveTargets' /\ NoExport'
  BY <1>2 DEF Inv
<1>3. Quiet /\ \A q \in Proc : pc[q] = "idle"
  BY <1>1 DEF Quiet, Inv, Shape
<1>4. \A q \in Proc : pc'[q] = IF q = p THEN step ELSE "idle"
  BY <1>1, <1>3 DEF Inv, Shape
<1>5. OneAtATime' /\ SavesTargets' /\ NoExport'
  BY <1>4 DEF OneAtATime, SavesTargets, NoExport, Idle
<1>6. RecordsHaveTargets'
  BY <1>3 DEF Inv, RecordsHaveTargets
<1> QED
  BY <1>5, <1>6

-----------------------------------------------------------------------------
(* Libraries and their geometry                                            *)

LEMMA AdministrationKeeps ==
    ASSUME NEW p \in Proc, Inv, Administration(p) PROVE Inv'
<1>1. ASSUME NEW l \in Library, NEW n \in Slot, create_named_library(p, l, n) PROVE Inv'
  BY <1>1, Starts DEF create_named_library, lio
<1>2. ASSUME NEW l \in Library, NEW n \in Slot, config_set(p, l, n) PROVE Inv'
  BY <1>2, Starts DEF config_set, lio
<1>3. ASSUME NEW l \in Library, delete_named_library(p, l) PROVE Inv'
  BY <1>3, Starts DEF delete_named_library, lio
<1>4. CASE kernel_align(p)
  BY <1>4, Starts DEF kernel_align, lio
<1>5. CASE Insert(p)
  <2>1. /\ pc[p] = "create" /\ UNCHANGED <<record, backs, targets, halfway, disturbed>>
        /\ \E s \in {"spec", "idle"} : pc' = [pc EXCEPT ![p] = s]
        /\ arg' = [arg EXCEPT ![p] = NoArg]
    BY <1>5 DEF Insert, ToSpec, ReturnFrom, GoTo, lio, history
  <2>2. Shape'
    BY <2>1 DEF Inv, Shape
  <2> QED
    BY <2>1, <2>2, Within DEF Inv, Shape
<1>6. CASE Delete(p)
  <2>1. /\ pc[p] = "delete" /\ UNCHANGED <<backs, targets, halfway, disturbed>>
        /\ pc' = [pc EXCEPT ![p] = "spec"]
        /\ \/ record' = record
           \/ record' = [record EXCEPT ![arg[p].lib] = 0]
        /\ arg' = arg \/ arg' = [q \in Proc |-> arg'[q]]
    BY <1>6 DEF Delete, GoTo
  <2>2. Shape'
    BY <2>1 DEF Inv, Shape
  <2> QED
    BY <2>1, <2>2, Within DEF Inv, Shape
<1> QED
  BY <1>1, <1>2, <1>3, <1>4, <1>5, <1>6 DEF Administration

\* Where a synchronisation goes next.
SyncStep == {"idle", "check", "recheck", "ioctl", "script", "run", "kernelctl", "applied", "pull"}

LEMMA SyncKeeps == ASSUME NEW p \in Proc, Inv, Sync(p) PROVE Inv'
<1>1. /\ UNCHANGED <<record, backs, targets, halfway, disturbed>>
      /\ pc[p] \in SyncStep \cup {"spec"} /\ pc[p] # "idle"
  BY DEF Sync, BuildSpec, Preflight, IoctlResizes, IoctlSets, IoctlFails, SetFails, Script,
     RunScript, Kernelctl, write_vtl_inst_spec_cache, Pull, PullEnds, lio, history, SyncStep
<1>2. PICK s \in SyncStep : pc' = [pc EXCEPT ![p] = s]
  <2>1. CASE Pull(p)
    BY <2>1 DEF Pull, Inv, Shape, SyncStep
  <2>2. CASE ~Pull(p)
    BY <2>2 DEF Sync, BuildSpec, Preflight, IoctlResizes, IoctlSets, IoctlFails, SetFails,
       Script,
       RunScript, Kernelctl, write_vtl_inst_spec_cache, PullEnds, StartPull, AfterError, Reloads,
       ReturnFrom, GoTo, SyncStep
  <2> QED
    BY <2>1, <2>2
<1>3. arg' = arg \/ arg' = [arg EXCEPT ![p] = NoArg]
  BY DEF Sync, BuildSpec, Preflight, IoctlResizes, IoctlSets, IoctlFails, SetFails, Script,
     RunScript, Kernelctl, write_vtl_inst_spec_cache, Pull, PullEnds, StartPull, AfterError,
     Reloads, ReturnFrom
<1>4. Shape'
  BY <1>1, <1>2, <1>3 DEF Inv, Shape
<1>5. pc'[p] = "ioctl" => Preflight(p)
  BY <1>2 DEF Sync, BuildSpec, Preflight, IoctlResizes, IoctlSets, IoctlFails, SetFails, Script,
     RunScript, Kernelctl, write_vtl_inst_spec_cache, Pull, PullEnds, StartPull, AfterError,
     Reloads, ReturnFrom, GoTo, Inv, Shape
<1>6. pc'[p] = "ioctl" => ~Exported'
  <2> SUFFICES ASSUME pc'[p] = "ioctl", Preflight(p) PROVE ~Exported'
    BY <1>5
  <2>1. ~Exported
    BY DEF Preflight, ReturnFrom, GoTo, Inv, Shape
  <2> QED
    BY <2>1 DEF Preflight, Exported, lio
<1> QED
  BY <1>1, <1>2, <1>4, <1>6, Within DEF Inv, Shape, SyncStep

-----------------------------------------------------------------------------
(* Exports                                                                 *)

LEMMA ExportsKeep == ASSUME NEW p \in Proc, Inv, Exports(p) PROVE Inv'
<1> DEFINE l == arg[p].lib
<1>1. ASSUME NEW k \in Library, Export(p, k) PROVE Inv'
  BY <1>1, Starts DEF Export, lio
<1>2. ASSUME NEW k \in Library, Unexport(p, k) PROVE Inv'
  BY <1>2, Starts DEF Unexport, lio
<1>3. CASE Phase1(p)
  <2>1. /\ pc[p] = "phase1" /\ UNCHANGED <<record, targets, halfway, disturbed>>
        /\ \E s \in {"phase2", "idle"} : pc' = [pc EXCEPT ![p] = s]
        /\ arg' = arg \/ arg' = [arg EXCEPT ![p] = NoArg]
        /\ backs' = backs \/ backs' = [backs EXCEPT ![l] = arg[p].n]
    BY <1>3 DEF Phase1, ReturnFrom, GoTo, history
  <2>2. Shape'
    BY <2>1 DEF Inv, Shape
  <2> QED
    BY <2>1, <2>2, Within DEF Inv, Shape
<1>4. CASE Phase2(p)
  <2>1. /\ pc[p] = "phase2" /\ UNCHANGED <<record, backs, disturbed>>
        /\ targets \cup halfway \subseteq targets' \cup halfway'
        /\ \/ pc' = [pc EXCEPT ![p] = "idle"]
           \/ pc' = [pc EXCEPT ![p] = "save"] /\ l \in targets' /\ arg' = arg
        /\ arg' = arg \/ arg' = [arg EXCEPT ![p] = NoArg]
    BY <1>4 DEF Phase2, ReturnFrom, GoTo, history
  <2>2. Shape'
    BY <2>1 DEF Inv, Shape
  <2> SUFFICES ASSUME Quiet
               PROVE  OneAtATime' /\ SavesTargets' /\ RecordsHaveTargets' /\ NoExport'
    BY <2>1, <2>2 DEF Inv, Quiet
  <2>3. \A q \in Proc \ {p} : pc[q] = "idle" /\ pc'[q] = "idle"
    BY <2>1 DEF Inv, Shape, OneAtATime, Idle
  <2>4. pc'[p] \in {"idle", "save"}
    BY <2>1 DEF Inv, Shape
  <2>5. OneAtATime' /\ NoExport'
    BY <2>3, <2>4 DEF OneAtATime, NoExport, Idle
  <2>6. SavesTargets'
    BY <2>1, <2>3 DEF Inv, Shape, SavesTargets
  <2>7. RecordsHaveTargets'
    BY <2>1, <2>3 DEF Inv, RecordsHaveTargets
  <2> QED
    BY <2>5, <2>6, <2>7
<1>5. CASE save_iscsi_library_export(p)
  <2>1. /\ pc[p] = "save" /\ UNCHANGED <<targets, backs, halfway, disturbed>>
        /\ pc' = [pc EXCEPT ![p] = "idle"] /\ arg' = [arg EXCEPT ![p] = NoArg]
        /\ record' = record \/ record' = [record EXCEPT ![l] = arg[p].n]
    BY <1>5 DEF save_iscsi_library_export, ReturnFrom, GoTo, history
  <2>2. Shape'
    BY <2>1 DEF Inv, Shape
  <2> SUFFICES ASSUME Quiet
               PROVE  OneAtATime' /\ SavesTargets' /\ RecordsHaveTargets' /\ NoExport'
    BY <2>1, <2>2 DEF Inv, Quiet
  <2>3. \A q \in Proc : pc'[q] = "idle" /\ (q # p => pc[q] = "idle")
    BY <2>1 DEF Inv, Shape, OneAtATime, Idle
  <2>4. OneAtATime' /\ SavesTargets' /\ NoExport'
    BY <2>3 DEF OneAtATime, SavesTargets, NoExport, Idle
  <2>5. l \in targets /\ \A k \in Library : record[k] # 0 => k \in targets \cup halfway
    BY <2>1, <2>3 DEF Inv, SavesTargets, RecordsHaveTargets
  <2>6. RecordsHaveTargets'
    BY <2>1, <2>5 DEF Inv, Shape, RecordsHaveTargets
  <2> QED
    BY <2>4, <2>6
<1>6. CASE UnexportRuns(p)
  <2>1. /\ pc[p] = "unexport" /\ UNCHANGED <<record, disturbed>>
        /\ targets' \in {targets, targets \ {l}}
        /\ backs' = backs \/ backs' = [backs EXCEPT ![l] = 0]
        /\ \/ /\ pc' = [pc EXCEPT ![p] = "forget"] /\ arg' = arg /\ halfway' = halfway
           \/ /\ pc' = [pc EXCEPT ![p] = "idle"] /\ arg' = [arg EXCEPT ![p] = NoArg]
              /\ halfway' = IF targets' # targets THEN halfway \cup {l} ELSE halfway
    BY <1>6 DEF UnexportRuns, ReturnFrom, GoTo, history
  <2>2. Shape'
    BY <2>1 DEF Inv, Shape
  <2> SUFFICES ASSUME Quiet
               PROVE  OneAtATime' /\ SavesTargets' /\ RecordsHaveTargets' /\ NoExport'
    BY <2>1, <2>2 DEF Inv, Quiet
  <2>3. \A q \in Proc \ {p} : pc[q] = "idle" /\ pc'[q] = "idle"
    BY <2>1 DEF Inv, Shape, OneAtATime, Idle
  <2>4. pc'[p] \in {"idle", "forget"}
    BY <2>1 DEF Inv, Shape
  <2>5. OneAtATime' /\ SavesTargets' /\ NoExport'
    BY <2>3, <2>4 DEF OneAtATime, SavesTargets, NoExport, Idle
  <2>6. \A k \in Library : record[k] # 0 => k \in targets \cup halfway
    BY <2>1, <2>3 DEF Inv, RecordsHaveTargets
  <2>7. \A k \in Library : record'[k] # 0 =>
           k \in targets' \cup halfway' \/ (pc'[p] = "forget" /\ arg'[p].lib = k)
    BY <2>1, <2>6 DEF Inv, Shape
  <2>8. RecordsHaveTargets'
    BY <2>7 DEF RecordsHaveTargets
  <2> QED
    BY <2>5, <2>8
<1>7. CASE delete_iscsi_library_export(p)
  <2>1. /\ pc[p] = "forget" /\ UNCHANGED <<targets, backs, disturbed>>
        /\ halfway' = halfway \ {l}
        /\ pc' = [pc EXCEPT ![p] = "idle"] /\ arg' = [arg EXCEPT ![p] = NoArg]
        /\ record' = [record EXCEPT ![l] = 0]
    BY <1>7 DEF delete_iscsi_library_export, ReturnFrom, GoTo, history
  <2>2. Shape'
    BY <2>1 DEF Inv, Shape
  <2> SUFFICES ASSUME Quiet
               PROVE  OneAtATime' /\ SavesTargets' /\ RecordsHaveTargets' /\ NoExport'
    BY <2>1, <2>2 DEF Inv, Quiet
  <2>3. \A q \in Proc : pc'[q] = "idle" /\ (q # p => pc[q] = "idle")
    BY <2>1 DEF Inv, Shape, OneAtATime, Idle
  <2>4. OneAtATime' /\ SavesTargets' /\ NoExport'
    BY <2>3 DEF OneAtATime, SavesTargets, NoExport, Idle
  <2>5. \A k \in Library \ {l} : record[k] # 0 => k \in targets \cup halfway
    BY <2>1, <2>3 DEF Inv, RecordsHaveTargets
  <2>6. RecordsHaveTargets'
    BY <2>1, <2>5 DEF Inv, Shape, RecordsHaveTargets
  <2> QED
    BY <2>4, <2>6
<1> QED
  BY <1>1, <1>2, <1>3, <1>4, <1>5, <1>6, <1>7 DEF Exports

-----------------------------------------------------------------------------
(* Tapes and the environment                                               *)

LEMMA TapesKeep == ASSUME Inv, Tapes PROVE Inv'
<1>1. /\ UNCHANGED <<record, backs, targets, halfway, pc, arg>>
      /\ disturbed' = (disturbed \/ \E p \in Proc : pc[p] # "idle")
  BY DEF Tapes, ShelfPlace, AssignSlot, Alone, lio, proc
<1>2. Shape'
  BY <1>1 DEF Inv, Shape
<1>3. Quiet' => Quiet /\ \A p \in Proc : pc[p] = "idle"
  BY <1>1 DEF Quiet, Inv, Shape
<1> QED
  BY <1>1, <1>2, <1>3 DEF Inv, OneAtATime, SavesTargets, RecordsHaveTargets, NoExport, Idle

LEMMA EnvironmentKeeps == ASSUME Inv, Environment PROVE Inv'
<1>1. disturbed' = TRUE /\ UNCHANGED <<record, backs>>
  BY DEF Environment, ReloadByHand, Crash, lio
<1>2. /\ pc' = [p \in Proc |-> pc'[p]] /\ arg' = [p \in Proc |-> arg'[p]]
  BY DEF Environment, ReloadByHand, Crash, ReturnFrom, GoTo, proc, Inv, Shape
<1> QED
  BY <1>1, <1>2 DEF Inv, Shape, Quiet

LEMMA Preserved == ASSUME Inv, [Next]_vars PROVE Inv'
<1>1. CASE UNCHANGED vars
  BY <1>1 DEF vars, db, lio, proc, history, Inv, Shape, Quiet, OneAtATime, SavesTargets,
     RecordsHaveTargets, NoExport, Exported, Idle
<1> QED
  BY <1>1, AdministrationKeeps, SyncKeeps, ExportsKeep, TapesKeep, EnvironmentKeeps DEF Next

LEMMA Inductive == Spec => []Inv
<1>1. Inv /\ [Next]_vars => Inv'
  BY Preserved
<1> QED
  BY Begins, <1>1, PTL DEF Spec

\* What the database records as exported has its target, whichever batches of
\* an export fail and wherever, as long as processes do not overlap and none is
\* killed (save_iscsi_library_export and its callers); but while an unexport is
\* about to delete the record, and after one that took the target away and
\* failed, until it is repeated with success.
THEOREM RecordsTrue == Spec => []RecordsHaveTargets
<1>1. Inv => RecordsHaveTargets
  BY DEF Inv, RecordsHaveTargets
<1> QED
  BY Inductive, <1>1, PTL

-----------------------------------------------------------------------------
(* The hosts under an export                                               *)

HostsAreRecords ==
    \A i \in DOMAIN hosts : hosts[i] = [slots |-> hosts[i].slots, media |-> hosts[i].media]

LEMMA NewHosts == ASSUME NEW spec, hosts' = Rebuilt(spec) PROVE HostsAreRecords'
  BY DEF Rebuilt, EmptyHost, HostsAreRecords

LEMMA NoHosts == ASSUME hosts' = << >> PROVE HostsAreRecords'
  BY DEF HostsAreRecords

\* Only the media of the hosts differ.
SameHosts ==
    /\ DOMAIN hosts' = DOMAIN hosts
    /\ \A i \in DOMAIN hosts : \E m : hosts'[i] = [hosts[i] EXCEPT !.media = m]

LEMMA SameSizes == ASSUME HostsAreRecords, SameHosts PROVE HostsAreRecords' /\ Sizes' = Sizes
<1>1. ASSUME NEW i \in DOMAIN hosts
      PROVE  /\ hosts'[i].slots = hosts[i].slots
             /\ hosts'[i] = [slots |-> hosts'[i].slots, media |-> hosts'[i].media]
  <2>1. PICK m : hosts'[i] = [hosts[i] EXCEPT !.media = m]
    BY DEF SameHosts
  <2>2. hosts[i] = [slots |-> hosts[i].slots, media |-> hosts[i].media]
    BY DEF HostsAreRecords
  <2>3. hosts'[i] = [slots |-> hosts[i].slots, media |-> m]
    BY <2>1, <2>2
  <2> QED
    BY <2>3
<1> QED
  BY <1>1 DEF SameHosts, HostsAreRecords, Sizes

\* Moving a tape, and deleting a library, leave the hosts where they are.
LEMMA TapesSpareHosts == ASSUME HostsAreRecords, Tapes PROVE HostsAreRecords' /\ Sizes' = Sizes
<1>1. PICK l \in Library : ShelfPlace(l) \/ \E s \in Slot : AssignSlot(l, s)
  BY DEF Tapes
<1>2. CASE hosts' = hosts
  BY <1>2 DEF HostsAreRecords, Sizes
<1>3. ASSUME NEW i, NEW m, hosts' = [hosts EXCEPT ![i].media = m] PROVE SameHosts
  <2>1. ASSUME NEW j \in DOMAIN hosts
        PROVE  \E n : hosts'[j] = [hosts[j] EXCEPT !.media = n]
    <3>1. CASE j = i
      BY <1>3, <3>1
    <3>2. CASE j # i
      <4>1. hosts'[j] = hosts[j]
        BY <1>3, <3>2
      <4>2. hosts[j] = [hosts[j] EXCEPT !.media = hosts[j].media]
        BY DEF HostsAreRecords
      <4> QED
        BY <4>1, <4>2
    <3> QED
      BY <3>1, <3>2
  <2> QED
    BY <1>3, <2>1 DEF SameHosts
<1>4. hosts' = hosts \/ \E i, m : hosts' = [hosts EXCEPT ![i].media = m]
  BY <1>1 DEF ShelfPlace, AssignSlot, Evacuated
<1> QED
  BY <1>2, <1>3, <1>4, SameSizes

LEMMA AdministrationSparesHosts ==
    ASSUME HostsAreRecords, NEW p \in Proc, Administration(p)
    PROVE  HostsAreRecords' /\ Sizes' = Sizes
<1>1. CASE hosts' = hosts
  BY <1>1 DEF HostsAreRecords, Sizes
<1>2. CASE Delete(p) /\ hosts' # hosts
  <2>1. hosts' = [i \in DOMAIN hosts |-> [hosts[i] EXCEPT !.media =
            [s \in Slot |-> IF @[s] = arg[p].lib THEN Gone ELSE @[s]]]]
    BY <1>2 DEF Delete
  <2>2. SameHosts
    BY <2>1 DEF SameHosts
  <2> QED
    BY <2>2, SameSizes
<1>3. hosts' = hosts \/ Delete(p)
  BY DEF Administration, create_named_library, config_set, delete_named_library, Insert,
     kernel_align
<1> QED
  BY <1>1, <1>2, <1>3

\* What a synchronisation does to the hosts: under an export nothing, unless
\* the export began after it had looked.
LEMMA SyncHosts ==
    ASSUME NEW p \in Proc, HostsAreRecords, Sync(p)
    PROVE  HostsAreRecords' /\ (hosts' = hosts \/ ~Exported \/ pc[p] = "ioctl")
<1>1. CASE hosts' = hosts
  BY <1>1 DEF HostsAreRecords
<1>2. CASE IoctlResizes(p)
  <2>1. hosts' = Resized(want[p]) /\ pc[p] = "ioctl"
    BY <1>2 DEF IoctlResizes
  <2>2. ASSUME NEW i \in DOMAIN hosts
        PROVE  hosts'[i] = [slots |-> hosts'[i].slots, media |-> hosts'[i].media]
    <3>1. hosts[i] = [slots |-> hosts[i].slots, media |-> hosts[i].media]
      BY DEF HostsAreRecords
    <3>2. hosts'[i] = [slots |-> want[p][i], media |-> hosts[i].media]
      BY <2>1, <3>1 DEF Resized
    <3> QED
      BY <3>2
  <2>3. DOMAIN hosts' = DOMAIN hosts
    BY <2>1 DEF Resized
  <2> QED
    BY <2>1, <2>2, <2>3 DEF HostsAreRecords
<1>3. CASE IoctlSets(p)
  BY <1>1, <1>3, NewHosts DEF IoctlSets, SetResult
<1>4. CASE SetFails(p)
  BY <1>4, NewHosts, NoHosts DEF SetFails
<1>5. ASSUME NEW spec, Reloads(p, spec) PROVE HostsAreRecords' /\ (hosts' = hosts \/ ~Exported)
  BY <1>1, <1>5, NewHosts, NoHosts DEF Reloads
<1>6. hosts' = hosts \/ IoctlResizes(p) \/ IoctlSets(p) \/ SetFails(p)
      \/ RunScript(p) \/ Kernelctl(p)
  BY DEF Sync, BuildSpec, Preflight, IoctlFails, Script, write_vtl_inst_spec_cache, Pull,
     PullEnds
<1> QED
  BY <1>1, <1>2, <1>3, <1>4, <1>5, <1>6 DEF RunScript, Kernelctl

LEMMA ExportsSpareHosts == ASSUME NEW p \in Proc, Exports(p) PROVE hosts' = hosts
  BY DEF Exports, Export, Unexport, Phase1, Phase2, save_iscsi_library_export, UnexportRuns,
     delete_iscsi_library_export

LEMMA EnvironmentHosts ==
    ASSUME HostsAreRecords, Environment PROVE HostsAreRecords' /\ (hosts' = hosts \/ ~Exported)
  BY NewHosts, NoHosts DEF Environment, ReloadByHand, Crash, HostsAreRecords

LEMMA RecordsStay == Spec => []HostsAreRecords
<1>1. Init => HostsAreRecords
  BY DEF Init, HostsAreRecords, Rebuilt, EmptyHost
<1>2. HostsAreRecords /\ [Next]_vars => HostsAreRecords'
  <2>1. CASE hosts' = hosts
    BY <2>1 DEF HostsAreRecords
  <2> QED
    BY <2>1, TapesSpareHosts, AdministrationSparesHosts, SyncHosts, ExportsSpareHosts,
       EnvironmentHosts DEF Next, vars
<1> QED
  BY <1>1, <1>2, PTL DEF Spec

\* No process that works alone changes sizes or media of hosts that a backstore
\* refers to, but to move a tape: the preflight of
\* maybe_reload_kernel_vtl_after_db_change and rmmod see to it.
THEOREM ExportsUndisturbed == Spec => NotUnderExport
<1>1. ASSUME Inv, HostsAreRecords, [Next]_vars
      PROVE  [Exported /\ hosts' # hosts
              => disturbed \/ (Sizes' = Sizes /\ (Tapes \/ \E p \in Proc : Delete(p)))]_vars
  <2> SUFFICES ASSUME Exported, ~disturbed, hosts' # hosts
               PROVE  Sizes' = Sizes /\ (Tapes \/ \E p \in Proc : Delete(p))
    OBVIOUS
  <2>1. \A p \in Proc : pc[p] # "ioctl"
    BY <1>1 DEF Inv, Quiet, NoExport
  <2>2. ~UNCHANGED vars
    BY DEF vars
  <2>3. CASE Tapes
    BY <1>1, <2>3, TapesSpareHosts
  <2>4. ASSUME NEW p \in Proc, Administration(p) PROVE Delete(p) /\ Sizes' = Sizes
    <3>1. Delete(p)
      BY <2>4 DEF Administration, create_named_library, config_set, delete_named_library, Insert,
         kernel_align
    <3> QED
      BY <1>1, <2>4, <3>1, AdministrationSparesHosts
  <2>5. ~\E p \in Proc : Sync(p)
    BY <1>1, <2>1, SyncHosts
  <2> QED
    BY <1>1, <2>2, <2>3, <2>4, <2>5, ExportsSpareHosts, EnvironmentHosts DEF Next
<1> QED
  BY Inductive, RecordsStay, <1>1, PTL DEF Spec, NotUnderExport

-----------------------------------------------------------------------------
(* Synchronisation                                                         *)

Host == [slots : Slot, media : [Slot -> Library \cup {NoLib, Gone}]]

-----------------------------------------------------------------------------
(* Geometries                                                              *)

LEMMA EmptyIsGeometry == << >> \in Geometry
<1>1. << >> \in [1 .. 0 -> Slot]
  OBVIOUS
<1> QED
  BY <1>1, LibrariesAssumption DEF Geometry, LibrariesAssumption

LEMMA GeometryIs ==
    ASSUME NEW w \in Geometry
    PROVE  /\ w \in Seq(Slot) /\ Len(w) \in 0 .. MaxHosts
           /\ DOMAIN w = 1 .. Len(w) /\ \A i \in DOMAIN w : w[i] \in Slot
<1>1. PICK n \in 0 .. MaxHosts : w \in [1 .. n -> Slot]
  BY DEF Geometry
<1>2. n \in Nat /\ w \in Seq(Slot) /\ Len(w) = n
  BY <1>1, LibrariesAssumption DEF LibrariesAssumption
<1> QED
  BY <1>1, <1>2

LEMMA IsGeometry ==
    ASSUME NEW n \in 0 .. MaxHosts, NEW w, w = [i \in 1 .. n |-> w[i]],
           \A i \in 1 .. n : w[i] \in Slot
    PROVE  w \in Geometry /\ Len(w) = n /\ DOMAIN w = 1 .. n
<1>1. w \in [1 .. n -> Slot]
  OBVIOUS
<1>2. n \in Nat
  BY LibrariesAssumption DEF LibrariesAssumption
<1> QED
  BY <1>1, <1>2 DEF Geometry

LEMMA EmptyHostIs == ASSUME NEW n \in Slot PROVE EmptyHost(n) \in Host
  BY DEF EmptyHost, Host

LEMMA RebuiltIs ==
    ASSUME NEW w \in Geometry
    PROVE  /\ Rebuilt(w) \in Seq(Host) /\ Len(Rebuilt(w)) = Len(w)
           /\ \A i \in 1 .. Len(w) : Rebuilt(w)[i] = EmptyHost(w[i])
<1>1. Len(w) \in Nat /\ DOMAIN w = 1 .. Len(w) /\ \A i \in DOMAIN w : w[i] \in Slot
  BY GeometryIs, LibrariesAssumption DEF LibrariesAssumption
<1>2. Rebuilt(w) = [i \in 1 .. Len(w) |-> EmptyHost(w[i])]
  BY <1>1 DEF Rebuilt
<1>3. \A i \in 1 .. Len(w) : EmptyHost(w[i]) \in Host
  BY <1>1, EmptyHostIs
<1>4. Rebuilt(w) \in [1 .. Len(w) -> Host]
  BY <1>2, <1>3
<1> QED
  BY <1>1, <1>2, <1>4

-----------------------------------------------------------------------------
(* The libraries that are online                                           *)

\* A library leaves the sequence; those behind it move up.
LEMMA WithoutIs ==
    ASSUME NEW s \in Seq(Library), IsInjective(s), NEW i \in DOMAIN s
    PROVE  /\ Without(s, s[i]) \in Seq(Library)
           /\ Len(Without(s, s[i])) = Len(s) - 1
           /\ \A j \in 1 .. Len(s) - 1 :
                 Without(s, s[i])[j] = IF j < i THEN s[j] ELSE s[j + 1]
<1>1. (CHOOSE j \in DOMAIN s : s[j] = s[i]) = i
  BY DEF IsInjective
<1>2. Without(s, s[i]) = SubSeq(s, 1, i - 1) \o SubSeq(s, i + 1, Len(s))
  BY <1>1 DEF Without, RemoveAt
<1>3. i \in 1 .. Len(s) /\ Len(s) \in Nat /\ \A j \in 1 .. Len(s) : s[j] \in Library
  OBVIOUS
<1> DEFINE a == SubSeq(s, 1, i - 1)
           b == SubSeq(s, i + 1, Len(s))
<1>4. /\ a \in Seq(Library) /\ Len(a) = i - 1
      /\ \A j \in 1 .. i - 1 : a[j] = s[j]
  <2>1. \A j \in 1 .. i - 1 : s[j] \in Library
    BY <1>3
  <2>2. 1 \in Int /\ i - 1 \in Int
    BY <1>3
  <2>3. /\ a \in Seq(Library) /\ Len(a) = (IF 1 <= i - 1 THEN (i - 1) - 1 + 1 ELSE 0)
        /\ \A j \in 1 .. (i - 1) - 1 + 1 : a[j] = s[1 + j - 1]
    BY <2>1, <2>2, SubSeqProperties
  <2> HIDE DEF a
  <2> QED
    BY <2>3, <1>3
<1>5. /\ b \in Seq(Library) /\ Len(b) = Len(s) - i
      /\ \A j \in 1 .. Len(s) - i : b[j] = s[i + j]
  <2>1. \A j \in i + 1 .. Len(s) : s[j] \in Library
    BY <1>3
  <2>2. i + 1 \in Int /\ Len(s) \in Int
    BY <1>3
  <2>3. /\ b \in Seq(Library) /\ Len(b) = (IF i + 1 <= Len(s) THEN Len(s) - (i + 1) + 1 ELSE 0)
        /\ \A j \in 1 .. Len(s) - (i + 1) + 1 : b[j] = s[(i + 1) + j - 1]
    BY <2>1, <2>2, SubSeqProperties
  <2> HIDE DEF b
  <2> QED
    BY <2>3, <1>3
<1> HIDE DEF a, b
<1>6. /\ a \o b \in Seq(Library) /\ Len(a \o b) = Len(a) + Len(b)
      /\ \A j \in 1 .. Len(a) + Len(b) :
            (a \o b)[j] = IF j <= Len(a) THEN a[j] ELSE b[j - Len(a)]
  BY <1>4, <1>5, ConcatProperties
<1>7. Without(s, s[i]) = a \o b
  BY <1>2 DEF a, b
<1>8. Len(a) + Len(b) = Len(s) - 1
  BY <1>3, <1>4, <1>5
<1>9. ASSUME NEW j \in 1 .. Len(s) - 1
      PROVE  (a \o b)[j] = IF j < i THEN s[j] ELSE s[j + 1]
  <2>1. CASE j < i
    BY SMTT(40), <1>3, <1>4, <1>6, <1>8, <2>1
  <2>2. CASE ~(j < i)
    <3>1. j - Len(a) \in 1 .. Len(s) - i /\ ~(j <= Len(a)) /\ i + (j - Len(a)) = j + 1
      BY <1>3, <1>4, <2>2
    <3> QED
      BY <1>5, <1>6, <1>8, <2>2, <3>1
  <2> QED
    BY <2>1, <2>2
<1> QED
  BY <1>6, <1>7, <1>8, <1>9

LEMMA WithoutInjective ==
    ASSUME NEW s \in Seq(Library), IsInjective(s), NEW i \in DOMAIN s
    PROVE  IsInjective(Without(s, s[i]))
<1> DEFINE r == Without(s, s[i])
<1>1. /\ r \in Seq(Library) /\ Len(r) = Len(s) - 1 /\ Len(s) \in Nat /\ i \in 1 .. Len(s)
      /\ \A j \in 1 .. Len(s) - 1 : r[j] = IF j < i THEN s[j] ELSE s[j + 1]
  BY WithoutIs
<1> HIDE DEF r
<1>2. ASSUME NEW j \in DOMAIN r, NEW k \in DOMAIN r, r[j] = r[k] PROVE j = k
  <2>1. j \in 1 .. Len(s) - 1 /\ k \in 1 .. Len(s) - 1
    BY <1>1
  <2> DEFINE up(n) == IF n < i THEN n ELSE n + 1
  <2>2. up(j) \in DOMAIN s /\ up(k) \in DOMAIN s /\ s[up(j)] = s[up(k)]
    BY SMTT(40), <1>1, <1>2, <2>1
  <2>3. up(j) = up(k)
    BY <2>2 DEF IsInjective
  <2> QED
    BY <1>1, <2>1, <2>3
<1>3. IsInjective(r)
  BY <1>2 DEF IsInjective
<1> QED
  BY <1>3 DEF r

\* Whoever is left was there, and everybody but the one is left.
LEMMA WithoutHas ==
    ASSUME NEW s \in Seq(Library), IsInjective(s), NEW i \in DOMAIN s, NEW l
    PROVE  Contains(Without(s, s[i]), l) <=> Contains(s, l) /\ l # s[i]
<1> DEFINE r == Without(s, s[i])
<1>1. /\ r \in Seq(Library) /\ Len(r) = Len(s) - 1 /\ Len(s) \in Nat /\ i \in 1 .. Len(s)
      /\ \A j \in 1 .. Len(s) - 1 : r[j] = IF j < i THEN s[j] ELSE s[j + 1]
  BY WithoutIs
<1> HIDE DEF r
<1>2. ASSUME NEW j \in 1 .. Len(r) PROVE \E k \in 1 .. Len(s) : s[k] = r[j] /\ k # i
  BY SMTT(40), <1>1
<1>3. ASSUME NEW k \in 1 .. Len(s), k # i PROVE \E j \in 1 .. Len(r) : s[k] = r[j]
  <2>1. CASE k < i
    BY <1>1, <2>1
  <2>2. CASE k > i
    <3>1. k - 1 \in 1 .. Len(s) - 1 /\ ~(k - 1 < i) /\ (k - 1) + 1 = k
      BY <1>1, <2>2
    <3> QED
      BY <1>1, <3>1
  <2> QED
    BY <1>3, <2>1, <2>2
<1>4. \A j, k \in 1 .. Len(s) : s[j] = s[k] => j = k
  BY DEF IsInjective
<1>5. ASSUME Contains(r, l) PROVE Contains(s, l) /\ l # s[i]
  BY <1>1, <1>2, <1>4, <1>5 DEF Contains
<1>6. ASSUME Contains(s, l), l # s[i] PROVE Contains(r, l)
  BY <1>3, <1>6 DEF Contains
<1> QED
  BY <1>5, <1>6 DEF r

\* A library joins at the end.
LEMMA JoinIs ==
    ASSUME NEW s \in Seq(Library), IsInjective(s), NEW l \in Library, ~Contains(s, l)
    PROVE  /\ Append(s, l) \in Seq(Library) /\ Len(Append(s, l)) = Len(s) + 1
           /\ IsInjective(Append(s, l))
           /\ \A k : Contains(Append(s, l), k) <=> Contains(s, k) \/ k = l
<1> DEFINE r == Append(s, l)
<1>1. /\ r \in Seq(Library) /\ Len(r) = Len(s) + 1 /\ Len(s) \in Nat
      /\ \A i \in 1 .. Len(s) : r[i] = s[i] /\ r[i] # l
      /\ r[Len(s) + 1] = l
  BY AppendProperties DEF Contains
<1> HIDE DEF r
<1>2. \A j, k \in 1 .. Len(s) : s[j] = s[k] => j = k
  BY DEF IsInjective
<1>3. ASSUME NEW j \in DOMAIN r, NEW k \in DOMAIN r, r[j] = r[k] PROVE j = k
  <2>1. j \in 1 .. Len(s) + 1 /\ k \in 1 .. Len(s) + 1
    BY <1>1
  <2> QED
    BY <1>1, <1>2, <1>3, <2>1
<1>4. IsInjective(r)
  BY <1>3 DEF IsInjective
<1>5. ASSUME NEW k PROVE Contains(r, k) <=> Contains(s, k) \/ k = l
  <2>1. ASSUME NEW i \in 1 .. Len(r), r[i] = k PROVE Contains(s, k) \/ k = l
    <3>1. i \in 1 .. Len(s) \/ i = Len(s) + 1
      BY <1>1
    <3> QED
      BY <1>1, <2>1, <3>1 DEF Contains
  <2>2. ASSUME NEW i \in 1 .. Len(s), s[i] = k PROVE i \in 1 .. Len(r) /\ r[i] = k
    BY <1>1, <2>2
  <2>3. Len(s) + 1 \in 1 .. Len(r)
    BY <1>1
  <2> QED
    BY <1>1, <2>1, <2>2, <2>3 DEF Contains
<1> QED
  BY <1>1, <1>4, <1>5 DEF r

\* The position of a library is where it is.
LEMMA IndexIs ==
    ASSUME online \in Seq(Library), IsInjective(online), NEW i \in DOMAIN online
    PROVE  Index(online[i]) = i
  BY DEF Index, IsInjective

LEMMA IndexOf ==
    ASSUME online \in Seq(Library), NEW l, Online(l)
    PROVE  Index(l) \in DOMAIN online /\ online[Index(l)] = l
  BY DEF Index, Online, Contains

-----------------------------------------------------------------------------
(* The invariants                                                          *)

ExportStep == {"phase1", "phase2", "save", "unexport", "forget"}
Steps == {"idle", "create", "delete", "spec", "check", "recheck", "ioctl", "script",
          "run", "kernelctl", "applied", "pull"} \cup ExportStep

\* TypeOK, by the parts that actions leave alone or change together.  The kernel
\* is never asked for more hosts than it has, and a library has rows of slots.
DbTyped ==
    /\ online \in Seq(Library) /\ rows \in [Library -> 0 .. Full] /\ tape \in [Library -> 0 .. Nowhere]
    /\ LibrariesFit /\ \A l \in Library : Online(l) => rows[l] \in Slot
HostsTyped == hosts \in Seq(Host) /\ Len(hosts) <= MaxHosts
LioTyped ==
    /\ backs \in [Library -> 0 .. MaxHosts] /\ record \in [Library -> 0 .. MaxHosts]
    /\ targets \subseteq Library /\ halfway \subseteq Library
ProcTyped ==
    /\ pc \in [Proc -> Steps]
    /\ arg \in [Proc -> [lib : Library \cup {NoLib}, n : 0 .. MaxHosts + Full]]
    /\ want \in [Proc -> Geometry] /\ todo \in [Proc -> Seq(Library)]
RestTyped ==
    cache \in Geometry /\ conf \in Confs
    /\ disturbed \in BOOLEAN /\ shifted \in BOOLEAN /\ ops \in 0 .. MaxOps

\* Operands of the operation a process works at.  A library that is going to be
\* deleted is online until somebody deletes it.
Operand(p) ==
    /\ pc[p] = "create" => arg[p].lib \in Library /\ arg[p].n \in Slot
    /\ pc[p] = "delete" => arg[p].lib = NoLib \/ Online(arg[p].lib)
    /\ pc[p] \in ExportStep => arg[p].lib \in Library /\ arg[p].n \in 0 .. MaxHosts

Typed ==
    /\ DbTyped /\ HostsTyped /\ LioTyped /\ ProcTyped /\ RestTyped
    /\ \A p \in Proc : Operand(p)

LEMMA TypedIs == Typed => TypeOK /\ LibrariesFit
  BY DEF Typed, DbTyped, HostsTyped, LioTyped, ProcTyped, RestTyped, TypeOK, Host, Steps,
     ExportStep

-----------------------------------------------------------------------------
(* Types: what a process does to its own variables                         *)

\* A process goes on, or returns.
LEMMA Moves ==
    ASSUME ProcTyped, NEW p \in Proc, NEW step \in Steps, GoTo(p, step),
           arg' = arg \/ arg' = [arg EXCEPT ![p] = NoArg],
           want' = want \/ \E w \in Geometry : want' = [want EXCEPT ![p] = w],
           todo' = todo \/ \E s \in Seq(Library) : todo' = [todo EXCEPT ![p] = s]
    PROVE  /\ ProcTyped' /\ pc'[p] = step
           /\ \A q \in Proc \ {p} : pc'[q] = pc[q] /\ arg'[q] = arg[q]
<1>1. NoArg \in [lib : Library \cup {NoLib}, n : 0 .. MaxHosts + Full]
  BY LibrariesAssumption DEF NoArg, LibrariesAssumption
<1>2. pc' \in [Proc -> Steps] /\ pc' = [pc EXCEPT ![p] = step]
  BY DEF GoTo, ProcTyped
<1>3. arg' \in [Proc -> [lib : Library \cup {NoLib}, n : 0 .. MaxHosts + Full]]
  BY <1>1 DEF ProcTyped
<1>4. want' \in [Proc -> Geometry]
  BY DEF ProcTyped
<1>5. todo' \in [Proc -> Seq(Library)]
  BY DEF ProcTyped
<1>6. pc'[p] = step /\ \A q \in Proc \ {p} : pc'[q] = pc[q] /\ arg'[q] = arg[q]
  BY <1>2 DEF ProcTyped
<1> QED
  BY <1>2, <1>3, <1>4, <1>5, <1>6 DEF ProcTyped

LEMMA Returns ==
    ASSUME ProcTyped, NEW p \in Proc, ReturnFrom(p)
    PROVE  /\ ProcTyped' /\ pc'[p] = "idle"
           /\ \A q \in Proc \ {p} : pc'[q] = pc[q] /\ arg'[q] = arg[q]
<1>1. << >> \in Seq(Library)
  OBVIOUS
<1> QED
  BY <1>1, EmptyIsGeometry, Moves DEF ReturnFrom, Steps

\* Whoever does not touch the operands of others leaves them as they were, unless
\* a library goes.
LEMMA OthersOperands ==
    ASSUME Typed, NEW p \in Proc, \A l : Online(l) => Online(l)',
           \A q \in Proc \ {p} : pc'[q] = pc[q] /\ arg'[q] = arg[q],
           Operand(p)'
    PROVE  \A q \in Proc : Operand(q)'
<1> SUFFICES ASSUME NEW q \in Proc \ {p} PROVE Operand(q)'
  OBVIOUS
<1>1. Operand(q) /\ pc'[q] = pc[q] /\ arg'[q] = arg[q]
  BY DEF Typed
<1>2. Online(arg[q].lib) => (Online(arg[q].lib))'
  BY <1>1 DEF Online
<1> QED
  BY <1>1, <1>2 DEF Operand

LEMMA Begun ==
    ASSUME Typed, NEW p \in Proc, NEW step \in Steps, NEW l \in Library \cup {NoLib},
           NEW n \in 0 .. MaxHosts + Full, Start(p, step, l, n),
           step = "create" => l \in Library /\ n \in Slot,
           step = "delete" => Online(l),
           step \in ExportStep => l \in Library /\ n \in 0 .. MaxHosts,
           online' = online, UNCHANGED <<cache, conf>>
    PROVE  /\ ProcTyped' /\ RestTyped' /\ \A q \in Proc : Operand(q)'
<1>1. /\ pc' = [pc EXCEPT ![p] = step] /\ arg' = [arg EXCEPT ![p] = [lib |-> l, n |-> n]]
      /\ UNCHANGED <<want, todo, shifted>> /\ ops < MaxOps /\ ops' = ops + 1
      /\ disturbed' = (disturbed \/ \E q \in Proc : pc[q] # "idle")
  BY DEF Start, GoTo
<1>2. ProcTyped'
  BY <1>1 DEF Typed, ProcTyped
<1>3. /\ pc'[p] = step /\ arg'[p] = [lib |-> l, n |-> n]
      /\ \A q \in Proc \ {p} : pc'[q] = pc[q] /\ arg'[q] = arg[q]
  BY <1>1 DEF Typed, ProcTyped
<1>4. disturbed' \in BOOLEAN
  BY <1>1 DEF Typed, RestTyped
<1>5. ops' \in 0 .. MaxOps
  BY <1>1, LibrariesAssumption DEF Typed, RestTyped, LibrariesAssumption
<1>6. RestTyped'
  BY <1>1, <1>4, <1>5 DEF Typed, RestTyped
<1>7. Operand(p)'
  BY <1>3 DEF Operand, Online
<1>8. \A k : Online(k) => Online(k)'
  BY DEF Online
<1> QED
  BY <1>2, <1>3, <1>6, <1>7, <1>8, OthersOperands

-----------------------------------------------------------------------------
(* Types: the administration of libraries                                  *)

LEMMA InsertTyped == ASSUME Typed, NEW p \in Proc, Insert(p) PROVE Typed'
<1> DEFINE l == arg[p].lib
           m == arg[p].n
<1>1. /\ pc[p] = "create" /\ l \in Library /\ m \in Slot
      /\ UNCHANGED <<tape, hosts, backs, targets, record, halfway, cache, conf, disturbed, shifted, ops>>
      /\ \/ ToSpec(p) /\ online' = (IF Online(l) THEN online ELSE Append(online, l))
            /\ rows' = [rows EXCEPT ![l] = IF @ > m THEN @ ELSE m]
            /\ (Online(l) \/ Len(online) < MaxHosts)
         \/ ReturnFrom(p) /\ UNCHANGED <<online, rows>>
  BY DEF Insert, Typed, Operand, lio, history
<1>2. HostsTyped' /\ LioTyped' /\ RestTyped'
  BY <1>1 DEF Typed, HostsTyped, LioTyped, RestTyped
<1>3. /\ ProcTyped' /\ pc'[p] \in {"spec", "idle"}
      /\ \A q \in Proc \ {p} : pc'[q] = pc[q] /\ arg'[q] = arg[q]
  <2>1. CASE ToSpec(p)
    BY <2>1, Moves DEF ToSpec, Steps, Typed
  <2>2. CASE ReturnFrom(p)
    BY <2>2, Returns DEF Typed
  <2> QED
    BY <1>1, <2>1, <2>2
<1>4. DbTyped' /\ \A k : Online(k) => Online(k)'
  <2>1. CASE UNCHANGED <<online, rows>>
    BY <1>1, <2>1 DEF Typed, DbTyped, LibrariesFit, Online
  <2>2. ASSUME ~UNCHANGED <<online, rows>>
        PROVE  /\ rows' = [rows EXCEPT ![l] = IF @ > m THEN @ ELSE m]
               /\ online' = (IF Online(l) THEN online ELSE Append(online, l))
               /\ (Online(l) \/ Len(online) < MaxHosts)
    BY <1>1, <2>2
  <2>3. ASSUME rows' = [rows EXCEPT ![l] = IF @ > m THEN @ ELSE m]
        PROVE  /\ rows' \in [Library -> 0 .. Full] /\ rows'[l] \in Slot
               /\ \A k \in Library \ {l} : rows'[k] = rows[k]
    BY <1>1, <2>3, LibrariesAssumption DEF Typed, DbTyped, Slot, LibrariesAssumption
  <2>4. CASE ~UNCHANGED <<online, rows>> /\ Online(l)
    BY <1>1, <2>2, <2>3, <2>4 DEF Typed, DbTyped, LibrariesFit, Online
  <2>5. CASE ~UNCHANGED <<online, rows>> /\ ~Online(l)
    <3>1. online' = Append(online, l) /\ Len(online) < MaxHosts
      BY <2>2, <2>5
    <3>2. /\ online' \in Seq(Library) /\ Len(online') = Len(online) + 1 /\ IsInjective(online')
          /\ \A k : Online(k)' <=> Online(k) \/ k = l
      BY <1>1, <2>5, <3>1, JoinIs DEF Typed, DbTyped, LibrariesFit, Online
    <3>3. Len(online) \in Nat
      BY DEF Typed, DbTyped
    <3>4. LibrariesFit'
      BY <3>1, <3>2, <3>3, LibrariesAssumption DEF LibrariesFit, LibrariesAssumption
    <3>5. /\ rows' \in [Library -> 0 .. Full] /\ rows'[l] \in Slot
          /\ \A k \in Library \ {l} : rows'[k] = rows[k]
      BY <2>2, <2>3, <2>5
    <3> HIDE DEF l, m
    <3>6. \A k \in Library : Online(k)' => rows'[k] \in Slot
      BY <3>2, <3>5 DEF Typed, DbTyped
    <3> QED
      BY <1>1, <3>2, <3>4, <3>5, <3>6 DEF Typed, DbTyped
  <2> QED
    BY <2>1, <2>4, <2>5
<1>5. Operand(p)'
  BY <1>3 DEF Operand, ExportStep
<1> QED
  BY <1>2, <1>3, <1>4, <1>5, OthersOperands DEF Typed

\* Media of a library that is deleted stay, without a row.
LEMMA MediaChange ==
    ASSUME HostsTyped, NEW media, hosts' = [i \in DOMAIN hosts |-> [hosts[i] EXCEPT !.media = media[i]]],
           \A i \in DOMAIN hosts : media[i] \in [Slot -> Library \cup {NoLib, Gone}]
    PROVE  HostsTyped'
<1>1. ASSUME NEW i \in 1 .. Len(hosts) PROVE [hosts[i] EXCEPT !.media = media[i]] \in Host
  <2>1. hosts[i] \in Host /\ media[i] \in [Slot -> Library \cup {NoLib, Gone}]
    BY DEF HostsTyped
  <2> QED
    BY <2>1 DEF Host
<1>2. DOMAIN hosts = 1 .. Len(hosts) /\ Len(hosts) \in Nat
  BY DEF HostsTyped
<1>3. hosts' \in [1 .. Len(hosts) -> Host]
  BY <1>1, <1>2
<1> QED
  BY <1>2, <1>3 DEF HostsTyped

LEMMA DeleteTyped == ASSUME Typed, NEW p \in Proc, Delete(p) PROVE Typed'
<1> DEFINE l == arg[p].lib
<1>1. /\ pc[p] = "delete" /\ pc' = [pc EXCEPT ![p] = "spec"] /\ (l = NoLib \/ Online(l))
      /\ UNCHANGED <<backs, targets, halfway, cache, conf, want, todo, disturbed, ops>>
  BY DEF Delete, GoTo, Typed, Operand
<1>2. CASE l = NoLib
  <2>1. UNCHANGED <<online, rows, tape, hosts, record, arg, shifted>>
    BY <1>2 DEF Delete
  <2>2. DbTyped' /\ HostsTyped' /\ LioTyped' /\ RestTyped'
    BY <1>1, <2>1 DEF Typed, DbTyped, LibrariesFit, Online, HostsTyped, LioTyped, RestTyped
  <2>3. ProcTyped' /\ pc'[p] = "spec" /\ \A q \in Proc \ {p} : pc'[q] = pc[q]
    BY <1>1, <2>1 DEF Typed, ProcTyped, Steps
  <2>4. Operand(p)' /\ \A k : Online(k) => Online(k)'
    BY <2>1, <2>3 DEF Operand, ExportStep, Online
  <2> QED
    BY <2>1, <2>2, <2>3, <2>4, OthersOperands DEF Typed
<1>3. CASE l # NoLib
  <2>1. /\ online' = Without(online, l) /\ rows' = [rows EXCEPT ![l] = 0]
        /\ tape' = [tape EXCEPT ![l] = Shelf] /\ record' = [record EXCEPT ![l] = 0]
        /\ hosts' = [i \in DOMAIN hosts |-> [hosts[i] EXCEPT !.media =
               [s \in Slot |-> IF @[s] = l THEN Gone ELSE @[s]]]]
        /\ arg' = [q \in Proc |-> IF pc[q] = "delete" /\ arg[q].lib = l THEN NoArg ELSE arg[q]]
        /\ shifted' = (shifted \/ l # Last(online))
    BY <1>3 DEF Delete
  <2>2. Online(l) /\ l \in Library
    BY <1>1, <1>3 DEF Online, Contains, Typed, DbTyped
  <2>3. PICK i \in DOMAIN online : online[i] = l
    BY <2>2 DEF Online, Contains, Typed, DbTyped
  <2>4. /\ online \in Seq(Library) /\ IsInjective(online) /\ Len(online) <= MaxHosts
        /\ Len(online) \in Nat
    BY DEF Typed, DbTyped, LibrariesFit
  <2>5. /\ online' \in Seq(Library) /\ Len(online') = Len(online) - 1 /\ IsInjective(online')
        /\ \A k : Online(k)' <=> Online(k) /\ k # l
    BY <2>1, <2>3, <2>4, WithoutIs, WithoutInjective, WithoutHas DEF Online
  <2>6. LibrariesFit'
    BY <2>4, <2>5, LibrariesAssumption DEF LibrariesFit, LibrariesAssumption
  <2>7. /\ rows' \in [Library -> 0 .. Full] /\ \A k \in Library \ {l} : rows'[k] = rows[k]
        /\ tape' \in [Library -> 0 .. Nowhere] /\ LioTyped'
    <3>1. 0 \in 0 .. Full /\ Shelf \in 0 .. Nowhere /\ 0 \in 0 .. MaxHosts
      BY LibrariesAssumption DEF LibrariesAssumption, Nowhere, Shelf
    <3>2. /\ rows \in [Library -> 0 .. Full] /\ tape \in [Library -> 0 .. Nowhere]
          /\ record \in [Library -> 0 .. MaxHosts]
      BY DEF Typed, DbTyped, LioTyped
    <3> HIDE DEF l
    <3>3. rows' \in [Library -> 0 .. Full] /\ \A k \in Library \ {l} : rows'[k] = rows[k]
      BY <2>1, <3>1, <3>2
    <3>4. tape' \in [Library -> 0 .. Nowhere]
      BY <2>1, <3>1, <3>2
    <3>5. record' \in [Library -> 0 .. MaxHosts]
      BY <2>1, <3>1, <3>2
    <3> QED
      BY <1>1, <3>3, <3>4, <3>5 DEF Typed, LioTyped
  <2>8. DbTyped'
    <3> HIDE DEF l
    <3> QED
      BY <2>5, <2>6, <2>7 DEF Typed, DbTyped
  <2>9. HostsTyped'
    <3> DEFINE media == [j \in DOMAIN hosts |->
                             [s \in Slot |-> IF hosts[j].media[s] = l THEN Gone ELSE hosts[j].media[s]]]
    <3>1. ASSUME NEW j \in DOMAIN hosts PROVE media[j] \in [Slot -> Library \cup {NoLib, Gone}]
      <4>1. hosts[j] \in Host
        BY DEF Typed, HostsTyped
      <4>2. hosts[j].media \in [Slot -> Library \cup {NoLib, Gone}]
        BY <4>1 DEF Host
      <4> QED
        BY <4>2
    <3>2. hosts' = [j \in DOMAIN hosts |-> [hosts[j] EXCEPT !.media = media[j]]]
      BY <2>1
    <3> HIDE DEF media
    <3> QED
      BY <3>1, <3>2, MediaChange DEF Typed
  <2>10. /\ ProcTyped' /\ pc'[p] = "spec" /\ \A q \in Proc \ {p} : pc'[q] = pc[q]
    <3>1. NoArg \in [lib : Library \cup {NoLib}, n : 0 .. MaxHosts + Full]
      BY LibrariesAssumption DEF NoArg, LibrariesAssumption
    <3>2. arg' \in [Proc -> [lib : Library \cup {NoLib}, n : 0 .. MaxHosts + Full]]
      BY <2>1, <3>1 DEF Typed, ProcTyped
    <3>3. pc' \in [Proc -> Steps] /\ pc'[p] = "spec" /\ \A q \in Proc \ {p} : pc'[q] = pc[q]
      BY <1>1 DEF Typed, ProcTyped, Steps
    <3> QED
      BY <1>1, <3>2, <3>3 DEF Typed, ProcTyped
  <2>11. RestTyped'
    BY <1>1, <2>1 DEF Typed, RestTyped
  <2>12. ASSUME NEW q \in Proc PROVE Operand(q)'
    <3>1. CASE pc'[q] \notin {"create", "delete"} \cup ExportStep
      BY <3>1 DEF Operand
    <3>2. CASE pc'[q] \in {"create"} \cup ExportStep
      <4>1. pc'[q] = pc[q] /\ arg'[q] = arg[q]
        BY <2>1, <2>10, <3>2 DEF ExportStep
      <4> QED
        BY <3>2, <4>1 DEF Operand, ExportStep, Typed
    <3>3. CASE pc'[q] = "delete"
      <4>1. pc[q] = "delete" /\ (arg[q].lib = NoLib \/ Online(arg[q].lib))
        BY <2>10, <3>3 DEF Typed, Operand
      <4>2. arg'[q] = (IF arg[q].lib = l THEN NoArg ELSE arg[q])
        BY <2>1, <4>1
      <4>3. CASE arg[q].lib = l
        BY <3>3, <4>2, <4>3 DEF Operand, NoArg, ExportStep
      <4>4. CASE arg[q].lib # l
        <5>1. arg'[q].lib = NoLib \/ (Online(arg[q].lib))'
          BY <2>5, <4>1, <4>2, <4>4 DEF Online
        <5> QED
          BY <3>3, <4>2, <4>4, <5>1 DEF Operand, ExportStep, Online
      <4> QED
        BY <4>3, <4>4
    <3> QED
      BY <3>1, <3>2, <3>3
  <2> QED
    BY <2>7, <2>8, <2>9, <2>10, <2>11, <2>12 DEF Typed
<1> QED
  BY <1>2, <1>3

LEMMA AdministrationTyped == ASSUME Typed, NEW p \in Proc, Administration(p) PROVE Typed'
<1>1. \A n \in Slot : n \in 0 .. MaxHosts + Full
  BY LibrariesAssumption DEF LibrariesAssumption, Slot
<1>2. ASSUME UNCHANGED <<db, hosts, lio>>
      PROVE  DbTyped' /\ HostsTyped' /\ LioTyped'
  BY <1>2 DEF Typed, DbTyped, LibrariesFit, Online, HostsTyped, LioTyped, db, lio
<1>3. ASSUME NEW l \in Library, NEW n \in Slot, create_named_library(p, l, n) PROVE Typed'
  BY <1>1, <1>2, <1>3, Begun DEF create_named_library, Typed, db, Steps, ExportStep
<1>4. ASSUME NEW l \in Library, NEW n \in Slot, config_set(p, l, n) PROVE Typed'
  <2>1. /\ Start(p, "spec", NoLib, 0) /\ rows' = [rows EXCEPT ![l] = IF @ > n THEN @ ELSE n]
        /\ UNCHANGED <<online, tape, hosts, lio, cache, conf>>
    BY <1>4 DEF config_set
  <2>2. 0 \in 0 .. MaxHosts + Full
    BY LibrariesAssumption DEF LibrariesAssumption
  <2>3. ProcTyped' /\ RestTyped' /\ \A q \in Proc : Operand(q)'
    BY <2>1, <2>2, Begun DEF Steps, ExportStep
  <2>4. rows' \in [Library -> 0 .. Full] /\ \A k \in Library : rows'[k] = rows[k] \/ rows'[k] \in Slot
    BY <2>1, LibrariesAssumption DEF Typed, DbTyped, Slot, LibrariesAssumption
  <2>5. DbTyped' /\ HostsTyped' /\ LioTyped'
    BY <2>1, <2>4 DEF Typed, DbTyped, LibrariesFit, Online, HostsTyped, LioTyped, lio
  <2> QED
    BY <2>3, <2>5 DEF Typed
<1>5. ASSUME NEW l \in Library, delete_named_library(p, l) PROVE Typed'
  <2>1. 0 \in 0 .. MaxHosts + Full
    BY LibrariesAssumption DEF LibrariesAssumption
  <2> QED
    BY <1>2, <1>5, <2>1, Begun DEF delete_named_library, Typed, db, Steps, ExportStep
<1>6. CASE kernel_align(p)
  <2>1. 0 \in 0 .. MaxHosts + Full
    BY LibrariesAssumption DEF LibrariesAssumption
  <2> QED
    BY <1>2, <1>6, <2>1, Begun DEF kernel_align, Typed, db, Steps, ExportStep
<1> QED
  BY <1>3, <1>4, <1>5, <1>6, InsertTyped, DeleteTyped DEF Administration

-----------------------------------------------------------------------------
(* Types: synchronisation                                                  *)

LEMMA DbSpecIs ==
    ASSUME Typed
    PROVE  /\ DbSpec \in Geometry /\ Len(DbSpec) = Len(online)
           /\ \A i \in DOMAIN online : DbSpec[i] = rows[online[i]]
<1>1. /\ online \in Seq(Library) /\ Len(online) \in 0 .. MaxHosts /\ DOMAIN online = 1 .. Len(online)
      /\ \A i \in DOMAIN online : rows[online[i]] \in Slot
  <2>1. online \in Seq(Library) /\ Len(online) <= MaxHosts
    BY DEF Typed, DbTyped, LibrariesFit
  <2>2. Len(online) \in Nat /\ DOMAIN online = 1 .. Len(online)
    BY <2>1
  <2>3. ASSUME NEW i \in DOMAIN online PROVE rows[online[i]] \in Slot
    BY <2>1, <2>2, <2>3 DEF Typed, DbTyped, Online, Contains
  <2> QED
    BY <2>1, <2>2, <2>3, LibrariesAssumption DEF LibrariesAssumption
<1>2. DbSpec = [i \in 1 .. Len(online) |-> rows[online[i]]]
  BY <1>1 DEF DbSpec
<1>3. \A i \in 1 .. Len(online) : DbSpec[i] = rows[online[i]]
  BY <1>2
<1> HIDE DEF DbSpec
<1> QED
  BY <1>1, <1>2, <1>3, IsGeometry

LEMMA SizesIs ==
    ASSUME HostsTyped
    PROVE  /\ Sizes \in Geometry /\ Len(Sizes) = Len(hosts) /\ DOMAIN Sizes = DOMAIN hosts
           /\ \A i \in DOMAIN hosts : Sizes[i] = hosts[i].slots
<1>1. /\ Len(hosts) \in 0 .. MaxHosts /\ DOMAIN hosts = 1 .. Len(hosts)
      /\ \A i \in DOMAIN hosts : hosts[i] \in Host
  <2>1. Len(hosts) \in Nat
    BY DEF HostsTyped
  <2> QED
    BY <2>1, LibrariesAssumption DEF HostsTyped, LibrariesAssumption
<1>2. Sizes = [i \in 1 .. Len(hosts) |-> hosts[i].slots]
  BY <1>1 DEF Sizes
<1>3. \A i \in 1 .. Len(hosts) : Sizes[i] = hosts[i].slots /\ Sizes[i] \in Slot
  BY <1>1, <1>2 DEF Host
<1> HIDE DEF Sizes
<1> QED
  BY <1>1, <1>2, <1>3, IsGeometry

\* In fixed mode the spec is as long as there are hosts.
LEMMA WantedIs ==
    ASSUME Typed
    PROVE  /\ Wanted \in Geometry
           /\ \A i \in DOMAIN online : i <= Len(Wanted) => Wanted[i] = rows[online[i]]
           /\ Len(Wanted) = IF conf.mode = "fixed" /\ hosts # << >> /\ online # << >>
                            THEN Len(hosts) ELSE Len(online)
<1>1. CASE ~(conf.mode = "fixed" /\ hosts # << >> /\ online # << >>)
  BY <1>1, DbSpecIs DEF Wanted
<1>2. CASE conf.mode = "fixed" /\ hosts # << >> /\ online # << >>
  <2>1. Wanted = Padded
    BY <1>2 DEF Wanted
  <2>2. /\ Len(hosts) \in 0 .. MaxHosts /\ DOMAIN hosts = 1 .. Len(hosts)
        /\ \A i \in DOMAIN hosts : hosts[i].slots \in Slot
    <3>1. Len(hosts) \in Nat /\ \A i \in DOMAIN hosts : hosts[i] \in Host
      BY DEF Typed, HostsTyped
    <3> QED
      BY <3>1, LibrariesAssumption DEF Typed, HostsTyped, LibrariesAssumption, Host
  <2>3. DOMAIN online = 1 .. Len(online) /\ Len(online) \in Nat
    BY DEF Typed, DbTyped
  <2>4. /\ DbSpec \in Geometry /\ Len(DbSpec) = Len(online) /\ DOMAIN DbSpec = 1 .. Len(online)
        /\ \A i \in 1 .. Len(online) : DbSpec[i] = rows[online[i]] /\ DbSpec[i] \in Slot
    BY <2>3, DbSpecIs, GeometryIs
  <2> HIDE DEF DbSpec
  <2>5. Padded = [i \in 1 .. Len(hosts) |-> IF i <= Len(online) THEN DbSpec[i] ELSE hosts[i].slots]
    BY <2>2 DEF Padded
  <2>6. \A i \in 1 .. Len(hosts) : Padded[i] = IF i <= Len(online) THEN DbSpec[i] ELSE hosts[i].slots
    BY <2>5
  <2> HIDE DEF Padded
  <2>7. \A i \in 1 .. Len(hosts) : Padded[i] \in Slot
    BY <2>2, <2>3, <2>4, <2>6
  <2>8. Padded \in Geometry /\ Len(Padded) = Len(hosts)
    BY <2>2, <2>5, <2>6, <2>7, IsGeometry
  <2>9. \A i \in DOMAIN online : i <= Len(Padded) => Padded[i] = rows[online[i]]
    BY <2>2, <2>3, <2>4, <2>6, <2>8
  <2> QED
    BY <1>2, <2>1, <2>8, <2>9
<1> QED
  BY <1>1, <1>2

LEMMA RebuiltTyped ==
    ASSUME NEW w \in Geometry, hosts' = Rebuilt(w) PROVE HostsTyped'
<1>1. Rebuilt(w) \in Seq(Host) /\ Len(Rebuilt(w)) <= MaxHosts
  BY RebuiltIs, GeometryIs, LibrariesAssumption DEF LibrariesAssumption
<1> QED
  BY <1>1 DEF HostsTyped

LEMMA NoHostsTyped == hosts' = << >> => HostsTyped'
<1>1. << >> \in Seq(Host) /\ Len(<< >>) = 0
  OBVIOUS
<1> QED
  BY <1>1, LibrariesAssumption DEF HostsTyped, LibrariesAssumption

LEMMA ResizedIs ==
    ASSUME HostsTyped, NEW w \in Geometry, Len(w) = Len(hosts)
    PROVE  /\ Resized(w) \in Seq(Host) /\ Len(Resized(w)) = Len(hosts)
           /\ \A i \in 1 .. Len(hosts) : Resized(w)[i] = [slots |-> w[i], media |-> hosts[i].media]
<1>1. /\ Len(hosts) \in Nat /\ DOMAIN hosts = 1 .. Len(hosts)
      /\ \A i \in 1 .. Len(hosts) : hosts[i] \in Host /\ w[i] \in Slot
  BY GeometryIs DEF HostsTyped
<1>2. ASSUME NEW i \in 1 .. Len(hosts)
      PROVE  /\ [hosts[i] EXCEPT !.slots = w[i]] = [slots |-> w[i], media |-> hosts[i].media]
             /\ [hosts[i] EXCEPT !.slots = w[i]] \in Host
  BY <1>1 DEF Host
<1>3. Resized(w) = [i \in 1 .. Len(hosts) |-> [hosts[i] EXCEPT !.slots = w[i]]]
  BY <1>1 DEF Resized
<1>4. Resized(w) \in [1 .. Len(hosts) -> Host]
  BY <1>2, <1>3
<1>5. \A i \in 1 .. Len(hosts) : Resized(w)[i] = [slots |-> w[i], media |-> hosts[i].media]
  BY <1>2, <1>3
<1> QED
  BY <1>1, <1>4, <1>5

\* A step of a synchronisation, and where it leaves the process.
LEMMA SyncMoves ==
    ASSUME Typed, NEW p \in Proc, Sync(p)
    PROVE  /\ ProcTyped' /\ pc'[p] \in SyncStep
           /\ \A q \in Proc \ {p} : pc'[q] = pc[q] /\ arg'[q] = arg[q]
<1>1. ASSUME ReturnFrom(p)
      PROVE  /\ ProcTyped' /\ pc'[p] \in SyncStep
             /\ \A q \in Proc \ {p} : pc'[q] = pc[q] /\ arg'[q] = arg[q]
  BY <1>1, Returns DEF Typed, SyncStep
<1>2. ASSUME NEW step \in SyncStep, GoTo(p, step), UNCHANGED <<arg, todo>>,
             want' = want \/ want' = [want EXCEPT ![p] = Wanted]
      PROVE  /\ ProcTyped' /\ pc'[p] \in SyncStep
             /\ \A q \in Proc \ {p} : pc'[q] = pc[q] /\ arg'[q] = arg[q]
  BY <1>2, Moves, WantedIs DEF Typed, SyncStep, Steps
<1>3. ASSUME StartPull(p), UNCHANGED arg
      PROVE  /\ ProcTyped' /\ pc'[p] \in SyncStep
             /\ \A q \in Proc \ {p} : pc'[q] = pc[q] /\ arg'[q] = arg[q]
  <2>1. /\ GoTo(p, "pull") /\ todo' = [todo EXCEPT ![p] = online] /\ want' = [want EXCEPT ![p] = << >>]
        /\ online \in Seq(Library)
    BY <1>3 DEF StartPull, Typed, DbTyped
  <2> QED
    BY <1>3, <2>1, Moves, EmptyIsGeometry DEF Typed, SyncStep, Steps
<1>4. CASE Pull(p)
  <2>1. /\ pc[p] = "pull" /\ todo[p] # << >> /\ todo' = [todo EXCEPT ![p] = Tail(@)]
        /\ UNCHANGED <<pc, arg, want>>
    BY <1>4 DEF Pull
  <2>2. Tail(todo[p]) \in Seq(Library)
    BY <2>1, HeadTailProperties DEF Typed, ProcTyped
  <2> QED
    BY <2>1, <2>2 DEF Typed, ProcTyped, SyncStep
<1>5. CASE write_vtl_inst_spec_cache(p)
  BY <1>3, <1>5 DEF write_vtl_inst_spec_cache
<1>6. CASE BuildSpec(p)
  BY <1>1, <1>2, <1>3, <1>6 DEF BuildSpec, SyncStep
<1>7. CASE Preflight(p)
  BY <1>1, <1>2, <1>7 DEF Preflight, SyncStep
<1>8. CASE IoctlResizes(p) \/ IoctlSets(p)
  BY <1>2, <1>8 DEF IoctlResizes, IoctlSets, SyncStep
<1>9. CASE IoctlFails(p) \/ SetFails(p)
  BY <1>1, <1>2, <1>9 DEF IoctlFails, SetFails, AfterError, SyncStep
<1>10. CASE Script(p)
  BY <1>1, <1>2, <1>10 DEF Script, SyncStep
<1>11. CASE RunScript(p) \/ Kernelctl(p)
  BY <1>1, <1>2, <1>11 DEF RunScript, Kernelctl, Reloads, SyncStep
<1>12. CASE PullEnds(p)
  BY <1>1, <1>12 DEF PullEnds
<1> QED
  BY <1>4, <1>5, <1>6, <1>7, <1>8, <1>9, <1>10, <1>11, <1>12 DEF Sync

LEMMA SyncHostsTyped == ASSUME Typed, NEW p \in Proc, Sync(p) PROVE HostsTyped'
<1>1. want[p] \in Geometry /\ DbSpec \in Geometry /\ Sizes \in Geometry
  BY DbSpecIs, SizesIs DEF Typed, ProcTyped
<1>2. CASE hosts' = hosts
  BY <1>2 DEF Typed, HostsTyped
<1>3. CASE IoctlResizes(p)
  <2>1. hosts' = Resized(want[p]) /\ Len(want[p]) = Len(hosts)
    BY <1>3 DEF IoctlResizes, Resize
  <2> QED
    BY <1>1, <2>1, ResizedIs DEF Typed, HostsTyped
<1>4. CASE IoctlSets(p)
  BY <1>1, <1>2, <1>4, RebuiltTyped DEF IoctlSets, SetResult
<1>5. CASE SetFails(p)
  BY <1>1, <1>5, RebuiltTyped, NoHostsTyped DEF SetFails
<1>6. CASE RunScript(p) \/ Kernelctl(p)
  BY <1>1, <1>2, <1>6, RebuiltTyped, NoHostsTyped DEF RunScript, Kernelctl, Reloads
<1>7. hosts' = hosts \/ IoctlResizes(p) \/ IoctlSets(p) \/ SetFails(p)
      \/ RunScript(p) \/ Kernelctl(p)
  BY DEF Sync, BuildSpec, Preflight, IoctlFails, Script, write_vtl_inst_spec_cache, Pull,
     PullEnds
<1> QED
  BY <1>2, <1>3, <1>4, <1>5, <1>6, <1>7

\* A library that has a host is found at its place, or in one of the host's slots.
LEMMA PulledTapeIs == ASSUME Typed, NEW l PROVE PulledTape(l) \in 0 .. Nowhere
<1>1. Slot \subseteq 0 .. Nowhere /\ Shelf \in 0 .. Nowhere /\ Nowhere \in 0 .. Nowhere
  BY LibrariesAssumption DEF LibrariesAssumption, Slot, Nowhere, Shelf
<1> QED
  BY <1>1 DEF PulledTape

LEMMA SyncTyped == ASSUME Typed, NEW p \in Proc, Sync(p) PROVE Typed'
<1>1. /\ UNCHANGED <<online, rows, backs, targets, record, halfway, conf, disturbed, shifted, ops>>
      /\ tape' = tape \/ \E l : tape' = [tape EXCEPT ![l] = PulledTape(l)]
      /\ cache' = cache \/ cache' = want[p]
  BY DEF Sync, BuildSpec, Preflight, IoctlResizes, IoctlSets, IoctlFails, SetFails, Script,
     RunScript, Kernelctl, write_vtl_inst_spec_cache, Pull, PullEnds, db, lio, history
<1>2. DbTyped'
  <2>1. tape' \in [Library -> 0 .. Nowhere]
    BY <1>1, PulledTapeIs DEF Typed, DbTyped
  <2> QED
    BY <1>1, <2>1 DEF Typed, DbTyped, LibrariesFit, Online
<1>3. LioTyped' /\ RestTyped'
  BY <1>1 DEF Typed, LioTyped, RestTyped, ProcTyped
<1>4. /\ ProcTyped' /\ pc'[p] \in SyncStep
      /\ \A q \in Proc \ {p} : pc'[q] = pc[q] /\ arg'[q] = arg[q]
  BY SyncMoves
<1>5. Operand(p)' /\ \A k : Online(k) => Online(k)'
  BY <1>1, <1>4 DEF Operand, SyncStep, ExportStep, Online
<1> QED
  BY <1>2, <1>3, <1>4, <1>5, SyncHostsTyped, OthersOperands DEF Typed

-----------------------------------------------------------------------------
(* Types: exports, tapes and the environment                               *)

LEMMA ExportsTyped == ASSUME Typed, NEW p \in Proc, Exports(p) PROVE Typed'
<1>1. /\ UNCHANGED <<online, rows, tape, hosts, cache, conf, shifted>>
      /\ \A k : Online(k) => Online(k)'
  BY DEF Exports, Export, Unexport, Phase1, Phase2, save_iscsi_library_export, UnexportRuns,
     delete_iscsi_library_export, db, history, Start, Online
<1>2. DbTyped' /\ HostsTyped'
  BY <1>1 DEF Typed, DbTyped, HostsTyped, LibrariesFit, Online
<1>3. ASSUME NEW k \in Library, Export(p, k) \/ Unexport(p, k) PROVE Typed'
  <2>1. PICK step \in {"phase1", "unexport"}, h \in 0 .. MaxHosts : Start(p, step, k, h)
    <3>1. ASSUME Export(p, k) PROVE \E h \in 0 .. MaxHosts : Start(p, "phase1", k, h)
      <4>1. PICK h \in scan_vtl_library_blocking(k) : Start(p, "phase1", k, h)
        BY <3>1 DEF Export
      <4>2. h \in DOMAIN hosts
        BY <4>1 DEF scan_vtl_library_blocking, pick_vtl_host_for_scan
      <4>3. DOMAIN hosts = 1 .. Len(hosts) /\ Len(hosts) \in Nat /\ Len(hosts) <= MaxHosts
        BY DEF Typed, HostsTyped
      <4>4. h \in 0 .. MaxHosts
        BY <4>2, <4>3, LibrariesAssumption DEF LibrariesAssumption
      <4> QED
        BY <4>1, <4>4
    <3>2. 0 \in 0 .. MaxHosts
      BY LibrariesAssumption DEF LibrariesAssumption
    <3> QED
      BY <1>3, <3>1, <3>2 DEF Unexport
  <2>2. h \in 0 .. MaxHosts + Full
    BY LibrariesAssumption DEF LibrariesAssumption
  <2>3. LioTyped' /\ UNCHANGED <<cache, conf>>
    BY <1>3 DEF Export, Unexport, Typed, LioTyped, lio
  <2> QED
    BY <1>1, <1>2, <2>1, <2>2, <2>3, Begun DEF Typed, Steps, ExportStep
<1>4. ASSUME ~\E k \in Library : Export(p, k) \/ Unexport(p, k)
      PROVE  Typed'
  <2> DEFINE l == arg[p].lib
  <2>1. /\ pc[p] \in ExportStep /\ l \in Library /\ arg[p].n \in 0 .. MaxHosts
        /\ ops' = ops /\ disturbed' \in BOOLEAN
        /\ \/ ReturnFrom(p)
           \/ /\ UNCHANGED <<arg, want, todo>>
              /\ \E s \in {"phase2", "save", "forget"} : GoTo(p, s)
        /\ backs' = backs \/ \E h \in 0 .. MaxHosts : backs' = [backs EXCEPT ![l] = h]
        /\ record' = record \/ \E h \in 0 .. MaxHosts : record' = [record EXCEPT ![l] = h]
        /\ targets' \in {targets, targets \cup {l}, targets \ {l}}
        /\ halfway' \in {halfway, halfway \cup {l}, halfway \ {l}}
    <3>1. /\ pc[p] \in ExportStep
          /\ ops' = ops /\ disturbed' \in BOOLEAN
          /\ \/ ReturnFrom(p)
             \/ /\ UNCHANGED <<arg, want, todo>>
                /\ \E s \in {"phase2", "save", "forget"} : GoTo(p, s)
          /\ backs' \in {backs, [backs EXCEPT ![l] = arg[p].n], [backs EXCEPT ![l] = 0]}
          /\ record' \in {record, [record EXCEPT ![l] = arg[p].n], [record EXCEPT ![l] = 0]}
          /\ targets' \in {targets, targets \cup {l}, targets \ {l}}
          /\ halfway' \in {halfway, halfway \cup {l}, halfway \ {l}}
      BY <1>4 DEF Exports, Phase1, Phase2, save_iscsi_library_export, UnexportRuns,
         delete_iscsi_library_export, history, ExportStep, Typed, RestTyped
    <3>2. l \in Library /\ arg[p].n \in 0 .. MaxHosts /\ 0 \in 0 .. MaxHosts
      BY <3>1, LibrariesAssumption DEF Typed, Operand, LibrariesAssumption
    <3> QED
      BY <3>1, <3>2
  <2>2. LioTyped'
    <3> HIDE DEF l
    <3> QED
      BY <2>1 DEF Typed, LioTyped
  <2>3. RestTyped'
    BY <1>1, <2>1 DEF Typed, RestTyped
  <2>4. /\ ProcTyped' /\ Operand(p)'
        /\ \A q \in Proc \ {p} : pc'[q] = pc[q] /\ arg'[q] = arg[q]
    <3>1. CASE ReturnFrom(p)
      BY <3>1, Returns DEF Typed, Operand, ExportStep
    <3>2. ASSUME NEW s \in {"phase2", "save", "forget"}, GoTo(p, s), UNCHANGED <<arg, want, todo>>
          PROVE  /\ ProcTyped' /\ Operand(p)'
                 /\ \A q \in Proc \ {p} : pc'[q] = pc[q] /\ arg'[q] = arg[q]
      <4>1. /\ ProcTyped' /\ pc'[p] = s
            /\ \A q \in Proc \ {p} : pc'[q] = pc[q] /\ arg'[q] = arg[q]
        BY <3>2, Moves DEF Typed, Steps, ExportStep
      <4> QED
        BY <2>1, <3>2, <4>1 DEF Operand, ExportStep
    <3> QED
      BY <2>1, <3>1, <3>2
  <2> QED
    BY <1>1, <1>2, <2>2, <2>3, <2>4, OthersOperands DEF Typed
<1> QED
  BY <1>3, <1>4

LEMMA TapesTyped == ASSUME Typed, Tapes PROVE Typed'
<1>1. PICK l \in Library : ShelfPlace(l) \/ \E s \in Slot : AssignSlot(l, s)
  BY DEF Tapes
<1>2. /\ UNCHANGED <<online, rows, backs, targets, record, halfway, cache, conf, pc, arg, want, todo, shifted>>
      /\ Online(l) /\ Alone
      /\ \E at \in Slot \cup {Shelf} : tape' = [tape EXCEPT ![l] = at]
      /\ \/ hosts' = hosts
         \/ /\ Served(l)
            /\ \E media \in [Slot -> Library \cup {NoLib, Gone}] :
                   hosts' = [hosts EXCEPT ![Index(l)].media = media]
  <2>1. CASE ShelfPlace(l)
    <3>1. [s \in Slot |-> IF hosts[Index(l)].media[s] = l /\ Shelf \in Slot THEN l ELSE NoLib]
              \in [Slot -> Library \cup {NoLib, Gone}]
      OBVIOUS
    <3> QED
      BY <2>1, <3>1 DEF ShelfPlace, Evacuated, lio, proc
  <2>2. ASSUME NEW s \in Slot, AssignSlot(l, s)
        PROVE  /\ UNCHANGED <<online, rows, backs, targets, record, halfway, cache, conf, pc, arg, want, todo, shifted>>
               /\ Online(l) /\ Alone
               /\ \E at \in Slot \cup {Shelf} : tape' = [tape EXCEPT ![l] = at]
               /\ \/ hosts' = hosts
                  \/ /\ Served(l)
                     /\ \E media \in [Slot -> Library \cup {NoLib, Gone}] :
                            hosts' = [hosts EXCEPT ![Index(l)].media = media]
    <3>1. /\ [r \in Slot |-> IF r = s \/ hosts[Index(l)].media[r] = l THEN l ELSE NoLib]
                 \in [Slot -> Library \cup {NoLib, Gone}]
          /\ [r \in Slot |-> IF hosts[Index(l)].media[r] = l /\ s \in Slot THEN l ELSE NoLib]
                 \in [Slot -> Library \cup {NoLib, Gone}]
      OBVIOUS
    <3> QED
      BY <2>2, <3>1 DEF AssignSlot, Evacuated, lio, proc
  <2> QED
    BY <1>1, <2>1, <2>2
<1>3. DbTyped'
  <2>1. Slot \cup {Shelf} \subseteq 0 .. Nowhere
    BY LibrariesAssumption DEF LibrariesAssumption, Slot, Nowhere, Shelf
  <2>2. tape' \in [Library -> 0 .. Nowhere]
    BY <1>2, <2>1 DEF Typed, DbTyped
  <2> QED
    BY <1>2, <2>2 DEF Typed, DbTyped, LibrariesFit, Online
<1>4. HostsTyped'
  <2>1. ASSUME NEW media \in [Slot -> Library \cup {NoLib, Gone}], Served(l),
               hosts' = [hosts EXCEPT ![Index(l)].media = media]
        PROVE  HostsTyped'
    <3>1. Index(l) \in 1 .. Len(hosts) /\ hosts \in Seq(Host)
      BY <1>2, <2>1, IndexOf DEF Served, Typed, DbTyped, HostsTyped
    <3>2. hosts[Index(l)] \in Host
      BY <3>1
    <3>3. [hosts[Index(l)] EXCEPT !.media = media] \in Host
      BY <3>2 DEF Host
    <3> DEFINE h == [hosts[Index(l)] EXCEPT !.media = media]
    <3>4. hosts' = [hosts EXCEPT ![Index(l)] = h]
      BY <2>1
    <3> HIDE DEF h
    <3>5. hosts' \in Seq(Host) /\ Len(hosts') = Len(hosts)
      BY <3>1, <3>3, <3>4, ExceptSeq DEF h
    <3> QED
      BY <3>5 DEF Typed, HostsTyped
  <2> QED
    BY <1>2, <2>1 DEF Typed, HostsTyped
<1>5. LioTyped' /\ ProcTyped' /\ \A p \in Proc : Operand(p)'
  BY <1>2 DEF Typed, LioTyped, ProcTyped, Operand, Online
<1>6. RestTyped'
  BY <1>2, LibrariesAssumption DEF Typed, RestTyped, Alone, LibrariesAssumption
<1> QED
  BY <1>3, <1>4, <1>5, <1>6 DEF Typed

LEMMA KernelctlSpecIs == Typed => KernelctlSpec \in Geometry
<1>1. [i \in 1 .. MaxHosts |-> Full] \in Geometry
  <2>1. Full \in Slot /\ MaxHosts \in 0 .. MaxHosts
    BY LibrariesAssumption DEF LibrariesAssumption, Slot
  <2> QED
    BY <2>1, IsGeometry
<1> QED
  BY <1>1, DbSpecIs DEF KernelctlSpec

LEMMA EnvironmentTyped == ASSUME Typed, Environment PROVE Typed'
<1>1. CASE ReloadByHand
  <2>1. /\ UNCHANGED <<online, rows, tape, backs, targets, record, halfway, cache, conf, pc, arg, want, todo, shifted>>
        /\ hosts' \in {Rebuilt(KernelctlSpec), << >>}
        /\ disturbed' = TRUE /\ ops < MaxOps /\ ops' = ops + 1
    BY <1>1 DEF ReloadByHand, db, lio, proc
  <2>2. HostsTyped'
    BY <2>1, KernelctlSpecIs, RebuiltTyped, NoHostsTyped
  <2>3. DbTyped' /\ LioTyped' /\ ProcTyped' /\ \A p \in Proc : Operand(p)'
    BY <2>1 DEF Typed, DbTyped, LibrariesFit, LioTyped, ProcTyped, Operand, Online
  <2>4. RestTyped'
    BY <2>1, LibrariesAssumption DEF Typed, RestTyped, LibrariesAssumption
  <2> QED
    BY <2>2, <2>3, <2>4 DEF Typed
<1>2. ASSUME NEW p \in Proc, Crash(p) PROVE Typed'
  <2>1. /\ UNCHANGED <<online, rows, tape, hosts, backs, targets, record, halfway, cache, conf, shifted, ops>>
        /\ ReturnFrom(p) /\ disturbed' = TRUE
    BY <1>2 DEF Crash, db, lio
  <2>2. /\ ProcTyped' /\ pc'[p] = "idle"
        /\ \A q \in Proc \ {p} : pc'[q] = pc[q] /\ arg'[q] = arg[q]
    BY <2>1, Returns DEF Typed
  <2>3. DbTyped' /\ HostsTyped' /\ LioTyped' /\ RestTyped'
    BY <2>1 DEF Typed, DbTyped, LibrariesFit, HostsTyped, LioTyped, RestTyped, Online
  <2>4. Operand(p)' /\ \A k : Online(k) => Online(k)'
    BY <2>1, <2>2 DEF Operand, ExportStep, Online
  <2> QED
    BY <2>2, <2>3, <2>4, OthersOperands DEF Typed
<1> QED
  BY <1>1, <1>2 DEF Environment

LEMMA InitTyped == Init => Typed
<1> SUFFICES ASSUME Init PROVE Typed
  OBVIOUS
<1>1. PICK l \in Library : online = <<l>>
  BY DEF Init
<1>2. /\ online \in Seq(Library) /\ Len(online) = 1 /\ DOMAIN online = {1}
      /\ LibrariesFit /\ Online(l) /\ \A k \in Library : Online(k) => k = l
  BY <1>1, LibrariesAssumption DEF LibrariesFit, IsInjective, Online, Contains,
     LibrariesAssumption
<1>3. DbTyped
  BY <1>2, LibrariesAssumption DEF Init, DbTyped, LibrariesAssumption, Nowhere, Shelf, Slot
<1>4. LioTyped
  BY LibrariesAssumption DEF Init, LioTyped, LibrariesAssumption
<1>5. ProcTyped
  <2>1. NoArg \in [lib : Library \cup {NoLib}, n : 0 .. MaxHosts + Full] /\ << >> \in Seq(Library)
    BY LibrariesAssumption DEF NoArg, LibrariesAssumption
  <2> QED
    BY <2>1, EmptyIsGeometry DEF Init, ProcTyped, Steps
<1>6. RestTyped
  <2>1. cache \in Geometry
    BY EmptyIsGeometry DEF Init
  <2>2. ops \in 0 .. MaxOps
    BY LibrariesAssumption DEF Init, LibrariesAssumption
  <2> QED
    BY <2>1, <2>2 DEF Init, RestTyped
<1>7. HostsTyped
  <2>1. << >> \in Seq(Host) /\ Len(<< >>) = 0
    OBVIOUS
  <2>2. KernelctlSpec \in Geometry
    <3>1. CASE conf.mode = "fixed"
      <4>1. Full \in Slot /\ MaxHosts \in 0 .. MaxHosts
        BY LibrariesAssumption DEF LibrariesAssumption, Slot
      <4>2. [i \in 1 .. MaxHosts |-> Full] \in Geometry
        BY <4>1, IsGeometry
      <4> QED
        BY <3>1, <4>2 DEF KernelctlSpec
    <3>2. CASE conf.mode # "fixed"
      <4>1. DbSpec = [i \in 1 .. 1 |-> rows[l]] /\ rows[l] \in Slot
        BY <1>1, <1>2, LibrariesAssumption DEF DbSpec, Init, LibrariesAssumption, Slot
      <4>2. 1 \in 0 .. MaxHosts /\ \A i \in 1 .. 1 : DbSpec[i] \in Slot
        BY <4>1, LibrariesAssumption DEF LibrariesAssumption
      <4>3. DbSpec = [i \in 1 .. 1 |-> DbSpec[i]]
        BY <4>1
      <4> HIDE DEF DbSpec
      <4> QED
        BY <3>2, <4>2, <4>3, IsGeometry DEF KernelctlSpec
    <3> QED
      BY <3>1, <3>2
  <2>3. Rebuilt(KernelctlSpec) \in Seq(Host) /\ Len(Rebuilt(KernelctlSpec)) <= MaxHosts
    BY <2>2, RebuiltIs, GeometryIs, LibrariesAssumption DEF LibrariesAssumption
  <2> QED
    BY <2>3 DEF Init, HostsTyped
<1>8. \A p \in Proc : Operand(p)
  BY DEF Init, Operand, ExportStep
<1> QED
  BY <1>3, <1>4, <1>5, <1>6, <1>7, <1>8 DEF Typed

LEMMA TypedStays == Spec => []Typed
<1>1. Typed /\ [Next]_vars => Typed'
  <2> SUFFICES ASSUME Typed, [Next]_vars PROVE Typed'
    OBVIOUS
  <2>1. CASE UNCHANGED vars
    BY <2>1 DEF vars, db, lio, proc, history, Typed, DbTyped, LibrariesFit, Online, HostsTyped,
       LioTyped, ProcTyped, RestTyped, Operand
  <2> QED
    BY <2>1, AdministrationTyped, SyncTyped, ExportsTyped, TapesTyped, EnvironmentTyped DEF Next
<1> QED
  BY <1>1, InitTyped, PTL DEF Spec

\* Every variable has its type: a synchronisation never asks the kernel for more
\* hosts than it has, and no step of an operation works on a library it does not
\* know.
THEOREM TypeCorrect == Spec => []TypeOK
  BY TypedStays, TypedIs, PTL

\* However many processes create and delete libraries at a time, the database
\* never has more of them online than vtl.ko can serve, and none twice: the
\* transaction of create_named_library counts them.
THEOREM LibrariesAlwaysFit == Spec => []LibrariesFit
  BY TypedStays, TypedIs, PTL

-----------------------------------------------------------------------------
(* The hosts come in line                                                  *)

\* A spec says of every library it covers what the database says.
Current(w) == \A i \in DOMAIN online : i <= Len(w) => w[i] = rows[online[i]]

\* Only a reload in fixed mode may leave fewer hosts than libraries.
Covered(n) == Len(online) <= n \/ (conf.mode = "fixed" /\ conf.reload)

\* Steps between the spec and the hosts.
Wanting == {"check", "recheck", "ioctl", "script", "run", "kernelctl", "applied"}

\* What holds of a process while nothing interferes: the spec it works with is
\* still that of the database, it runs vtl-kernelctl in legacy mode and a script
\* in fixed mode only if reloads are allowed, and when it reports success the hosts
\* have the geometry of its spec.
ProcInLine(p) ==
    /\ pc[p] \in Wanting =>
          /\ Current(want[p]) /\ Covered(Len(want[p]))
          /\ conf.mode = "legacy" => Len(want[p]) = Len(online)
    /\ pc[p] \in {"recheck", "kernelctl"} => conf.mode = "legacy"
    /\ pc[p] \in {"script", "run"} => conf.mode = "legacy" \/ conf.reload
    /\ pc[p] = "applied" => Sizes = want[p]
    /\ pc[p] = "pull" => Current(Sizes) /\ Covered(Len(Sizes))

\* Without reloads the hosts of the fixed mode stay as many as they were.
FixedStays == conf.mode = "fixed" /\ ~conf.reload => Len(hosts) = MaxHosts

\* The cached spec is that of the hosts, or is about to be.
CacheInLine ==
    \/ hosts = << >> \/ cache = << >> \/ Sizes = cache
    \/ \E p \in Proc : pc[p] = "applied"

InLine == FixedStays /\ CacheInLine /\ \A p \in Proc : ProcInLine(p)

\* A step of p leaves everybody else idle, or the behaviour is disturbed.
LEMMA OthersIdle ==
    ASSUME Inv, Inv', Quiet, Quiet', NEW p \in Proc, pc[p] # "idle" \/ pc'[p] # "idle",
           \A q \in Proc \ {p} : pc'[q] = pc[q]
    PROVE  \A q \in Proc \ {p} : pc[q] = "idle" /\ pc'[q] = "idle"
  BY DEF Inv, OneAtATime, Idle

SizeEach == Len(hosts) = Len(Sizes) /\ (hosts = << >> <=> Len(hosts) = 0)

LEMMA LengthIs == HostsTyped => SizeEach
<1>1. HostsTyped => Len(hosts) = Len(Sizes)
  BY SizesIs
<1>2. HostsTyped => (hosts = << >> <=> Len(hosts) = 0)
  BY EmptySeq DEF HostsTyped
<1> QED
  BY <1>1, <1>2 DEF SizeEach

LEMMA LengthNext == HostsTyped' => SizeEach'
  BY LengthIs, PTL

LEMMA SameSizesIs ==
    ASSUME HostsTyped, HostsTyped', Sizes' = Sizes
    PROVE  Len(hosts') = Len(hosts) /\ (hosts' = << >> <=> hosts = << >>)
  BY LengthIs, LengthNext DEF SizeEach

LEMMA HostsAre == HostsTyped => HostsAreRecords
<1> SUFFICES ASSUME HostsTyped, NEW i \in DOMAIN hosts
             PROVE  hosts[i] = [slots |-> hosts[i].slots, media |-> hosts[i].media]
  BY DEF HostsAreRecords
<1>1. hosts[i] \in Host
  BY DEF HostsTyped
<1> QED
  BY <1>1 DEF Host

LEMMA SizesRebuilt ==
    ASSUME NEW w \in Geometry, hosts' = Rebuilt(w) PROVE Sizes' = w
<1>1. /\ Len(w) \in Nat /\ w \in [1 .. Len(w) -> Slot] /\ hosts' \in Seq(Host)
      /\ Len(hosts') = Len(w) /\ \A i \in 1 .. Len(w) : hosts'[i] = EmptyHost(w[i])
  BY RebuiltIs, GeometryIs
<1>2. Sizes' = [i \in 1 .. Len(w) |-> hosts'[i].slots]
  BY <1>1 DEF Sizes
<1>3. ASSUME NEW i \in 1 .. Len(w) PROVE hosts'[i].slots = w[i]
  <2>1. hosts'[i] = EmptyHost(w[i])
    BY <1>1
  <2>2. EmptyHost(w[i]).slots = w[i]
    BY DEF EmptyHost
  <2> QED
    BY <2>1, <2>2
<1> QED
  BY <1>1, <1>2, <1>3

LEMMA SizesResized ==
    ASSUME HostsTyped, NEW w \in Geometry, Len(w) = Len(hosts), hosts' = Resized(w)
    PROVE  Sizes' = w
<1>1. /\ Len(w) \in Nat /\ w \in [1 .. Len(w) -> Slot] /\ hosts' \in Seq(Host)
      /\ Len(hosts') = Len(w)
      /\ \A i \in 1 .. Len(w) : hosts'[i] = [slots |-> w[i], media |-> hosts[i].media]
  BY ResizedIs, GeometryIs
<1>2. Sizes' = [i \in 1 .. Len(w) |-> hosts'[i].slots]
  BY <1>1 DEF Sizes
<1>3. ASSUME NEW i \in 1 .. Len(w) PROVE hosts'[i].slots = w[i]
  <2>1. hosts'[i] = [slots |-> w[i], media |-> hosts[i].media]
    BY <1>1
  <2> QED
    BY <2>1
<1> QED
  BY <1>1, <1>2, <1>3

\* While nothing interferes a step is in line if the process that takes it is.
LEMMA StepInLine ==
    ASSUME Typed, Inv, Inv', Quiet, Quiet', InLine, NEW p \in Proc,
           pc[p] # "idle" \/ pc'[p] # "idle", \A q \in Proc \ {p} : pc'[q] = pc[q],
           FixedStays', CacheInLine', ProcInLine(p)'
    PROVE  InLine'
<1>1. \A q \in Proc \ {p} : pc'[q] = "idle"
  BY OthersIdle
<1>2. \A q \in Proc \ {p} : ProcInLine(q)'
  BY <1>1 DEF ProcInLine, Wanting
<1> QED
  BY <1>2 DEF InLine

\* Without touching sizes, cache or configuration.
LEMMA SameInLine ==
    ASSUME HostsTyped, HostsTyped', InLine, Sizes' = Sizes, UNCHANGED <<cache, conf>>,
           \A p \in Proc : pc[p] # "applied" \/ pc'[p] = "applied"
    PROVE  FixedStays' /\ CacheInLine'
  BY SameSizesIs DEF InLine, FixedStays, CacheInLine

\* A process that begins, or works at anything but a synchronisation.
LEMMA ElsewhereInLine ==
    ASSUME Typed, Typed', Inv, Inv', Quiet, Quiet', InLine, NEW p \in Proc,
           pc[p] # "idle" \/ pc'[p] # "idle", \A q \in Proc \ {p} : pc'[q] = pc[q],
           Sizes' = Sizes, UNCHANGED <<cache, conf>>,
           pc[p] # "applied", pc'[p] \notin Wanting \cup {"pull"}
    PROVE  InLine'
<1>1. FixedStays' /\ CacheInLine'
  BY SameInLine DEF Typed
<1>2. ProcInLine(p)'
  BY DEF ProcInLine, Wanting
<1> QED
  BY <1>1, <1>2, StepInLine

\* Where the other operations take a process.
LEMMA AdministrationMoves ==
    ASSUME Typed, NEW p \in Proc, Administration(p)
    PROVE  /\ pc[p] \in {"idle", "create", "delete"} /\ pc'[p] \in {"idle", "create", "delete", "spec"}
           /\ (pc[p] # "idle" \/ pc'[p] # "idle") /\ \A q \in Proc \ {p} : pc'[q] = pc[q]
<1>1. /\ pc[p] \in {"idle", "create", "delete"}
      /\ \E s \in {"idle", "create", "delete", "spec"} : pc' = [pc EXCEPT ![p] = s]
      /\ pc[p] # "idle" \/ pc'[p] # "idle"
  BY DEF Administration, create_named_library, config_set, delete_named_library, kernel_align,
     Start, Insert, Delete, ToSpec, ReturnFrom, GoTo, Typed, ProcTyped
<1> QED
  BY <1>1 DEF Typed, ProcTyped

LEMMA ExportsMove ==
    ASSUME Typed, NEW p \in Proc, Exports(p)
    PROVE  /\ pc[p] \in {"idle"} \cup ExportStep /\ pc'[p] \in {"idle"} \cup ExportStep
           /\ (pc[p] # "idle" \/ pc'[p] # "idle") /\ \A q \in Proc \ {p} : pc'[q] = pc[q]
<1>1. /\ pc[p] \in {"idle"} \cup ExportStep
      /\ \E s \in {"idle"} \cup ExportStep : pc' = [pc EXCEPT ![p] = s]
      /\ pc[p] # "idle" \/ pc'[p] # "idle"
  BY DEF Exports, Export, Unexport, Phase1, Phase2, save_iscsi_library_export, UnexportRuns,
     delete_iscsi_library_export, Start, ReturnFrom, GoTo, Typed, ProcTyped, ExportStep
<1> QED
  BY <1>1 DEF Typed, ProcTyped

LEMMA AdministrationInLine ==
    ASSUME Typed, Typed', Inv, Inv', Quiet, Quiet', InLine, NEW p \in Proc, Administration(p)
    PROVE  InLine'
<1>1. Sizes' = Sizes
  BY HostsAre, AdministrationSparesHosts DEF Typed
<1>2. UNCHANGED <<cache, conf>>
  BY DEF Administration, create_named_library, config_set, delete_named_library, kernel_align,
     Insert, Delete
<1> QED
  BY <1>1, <1>2, AdministrationMoves, ElsewhereInLine DEF Wanting

LEMMA ExportsInLine ==
    ASSUME Typed, Typed', Inv, Inv', Quiet, Quiet', InLine, NEW p \in Proc, Exports(p)
    PROVE  InLine'
<1>1. Sizes' = Sizes
  BY ExportsSpareHosts DEF Sizes
<1>2. UNCHANGED <<cache, conf>>
  BY DEF Exports, Export, Unexport, Phase1, Phase2, save_iscsi_library_export, UnexportRuns,
     delete_iscsi_library_export
<1> QED
  BY <1>1, <1>2, ExportsMove, ElsewhereInLine DEF Wanting, ExportStep

LEMMA TapesInLine ==
    ASSUME Typed, Typed', Quiet', InLine, Tapes PROVE InLine'
<1>1. Sizes' = Sizes
  BY HostsAre, TapesSpareHosts DEF Typed
<1>2. UNCHANGED <<online, rows, cache, conf, pc, want>>
  BY DEF Tapes, ShelfPlace, AssignSlot, Alone, proc
<1>3. FixedStays' /\ CacheInLine'
  BY <1>1, <1>2, SameInLine DEF Typed
<1>4. ASSUME NEW p \in Proc PROVE ProcInLine(p)'
  BY <1>1, <1>2 DEF InLine, ProcInLine, Current, Covered
<1> QED
  BY <1>3, <1>4 DEF InLine

\* The spec that is built is the database's; in fixed mode without reloads it has
\* as many hosts as there may be libraries.
LEMMA WantedInLine ==
    ASSUME Typed, FixedStays
    PROVE  /\ Wanted \in Geometry /\ Current(Wanted) /\ Covered(Len(Wanted))
           /\ conf.mode = "legacy" => Len(Wanted) = Len(online)
<1>1. Len(online) \in Nat /\ Len(online) <= MaxHosts
  BY DEF Typed, DbTyped, LibrariesFit
<1>2. conf.mode \in {"fixed", "legacy"} /\ conf.reload \in BOOLEAN
  BY LibrariesAssumption DEF Typed, RestTyped, LibrariesAssumption
<1> QED
  BY <1>1, <1>2, WantedIs, LibrariesAssumption DEF Current, Covered, FixedStays,
     LibrariesAssumption

\* Steps of a synchronisation that leave the hosts, the cache and the spec: only
\* where the process stands has to be looked at.
LEMMA SyncInLine ==
    ASSUME Typed, Typed', Inv, Inv', Quiet, Quiet', InLine, NEW p \in Proc, Sync(p)
    PROVE  InLine'
<1>1. /\ UNCHANGED <<online, rows, conf>> /\ pc[p] # "idle"
      /\ \A q \in Proc \ {p} : pc'[q] = pc[q]
  BY SyncMoves DEF Sync, BuildSpec, Preflight, IoctlResizes, IoctlSets, IoctlFails, SetFails,
     Script,
     RunScript, Kernelctl, write_vtl_inst_spec_cache, Pull, PullEnds, db
<1>2. /\ ProcInLine(p) /\ FixedStays /\ CacheInLine /\ want[p] \in Geometry
      /\ conf.mode \in {"fixed", "legacy"} /\ conf.reload \in BOOLEAN /\ Len(online) <= MaxHosts
  BY LibrariesAssumption
     DEF InLine, Typed, ProcTyped, RestTyped, DbTyped, LibrariesFit, LibrariesAssumption
<1>3. \A q \in Proc \ {p} : pc[q] = "idle" /\ pc'[q] = "idle"
  BY <1>1, OthersIdle
<1>4. ASSUME FixedStays', CacheInLine', ProcInLine(p)' PROVE InLine'
  BY <1>1, <1>4, StepInLine
\* Where the process goes next, and what it keeps.
<1>5. ASSUME ReturnFrom(p) PROVE pc'[p] = "idle" /\ ProcInLine(p)'
  <2>1. pc'[p] = "idle"
    BY <1>5, Returns DEF Typed
  <2> QED
    BY <2>1 DEF ProcInLine, Wanting
<1>6. ASSUME NEW s \in SyncStep, GoTo(p, s) PROVE pc'[p] = s
  BY <1>6 DEF GoTo, Typed, ProcTyped
<1>7. ASSUME NEW s \in Wanting \ {"applied"}, GoTo(p, s), want' = want, pc[p] \in Wanting,
             s \in {"recheck", "kernelctl"} => conf.mode = "legacy",
             s \in {"script", "run"} => conf.mode = "legacy" \/ conf.reload
      PROVE  pc'[p] = s /\ ProcInLine(p)'
  <2>1. pc'[p] = s
    BY <1>6, <1>7 DEF Wanting, SyncStep
  <2> QED
    BY <1>1, <1>2, <1>7, <2>1 DEF ProcInLine, Wanting, Current, Covered
<1>8. ASSUME UNCHANGED <<hosts, cache>>, pc[p] # "applied" PROVE FixedStays' /\ CacheInLine'
  <2>1. Sizes' = Sizes
    BY <1>8 DEF Sizes
  <2> QED
    BY <1>1, <1>3, <1>8, <2>1 DEF InLine, FixedStays, CacheInLine
<1>9. ASSUME GoTo(p, "applied"), want' = want, Sizes' = want[p], pc[p] \in Wanting
      PROVE  CacheInLine' /\ ProcInLine(p)'
  <2>1. pc'[p] = "applied"
    BY <1>6, <1>9 DEF SyncStep
  <2> QED
    BY <1>1, <1>2, <1>9, <2>1 DEF CacheInLine, ProcInLine, Wanting, Current, Covered
\* The steps.
<1>10. CASE BuildSpec(p)
  <2>1. pc[p] = "spec" /\ UNCHANGED <<hosts, cache>> /\ FixedStays' /\ CacheInLine'
    BY <1>8, <1>10 DEF BuildSpec
  <2>2. /\ Wanted \in Geometry /\ Current(Wanted) /\ Covered(Len(Wanted))
        /\ conf.mode = "legacy" => Len(Wanted) = Len(online)
    BY <1>2, WantedInLine
  <2>3. CASE ReturnFrom(p)
    BY <1>4, <1>5, <2>1, <2>3
  <2>4. CASE Wanted # << >> /\ cache = Wanted /\ TRUE \in scsi_rescan_vtl_hosts /\ StartPull(p)
    <3>1. Sizes = Wanted /\ Sizes' = Sizes /\ pc'[p] = "pull"
      BY <1>2, <1>3, <1>6, <2>1, <2>4 DEF CacheInLine, StartPull, scsi_rescan_vtl_hosts,
         SyncStep, Sizes
    <3>2. ProcInLine(p)'
      BY <1>1, <2>2, <3>1 DEF ProcInLine, Wanting, Current, Covered
    <3> QED
      BY <1>4, <2>1, <3>2
  <2>5. ASSUME want' = [want EXCEPT ![p] = Wanted], conf.ioctl \/ conf.reload,
               GoTo(p, IF conf.ioctl THEN "check" ELSE "script")
        PROVE  ProcInLine(p)'
    <3>1. want'[p] = Wanted
      BY <2>5 DEF Typed, ProcTyped
    <3>2. pc'[p] = (IF conf.ioctl THEN "check" ELSE "script")
      BY <1>6, <2>5 DEF SyncStep
    <3> QED
      BY <1>1, <2>2, <2>5, <3>1, <3>2 DEF ProcInLine, Wanting, Current, Covered
  <2> QED
    BY <1>4, <1>10, <2>1, <2>3, <2>4, <2>5 DEF BuildSpec
<1>11. CASE Preflight(p)
  <2>1. pc[p] \in {"check", "recheck"} /\ UNCHANGED <<hosts, cache>> /\ FixedStays' /\ CacheInLine'
    BY <1>8, <1>11 DEF Preflight
  <2>2. \/ ReturnFrom(p)
        \/ GoTo(p, IF pc[p] = "check" THEN "ioctl" ELSE "kernelctl") /\ want' = want
    BY <1>11 DEF Preflight
  <2>3. pc[p] = "recheck" => conf.mode = "legacy"
    BY <1>2 DEF ProcInLine
  <2> QED
    BY <1>4, <1>5, <1>7, <2>1, <2>2, <2>3 DEF Wanting
<1>12. CASE IoctlResizes(p)
  <2>1. /\ pc[p] = "ioctl" /\ hosts' = Resized(want[p]) /\ Len(want[p]) = Len(hosts)
        /\ GoTo(p, "applied") /\ want' = want
    BY <1>12 DEF IoctlResizes, Resize
  <2>2. Sizes' = want[p] /\ Len(hosts') = Len(hosts)
    BY <1>2, <2>1, SizesResized, ResizedIs DEF Typed
  <2>3. FixedStays'
    BY <1>1, <1>2, <2>2 DEF FixedStays
  <2> QED
    BY <1>4, <1>9, <2>1, <2>2, <2>3 DEF Wanting
<1>13. CASE IoctlSets(p)
  <2>1. /\ pc[p] = "ioctl" /\ hosts' = SetResult(want[p]) /\ conf.mode = "legacy"
        /\ GoTo(p, "applied") /\ want' = want
    BY <1>13 DEF IoctlSets
  <2>2. Sizes' = want[p]
    <3>1. CASE want[p] = Sizes
      BY <2>1, <3>1 DEF SetResult, Sizes
    <3>2. CASE want[p] # Sizes
      BY <1>2, <2>1, <3>2, SizesRebuilt DEF SetResult
    <3> QED
      BY <3>1, <3>2
  <2>3. FixedStays'
    BY <1>1, <2>1 DEF FixedStays
  <2> QED
    BY <1>4, <1>9, <2>1, <2>2, <2>3 DEF Wanting
<1>14. ASSUME NEW errno, AfterError(p, errno), pc[p] = "ioctl",
              errno = "EBUSY" => conf.mode = "legacy"
       PROVE  ProcInLine(p)'
  <2>1. \/ ReturnFrom(p)
        \/ /\ want' = want
           /\ GoTo(p, "script") /\ (conf.mode = "legacy" \/ conf.reload)
        \/ want' = want /\ GoTo(p, "recheck") /\ conf.mode = "legacy"
    BY <1>14 DEF AfterError
  <2> QED
    BY <1>5, <1>7, <1>14, <2>1 DEF Wanting
<1>15. CASE IoctlFails(p)
  <2>1. /\ pc[p] = "ioctl" /\ UNCHANGED <<hosts, cache>>
        /\ AfterError(p, IF conf.mode = "fixed" THEN Resize(want[p]) ELSE Set(want[p]))
        /\ Resize(want[p]) # "EBUSY"
    BY <1>15 DEF IoctlFails, Resize
  <2> QED
    BY <1>2, <1>4, <1>8, <1>14, <2>1
<1>16. CASE SetFails(p)
  <2>1. /\ pc[p] = "ioctl" /\ hosts' \in {Rebuilt(Sizes), << >>} /\ cache' = cache
        /\ AfterError(p, "EIO") /\ conf.mode = "legacy"
    BY <1>16 DEF SetFails
  <2>2. hosts' = << >> \/ (Sizes' = Sizes /\ (hosts = << >> => hosts' = << >>))
    <3>1. CASE hosts' = Rebuilt(Sizes)
      <4>1. Sizes' = Sizes
        BY <3>1, SizesRebuilt, SizesIs DEF Typed
      <4> QED
        BY <4>1, SameSizesIs DEF Typed
    <3> QED
      BY <2>1, <3>1
  <2>3. FixedStays' /\ CacheInLine'
    BY <1>1, <1>2, <1>3, <2>1, <2>2 DEF FixedStays, CacheInLine
  <2> QED
    BY <1>4, <1>14, <2>1, <2>3
<1>17. CASE Script(p)
  <2>1. pc[p] = "script" /\ UNCHANGED <<hosts, cache>>
        /\ (ReturnFrom(p) \/ (GoTo(p, "run") /\ want' = want))
    BY <1>17 DEF Script
  <2>2. conf.mode = "legacy" \/ conf.reload
    BY <1>2, <2>1 DEF ProcInLine
  <2> QED
    BY <1>4, <1>5, <1>7, <1>8, <2>1, <2>2 DEF Wanting
<1>18. ASSUME NEW w \in Geometry, Reloads(p, w), w = want[p], pc[p] \in Wanting \ {"applied"},
              conf.mode = "legacy" \/ conf.reload, cache' = cache
       PROVE  InLine'
  <2>1. \/ hosts' = Rebuilt(w) /\ GoTo(p, "applied") /\ want' = want
        \/ (hosts' = hosts \/ hosts' = << >>) /\ ReturnFrom(p)
    BY <1>18 DEF Reloads
  <2>2. FixedStays'
    BY <1>1, <1>18 DEF FixedStays
  <2>3. CASE hosts' = Rebuilt(w) /\ GoTo(p, "applied") /\ want' = want
    BY <1>4, <1>9, <1>18, <2>2, <2>3, SizesRebuilt
  <2>4. CASE hosts' = hosts /\ ReturnFrom(p)
    BY <1>4, <1>5, <1>8, <1>18, <2>4
  <2>5. CASE hosts' = << >> /\ ReturnFrom(p)
    BY <1>4, <1>5, <2>2, <2>5 DEF CacheInLine
  <2> QED
    BY <2>1, <2>3, <2>4, <2>5
<1>19. CASE RunScript(p)
  <2>1. pc[p] = "run" /\ Reloads(p, want[p]) /\ cache' = cache
    BY <1>19 DEF RunScript
  <2> QED
    BY <1>2, <1>18, <2>1 DEF ProcInLine, Wanting
<1>20. CASE Kernelctl(p)
  <2>1. pc[p] = "kernelctl" /\ Reloads(p, DbSpec) /\ cache' = cache
    BY <1>20 DEF Kernelctl
  <2>2. conf.mode = "legacy" /\ Current(want[p]) /\ Len(want[p]) = Len(online)
    BY <1>2, <2>1 DEF ProcInLine, Wanting
  <2>3. DbSpec = want[p]
    <3>1. /\ DbSpec \in Seq(Slot) /\ want[p] \in Seq(Slot) /\ Len(DbSpec) = Len(want[p])
          /\ DOMAIN online = 1 .. Len(online) /\ Len(online) \in Nat
      BY <1>2, <2>2, DbSpecIs, GeometryIs DEF Typed, DbTyped
    <3>2. \A i \in 1 .. Len(DbSpec) : DbSpec[i] = want[p][i]
      BY <2>2, <3>1, DbSpecIs DEF Current
    <3> HIDE DEF DbSpec
    <3> QED
      BY <3>1, <3>2, SeqEqual
  <2> QED
    BY <1>2, <1>18, <2>1, <2>2, <2>3 DEF Wanting
<1>21. CASE write_vtl_inst_spec_cache(p)
  <2>1. /\ pc[p] = "applied" /\ cache' = want[p] /\ hosts' = hosts /\ GoTo(p, "pull")
    BY <1>21 DEF write_vtl_inst_spec_cache, StartPull
  <2>2. Sizes = want[p] /\ Current(want[p]) /\ Covered(Len(want[p]))
    BY <1>2, <2>1 DEF ProcInLine, Wanting
  <2>3. Sizes' = Sizes /\ pc'[p] = "pull"
    BY <1>6, <2>1 DEF Sizes, SyncStep
  <2>4. FixedStays' /\ CacheInLine'
    BY <1>1, <1>2, <2>1, <2>2, <2>3 DEF FixedStays, CacheInLine
  <2>5. ProcInLine(p)'
    BY <1>1, <2>2, <2>3 DEF ProcInLine, Wanting, Current, Covered
  <2> QED
    BY <1>4, <2>4, <2>5
<1>22. CASE Pull(p)
  <2>1. pc[p] = "pull" /\ UNCHANGED <<hosts, cache, pc>>
    BY <1>22 DEF Pull
  <2>2. ProcInLine(p)'
    BY <1>1, <1>2, <2>1 DEF ProcInLine, Wanting, Current, Covered, Sizes
  <2> QED
    BY <1>4, <1>8, <2>1, <2>2
<1>23. CASE PullEnds(p)
  <2>1. pc[p] = "pull" /\ ReturnFrom(p) /\ UNCHANGED <<hosts, cache>>
    BY <1>23 DEF PullEnds
  <2>2. ProcInLine(p)'
    BY <1>5, <2>1
  <2>3. FixedStays' /\ CacheInLine'
    BY ZenonT(60), <1>8, <2>1
  <2> QED
    BY <1>4, <2>2, <2>3
<1> QED
  BY <1>10, <1>11, <1>12, <1>13, <1>15, <1>16, <1>17, <1>19, <1>20, <1>21, <1>22, <1>23 DEF Sync

LEMMA QuietBefore == ASSUME Inv, [Next]_vars, Quiet' PROVE Quiet
<1>1. disturbed \in BOOLEAN /\ ~disturbed'
  BY DEF Inv, Shape, Quiet
<1>2. ASSUME disturbed' = disturbed PROVE Quiet
  BY <1>1, <1>2 DEF Quiet
<1>3. ASSUME NEW A, disturbed' = (disturbed \/ A) PROVE Quiet
  BY <1>1, <1>3 DEF Quiet
<1>4. CASE UNCHANGED vars
  BY <1>2, <1>4 DEF vars, history
<1>5. ASSUME NEW p \in Proc, Administration(p) PROVE Quiet
  <2>1. \/ disturbed' = disturbed
        \/ disturbed' = (disturbed \/ \E q \in Proc : pc[q] # "idle")
    BY <1>5 DEF Administration, create_named_library, config_set, delete_named_library, Insert,
       Delete, kernel_align, Start, history
  <2> QED
    BY <1>2, <1>3, <2>1
<1>6. ASSUME NEW p \in Proc, Sync(p) PROVE disturbed' = disturbed
  <2>1. CASE Preflight(p) \/ IoctlResizes(p) \/ IoctlSets(p) \/ IoctlFails(p) \/ SetFails(p)
    BY <2>1 DEF Preflight, IoctlResizes, IoctlSets, IoctlFails, SetFails, history
  <2>2. CASE BuildSpec(p) \/ Script(p) \/ RunScript(p) \/ Kernelctl(p)
    BY <2>2 DEF BuildSpec, Script, RunScript, Kernelctl, history
  <2>3. CASE write_vtl_inst_spec_cache(p) \/ Pull(p) \/ PullEnds(p)
    BY <2>3 DEF write_vtl_inst_spec_cache, Pull, PullEnds, history
  <2> QED
    BY <1>6, <2>1, <2>2, <2>3 DEF Sync
<1>7. ASSUME NEW p \in Proc, Exports(p) PROVE Quiet
  <2>1. CASE Phase1(p) \/ Phase2(p) \/ save_iscsi_library_export(p) \/ delete_iscsi_library_export(p)
    BY <1>2, <2>1 DEF Phase1, Phase2, save_iscsi_library_export, delete_iscsi_library_export,
       history
  <2>2. CASE \E l \in Library : Export(p, l) \/ Unexport(p, l)
    BY <1>3, <2>2 DEF Export, Unexport, Start
  <2>3. CASE UnexportRuns(p)
    BY <1>2, <2>3 DEF UnexportRuns, history
  <2> QED
    BY <1>7, <2>1, <2>2, <2>3 DEF Exports
<1>8. CASE Tapes
  BY <1>3, <1>8 DEF Tapes, ShelfPlace, AssignSlot, Alone
<1>9. ~Environment
  BY <1>1 DEF Environment, ReloadByHand, Crash
<1> QED
  BY <1>2, <1>4, <1>5, <1>6, <1>7, <1>8, <1>9 DEF Next

LEMMA InLineStays == Spec => [](Quiet => InLine)
<1>1. Init => (Quiet => InLine)
  <2> SUFFICES ASSUME Init PROVE InLine
    OBVIOUS
  <2>1. conf.mode = "fixed" => Len(hosts) = MaxHosts
    <3>1. [i \in 1 .. MaxHosts |-> Full] \in Geometry /\ Len([i \in 1 .. MaxHosts |-> Full]) = MaxHosts
      <4>1. Full \in Slot /\ MaxHosts \in 0 .. MaxHosts
        BY LibrariesAssumption DEF LibrariesAssumption, Slot
      <4> QED
        BY <4>1, IsGeometry
    <3> QED
      BY <3>1, RebuiltIs DEF Init, KernelctlSpec
  <2> QED
    BY <2>1 DEF Init, InLine, FixedStays, CacheInLine, ProcInLine, Wanting
<1>2. ASSUME Typed, Typed', Inv, Inv', Quiet => InLine, [Next]_vars, Quiet' PROVE InLine'
  <2>1. Quiet
    BY <1>2, QuietBefore
  <2>2. CASE UNCHANGED vars
    BY <1>2, <2>1, <2>2 DEF vars, db, lio, proc, history, InLine, FixedStays, CacheInLine,
       ProcInLine,
       Current, Covered, Sizes
  <2>3. ~Environment
    BY <1>2 DEF Environment, ReloadByHand, Crash, Quiet
  <2> QED
    BY <1>2, <2>1, <2>2, <2>3, AdministrationInLine, SyncInLine, ExportsInLine,
       TapesInLine DEF Next
<1> QED
  BY <1>1, <1>2, TypedStays, Inductive, PTL DEF Spec

\* A synchronisation that reports success has left every library that has a host
\* with as many slots as the database has rows of it, and in legacy mode or without
\* reloads every library has one, if nothing interfered with this synchronisation
\* or an earlier one: the cached spec is never ahead of the kernel
\* (maybe_reload_kernel_vtl_after_db_change).
THEOREM SynchronisedMatches == Spec => []SyncedMatches
<1>1. ASSUME Typed, Quiet => InLine PROVE SyncedMatches
  <2> SUFFICES ASSUME NEW p \in Proc, pc[p] = "pull", InLine
               PROVE  /\ Len(online) <= Len(hosts) \/ (conf.mode = "fixed" /\ conf.reload)
                      /\ \A i \in DOMAIN online : i <= Len(hosts) => hosts[i].slots = rows[online[i]]
    BY <1>1 DEF SyncedMatches
  <2>1. Current(Sizes) /\ Covered(Len(Sizes))
    BY DEF InLine, ProcInLine
  <2>2. Len(Sizes) = Len(hosts) /\ \A i \in DOMAIN hosts : Sizes[i] = hosts[i].slots
    BY <1>1, SizesIs DEF Typed
  <2>3. \A i \in DOMAIN online : i <= Len(hosts) => i \in DOMAIN hosts
    BY <1>1 DEF Typed, DbTyped, HostsTyped
  <2> QED
    BY <2>1, <2>2, <2>3 DEF Current, Covered
<1> QED
  BY <1>1, TypedStays, InLineStays, PTL

-----------------------------------------------------------------------------
(* What a pull leaves behind                                               *)

\* Where the catalogue has a tape in a slot, the host of its library has it too.
Agrees(l) == Served(l) /\ tape[l] \in Slot => hosts[Index(l)].media[tape[l]] = l

\* A pull has brought in line the libraries that it is done with.
PulledSoFar ==
    \A p \in Proc : pc[p] = "pull" => \A l \in ToSet(online) \ ToSet(todo[p]) : Agrees(l)

LEMMA ToSetIs == ASSUME NEW s, NEW l PROVE l \in ToSet(s) <=> \E i \in DOMAIN s : s[i] = l
  BY DEF ToSet

\* A library is on the list or first on it.
LEMMA ToSetTail ==
    ASSUME NEW s \in Seq(Library), s # << >>, NEW l, l \in ToSet(s)
    PROVE  l = Head(s) \/ l \in ToSet(Tail(s))
<1>1. PICK i \in 1 .. Len(s) : s[i] = l
  BY DEF ToSet
<1>2. CASE i = 1
  BY <1>1, <1>2
<1>3. CASE i # 1
  <2>1. /\ Tail(s) \in Seq(Library) /\ Len(Tail(s)) = Len(s) - 1
        /\ \A j \in 1 .. Len(Tail(s)) : Tail(s)[j] = s[j + 1]
    BY HeadTailProperties
  <2>2. i - 1 \in 1 .. Len(Tail(s)) /\ Tail(s)[i - 1] = l
    BY <1>1, <1>3, <2>1
  <2>3. i - 1 \in DOMAIN Tail(s)
    BY <2>1, <2>2
  <2> QED
    BY <2>2, <2>3, ToSetIs
<1> QED
  BY <1>2, <1>3

LEMMA PullAgrees ==
    ASSUME Typed, NEW p \in Proc, Pull(p), \A l \in ToSet(online) \ ToSet(todo[p]) : Agrees(l),
           NEW l, l \in ToSet(online) \ ToSet(todo'[p])
    PROVE  Agrees(l)'
<1> DEFINE h == Head(todo[p])
<1>1. /\ todo[p] \in Seq(Library) /\ todo[p] # << >> /\ todo'[p] = Tail(todo[p])
      /\ UNCHANGED <<online, hosts>>
      /\ tape' = IF Served(h) THEN [tape EXCEPT ![h] = PulledTape(h)] ELSE tape
  BY DEF Pull, Typed, ProcTyped
<1>2. Served(l)' = Served(l) /\ Index(l)' = Index(l)
  BY <1>1 DEF Served, Online, Index
<1>3. CASE l = h
  <2> SUFFICES ASSUME Served(l), tape'[l] \in Slot PROVE hosts[Index(l)].media[tape'[l]] = l
    BY <1>1, <1>2 DEF Agrees
  <2>1. l \in Library /\ tape' = [tape EXCEPT ![l] = PulledTape(l)]
    BY <1>1, <1>3, HeadTailProperties
  <2>2. tape'[l] = PulledTape(l)
    BY <2>1 DEF Typed, DbTyped
  <2>3. Shelf \notin Slot /\ Nowhere \notin Slot
    BY LibrariesAssumption DEF LibrariesAssumption, Shelf, Nowhere, Slot
  <2>4. PulledTape(l) \in {s \in Slot : hosts[Index(l)].media[s] = l}
    BY <2>2, <2>3 DEF PulledTape
  <2> QED
    BY <2>2, <2>4
<1>4. CASE l # h
  <2>1. l \notin ToSet(todo[p])
    BY <1>1, <1>4, ToSetTail
  <2>2. Agrees(l)
    BY <2>1
  <2>3. tape'[l] = tape[l]
    BY <1>1, <1>4 DEF Typed, DbTyped
  <2> QED
    BY <1>1, <1>2, <2>2, <2>3 DEF Agrees
<1> QED
  BY <1>3, <1>4

LEMMA PulledSoFarKept ==
    ASSUME Typed, Typed', Inv, Inv', Quiet, Quiet', PulledSoFar, [Next]_vars
    PROVE  PulledSoFar'
<1>1. CASE UNCHANGED vars
  BY <1>1 DEF vars, db, proc, PulledSoFar, Agrees, Served, Online, Index
<1>2. ASSUME \A p \in Proc : pc'[p] # "pull" PROVE PulledSoFar'
  BY <1>2 DEF PulledSoFar
<1>3. ASSUME NEW p \in Proc, Administration(p) \/ Exports(p) PROVE PulledSoFar'
  <2>1. /\ pc[p] # "idle" \/ pc'[p] # "idle"
        /\ pc'[p] # "pull" /\ \A q \in Proc \ {p} : pc'[q] = pc[q]
    BY <1>3, AdministrationMoves, ExportsMove DEF ExportStep
  <2> QED
    BY <1>2, <2>1, OthersIdle
<1>4. ASSUME NEW p \in Proc, Sync(p) PROVE PulledSoFar'
  <2>1. pc[p] # "idle" /\ \A q \in Proc \ {p} : pc'[q] = pc[q]
    BY <1>4, SyncMoves DEF Sync, BuildSpec, Preflight, IoctlResizes, IoctlSets, IoctlFails,
       SetFails,
       Script, RunScript, Kernelctl, write_vtl_inst_spec_cache, Pull, PullEnds
  <2>2. \A q \in Proc \ {p} : pc'[q] = "idle"
    BY <2>1, OthersIdle
  <2> SUFFICES ASSUME pc'[p] = "pull", NEW l, l \in ToSet(online') \ ToSet(todo'[p])
               PROVE  Agrees(l)'
    BY <2>2 DEF PulledSoFar
  <2>3. CASE Pull(p)
    <3>1. pc[p] = "pull" /\ online' = online
      BY <2>3 DEF Pull
    <3> QED
      BY <2>3, <3>1, PullAgrees DEF PulledSoFar
  <2>4. CASE ~Pull(p)
    <3>1. StartPull(p) /\ online' = online
      BY <1>4, <2>4 DEF Sync, BuildSpec, Preflight, IoctlResizes, IoctlSets, IoctlFails,
         SetFails, Script,
         RunScript, Kernelctl, write_vtl_inst_spec_cache, PullEnds, AfterError, Reloads, ReturnFrom,
         GoTo, Typed, ProcTyped, db
    <3>2. todo'[p] = online'
      BY <3>1 DEF StartPull, Typed, ProcTyped
    <3> QED
      BY <3>2
  <2> QED
    BY <2>3, <2>4
<1>5. CASE Tapes
  <2>1. \A p \in Proc : pc'[p] = "idle"
    BY <1>5 DEF Tapes, ShelfPlace, AssignSlot, Alone, proc, Quiet, Typed, RestTyped
  <2> QED
    BY <1>2, <2>1
<1>6. ~Environment
  BY DEF Environment, ReloadByHand, Crash, Quiet
<1> QED
  BY <1>1, <1>3, <1>4, <1>5, <1>6 DEF Next

\* When nothing interferes, a pull (pull_all_online_libraries_from_kernel) has
\* every tape where the host of its library has it.
THEOREM PulledAgreesAlways == Spec => []PulledAgrees
<1>1. Init => (Quiet => PulledSoFar)
  BY DEF Init, PulledSoFar
<1>2. ASSUME Typed, Typed', Inv, Inv', Quiet => PulledSoFar, [Next]_vars, Quiet' PROVE PulledSoFar'
  BY <1>2, QuietBefore, PulledSoFarKept
<1>3. ASSUME Quiet => PulledSoFar PROVE PulledAgrees
  <2> SUFFICES ASSUME NEW p \in Proc, pc[p] = "pull", todo[p] = << >>, PulledSoFar,
                      NEW l \in ToSet(online)
               PROVE  Agrees(l)
    BY <1>3 DEF PulledAgrees, Agrees
  <2>1. ToSet(todo[p]) = {}
    BY DEF ToSet
  <2> QED
    BY <2>1 DEF PulledSoFar
<1> QED
  BY <1>1, <1>2, <1>3, TypedStays, Inductive, PTL DEF Spec

-----------------------------------------------------------------------------
(* Whose media are in which host                                           *)

\* No host has a medium of a library that is gone, and none that is another's
\* unless libraries have moved up.
MediaOnline ==
    \A i \in DOMAIN hosts, s \in Slot, l \in Library :
        hosts[i].media[s] = l => Online(l) /\ (~shifted => i = Index(l))

\* A step under which media stay where they are, or disappear.
LEMMA MediaStay ==
    ASSUME MediaOnline,
           \A i \in DOMAIN hosts', s \in Slot, l \in Library :
               hosts'[i].media[s] = l => i \in DOMAIN hosts /\ hosts[i].media[s] = l,
           \A l \in Library : Online(l) => Online(l)' /\ Index(l)' = Index(l),
           shifted' = shifted
    PROVE  MediaOnline'
<1> SUFFICES ASSUME NEW i \in DOMAIN hosts', NEW s \in Slot, NEW l \in Library, hosts'[i].media[s] = l
             PROVE  Online(l)' /\ (~shifted' => i = Index(l)')
  BY DEF MediaOnline
<1>1. i \in DOMAIN hosts /\ hosts[i].media[s] = l
  OBVIOUS
<1>2. Online(l) /\ (~shifted => i = Index(l))
  BY <1>1 DEF MediaOnline
<1> QED
  BY <1>2

LEMMA SameLibraries ==
    ASSUME online' = online PROVE \A l : Online(l)' = Online(l) /\ Index(l)' = Index(l)
  BY DEF Online, Index

LEMMA EmptyMedia ==
    ASSUME NEW w \in Geometry, hosts' = Rebuilt(w)
    PROVE  \A i \in DOMAIN hosts', s \in Slot : hosts'[i].media[s] \notin Library
<1>1. /\ hosts' \in Seq(Host) /\ Len(hosts') = Len(w)
      /\ \A i \in 1 .. Len(w) : hosts'[i] = EmptyHost(w[i])
  BY RebuiltIs
<1> SUFFICES ASSUME NEW i \in DOMAIN hosts', NEW s \in Slot PROVE hosts'[i].media[s] \notin Library
  OBVIOUS
<1>2. hosts'[i] = EmptyHost(w[i])
  BY <1>1
<1>3. EmptyHost(w[i]).media[s] = NoLib
  BY DEF EmptyHost
<1> QED
  BY <1>2, <1>3, LibrariesAssumption DEF LibrariesAssumption

LEMMA InsertMedia ==
    ASSUME Typed, MediaOnline, NEW p \in Proc, Insert(p) PROVE MediaOnline'
<1>1. hosts' = hosts /\ shifted' = shifted
      /\ (online' = online \/ (~Online(arg[p].lib) /\ online' = Append(online, arg[p].lib)))
      /\ arg[p].lib \in Library
  BY DEF Insert, history, Typed, Operand
<1>2. CASE online' = online
  BY <1>1, <1>2, SameLibraries, MediaStay
<1>3. CASE ~Online(arg[p].lib) /\ online' = Append(online, arg[p].lib)
  <2>1. /\ online \in Seq(Library) /\ IsInjective(online) /\ online' \in Seq(Library)
        /\ Len(online') = Len(online) + 1 /\ Len(online) \in Nat /\ IsInjective(online')
        /\ \A k : Online(k)' <=> Online(k) \/ k = arg[p].lib
    BY <1>1, <1>3, JoinIs DEF Typed, DbTyped, LibrariesFit, Online
  <2>2. \A i \in 1 .. Len(online) : online'[i] = online[i]
    BY <1>3, <2>1
  <2>3. ASSUME NEW l \in Library, Online(l) PROVE Online(l)' /\ Index(l)' = Index(l)
    <3>1. Index(l) \in 1 .. Len(online) /\ online[Index(l)] = l
      BY <2>1, <2>3, IndexOf
    <3>2. Index(l) \in DOMAIN online' /\ online'[Index(l)] = l
      BY <2>1, <2>2, <3>1
    <3>3. Index(l)' = Index(l)
      <4>1. \A i \in DOMAIN online' : online'[i] = l => i = Index(l)
        BY <2>1, <3>2 DEF IsInjective
      <4> HIDE DEF Index
      <4>2. (CHOOSE i \in DOMAIN online' : online'[i] = l) = Index(l)
        BY <3>2, <4>1
      <4> QED
        BY <4>2 DEF Index
    <3> QED
      BY <2>1, <2>3, <3>3
  <2> QED
    BY <1>1, <2>3, MediaStay
<1> QED
  BY <1>1, <1>2, <1>3

\* The media of a library that is deleted are nobody's from then on; those of the
\* libraries in front of it stay in their hosts.
LEMMA DeleteMedia ==
    ASSUME Typed, MediaOnline, NEW p \in Proc, Delete(p) PROVE MediaOnline'
<1> DEFINE d == arg[p].lib
<1>1. CASE d = NoLib
  <2>1. UNCHANGED <<online, hosts, shifted>>
    BY <1>1 DEF Delete
  <2> QED
    BY <2>1, SameLibraries, MediaStay
<1>2. CASE d # NoLib
  <2>1. /\ online' = Without(online, d)
        /\ hosts' = [i \in DOMAIN hosts |-> [hosts[i] EXCEPT !.media =
               [s \in Slot |-> IF @[s] = d THEN Gone ELSE @[s]]]]
        /\ shifted' = (shifted \/ d # Last(online)) /\ Online(d)
    BY <1>2 DEF Delete, Typed, Operand
  <2>2. /\ online \in Seq(Library) /\ IsInjective(online) /\ Len(online) \in Nat
        /\ DOMAIN online = 1 .. Len(online)
    BY DEF Typed, DbTyped, LibrariesFit
  <2>3. PICK n \in DOMAIN online : online[n] = d
    BY <2>1, <2>2, IndexOf
  <2>4. /\ online' \in Seq(Library) /\ Len(online') = Len(online) - 1 /\ IsInjective(online')
        /\ \A j \in 1 .. Len(online) - 1 : online'[j] = IF j < n THEN online[j] ELSE online[j + 1]
        /\ \A k : Online(k)' <=> Online(k) /\ k # d
    <3> HIDE DEF d
    <3> DEFINE left == Without(online, d)
    <3>5. online' = left
      BY ZenonT(60), <2>1
    <3> HIDE DEF left
    <3>6. left = Without(online, online[n])
      BY <2>3 DEF left
    <3>1. online' = Without(online, online[n])
      BY ZenonT(60), <3>5, <3>6
    <3>2. /\ online' \in Seq(Library) /\ Len(online') = Len(online) - 1
          /\ \A j \in 1 .. Len(online) - 1 : online'[j] = IF j < n THEN online[j] ELSE online[j + 1]
      BY <2>2, <3>1, WithoutIs
    <3>3. IsInjective(online') /\ \A k : Contains(online', k) <=> Contains(online, k) /\ k # online[n]
      BY <2>2, <3>1, WithoutInjective, WithoutHas
    <3>4. \A k : Online(k)' <=> Online(k) /\ k # d
      BY <2>3, <3>3 DEF Online
    <3> QED
      BY <3>2, <3>3, <3>4
  <2> HIDE DEF d
  <2>5. ASSUME NEW i \in DOMAIN hosts', NEW s \in Slot, NEW l \in Library, hosts'[i].media[s] = l
        PROVE  i \in DOMAIN hosts /\ hosts[i].media[s] = l /\ l # d
    <3>1. i \in DOMAIN hosts
      BY <2>1, <2>5
    <3>2. hosts[i] \in Host
      BY <3>1 DEF Typed, HostsTyped
    <3> DEFINE m == [r \in Slot |-> IF hosts[i].media[r] = d THEN Gone ELSE hosts[i].media[r]]
    <3>3. hosts'[i] = [hosts[i] EXCEPT !.media = m]
      BY <2>1, <3>1
    <3>4. hosts'[i].media = m
      BY <3>2, <3>3 DEF Host
    <3>5. m[s] = l
      BY <2>5, <3>4
    <3> QED
      BY <3>1, <3>5, LibrariesAssumption DEF LibrariesAssumption
  <2>6. ASSUME NEW l \in Library, Online(l), l # d, ~shifted' PROVE Index(l)' = Index(l)
    <3>1. d = online[Len(online)]
      BY <2>1, <2>6 DEF Last
    <3>2. n = Len(online)
      BY <2>2, <2>3, <3>1 DEF IsInjective
    <3>3. Index(l) \in 1 .. Len(online) /\ online[Index(l)] = l
      BY <2>2, <2>6, IndexOf
    <3>4. Index(l) # Len(online)
      BY <2>6, <3>1, <3>3
    <3>5. Index(l) \in DOMAIN online' /\ online'[Index(l)] = l
      <4>1. Index(l) \in 1 .. Len(online) - 1 /\ Index(l) < n
        BY <2>2, <3>2, <3>3, <3>4
      <4> QED
        BY <2>2, <2>4, <3>3, <4>1
    <3>6. \A i \in DOMAIN online' : online'[i] = l => i = Index(l)
      BY <2>4, <3>5 DEF IsInjective
    <3> HIDE DEF Index
    <3>7. (CHOOSE i \in DOMAIN online' : online'[i] = l) = Index(l)
      BY <3>5, <3>6
    <3> QED
      BY <3>7 DEF Index
  <2> SUFFICES ASSUME NEW i \in DOMAIN hosts', NEW s \in Slot, NEW l \in Library, hosts'[i].media[s] = l
               PROVE  Online(l)' /\ (~shifted' => i = Index(l)')
    BY DEF MediaOnline
  <2>7. Online(l) /\ l # d /\ (~shifted => i = Index(l))
    BY <2>5 DEF MediaOnline
  <2> QED
    BY <2>1, <2>4, <2>6, <2>7
<1> QED
  BY <1>1, <1>2

LEMMA SyncMedia == ASSUME Typed, MediaOnline, NEW p \in Proc, Sync(p) PROVE MediaOnline'
<1>1. online' = online /\ shifted' = shifted
  BY DEF Sync, BuildSpec, Preflight, IoctlResizes, IoctlSets, IoctlFails, SetFails, Script,
     RunScript, Kernelctl, write_vtl_inst_spec_cache, Pull, PullEnds, db, history
<1>2. want[p] \in Geometry /\ DbSpec \in Geometry /\ Sizes \in Geometry
  BY DbSpecIs, SizesIs DEF Typed, ProcTyped
<1>3. CASE hosts' = hosts
  BY <1>1, <1>3, SameLibraries, MediaStay
<1>4. ASSUME NEW w \in Geometry, hosts' = Rebuilt(w) PROVE MediaOnline'
  BY <1>4, EmptyMedia DEF MediaOnline
<1>5. CASE hosts' = << >>
  BY <1>5 DEF MediaOnline
<1>6. CASE IoctlResizes(p)
  <2>1. hosts' = Resized(want[p]) /\ Len(want[p]) = Len(hosts)
    BY <1>6 DEF IoctlResizes, Resize
  <2>2. /\ hosts' \in Seq(Host) /\ Len(hosts') = Len(hosts)
        /\ \A i \in 1 .. Len(hosts) : hosts'[i] = [slots |-> want[p][i], media |-> hosts[i].media]
    BY <1>2, <2>1, ResizedIs DEF Typed
  <2>3. ASSUME NEW i \in DOMAIN hosts' PROVE i \in DOMAIN hosts /\ hosts'[i].media = hosts[i].media
    <3>1. i \in 1 .. Len(hosts) /\ DOMAIN hosts = 1 .. Len(hosts)
      BY <2>2 DEF Typed, HostsTyped
    <3>2. hosts'[i] = [slots |-> want[p][i], media |-> hosts[i].media]
      BY <2>2, <3>1
    <3> QED
      BY <3>1, <3>2
  <2> QED
    BY <1>1, <2>3, SameLibraries, MediaStay
<1>7. hosts' = hosts \/ IoctlResizes(p) \/ IoctlSets(p) \/ SetFails(p)
      \/ RunScript(p) \/ Kernelctl(p)
  BY DEF Sync, BuildSpec, Preflight, IoctlFails, Script, write_vtl_inst_spec_cache, Pull,
     PullEnds
<1>8. CASE IoctlSets(p) \/ SetFails(p) \/ RunScript(p) \/ Kernelctl(p)
  <2>1. hosts' = hosts \/ hosts' = << >> \/ \E w \in Geometry : hosts' = Rebuilt(w)
    BY <1>2, <1>8 DEF IoctlSets, SetResult, SetFails, RunScript, Kernelctl, Reloads
  <2> QED
    BY <1>3, <1>4, <1>5, <2>1
<1> QED
  BY <1>3, <1>6, <1>7, <1>8

\* A command puts a tape into the host of its library, by the position the library
\* has at that moment.
LEMMA TapesMedia == ASSUME Typed, MediaOnline, Tapes PROVE MediaOnline'
<1>1. PICK l \in Library : ShelfPlace(l) \/ \E s \in Slot : AssignSlot(l, s)
  BY DEF Tapes
<1>2. /\ UNCHANGED <<online, shifted>> /\ Online(l)
      /\ \/ hosts' = hosts
         \/ \E media : /\ hosts' = [hosts EXCEPT ![Index(l)].media = media]
                       /\ \A s \in Slot : media[s] \in {l, NoLib}
  <2>1. CASE ShelfPlace(l)
    <3> DEFINE media == [s \in Slot |-> IF hosts[Index(l)].media[s] = l /\ Shelf \in Slot THEN l ELSE NoLib]
    <3>1. hosts' = hosts \/ hosts' = [hosts EXCEPT ![Index(l)].media = media]
      BY <2>1 DEF ShelfPlace, Evacuated
    <3>2. \A s \in Slot : media[s] \in {l, NoLib}
      OBVIOUS
    <3> HIDE DEF media
    <3> QED
      BY <2>1, <3>1, <3>2 DEF ShelfPlace
  <2>2. ASSUME NEW s \in Slot, AssignSlot(l, s)
        PROVE  /\ UNCHANGED <<online, shifted>> /\ Online(l)
               /\ \/ hosts' = hosts
                  \/ \E media : /\ hosts' = [hosts EXCEPT ![Index(l)].media = media]
                                /\ \A r \in Slot : media[r] \in {l, NoLib}
    <3> DEFINE m1 == [r \in Slot |-> IF r = s \/ hosts[Index(l)].media[r] = l THEN l ELSE NoLib]
               m2 == [r \in Slot |-> IF hosts[Index(l)].media[r] = l /\ s \in Slot THEN l ELSE NoLib]
    <3>1. \/ hosts' = hosts \/ hosts' = [hosts EXCEPT ![Index(l)].media = m1]
          \/ hosts' = [hosts EXCEPT ![Index(l)].media = m2]
      BY <2>2 DEF AssignSlot, Evacuated
    <3>2. \A r \in Slot : m1[r] \in {l, NoLib} /\ m2[r] \in {l, NoLib}
      OBVIOUS
    <3> HIDE DEF m1, m2
    <3> QED
      BY <2>2, <3>1, <3>2 DEF AssignSlot
  <2> QED
    BY <1>1, <2>1, <2>2
<1>3. CASE hosts' = hosts
  BY <1>2, <1>3, SameLibraries, MediaStay
<1>4. ASSUME NEW media, hosts' = [hosts EXCEPT ![Index(l)].media = media],
             \A s \in Slot : media[s] \in {l, NoLib}
      PROVE  MediaOnline'
  <2> SUFFICES ASSUME NEW i \in DOMAIN hosts', NEW s \in Slot, NEW k \in Library, hosts'[i].media[s] = k
               PROVE  Online(k)' /\ (~shifted' => i = Index(k)')
    BY DEF MediaOnline
  <2>1. i \in DOMAIN hosts
    BY <1>4
  <2>2. hosts[i] \in Host
    BY <2>1 DEF Typed, HostsTyped
  <2>3. CASE i = Index(l)
    <3>1. hosts'[i] = [hosts[i] EXCEPT !.media = media]
      BY <1>4, <2>1, <2>3
    <3>2. hosts'[i].media = media
      BY <2>2, <3>1 DEF Host
    <3>3. k = l
      BY <1>4, <3>2, LibrariesAssumption DEF LibrariesAssumption
    <3> QED
      BY <1>2, <2>3, <3>3, SameLibraries
  <2>4. CASE i # Index(l)
    <3>1. hosts[i].media[s] = k
      BY <1>4, <2>1, <2>4
    <3>2. Online(k) /\ (~shifted => i = Index(k))
      BY <2>1, <3>1 DEF MediaOnline
    <3> QED
      BY <1>2, <3>2, SameLibraries
  <2> QED
    BY <2>3, <2>4
<1> QED
  BY <1>2, <1>3, <1>4

LEMMA MediaOnlineKept ==
    ASSUME Typed, MediaOnline, [Next]_vars PROVE MediaOnline'
<1>1. ASSUME UNCHANGED <<online, hosts, shifted>> PROVE MediaOnline'
  BY <1>1, SameLibraries, MediaStay
<1>2. CASE UNCHANGED vars
  BY <1>1, <1>2 DEF vars, db, history
<1>3. ASSUME NEW p \in Proc, Administration(p) PROVE MediaOnline'
  <2>1. UNCHANGED <<online, hosts, shifted>> \/ Insert(p) \/ Delete(p)
    BY <1>3 DEF Administration, create_named_library, config_set, delete_named_library,
       kernel_align, Start, db
  <2> QED
    BY <1>1, <2>1, InsertMedia, DeleteMedia
<1>4. ASSUME NEW p \in Proc, Exports(p) PROVE MediaOnline'
  BY <1>1, <1>4 DEF Exports, Export, Unexport, Phase1, Phase2, save_iscsi_library_export,
     UnexportRuns, delete_iscsi_library_export, Start, db, history
<1>5. CASE ReloadByHand
  <2>1. CASE hosts' = Rebuilt(KernelctlSpec)
    BY <2>1, KernelctlSpecIs, EmptyMedia DEF MediaOnline
  <2>2. CASE hosts' = << >>
    BY <2>2 DEF MediaOnline
  <2> QED
    BY <1>5, <2>1, <2>2 DEF ReloadByHand
<1>6. ASSUME NEW p \in Proc, Crash(p) PROVE MediaOnline'
  BY <1>1, <1>6 DEF Crash, db
<1> QED
  BY <1>2, <1>3, <1>4, <1>5, <1>6, SyncMedia, TapesMedia DEF Next, Environment

\* Media are in the host of their own library however many processes crash or
\* overlap, as long as no library is deleted from in front of another
\* (online_library_export_index finds a host by position).
THEOREM OwnHostAlways == Spec => []OwnHost
<1>1. Init => MediaOnline
  <2> SUFFICES ASSUME Init, NEW i \in DOMAIN hosts, NEW s \in Slot
               PROVE  hosts[i].media[s] \notin Library
    BY DEF MediaOnline
  <2>1. hosts[i] = EmptyHost(KernelctlSpec[i])
    BY DEF Init, Rebuilt
  <2>2. EmptyHost(KernelctlSpec[i]).media[s] = NoLib
    BY DEF EmptyHost
  <2> QED
    BY <2>1, <2>2, LibrariesAssumption DEF LibrariesAssumption
<1>2. Typed /\ MediaOnline /\ [Next]_vars => MediaOnline'
  BY MediaOnlineKept
<1>3. Typed /\ MediaOnline => OwnHost
  <2> SUFFICES ASSUME Typed, MediaOnline, ~shifted, NEW l \in ToSet(online), NEW i \in DOMAIN hosts,
                      NEW s \in Slot, hosts[i].media[s] = l
               PROVE  i = Index(l)
    BY DEF OwnHost
  <2>1. l \in Library
    BY DEF ToSet, Typed, DbTyped
  <2> QED
    BY <2>1 DEF MediaOnline
<1> QED
  BY <1>1, <1>2, <1>3, TypedStays, PTL DEF Spec
=============================================================================
