----------------------------- MODULE HostProofs -----------------------------
(***************************************************************************)
(* For any number of hosts, callers and workers, and whatever fails: a     *)
(* SCSI command keeps its changer, nothing is unregistered before          *)
(* everything deferred is over, and while allow_hot_geom is N no ioctl is  *)
(* left with a freed changer.  The list of hosts follows the geometry      *)
(* unless a probe or the device table fails, and sysfs shows that geometry *)
(* unless the table does or num_drives is out of range.  As long as nobody *)
(* writes N to serial_full_bringup, hosts come up one at a time, and       *)
(* without it, too, the handlers that bring hosts up never wait in a       *)
(* circle.                                                                 *)
(***************************************************************************)
EXTENDS HostProperties, TLAPS, SequenceTheorems

Drives == 1 .. MaxDrives
AnyGeometry == {g \in Seq(Sizes) : Len(g) <= MaxHosts}

Tasks == {"off", "none", "init", "check", "teardown", "set", "rollback", "exit"}

\* The thread that builds or tears down, and the callers that resize.
Progress ==
    /\ live \in AnyGeometry /\ target \in AnyGeometry /\ prev \in AnyGeometry
    /\ at \in Nat /\ pc = [c \in Callers |-> pc[c]]
    /\ spec \in [Callers -> Specs \cup {<< >>}]
    /\ task \in Tasks /\ (task = "none" => step = "none")
    /\ step \in {"register", "cancel", "remove", "unregister"} => at >= 1
    /\ \A c \in Callers : pc[c] \in {"resizing", "undoing"} =>
           /\ task = "none" /\ at >= 1
           /\ \A d \in Callers \ {c} : pc[d] \notin {"resizing", "undoing"}
           /\ pc[c] = "resizing" => Len(target) = Len(prev)

\* Commands and the changers under them.
Commands ==
    /\ changer = [h \in Hosts |-> changer[h]] /\ cmd = [h \in Hosts |-> cmd[h]]
    /\ CommandsSeeChanger

LEMMA EmptyIsGeometry == << >> \in AnyGeometry /\ InRange(<< >>)
<1>1. << >> \in Seq(Sizes) /\ Len(<< >>) = 0
  OBVIOUS
<1> QED
  BY <1>1, HostAssumption DEF HostAssumption, AnyGeometry, InRange

LEMMA ParseIsGeometry ==
    ASSUME NEW s \in Specs \cup {<< >>} 
    PROVE  Parse(s) \in AnyGeometry /\ InRange(Parse(s))
<1>1. s \in Seq(Int)
  <2>1. << >> \in Seq(Int)
    OBVIOUS
  <2>2. Specs \subseteq Seq(Int)
    BY HostAssumption DEF HostAssumption
  <2> QED
    BY <2>1, <2>2
<1>2. CASE Len(s) <= MaxHosts
  <2>1. Parse(s) = [i \in 1 .. Len(s) |-> Clamp(s[i], MaxDrives)]
    BY <1>1, <1>2, HostAssumption DEF HostAssumption, Parse
  <2>2. \A i \in 1 .. Len(s) : Clamp(s[i], MaxDrives) \in Drives
    BY <1>1, HostAssumption DEF HostAssumption, Clamp, Drives
  <2>3. Parse(s) \in Seq(Sizes) /\ Len(Parse(s)) = Len(s)
    BY <1>1, <2>1, <2>2 DEF Drives, Sizes
  <2>4. InRange(Parse(s))
    BY <2>1, <2>2 DEF InRange, Drives
  <2> QED
    BY <1>2, <2>3, <2>4 DEF AnyGeometry
<1>3. CASE Len(s) > MaxHosts
  BY <1>3, EmptyIsGeometry DEF Parse, InRange
<1>4. Len(s) \in Nat /\ MaxHosts \in Nat
  BY <1>1, HostAssumption DEF HostAssumption
<1> QED
  BY <1>2, <1>3, <1>4

LEMMA GeometryAt ==
    ASSUME NEW g \in AnyGeometry, NEW i \in Nat, i >= 1, i <= Len(g)
    PROVE  g[i] \in Sizes /\ g[i] \in Int /\ i \in Hosts
<1>1. g[i] \in Sizes
  BY DEF AnyGeometry
<1>2. Sizes \subseteq Int
  BY HostAssumption DEF HostAssumption, Sizes
<1>3. i \in Hosts
  BY HostAssumption DEF HostAssumption, AnyGeometry, Hosts
<1> QED
  BY <1>1, <1>2, <1>3

LEMMA ClampInRange == ASSUME NEW n \in Int PROVE Clamp(n, MaxDrives) \in Drives
  BY HostAssumption DEF HostAssumption, Clamp, Drives

LEMMA GeometryExcept ==
    ASSUME NEW g \in AnyGeometry, NEW i, NEW n \in Sizes
    PROVE  [g EXCEPT ![i] = n] \in AnyGeometry
<1>1. g \in Seq(Sizes)
  BY DEF AnyGeometry
<1>2. CASE i \in 1 .. Len(g)
  BY <1>1, <1>2, ExceptSeq DEF AnyGeometry
<1>3. CASE i \notin 1 .. Len(g)
  <2>1. [g EXCEPT ![i] = n] = g
    BY <1>1, <1>3
  <2> QED
    BY <2>1
<1> QED
  BY <1>2, <1>3

LEMMA GeometryPrefix ==
    ASSUME NEW g \in AnyGeometry, NEW i \in Nat, i <= Len(g)
    PROVE  SubSeq(g, 1, i) \in AnyGeometry /\ Len(SubSeq(g, 1, i)) = i
<1>1. g \in Seq(Sizes) /\ Len(g) \in Nat /\ Len(g) <= MaxHosts /\ MaxHosts \in Nat
  BY HostAssumption DEF HostAssumption, AnyGeometry
<1>2. SubSeq(g, 1, i) \in Seq(Sizes) /\ Len(SubSeq(g, 1, i)) = i
  <2>1. \A j \in 1 .. i : g[j] \in Sizes
    BY <1>1
  <2> QED
    BY <2>1, SubSeqProperties
<1> QED
  BY <1>1, <1>2 DEF AnyGeometry

-----------------------------------------------------------------------------
(* Progress                                                                *)

Resizer(c) == pc[c] \in {"resizing", "undoing"}

\* A step of the thread, while nobody resizes.
LEMMA ThreadKeeps ==
    ASSUME Progress, \A c \in Callers : ~Resizer(c),
           live' \in AnyGeometry, target' \in AnyGeometry, prev' \in AnyGeometry,
           at' \in Nat, task' \in Tasks, task' = "none" => step' = "none",
           step' \in {"register", "cancel", "remove", "unregister"} => at' >= 1,
           UNCHANGED spec,
           pc' = pc \/ \E c \in Callers, s \in {"woken", "idle"} : pc' = [pc EXCEPT ![c] = s]
    PROVE  Progress'
<1>1. pc' = [c \in Callers |-> pc'[c]] /\ \A c \in Callers : ~Resizer(c)'
  BY DEF Progress, Resizer
<1> QED
  BY <1>1 DEF Progress, Resizer

LEMMA NobodyResizes ==
    ASSUME Progress, task # "none" \/ step # "none" PROVE \A c \in Callers : ~Resizer(c)
  BY DEF Progress, Resizer

\* A step of a caller that does not resize, and leaves everybody else alone.
LEMMA CallerKeeps ==
    ASSUME Progress, NEW c \in Callers, NEW s, ~Resizer(c),
           s \notin {"resizing", "undoing"}, pc' = [pc EXCEPT ![c] = s],
           UNCHANGED <<live, thread>>,
           \E x \in Specs \cup {<< >>} : spec' = spec \/ spec' = [spec EXCEPT ![c] = x]
    PROVE  Progress'
<1>1. pc' = [d \in Callers |-> pc'[d]]
      /\ \A d \in Callers : pc'[d] = pc[d] \/ ~Resizer(d)'
  BY DEF Progress, Resizer
<1>2. spec' \in [Callers -> Specs \cup {<< >>}]
  BY DEF Progress
<1>3. ~Resizer(c)'
  BY DEF Progress, Resizer
<1> QED
  BY <1>1, <1>2, <1>3 DEF Progress, Resizer, thread

LEMMA LoadProgress == ASSUME Progress, Load PROVE Progress'
<1>1. PICK s \in Specs \cup {<< >>}, serial \in SerialFull, no \in NoScan,
            hot \in AllowHotGeom : Insmod(s, serial, no, hot)
  BY DEF Load
<1>2. live' \in AnyGeometry
  <2>1. ASSUME NEW n \in NumDrives, live' = <<n>> PROVE live' \in AnyGeometry
    <3>1. <<n>> \in Seq(Sizes) /\ Len(<<n>>) = 1
      BY DEF Sizes
    <3> QED
      BY <2>1, <3>1, HostAssumption DEF HostAssumption, AnyGeometry
  <2> QED
    BY <1>1, <2>1, ParseIsGeometry DEF Insmod, ParseInstances
<1> QED
  BY <1>1, <1>2, NobodyResizes, ThreadKeeps DEF Insmod, GoTo, calls, Progress, Tasks

LEMMA RmmodProgress == ASSUME Progress, Rmmod PROVE Progress'
<1>1. \A c \in Callers : ~Resizer(c)
  BY DEF Rmmod, Resizer
<1> QED
  BY <1>1, ThreadKeeps DEF Rmmod, GoTo, geometry, calls, Progress, Tasks

LEMMA RegisterProgress == ASSUME Progress, Register PROVE Progress'
<1>1. task # "none" /\ step # "none" /\ UNCHANGED <<live, target, prev, pc, spec, task>>
  BY DEF Register, RegisterBegin, RegisterDevice, ProbeFails, DeviceFails, Building, geometry,
     calls
<1>2. \/ step' = "register" /\ at' = 1
      \/ step' = "register" /\ at' = at + 1
      \/ step' = "quiesce" /\ at' = 0
  BY DEF Register, RegisterBegin, RegisterDevice, ProbeFails, DeviceFails, GoTo
<1> QED
  BY <1>1, <1>2, NobodyResizes, ThreadKeeps DEF Progress

LEMMA TearDownProgress == ASSUME Progress, TearDown PROVE Progress'
<1>1. step # "none" /\ UNCHANGED <<live, target, prev, pc, spec, task>>
  BY DEF TearDown, Quiesce, CancelWork, CancelEnd, RemoveHost, RemoveEnd, Unregister, geometry,
     calls
<1>2. at' = 1 \/ at' = at + 1 \/ (at' = 0 /\ step' = "count")
  <2>1. CASE Quiesce \/ CancelEnd \/ RemoveEnd
    BY <2>1 DEF Quiesce, CancelEnd, RemoveEnd, GoTo
  <2>2. CASE CancelWork \/ RemoveHost \/ Unregister
    BY <2>2 DEF CancelWork, RemoveHost, Unregister, GoTo
  <2> QED
    BY <2>1, <2>2 DEF TearDown
<1>3. task # "none"
  BY <1>1 DEF Progress
<1> QED
  BY <1>1, <1>2, <1>3, NobodyResizes, ThreadKeeps DEF Progress

LEMMA RestOfThreadProgress ==
    ASSUME Progress, Thread, ~Register, ~TearDown PROVE Progress'
<1>1. CASE InsmodEnd
  BY <1>1, NobodyResizes, ThreadKeeps DEF InsmodEnd, GoTo, calls, Progress, Tasks
<1>2. CASE ModuleGone
  <2>1. task # "none" \/ step # "none"
    BY <1>2 DEF ModuleGone
  <2> QED
    BY <1>2, <2>1, EmptyIsGeometry, NobodyResizes, ThreadKeeps
       DEF ModuleGone, GoTo, calls, Tasks
<1>3. CASE JobTearsDown
  BY <1>3, NobodyResizes, ThreadKeeps DEF JobTearsDown, GoTo, geometry, calls, Progress, Tasks
<1>4. CASE JobRebuilds
  BY <1>4, NobodyResizes, ThreadKeeps DEF JobRebuilds, GoTo, calls, Progress, Tasks
<1>5. CASE JobRollsBack
  BY <1>5, NobodyResizes, ThreadKeeps DEF JobRollsBack, GoTo, calls, Progress, Tasks
<1>6. ASSUME NEW c \in Callers, NEW r, JobEnds(c, r), task # "none" \/ step # "none",
             live' \in AnyGeometry
      PROVE  Progress'
  <2>1. /\ pc' = [pc EXCEPT ![c] = "woken"] /\ UNCHANGED spec
        /\ task' = "none" /\ step' = "none" /\ at' = 0
        /\ target' = << >> /\ prev' = << >>
    BY <1>6 DEF JobEnds, Answer, GoTo
  <2> QED
    BY <1>6, <2>1, EmptyIsGeometry, NobodyResizes, ThreadKeeps DEF Tasks
<1>7. LiveAfter \in AnyGeometry
  BY EmptyIsGeometry DEF LiveAfter, Progress
<1>8. ASSUME NEW c \in Callers,
             JobBusy(c) \/ JobSucceeds(c) \/ RollbackSucceeds(c) \/ RollbackFails(c)
      PROVE  Progress'
  <2>1. (task # "none" \/ step # "none") /\ live' \in AnyGeometry
    BY <1>7, <1>8 DEF JobBusy, JobSucceeds, RollbackSucceeds, RollbackFails, geometry, Progress
  <2>2. \E r : JobEnds(c, r)
    BY <1>8 DEF JobBusy, JobSucceeds, RollbackSucceeds, RollbackFails
  <2> QED
    BY <1>6, <2>1, <2>2
<1> QED
  BY <1>1, <1>2, <1>3, <1>4, <1>5, <1>8 DEF Thread

LEMMA CallProgress ==
    ASSUME Progress, NEW c \in Callers, Call(c) PROVE Progress'
<1>1. ASSUME NEW s \in Specs, CallSet(c, s) PROVE Progress'
  <2>1. ~Resizer(c)
    BY <1>1 DEF CallSet, Resizer
  <2> QED
    BY <1>1, <2>1, CallerKeeps DEF CallSet, geometry
<1>2. ASSUME NEW s \in Specs, ResizeNothing(c, s) PROVE Progress'
  BY <1>2 DEF ResizeNothing, thread, calls, Progress
<1>3. ASSUME NEW s \in Specs, ResizeBegin(c, s) PROVE Progress'
  <2>1. task = "none" /\ \A d \in Callers : ~Resizer(d)
    <3>1. task \notin {"check", "teardown", "set", "rollback"}
      BY <1>3 DEF ResizeBegin, ReconfigLocked
    <3>2. task \notin {"off", "init", "exit"}
      BY <1>3 DEF ResizeBegin, Loaded
    <3> QED
      BY <1>3, <3>1, <3>2 DEF ResizeBegin, ReconfigLocked, Resizing, Resizer, Progress, Tasks
  <2>2. target' \in AnyGeometry /\ Len(target') = Len(prev') /\ prev' = live
    BY <1>3, ParseIsGeometry DEF ResizeBegin
  <2>3. /\ UNCHANGED <<live, task, step, spec>> /\ at' = 1
        /\ pc' = [pc EXCEPT ![c] = "resizing"]
    BY <1>3 DEF ResizeBegin, geometry
  <2> QED
    BY <2>1, <2>2, <2>3 DEF Progress, Resizer
<1>4. ASSUME NEW i \in Hosts, GetChanger(c, i) PROVE Progress'
  <2>1. ~Resizer(c)
    BY <1>4 DEF GetChanger, Resizer
  <2> QED
    BY <1>4, <2>1, CallerKeeps DEF GetChanger, geometry
<1> QED
  BY <1>1, <1>2, <1>3, <1>4 DEF Call

\* RESIZE_GEOMETRY goes on.
LEMMA ResizeProgress ==
    ASSUME Progress, NEW c \in Callers, ResizeHost(c) \/ ResizeUndo(c) \/ ResizeEnd(c)
    PROVE  Progress'
<1>1. /\ Resizer(c) /\ task = "none" /\ step = "none" /\ at \in Nat /\ at >= 1
      /\ \A d \in Callers \ {c} : ~Resizer(d)
      /\ UNCHANGED <<task, step, spec>>
  BY DEF ResizeHost, ResizeUndo, ResizeEnd, Progress, Resizer, calls
<1>2. live' \in AnyGeometry
  <2>1. ASSUME at <= Len(target) PROVE Clamp(target[at], MaxDrives) \in Sizes
    BY <1>1, <2>1, GeometryAt, ClampInRange DEF Progress, Drives, Sizes
  <2>2. \/ live' = live
        \/ at <= Len(target) /\ live' = [live EXCEPT ![at] = Clamp(target[at], MaxDrives)]
    <3>1. CASE ResizeHost(c) \/ ResizeEnd(c)
      BY <3>1 DEF ResizeHost, ResizeEnd, Resized, NotResized
    <3>2. CASE ResizeUndo(c)
      BY <3>2 DEF ResizeUndo, Resized, NotResized
    <3> QED
      BY <3>1, <3>2
  <2>3. live \in AnyGeometry
    BY DEF Progress
  <2>4. CASE at <= Len(target) /\ live' = [live EXCEPT ![at] = Clamp(target[at], MaxDrives)]
    BY <2>1, <2>3, <2>4, GeometryExcept
  <2> QED
    BY <2>2, <2>3, <2>4
<1>3. CASE ResizeHost(c)
  <2>1. CASE at' = at + 1 /\ UNCHANGED <<pc, target, prev>>
    BY <1>1, <1>2, <2>1 DEF Progress, Resizer
  <2>2. CASE /\ pc' = [pc EXCEPT ![c] = "undoing"]
             /\ target' = SubSeq(prev, 1, at - 1) /\ at' = 1 /\ prev' = prev
    <3>1. at - 1 \in Nat /\ at - 1 <= Len(prev)
      BY <1>1, <1>3 DEF ResizeHost, Progress, AnyGeometry
    <3>2. target' \in AnyGeometry
      BY <2>2, <3>1, GeometryPrefix DEF Progress
    <3> QED
      BY <1>1, <1>2, <2>2, <3>2 DEF Progress, Resizer
  <2> QED
    BY <1>3, <2>1, <2>2 DEF ResizeHost
<1>4. CASE ResizeUndo(c)
  BY <1>1, <1>2, <1>4 DEF ResizeUndo, Progress, Resizer, calls
<1>5. CASE ResizeEnd(c)
  BY <1>1, <1>2, <1>5, EmptyIsGeometry DEF ResizeEnd, Progress, Resizer
<1> QED
  BY <1>3, <1>4, <1>5

LEMMA GoesOnProgress ==
    ASSUME Progress, NEW c \in Callers, GoesOn(c) PROVE Progress'
<1>1. CASE \/ Submit(c) \/ JobRefused(c) \/ JobAllowed(c) \/ UnlockJob(c) \/ ReadResult(c)
           \/ ReleaseChanger(c)
  <2>1. ~Resizer(c)
    BY <1>1 DEF Submit, JobRefused, JobAllowed, UnlockJob, ReadResult, ReleaseChanger, Resizer
  <2>2. \E s \in {"submitted", "allowed", "woken", "read", "idle"} : pc' = [pc EXCEPT ![c] = s]
    BY <1>1 DEF Submit, JobRefused, JobAllowed, Answer, UnlockJob, ReadResult, ReleaseChanger
  <2>3. UNCHANGED <<live, thread>> /\ (spec' = spec \/ spec' = [spec EXCEPT ![c] = << >>])
    BY <1>1 DEF Submit, JobRefused, JobAllowed, Answer, UnlockJob, ReadResult, ReleaseChanger,
       geometry
  <2> QED
    BY <2>1, <2>2, <2>3, CallerKeeps
<1>2. CASE JobNothingToDo(c)
  <2>1. ~Resizer(c) /\ pc' = [pc EXCEPT ![c] = "woken"] /\ UNCHANGED <<live, spec, thread>>
    BY <1>2 DEF JobNothingToDo, Answer, Resizer
  <2> QED
    BY <2>1, CallerKeeps
<1>3. CASE JobBegin(c)
  <2>1. /\ \A d \in Callers : ~Resizer(d)
        /\ Parse(spec[c]) \in AnyGeometry
    BY <1>3, ParseIsGeometry DEF JobBegin, Resizing, Resizer, Progress
  <2> QED
    BY <1>3, <2>1, ThreadKeeps DEF JobBegin, GoTo, geometry, calls, Progress, Tasks
<1> QED
  BY <1>1, <1>2, <1>3, ResizeProgress DEF GoesOn

LEMMA ProgressKept == ASSUME Progress, [Next]_vars PROVE Progress'
<1>1. ASSUME UNCHANGED <<live, thread, pc, spec>> PROVE Progress'
  BY <1>1 DEF thread, Progress
<1>2. CASE UNCHANGED vars
  BY <1>1, <1>2 DEF vars, geometry, calls
<1>3. CASE Traffic \/ Administration \/ \E h \in Hosts : CommandEnd(h)
  BY <1>1, <1>3 DEF Traffic, Administration, WriteParam, ScanByHand, CommandStart, CommandEnd,
     geometry, calls
<1>4. ASSUME NEW w \in Work, Handler(w) PROVE Progress'
  BY <1>1, <1>4 DEF Handler, BringupStart, BringupLock, BringupOut, BringupAdd, BringupAddFails,
     ScanStart, Scan, ScanEnd, geometry, calls
<1> QED
  BY <1>2, <1>3, <1>4, LoadProgress, RmmodProgress, RegisterProgress, TearDownProgress,
     RestOfThreadProgress, CallProgress, GoesOnProgress DEF Next

-----------------------------------------------------------------------------
(* Commands                                                                *)

\* A changer goes when no command is inside it, and comes with drives.
LEMMA CommandsKept == ASSUME Progress, Commands, [Next]_vars PROVE Commands'
<1>1. ASSUME UNCHANGED <<changer, cmd>> PROVE Commands'
  BY <1>1 DEF Commands, CommandsSeeChanger
<1>2. ASSUME NEW h, NEW n \in Drives, UNCHANGED cmd, changer' = [changer EXCEPT ![h] = n]
      PROVE  Commands'
  BY <1>2 DEF Commands, CommandsSeeChanger, Drives
<1>3. ASSUME NEW h, Detach(h), UNCHANGED cmd PROVE Commands'
  BY <1>3 DEF Detach, Commands, CommandsSeeChanger
<1>4. CASE UNCHANGED vars \/ Load \/ Rmmod \/ Administration
  BY <1>1, <1>4 DEF vars, devices, scsi, Load, Insmod, Rmmod, Administration, WriteParam
<1>5. CASE Traffic
  <2>1. ASSUME NEW h \in Hosts, CommandStart(h) PROVE Commands'
    BY <2>1 DEF CommandStart, devices, Commands, CommandsSeeChanger
  <2>2. Served \subseteq Hosts
    BY HostAssumption DEF HostAssumption, Hosts
  <2> QED
    BY <1>1, <1>5, <2>1, <2>2 DEF Traffic, ScanByHand, devices
<1>6. ASSUME NEW h \in Hosts, CommandEnd(h) PROVE Commands'
  BY <1>6 DEF CommandEnd, devices, Commands, CommandsSeeChanger
<1>7. ASSUME NEW w \in Work, Handler(w) PROVE Commands'
  BY <1>1, <1>7 DEF Handler, BringupStart, BringupLock, BringupOut, BringupAdd, BringupAddFails,
     ScanStart, Scan, ScanEnd, devices, scsi
<1>8. CASE Register
  <2>1. CASE RegisterDevice
    <3>1. live[at] \in Drives
      BY <2>1 DEF RegisterDevice, Drives
    <3> QED
      BY <1>2, <2>1, <3>1 DEF RegisterDevice
  <2> QED
    BY <1>1, <1>8, <2>1 DEF Register, RegisterBegin, ProbeFails, DeviceFails, devices, scsi
<1>9. CASE TearDown
  BY <1>1, <1>3, <1>9 DEF TearDown, Quiesce, CancelWork, CancelEnd, RemoveHost, RemoveEnd,
     Unregister, devices, scsi
<1>10. CASE Thread /\ ~Register /\ ~TearDown
  BY <1>1, <1>10 DEF Thread, InsmodEnd, ModuleGone, JobTearsDown, JobRebuilds, JobRollsBack,
     JobBusy, JobSucceeds, RollbackSucceeds, RollbackFails, devices, scsi
<1>11. ASSUME NEW c \in Callers, Call(c) PROVE Commands'
  BY <1>1, <1>11 DEF Call, CallSet, ResizeNothing, ResizeBegin, GetChanger, devices, scsi
<1>12. ASSUME NEW c \in Callers, GoesOn(c) PROVE Commands'
  <2>1. ASSUME Resized(at, target[at]), at <= Len(target), Resizer(c), UNCHANGED cmd
        PROVE  Commands'
    <3>1. Clamp(target[at], MaxDrives) \in Drives
      BY <2>1, GeometryAt, ClampInRange DEF Progress, Resizer
    <3> QED
      BY <1>2, <2>1, <3>1 DEF Resized
  <2>2. CASE ResizeHost(c) \/ ResizeUndo(c)
    BY <1>1, <2>1, <2>2 DEF ResizeHost, ResizeUndo, NotResized, Resizer, scsi
  <2> QED
    BY <1>1, <1>12, <2>2 DEF GoesOn, Submit, JobRefused, JobAllowed, JobNothingToDo, JobBegin,
       UnlockJob, ReadResult,
       ResizeEnd, ReleaseChanger, devices, scsi
<1> QED
  BY <1>4, <1>5, <1>6, <1>7, <1>8, <1>9, <1>10, <1>11, <1>12 DEF Next

LEMMA Begins == Init => Progress /\ Commands
<1>1. Init => Progress
  BY EmptyIsGeometry DEF Init, Progress, Tasks
<1> QED
  BY <1>1 DEF Init, Commands, CommandsSeeChanger

\* A command that passed the test of vtl_scsi_queuecommand has a changer until it
\* ends, however resizes, rebuilds, roll backs and rmmod interleave with it.
THEOREM ChangersOutliveCommands == Spec => []CommandsSeeChanger
<1>1. Progress /\ Commands /\ [Next]_vars => Progress' /\ Commands'
  BY ProgressKept, CommandsKept
<1>2. Commands => CommandsSeeChanger
  BY DEF Commands
<1> QED
  BY Begins, <1>1, <1>2, PTL DEF Spec

-----------------------------------------------------------------------------
(* Deferred works and registered hosts                                     *)

Listed(h) == \E i \in 1 .. Len(list) : list[i] = h
Over(h) == work[<<h, "bringup">>] = "none" /\ work[<<h, "scan">>] = "none"

\* What has been cancelled stays so: only a bring-up schedules a scan, and it is
\* cancelled before.
Cancelled ==
    \A i \in 1 .. Len(list) :
        /\ 2 * i <= at => work[<<list[i], "bringup">>] = "none"
        /\ 2 * i + 1 <= at => work[<<list[i], "scan">>] = "none"

Calm ==
    /\ list \in Seq(Hosts)
    /\ work = [w \in Work |-> work[w]] /\ registered = [h \in Hosts |-> registered[h]]
    /\ \A h \in Hosts : registered[h] \/ ~Over(h) => Listed(h)
    /\ step = "cancel" => Cancelled
    /\ step \in {"count", "remove", "unregister"} => \A h \in Hosts : Over(h)
    /\ step = "remove" => \A i \in 1 .. Len(list) : i < at => ~registered[list[i]]
    /\ step = "unregister" => \A h \in Hosts : ~registered[h]

\* Nothing happens to works and hosts, and no teardown begins or goes on.
LEMMA CalmStays ==
    ASSUME Calm, UNCHANGED <<list, work, registered>>,
           \/ UNCHANGED <<step, at>>
           \/ step' \notin {"cancel", "count", "remove", "unregister"}
    PROVE  Calm'
  BY DEF Calm, Listed, Over, Cancelled

LEMMA HandlerCalm == ASSUME Progress, Calm, NEW w \in Work, Handler(w) PROVE Calm'
<1>1. UNCHANGED <<list, step, at>>
  BY DEF Handler, BringupStart, BringupLock, BringupOut, BringupAdd, BringupAddFails, ScanStart,
     Scan, ScanEnd, devices, thread
<1>2. PICK h \in Hosts : w = <<h, "bringup">> \/ w = <<h, "scan">>
  BY DEF Work
<1>3. /\ work' = [v \in Work |-> work'[v]]
      /\ registered' = [g \in Hosts |-> registered'[g]]
      /\ \A g \in Hosts : work'[<<g, "bringup">>] # "none" => work[<<g, "bringup">>] # "none"
      /\ \A g \in Hosts : work'[<<g, "scan">>] # "none" => ~Over(g)
      /\ \A g \in Hosts : registered'[g] => registered[g] \/ ~Over(g)
  <2>1. CASE BringupAdd(h)
    BY <2>1 DEF BringupAdd, Calm, Over, Work
  <2>2. ASSUME UNCHANGED registered, NEW v \in Work, work[v] # "none",
               NEW x, work' = [work EXCEPT ![v] = x]
        PROVE  <1>3!1 /\ <1>3!2 /\ <1>3!3 /\ <1>3!4 /\ <1>3!5
    BY <2>2 DEF Calm, Over, Work
  <2>3. BringupAdd(h) \/ \E v \in Work : \E x :
            UNCHANGED registered /\ work[v] # "none" /\ work' = [work EXCEPT ![v] = x]
    <3>1. \A kind \in {"bringup", "scan"} : <<h, kind>> \in Work
      BY DEF Work
    <3>2. CASE BringupStart(h) \/ BringupLock(h) \/ BringupOut(h) \/ BringupAddFails(h)
      BY <3>1, <3>2 DEF BringupStart, BringupLock, BringupOut, BringupAddFails, scsi
    <3>3. CASE ScanStart(h)
      BY <3>1, <3>3 DEF ScanStart, scsi
    <3>4. CASE Scan(w) \/ ScanEnd(w)
      BY <3>4 DEF Scan, ScanEnd
    <3> QED
      BY <1>2, <3>2, <3>3, <3>4 DEF Handler
  <2> QED
    BY <2>1, <2>2, <2>3
<1>4. list \in Seq(Hosts) /\ \A i \in 1 .. Len(list) : list[i] \in Hosts
  BY DEF Calm
<1>5. step = "cancel" => Cancelled'
  <2> SUFFICES ASSUME step = "cancel", NEW i \in 1 .. Len(list)
               PROVE  /\ 2 * i <= at => work'[<<list[i], "bringup">>] = "none"
                      /\ 2 * i + 1 <= at => work'[<<list[i], "scan">>] = "none"
    BY <1>1 DEF Cancelled
  <2>1. list[i] \in Hosts /\ Cancelled /\ at \in Nat /\ i \in Nat
    BY <1>4 DEF Calm, Progress
  <2>2. ASSUME 2 * i <= at PROVE work'[<<list[i], "bringup">>] = "none"
    BY <1>3, <2>1, <2>2 DEF Cancelled
  <2>3. ASSUME 2 * i + 1 <= at PROVE work'[<<list[i], "scan">>] = "none"
    <3>1. Over(list[i])
      BY <2>1, <2>3 DEF Cancelled, Over
    <3> QED
      BY <1>3, <2>1, <3>1
  <2> QED
    BY <2>2, <2>3
<1> QED
  BY <1>1, <1>3, <1>4, <1>5 DEF Calm, Listed, Over

LEMMA RegisterCalm == ASSUME Progress, Calm, Register PROVE Calm'
<1>1. CASE RegisterDevice
  <2>1. at \in Hosts /\ list \in Seq(Hosts) /\ Len(list) \in Nat
    BY <1>1, GeometryAt DEF RegisterDevice, Progress, Calm
  <2>2. /\ list' = Append(list, at) /\ step' = "register"
        /\ registered' = [registered EXCEPT ![at] = FALSE]
        /\ work' = [work EXCEPT ![<<at, "bringup">>] = "pending"]
    BY <1>1 DEF RegisterDevice, GoTo
  <2>3. list' \in Seq(Hosts) /\ \A h \in Hosts : h = at \/ Listed(h) => Listed(h)'
    <3>1. /\ list' \in Seq(Hosts) /\ Len(list') = Len(list) + 1
          /\ \A i \in 1 .. Len(list) : list'[i] = list[i]
          /\ list'[Len(list) + 1] = at
      BY <2>1, <2>2, AppendProperties
    <3> QED
      BY <2>1, <3>1 DEF Listed
  <2>4. /\ work' = [w \in Work |-> work'[w]]
        /\ registered' = [h \in Hosts |-> registered'[h]]
        /\ \A h \in Hosts \ {at} : (Over(h)' <=> Over(h)) /\ registered'[h] = registered[h]
    BY <2>1, <2>2 DEF Calm, Over, Work
  <2>5. \A h \in Hosts : registered'[h] \/ ~Over(h)' => Listed(h)'
    BY <2>3, <2>4 DEF Calm
  <2> QED
    BY <2>2, <2>3, <2>4, <2>5 DEF Calm
<1>2. CASE RegisterBegin \/ ProbeFails \/ DeviceFails
  BY <1>2, CalmStays DEF RegisterBegin, ProbeFails, DeviceFails, GoTo, devices, scsi, works
<1> QED
  BY <1>1, <1>2 DEF Register

\* A new round of cancelling begins.
LEMMA CancelBegins ==
    ASSUME Calm, UNCHANGED <<list, work, registered>>, step' = "cancel", at' = 1
    PROVE  Calm'
<1>1. Cancelled'
  BY DEF Cancelled, Calm
<1> QED
  BY <1>1 DEF Calm, Listed, Over

LEMMA CancelWorkCalm == ASSUME Progress, Calm, CancelWork PROVE Calm'
<1> DEFINE k == (at + 1) \div 2
           w == <<list[k], CancelOrder[((at + 1) % 2) + 1]>>
<1>1. /\ at \in Nat /\ at >= 1 /\ at <= 2 * Len(list) /\ Len(list) \in Nat
      /\ step = "cancel" /\ step' = "cancel" /\ at' = at + 1
      /\ work' = [work EXCEPT ![w] = "none"] /\ UNCHANGED <<list, registered>>
  BY DEF CancelWork, Progress, Calm, GoTo, devices, scsi
<1>2. /\ k \in 1 .. Len(list)
      /\ \/ at = 2 * k - 1 /\ (at + 1) % 2 = 0
         \/ at = 2 * k /\ (at + 1) % 2 = 1
  BY <1>1
<1>3. list[k] \in Hosts
  BY <1>2 DEF Calm
<1>4. \/ at = 2 * k - 1 /\ w = <<list[k], "bringup">>
      \/ at = 2 * k /\ w = <<list[k], "scan">>
  BY SMTT(40), <1>2 DEF CancelOrder
<1>5. w \in Work
  BY <1>3, <1>4 DEF Work
<1> HIDE DEF k, w
<1>6. /\ work' = [v \in Work |-> work'[v]] /\ work'[w] = "none"
      /\ \A v \in Work : work'[v] # "none" => work[v] # "none"
  BY <1>1, <1>5 DEF Calm
<1>7. Cancelled'
  <2> SUFFICES ASSUME NEW i \in 1 .. Len(list)
               PROVE  /\ 2 * i <= at + 1 => work'[<<list[i], "bringup">>] = "none"
                      /\ 2 * i + 1 <= at + 1 => work'[<<list[i], "scan">>] = "none"
    BY <1>1 DEF Cancelled
  <2>1. /\ 2 * i <= at => work[<<list[i], "bringup">>] = "none"
        /\ 2 * i + 1 <= at => work[<<list[i], "scan">>] = "none"
    BY <1>1 DEF Calm, Cancelled
  <2>2. <<list[i], "bringup">> \in Work /\ <<list[i], "scan">> \in Work
    BY DEF Calm, Work
  <2>3. ASSUME 2 * i = at + 1 PROVE work'[<<list[i], "bringup">>] = "none"
    <3>1. i = k /\ at = 2 * k - 1 /\ ~(at = 2 * k)
      BY <1>1, <1>2, <2>3
    <3> QED
      BY <1>4, <1>6, <3>1
  <2>4. ASSUME 2 * i + 1 = at + 1 PROVE work'[<<list[i], "scan">>] = "none"
    <3>1. i = k /\ at = 2 * k /\ ~(at = 2 * k - 1)
      BY <1>1, <1>2, <2>4
    <3> QED
      BY <1>4, <1>6, <3>1
  <2>5. ASSUME 2 * i <= at + 1 PROVE work'[<<list[i], "bringup">>] = "none"
    <3>1. 2 * i <= at \/ 2 * i = at + 1
      BY <1>1, <2>5
    <3> QED
      BY <1>6, <2>1, <2>2, <2>3, <3>1
  <2>6. ASSUME 2 * i + 1 <= at + 1 PROVE work'[<<list[i], "scan">>] = "none"
    <3>1. 2 * i + 1 <= at \/ 2 * i + 1 = at + 1
      BY <1>1, <2>6
    <3> QED
      BY <1>6, <2>1, <2>2, <2>4, <3>1
  <2> QED
    BY <2>5, <2>6
<1>8. \A h \in Hosts : Over(h) => Over(h)'
  BY <1>6 DEF Over, Work
<1> QED
  BY <1>1, <1>6, <1>7, <1>8 DEF Calm, Listed

LEMMA UnlistedIsList ==
    ASSUME NEW s \in Seq(Hosts), NEW h PROVE Unlisted(s, h) \in Seq(Hosts)
<1> DEFINE i == CHOOSE i \in DOMAIN s : s[i] = h
<1>1. CASE h \notin ToSet(s)
  BY <1>1 DEF Unlisted
<1>2. CASE h \in ToSet(s)
  <2>1. \E j \in DOMAIN s : s[j] = h
    BY <1>2 DEF ToSet
  <2>2. i \in DOMAIN s
    BY <2>1
  <2>3. i \in 1 .. Len(s) /\ Len(s) \in Nat
    BY <2>2
  <2> HIDE DEF i
  <2>4. SubSeq(s, 1, i - 1) \in Seq(Hosts)
    <3>1. \A j \in 1 .. i - 1 : s[j] \in Hosts
      BY <2>3
    <3> QED
      BY <2>3, <3>1, SubSeqProperties
  <2>5. SubSeq(s, i + 1, Len(s)) \in Seq(Hosts)
    <3>1. \A j \in i + 1 .. Len(s) : s[j] \in Hosts
      BY <2>3
    <3> QED
      BY <2>3, <3>1, SubSeqProperties
  <2>6. RemoveAt(s, i) \in Seq(Hosts)
    BY <2>4, <2>5, ConcatProperties DEF RemoveAt
  <2> QED
    BY <1>2, <2>6 DEF Unlisted, i
<1> QED
  BY <1>1, <1>2

LEMMA TearDownCalm == ASSUME Progress, Calm, TearDown PROVE Calm'
<1>1. CASE Quiesce
  BY <1>1, CancelBegins DEF Quiesce, GoTo, devices, scsi, works
<1>2. CASE CancelWork
  BY <1>2, CancelWorkCalm
<1>3. CASE CancelEnd
  <2>1. /\ UNCHANGED <<list, work, registered>> /\ Cancelled /\ at > 2 * Len(list)
        /\ at \in Nat /\ Len(list) \in Nat
        /\ step' = "count" \/ (step' = "remove" /\ at' = 1)
    BY <1>3 DEF CancelEnd, GoTo, Calm, Progress, devices, scsi, works
  <2>2. \A h \in Hosts : Over(h)
    <3> SUFFICES ASSUME NEW h \in Hosts, ~Over(h) PROVE FALSE
      OBVIOUS
    <3>1. PICK i \in 1 .. Len(list) : list[i] = h
      BY DEF Calm, Listed
    <3>2. 2 * i <= at /\ 2 * i + 1 <= at
      BY <2>1, <3>1
    <3> QED
      BY <2>1, <3>1, <3>2 DEF Cancelled, Over
  <2>3. \A h \in Hosts : Over(h)' /\ (registered'[h] => Listed(h)')
    BY <2>1, <2>2 DEF Calm, Listed, Over
  <2>4. ASSUME step' = "remove", NEW i \in 1 .. Len(list') PROVE ~(i < at')
    BY <2>1, <2>4
  <2> QED
    BY <2>1, <2>3, <2>4 DEF Calm
<1>4. CASE RemoveHost
  <2>1. /\ UNCHANGED <<list, work>> /\ step = "remove" /\ step' = "remove" /\ at' = at + 1
        /\ at \in 1 .. Len(list) /\ at \in Nat
        /\ \/ ~registered[list[at]] /\ registered' = registered
           \/ registered' = [registered EXCEPT ![list[at]] = FALSE]
    BY <1>4 DEF RemoveHost, Detach, GoTo, Calm, Progress, works
  <2>2. list[at] \in Hosts /\ \A i \in 1 .. Len(list) : list[i] \in Hosts
    BY <2>1 DEF Calm
  <2>3. /\ registered' = [h \in Hosts |-> registered'[h]]
        /\ \A h \in Hosts : registered'[h] => registered[h]
        /\ ~registered'[list[at]]
    BY <2>1, <2>2 DEF Calm
  <2>4. \A i \in 1 .. Len(list) : i < at + 1 => ~registered'[list[i]]
    <3>1. \A i \in 1 .. Len(list) : i < at + 1 => i < at \/ i = at
      BY <2>1
    <3> QED
      BY <2>1, <2>2, <2>3, <3>1 DEF Calm
  <2> QED
    BY <2>1, <2>3, <2>4 DEF Calm, Listed, Over
<1>5. CASE RemoveEnd
  <2>1. /\ UNCHANGED <<list, work, registered>> /\ step = "remove" /\ at > Len(list)
        /\ step' = "unregister" /\ at \in Nat /\ Len(list) \in Nat
    BY <1>5 DEF RemoveEnd, GoTo, Calm, Progress, devices, scsi, works
  <2>2. \A h \in Hosts : ~registered[h]
    <3>1. \A i \in 1 .. Len(list) : i < at
      BY <2>1
    <3> QED
      BY <2>1, <3>1 DEF Calm, Listed
  <2> QED
    BY <2>1, <2>2 DEF Calm, Listed, Over
<1>6. CASE Unregister
  <2>1. /\ step = "unregister" /\ step' = "unregister" /\ at \in Hosts
        /\ list' \in Seq(Hosts)
    BY <1>6, GeometryAt, UnlistedIsList DEF Unregister, GoTo, Calm, Progress
  <2>2. /\ work' = [w \in Work |-> work'[w]] /\ registered' = [h \in Hosts |-> registered'[h]]
        /\ \A h \in Hosts : Over(h)' /\ ~registered'[h]
    BY ZenonT(60), <1>6, <2>1 DEF Unregister, Detach, Calm, Over, Work
  <2> QED
    BY <2>1, <2>2 DEF Calm
<1> QED
  BY <1>1, <1>2, <1>3, <1>4, <1>5, <1>6 DEF TearDown

LEMMA CalmKept == ASSUME Progress, Calm, [Next]_vars PROVE Calm'
<1>1. CASE UNCHANGED vars \/ Load \/ Rmmod
  BY <1>1, CalmStays DEF vars, thread, devices, scsi, works, Load, Insmod, Rmmod, GoTo
<1>2. CASE Traffic \/ Administration \/ \E h \in Hosts : CommandEnd(h)
  BY <1>2, CalmStays DEF Traffic, Administration, WriteParam, ScanByHand, CommandStart,
     CommandEnd, thread, devices, scsi, works
<1>3. CASE Thread /\ ~Register /\ ~TearDown
  <2>1. UNCHANGED <<list, work, registered>> /\ step' \in {"none", "quiesce", "table"}
    <3>1. CASE InsmodEnd \/ ModuleGone \/ JobTearsDown \/ JobRebuilds \/ JobRollsBack
      BY <3>1 DEF InsmodEnd, ModuleGone, JobTearsDown, JobRebuilds, JobRollsBack, GoTo, devices,
         scsi, works
    <3>2. ASSUME NEW c \in Callers,
                 JobBusy(c) \/ JobSucceeds(c) \/ RollbackSucceeds(c) \/ RollbackFails(c)
          PROVE  UNCHANGED <<list, work, registered>> /\ step' = "none"
      BY <3>2 DEF JobBusy, JobSucceeds, RollbackSucceeds, RollbackFails, JobEnds, GoTo, devices,
         scsi, works
    <3> QED
      BY <1>3, <3>1, <3>2 DEF Thread
  <2> QED
    BY <2>1, CalmStays
<1>4. ASSUME NEW c \in Callers, Call(c) PROVE Calm'
  <2>1. UNCHANGED <<list, work, registered, step>>
    BY <1>4 DEF Call, CallSet, ResizeNothing, ResizeBegin, GetChanger, devices, scsi, works,
       thread
  <2>2. UNCHANGED at \/ step = "none"
    BY <1>4 DEF Call, CallSet, ResizeNothing, ResizeBegin, GetChanger, ReconfigLocked, Loaded,
       thread, Progress, Tasks
  <2> QED
    BY <2>1, <2>2, CalmStays
<1>5. ASSUME NEW c \in Callers, GoesOn(c) PROVE Calm'
  <2>1. CASE JobBegin(c)
    BY <2>1, CancelBegins DEF JobBegin, GoTo, devices, scsi, works
  <2>2. CASE ResizeHost(c) \/ ResizeUndo(c) \/ ResizeEnd(c)
    <3>1. UNCHANGED <<list, work, registered, step>> /\ step = "none"
      BY <2>2 DEF ResizeHost, ResizeUndo, ResizeEnd, devices, scsi, works, Progress
    <3> QED
      BY <3>1, CalmStays
  <2>3. CASE \/ Submit(c) \/ JobRefused(c) \/ JobAllowed(c) \/ JobNothingToDo(c)
             \/ UnlockJob(c) \/ ReadResult(c) \/ ReleaseChanger(c)
    BY <2>3, CalmStays DEF Submit, JobRefused, JobAllowed, JobNothingToDo, UnlockJob,
       ReadResult, ReleaseChanger, devices, scsi, works, thread
  <2> QED
    BY <1>5, <2>1, <2>2, <2>3 DEF GoesOn
<1> QED
  BY <1>1, <1>2, <1>3, <1>4, <1>5, HandlerCalm, RegisterCalm, TearDownCalm DEF Next

\* No platform device is unregistered before deferred bring-up and scan are over on
\* every host and every host is removed (vtl_quiesce_all_hosts and its caller).
THEOREM QuietTeardown == Spec => []QuietBeforeUnregister
<1>1. Init => Progress /\ Calm
  BY Begins DEF Init, Calm, Listed, Over, Work
<1>2. Progress /\ Calm /\ [Next]_vars => Progress' /\ Calm'
  BY ProgressKept, CalmKept
<1>3. Calm => QuietBeforeUnregister
  <2>1. \A w \in Work : \E h \in Hosts : w = <<h, "bringup">> \/ w = <<h, "scan">>
    BY DEF Work
  <2> QED
    BY <2>1 DEF Calm, QuietBeforeUnregister, Over
<1> QED
  BY <1>1, <1>2, <1>3, PTL DEF Spec

-----------------------------------------------------------------------------
(* Pointers of ioctls                                                      *)

\* The administrator may write N to allow_hot_geom.
Lowered == <<"allow_hot_geom", FALSE>> \in Writes

\* Only rmmod, which waits for every ioctl, and a job, which hotGeom allows, free
\* changers.
Pointers ==
    /\ list \in Seq(Hosts)
    /\ held = [c \in Callers |-> held[c]]
    /\ \A c \in Callers : pc[c] # "using" => held[c] = NoHost
    /\ task \in {"off", "init", "exit"} => \A c \in Callers : pc[c] = "idle"
    /\ \/ Lowered \/ hotGeom
       \/ /\ task \notin {"check", "teardown", "set", "rollback"}
          /\ \A c \in Callers : pc[c] # "allowed"
    /\ step = "count" => task = "check"
    /\ Lowered \/ PointersLive

\* The thread goes on, and frees nothing.
LEMMA ThreadPointers ==
    ASSUME Pointers, list' \in Seq(Hosts), UNCHANGED <<held, pc, hotGeom>>,
           \/ task' = task \/ task' = "none"
           \/ task \in {"init", "exit"} /\ task' \in {"off", "exit"}
           \/ task \in {"check", "teardown", "set"} /\ task' \in {"teardown", "set", "rollback"},
           step' = "count" => task' = "check"
    PROVE  Pointers'
  BY DEF Pointers, PointersLive

LEMMA FreePointers ==
    ASSUME Pointers, NEW h \in Hosts, Detach(h), task # "none", list' \in Seq(Hosts),
           UNCHANGED <<pc, task, hotGeom>>, step' # "count", task \in Tasks
    PROVE  Pointers'
<1>1. held' = Freed(h) /\ h # NoHost
  BY DEF Detach, Hosts, NoHost
<1>2. \A c \in Callers : held[c] = NoHost => held'[c] = NoHost
  BY <1>1 DEF Freed
<1>3. CASE Lowered \/ hotGeom
  BY <1>1, <1>2, <1>3 DEF Freed, Pointers, PointersLive
<1>4. CASE ~Lowered /\ ~hotGeom
  <2>1. \A c \in Callers : held[c] = NoHost
    BY <1>4 DEF Pointers, Tasks
  <2> QED
    BY <1>1, <1>2, <1>4, <2>1 DEF Freed, Pointers, PointersLive, NoHost, Dangling
<1> QED
  BY <1>3, <1>4

LEMMA PointersKept == ASSUME Progress, Calm, Pointers, [Next]_vars PROVE Pointers'
<1>1. list' \in Seq(Hosts)
  BY CalmKept DEF Calm
<1>2. ASSUME UNCHANGED <<held, pc, hotGeom, task, step>> PROVE Pointers'
  BY <1>1, <1>2 DEF Pointers, PointersLive
<1>3. CASE UNCHANGED vars \/ Traffic \/ \E h \in Hosts : CommandEnd(h)
  BY <1>2, <1>3 DEF vars, Traffic, ScanByHand, CommandStart, CommandEnd, thread, params, calls
<1>12. CASE Administration
  <2>1. PICK w \in Writes : WriteParam(w[1], w[2])
    BY <1>12 DEF Administration
  <2>2. Lowered \/ (hotGeom => hotGeom')
    <3>1. w = <<w[1], w[2]>> /\ w[2] \in BOOLEAN
      BY HostAssumption DEF HostAssumption
    <3>2. w[1] = "allow_hot_geom" => Lowered \/ w[2] = TRUE
      BY <3>1 DEF Lowered
    <3> QED
      BY <2>1, <3>2 DEF WriteParam
  <2>3. UNCHANGED <<held, pc, task, step>>
    BY <2>1 DEF WriteParam, thread, calls
  <2> QED
    BY <1>1, <2>2, <2>3 DEF Pointers, PointersLive
<1>4. ASSUME NEW w \in Work, Handler(w) PROVE Pointers'
  BY <1>2, <1>4 DEF Handler, BringupStart, BringupLock, BringupOut, BringupAdd, BringupAddFails,
     ScanStart, Scan, ScanEnd, thread, params, calls
<1>5. CASE Load
  <2>1. /\ task = "off" /\ task' = "init" /\ step' = "table" /\ UNCHANGED <<held, pc>>
    BY <1>5 DEF Load, Insmod, GoTo, calls
  <2>2. \A c \in Callers : held[c] = NoHost
    BY <2>1 DEF Pointers
  <2> QED
    BY <1>1, <2>1, <2>2 DEF Pointers, PointersLive, NoHost, Dangling
<1>6. CASE Rmmod
  BY <1>1, <1>6 DEF Rmmod, GoTo, params, calls, Pointers, PointersLive
<1>7. CASE Register
  BY <1>1, <1>7, ThreadPointers DEF Register, RegisterBegin, RegisterDevice, ProbeFails,
     DeviceFails, GoTo, params, calls
<1>8. CASE TearDown
  <2>1. CASE Quiesce \/ CancelWork \/ CancelEnd \/ RemoveEnd
    BY <1>1, <2>1, ThreadPointers DEF Quiesce, CancelWork, CancelEnd, RemoveEnd, GoTo, params,
       calls
  <2>2. step # "none" => task # "none"
    BY DEF Progress
  <2>3. CASE RemoveHost
    <3>1. at \in 1 .. Len(list) /\ list[at] \in Hosts
      BY <2>3 DEF RemoveHost, Progress, Calm
    <3>2. CASE Detach(list[at])
      BY <1>1, <2>2, <2>3, <3>1, <3>2, FreePointers DEF RemoveHost, GoTo, params, Progress
    <3> QED
      BY <1>1, <2>3, <3>2, ThreadPointers DEF RemoveHost, GoTo, params
  <2>4. CASE Unregister
    <3>1. at \in Hosts
      BY <2>4, GeometryAt DEF Unregister, Progress
    <3>2. CASE Detach(at)
      BY <1>1, <2>2, <2>4, <3>1, <3>2, FreePointers DEF Unregister, GoTo, params, Progress
    <3> QED
      BY <1>1, <2>4, <3>2, ThreadPointers DEF Unregister, GoTo, params
  <2> QED
    BY <1>8, <2>1, <2>3, <2>4 DEF TearDown
<1>9. CASE Thread /\ ~Register /\ ~TearDown
  <2>1. CASE InsmodEnd \/ JobRebuilds \/ JobRollsBack
    BY <1>1, <2>1, ThreadPointers DEF InsmodEnd, JobRebuilds, JobRollsBack, Tune, GoTo, params,
       calls
  <2>2. CASE JobTearsDown
    BY <1>1, <2>2, ThreadPointers DEF JobTearsDown, GoTo, params, calls, Pointers
  <2>3. CASE ModuleGone
    <3>1. task \in {"init", "exit"}
      BY <2>3 DEF ModuleGone
    <3> QED
      BY <1>1, <2>3, <3>1, ThreadPointers DEF ModuleGone, GoTo, params, calls
  <2>4. ASSUME NEW c \in Callers,
               JobBusy(c) \/ JobSucceeds(c) \/ RollbackSucceeds(c) \/ RollbackFails(c)
        PROVE  Pointers'
    <3>1. /\ pc[c] = "allowed" /\ pc' = [pc EXCEPT ![c] = "woken"]
          /\ task' = "none" /\ step' = "none" /\ UNCHANGED <<held, hotGeom>>
      BY <2>4 DEF JobBusy, JobSucceeds, RollbackSucceeds, RollbackFails, JobEnds, Answer, GoTo,
         Tune, params
    <3> QED
      BY <1>1, <3>1 DEF Pointers, PointersLive, Progress
  <2> QED
    BY <1>9, <2>1, <2>2, <2>3, <2>4 DEF Thread
<1>10. ASSUME NEW c \in Callers, Call(c) PROVE Pointers'
  <2>1. ASSUME NEW s \in Specs, ResizeNothing(c, s) PROVE Pointers'
    BY <1>2, <2>1 DEF ResizeNothing, thread, params, calls
  <2>2. ASSUME NEW x, pc' = [pc EXCEPT ![c] = x], x \notin {"using", "allowed"},
               pc[c] # "using", Loaded, UNCHANGED <<held, task, step, hotGeom>>
        PROVE  Pointers'
    BY <1>1, <2>2 DEF Loaded, Pointers, PointersLive, Progress
  <2>3. ASSUME NEW s \in Specs, CallSet(c, s) \/ ResizeBegin(c, s) PROVE Pointers'
    BY <2>2, <2>3 DEF CallSet, ResizeBegin, thread, params
  <2>4. ASSUME NEW i \in Hosts, GetChanger(c, i) PROVE Pointers'
    <3>1. list[i] \in Hosts /\ list[i] # Dangling
      <4>1. i \in 1 .. Len(list)
        BY <2>4, HostAssumption DEF HostAssumption, GetChanger, Calm, Hosts
      <4>2. list[i] \in Hosts
        BY <4>1 DEF Calm
      <4> QED
        BY <4>2 DEF Hosts, Dangling
    <3> QED
      BY <1>1, <2>4, <3>1 DEF GetChanger, Loaded, thread, params, Pointers, PointersLive,
         Progress
  <2> QED
    BY <1>10, <2>1, <2>3, <2>4 DEF Call
<1>11. ASSUME NEW c \in Callers, GoesOn(c) PROVE Pointers'
  <2>1. ASSUME NEW x, pc' = [pc EXCEPT ![c] = x], pc[c] \notin {"using", "idle"},
               x # "using", x = "allowed" => hotGeom,
               UNCHANGED <<held, task, step, hotGeom>>
        PROVE  Pointers'
    BY <1>1, <2>1 DEF Pointers, PointersLive, Progress
  <2>2. CASE \/ Submit(c) \/ JobRefused(c) \/ JobAllowed(c) \/ JobNothingToDo(c)
             \/ UnlockJob(c) \/ ReadResult(c)
    BY <2>1, <2>2 DEF Submit, JobRefused, JobAllowed, JobNothingToDo, Answer, UnlockJob,
       ReadResult, thread, params
  <2>3. CASE JobBegin(c)
    BY <1>1, <2>3 DEF JobBegin, GoTo, params, calls, Pointers, PointersLive
  <2>4. CASE ResizeHost(c) \/ ResizeUndo(c)
    BY <1>2, <2>1, <2>4 DEF ResizeHost, ResizeUndo, params, calls
  <2>5. CASE ResizeEnd(c)
    <3>1. /\ pc' = [pc EXCEPT ![c] = "idle"] /\ pc[c] \notin {"using", "idle"}
          /\ UNCHANGED <<held, task, step, hotGeom>>
      BY <2>5 DEF ResizeEnd, params
    <3> QED
      BY <1>1, <3>1 DEF Pointers, PointersLive, Progress
  <2>6. CASE ReleaseChanger(c)
    <3>1. /\ pc[c] = "using" /\ pc' = [pc EXCEPT ![c] = "idle"]
          /\ held' = [held EXCEPT ![c] = NoHost] /\ UNCHANGED <<task, step, hotGeom>>
      BY <2>6 DEF ReleaseChanger, thread, params
    <3>2. pc = [d \in Callers |-> pc[d]] /\ NoHost # Dangling
      BY DEF Progress, NoHost, Dangling
    <3> QED
      BY <1>1, <3>1, <3>2 DEF Pointers, PointersLive
  <2> QED
    BY <1>11, <2>2, <2>3, <2>4, <2>5, <2>6 DEF GoesOn
<1> QED
  BY <1>3, <1>4, <1>5, <1>6, <1>7, <1>8, <1>9, <1>10, <1>11, <1>12 DEF Next

\* As long as allow_hot_geom has been N since insmod, no ioctl is left with a
\* freed changer (vtl_changer_get_instance and its callers).  The administrator
\* may write the parameters, but never N to this one: a rebuild that Y has let in
\* would go on and free changers.
THEOREM NoFreedChanger ==
    ASSUME <<"allow_hot_geom", FALSE>> \notin Writes PROVE Spec => []PointersLive
<1>1. Init => Progress /\ Calm /\ Pointers
  BY Begins DEF Init, Calm, Listed, Over, Work, Pointers, PointersLive, NoHost, Dangling
<1>2. Progress /\ Calm /\ Pointers /\ [Next]_vars => Progress' /\ Calm' /\ Pointers'
  BY ProgressKept, CalmKept, PointersKept
<1>3. Pointers => PointersLive
  BY DEF Pointers, Lowered
<1> QED
  BY <1>1, <1>2, <1>3, PTL DEF Spec

-----------------------------------------------------------------------------
(* One host at a time                                                      *)

\* Whoever is inside the full bring-up of a host has the mutex.
Holding == {"add", "scan", "scanning", "out"}
OneHolds ==
    /\ serialFull = TRUE /\ work = [w \in Work |-> work[w]]
    /\ \A h \in Hosts : work[<<h, "bringup">>] \in Holding => fullMutex = h

\* Works are begun, dropped and scheduled anew without the mutex.
LEMMA HoldingStays ==
    ASSUME OneHolds, UNCHANGED <<fullMutex, serialFull>>, NEW w, NEW x, x \notin Holding,
           work' = work \/ work' = [work EXCEPT ![w] = x]
    PROVE  OneHolds'
  BY DEF OneHolds, Work

LEMMA HandlerHolds == ASSUME OneHolds, NEW w \in Work, Handler(w) PROVE OneHolds'
<1>1. PICK h \in Hosts : w = <<h, "bringup">> \/ w = <<h, "scan">>
  BY DEF Work
<1>2. serialFull' = serialFull /\ h # NoHost
      /\ <<h, "bringup">> \in Work /\ <<h, "scan">> \in Work
  BY DEF Handler, BringupStart, BringupLock, BringupOut, BringupAdd, BringupAddFails, ScanStart,
     Scan, ScanEnd, params, Hosts, NoHost, Work
<1>3. CASE BringupStart(h)
  BY <1>2, <1>3, HoldingStays DEF BringupStart, Holding, OneHolds
<1>4. CASE BringupLock(h)
  <2>1. /\ fullMutex = NoHost /\ fullMutex' = h
        /\ work' = [work EXCEPT ![<<h, "bringup">>] = "add"]
    BY <1>4 DEF BringupLock, OneHolds
  <2>2. ASSUME NEW g \in Hosts, g # h PROVE work'[<<g, "bringup">>] \notin Holding
    <3>1. g # NoHost /\ <<g, "bringup">> \in Work
      BY HostAssumption DEF HostAssumption, Hosts, NoHost, Work
    <3>2. work'[<<g, "bringup">>] = work[<<g, "bringup">>]
      BY <2>1, <2>2, <3>1 DEF OneHolds
    <3> QED
      BY <2>1, <3>1, <3>2 DEF OneHolds
  <2> QED
    BY <1>2, <2>1, <2>2 DEF OneHolds
<1>5. CASE BringupAdd(h) \/ BringupAddFails(h)
  BY <1>2, <1>5 DEF BringupAdd, BringupAddFails, OneHolds, Holding, Work
<1>6. CASE BringupOut(h)
  <2>1. /\ fullMutex = h /\ work' = [work EXCEPT ![<<h, "bringup">>] = "none"]
    BY <1>6 DEF BringupOut, OneHolds, Holding
  <2> QED
    BY <1>2, <2>1 DEF OneHolds, Holding, Work
<1>7. CASE ScanStart(h)
  BY <1>2, <1>7, HoldingStays DEF ScanStart, OneHolds, Holding
<1>8. CASE Scan(w) \/ ScanEnd(w)
  <2>1. UNCHANGED fullMutex /\ w[1] = h
    BY <1>1, <1>8 DEF Scan, ScanEnd
  <2>2. CASE work[w] \in Holding
    <3>1. PICK x : work' = [work EXCEPT ![w] = x]
      BY <1>8 DEF Scan, ScanEnd
    <3>2. work' = [v \in Work |-> IF v = w THEN x ELSE work[v]]
      BY <3>1 DEF OneHolds
    <3> QED
      BY <1>2, <2>1, <2>2, <3>2 DEF OneHolds, Work
  <2>3. work[w] \in Holding
    BY <1>8 DEF Scan, ScanEnd, Holding
  <2> QED
    BY <2>2, <2>3
<1> QED
  BY <1>1, <1>3, <1>4, <1>5, <1>6, <1>7, <1>8 DEF Handler, Work

\* The administrator does not write N to serial_full_bringup.
NeverLowered == <<"serial_full_bringup", FALSE>> \notin Writes

LEMMA WritesKeepSerial ==
    ASSUME NeverLowered, Administration
    PROVE  /\ UNCHANGED <<geometry, devices, scsi, works, flags, thread, calls>>
           /\ serialFull = TRUE => serialFull' = TRUE
<1>1. PICK w \in Writes : WriteParam(w[1], w[2])
  BY DEF Administration
<1>2. w = <<w[1], w[2]>> /\ w[2] \in BOOLEAN
  BY HostAssumption DEF HostAssumption
<1>3. w[1] = "serial_full_bringup" => w[2] = TRUE
  BY <1>2 DEF NeverLowered
<1> QED
  BY <1>1, <1>3 DEF WriteParam

LEMMA HoldsKept ==
    ASSUME SerialFull \subseteq {TRUE}, NeverLowered, OneHolds, [Next]_vars PROVE OneHolds'
<1>1. CASE Thread
  <2>1. CASE RegisterDevice \/ CancelWork
    <3>1. PICK w : \E x \in {"pending", "none"} : work' = [work EXCEPT ![w] = x]
      BY <2>1 DEF RegisterDevice, CancelWork
    <3>2. PICK x \in {"pending", "none"} : work' = [work EXCEPT ![w] = x]
      BY <3>1
    <3>3. x \notin Holding /\ UNCHANGED <<fullMutex, serialFull>>
      BY <2>1 DEF RegisterDevice, CancelWork, params, Holding
    <3> QED
      BY <3>2, <3>3, HoldingStays
  <2>2. CASE Unregister
    <3>1. /\ UNCHANGED <<fullMutex, serialFull>>
          /\ \/ work' = work
             \/ work' = [work EXCEPT ![<<at, "bringup">>] = "none", ![<<at, "scan">>] = "none"]
      BY <2>2 DEF Unregister, params
    <3> QED
      BY <3>1 DEF OneHolds, Holding, Work
  <2>3. CASE ~RegisterDevice /\ ~CancelWork /\ ~Unregister
    <3>1. UNCHANGED <<work, fullMutex>> /\ serialFull' = TRUE
      BY <1>1, <2>3 DEF Thread, Register, TearDown, RegisterBegin, ProbeFails, DeviceFails,
         Quiesce,
         CancelEnd, RemoveHost, RemoveEnd, InsmodEnd, ModuleGone, JobTearsDown, JobRebuilds,
         JobRollsBack, JobBusy, JobSucceeds, RollbackSucceeds, RollbackFails, Tune, works, params,
         OneHolds
    <3> QED
      BY <3>1 DEF OneHolds
  <2> QED
    BY <2>1, <2>2, <2>3
<1>2. CASE UNCHANGED vars \/ Load \/ Rmmod \/ Traffic \/ \E h \in Hosts : CommandEnd(h)
  BY <1>2 DEF vars, Load, Insmod, Rmmod, Traffic, ScanByHand, CommandStart, CommandEnd, works,
     params, OneHolds
<1>4. CASE Administration
  BY <1>4, WritesKeepSerial DEF works, OneHolds
<1>3. ASSUME NEW c \in Callers, Call(c) \/ GoesOn(c) PROVE OneHolds'
  BY <1>3 DEF Call, CallSet, ResizeNothing, ResizeBegin, GetChanger, GoesOn, Submit,
     JobRefused, JobAllowed, JobNothingToDo, JobBegin, UnlockJob, ReadResult, ResizeHost,
     ResizeUndo, ResizeEnd, ReleaseChanger, works, params, OneHolds
<1> QED
  BY <1>1, <1>2, <1>3, <1>4, HandlerHolds DEF Next

\* With vtl_serial_full_bringup Y at insmod and no N written to it, one host at a
\* time is between scsi_add_host and the end of its scan, however many works
\* vtl_bringup_wq runs at once (vtl_host_bringup_handler).
THEOREM OneComesUp ==
    ASSUME SerialFull \subseteq {TRUE}, <<"serial_full_bringup", FALSE>> \notin Writes
    PROVE  Spec => []OneHostComesUp
<1>1. Init => OneHolds
  BY DEF Init, OneHolds, Holding, Work
<1>2. OneHolds /\ [Next]_vars => OneHolds'
  BY HoldsKept DEF NeverLowered
<1>3. OneHolds => OneHostComesUp
  <2> SUFFICES ASSUME OneHolds, NEW g \in Hosts, NEW h \in Hosts, g # h,
                      work[<<g, "bringup">>] \in {"add", "scan", "scanning"},
                      work[<<h, "bringup">>] \in {"add", "scan", "scanning"}
               PROVE  FALSE
    BY DEF OneHostComesUp
  <2> QED
    BY DEF OneHolds, Holding
<1> QED
  BY <1>1, <1>2, <1>3, PTL DEF Spec


-----------------------------------------------------------------------------
(* The list of hosts                                                       *)

\* Hosts are listed in their order, and only those that have been probed.
InOrder ==
    /\ \A i \in 1 .. Len(list) :
           i <= list[i] /\ list[i] <= Len(live) /\ pdev[list[i]] = "bound"
    /\ \A i, j \in 1 .. Len(list) : i < j => list[i] < list[j]

\* A changer has the size the module believes in, and its host is listed.
Accounts ==
    /\ changer = [h \in Hosts |-> changer[h]]
    /\ \A h \in Hosts : changer[h] # 0 =>
           Listed(h) /\ changer[h] = live[h] /\ changer[h] \in Drives

\* What the list holds while hosts are registered and unregistered.
Ledger ==
    /\ list \in Seq(Hosts) /\ pdev = [h \in Hosts |-> pdev[h]]
    /\ InOrder /\ Accounts
    /\ ~table \/ step = "table" \/ task = "off" => list = << >>
    /\ Building => step = "table" \/ table
    /\ step = "register" =>
           at <= Len(live) + 1 /\ \A i \in 1 .. Len(list) : list[i] < at
    /\ step = "unregister" => \A i \in 1 .. Len(list) : at <= list[i]

\* The list and what it is about stay, and no loop over it begins.
LEMMA LedgerStays ==
    ASSUME Ledger, UNCHANGED <<list, pdev, changer, live, table>>,
           step' = "table" \/ task' = "off" => step = "table" \/ task = "off",
           Building' => step' = "table" \/ table,
           step' \in {"register", "unregister"} => UNCHANGED <<step, at>>
    PROVE  Ledger'
  BY DEF Ledger, InOrder, Accounts, Listed

\* Without a listed host there is nothing to go by.
LEMMA NothingListed ==
    ASSUME list = << >>, list' = << >>, UNCHANGED <<pdev, changer>>, Ledger, live' \in AnyGeometry,
           step' = "table" \/ (step' = "none" /\ task' \in {"off", "none"})
    PROVE  Ledger'
<1>1. << >> \in Seq(Hosts) /\ Len(list') = 0
  OBVIOUS
<1>2. InOrder'
  BY <1>1 DEF InOrder
<1>3. \A h \in Hosts : changer[h] = 0
  <2> SUFFICES ASSUME NEW h \in Hosts, changer[h] # 0 PROVE FALSE
    OBVIOUS
  <2>1. Listed(h)
    BY DEF Ledger, Accounts
  <2> QED
    BY <2>1 DEF Listed
<1>4. Accounts'
  BY <1>3 DEF Ledger, Accounts
<1> QED
  BY <1>1, <1>2, <1>4 DEF Ledger, Building

\* When the loop that unregisters is over, nothing is listed.
LEMMA UnregisteredIsEmpty == ASSUME Progress, Ledger, Unregistered PROVE list = << >>
<1>1. list \in Seq(Hosts) /\ Len(list) \in Nat /\ Len(live) \in Nat /\ at \in Nat
  BY DEF Ledger, Progress, AnyGeometry
<1>2. CASE ~table
  BY <1>2 DEF Ledger
<1>3. CASE at > Len(live)
  <2>1. ASSUME Len(list) > 0 PROVE FALSE
    <3>1. 1 \in 1 .. Len(list)
      BY <1>1, <2>1
    <3>2. at <= list[1]
      BY <3>1 DEF Ledger, Unregistered
    <3>3. list[1] <= Len(live)
      BY <3>1 DEF Ledger, InOrder
    <3>4. list[1] \in Int
      BY <1>1, <3>1, HostAssumption DEF HostAssumption, Hosts
    <3> QED
      BY <1>1, <1>3, <3>2, <3>3, <3>4
  <2>2. Len(list) = 0
    BY <1>1, <2>1
  <2> QED
    BY <1>1, <2>2
<1> QED
  BY <1>2, <1>3 DEF Unregistered


LEMMA RegisterDeviceLedger == ASSUME Progress, Ledger, RegisterDevice PROVE Ledger'
<1>1. /\ at \in Nat /\ at >= 1 /\ at <= Len(live) /\ Len(live) \in Nat /\ at \in Hosts
      /\ live[at] \in Drives /\ list \in Seq(Hosts) /\ Len(list) \in Nat
      /\ Building /\ step = "register" /\ table
      /\ \A i \in 1 .. Len(list) : list[i] < at /\ list[i] \in Hosts /\ list[i] \in Int
  <2>1. at \in Nat /\ at >= 1 /\ at <= Len(live) /\ Building /\ step = "register"
    BY DEF RegisterDevice, Progress
  <2>2. list \in Seq(Hosts) /\ \A i \in 1 .. Len(list) : list[i] < at
    BY <2>1 DEF Ledger
  <2>3. \A i \in 1 .. Len(list) : list[i] \in Hosts /\ list[i] \in Int
    BY <2>2, HostAssumption DEF HostAssumption, Hosts
  <2>4. table
    BY <2>1 DEF Ledger
  <2>5. Len(live) \in Nat /\ at \in Hosts
    BY <2>1, GeometryAt DEF Progress, AnyGeometry
  <2>6. live[at] \in Drives
    BY DEF RegisterDevice, Drives
  <2> QED
    BY <2>1, <2>2, <2>3, <2>4, <2>5, <2>6
<1>2. /\ pdev' = [pdev EXCEPT ![at] = "bound"] /\ changer' = [changer EXCEPT ![at] = live[at]]
      /\ list' = Append(list, at) /\ UNCHANGED <<live, table, task>>
      /\ step' = "register" /\ at' = at + 1
  BY DEF RegisterDevice, GoTo, geometry
<1>3. /\ list' \in Seq(Hosts) /\ Len(list') = Len(list) + 1
      /\ \A i \in 1 .. Len(list) : list'[i] = list[i]
      /\ list'[Len(list) + 1] = at
  BY <1>1, <1>2, AppendProperties
<1>4. Len(list) < at
  <2>1. CASE Len(list) = 0
    BY <1>1, <2>1
  <2>2. CASE Len(list) > 0
    <3>1. Len(list) \in 1 .. Len(list)
      BY <1>1, <2>2
    <3>2. Len(list) <= list[Len(list)] /\ list[Len(list)] < at
      BY <1>1, <3>1 DEF Ledger, InOrder
    <3> QED
      BY <1>1, <3>1, <3>2
  <2> QED
    BY <1>1, <2>1, <2>2
<1>5. /\ pdev' = [h \in Hosts |-> IF h = at THEN "bound" ELSE pdev[h]]
      /\ changer' = [h \in Hosts |-> IF h = at THEN live[at] ELSE changer[h]]
  BY <1>2 DEF Ledger, Accounts
<1>6. \A i \in 1 .. Len(list') : i \in 1 .. Len(list) \/ (i = Len(list) + 1 /\ list'[i] = at)
  <2> SUFFICES ASSUME NEW i \in 1 .. Len(list'), i \notin 1 .. Len(list)
               PROVE  i = Len(list) + 1 /\ list'[i] = at
    OBVIOUS
  <2>1. i = Len(list) + 1
    BY <1>1, <1>3
  <2> QED
    BY <1>3, <2>1
<1>7. ASSUME NEW i \in 1 .. Len(list')
      PROVE  /\ i <= list'[i] /\ list'[i] <= Len(live') /\ pdev'[list'[i]] = "bound"
             /\ list'[i] < at'
  <2>1. CASE i \in 1 .. Len(list)
    <3>1. i <= list[i] /\ list[i] <= Len(live) /\ pdev[list[i]] = "bound"
      BY <2>1 DEF Ledger, InOrder
    <3> QED
      BY <1>1, <1>2, <1>3, <1>5, <2>1, <3>1
  <2>2. CASE i = Len(list) + 1 /\ list'[i] = at
    BY <1>1, <1>2, <1>4, <1>5, <2>2
  <2> QED
    BY <1>6, <2>1, <2>2
<1>8. ASSUME NEW i \in 1 .. Len(list'), NEW j \in 1 .. Len(list'), i < j
      PROVE  list'[i] < list'[j]
  <2>1. i \in 1 .. Len(list)
    BY <1>1, <1>3, <1>8
  <2>2. CASE j \in 1 .. Len(list)
    <3>1. list[i] < list[j]
      BY <1>8, <2>1, <2>2 DEF Ledger, InOrder
    <3> QED
      BY <1>3, <2>1, <2>2, <3>1
  <2>3. CASE list'[j] = at
    BY <1>1, <1>3, <2>1, <2>3
  <2> QED
    BY <1>6, <2>2, <2>3
<1>9. InOrder'
  BY <1>7, <1>8 DEF InOrder
<1>10. Accounts'
  <2>1. ASSUME NEW h \in Hosts, changer'[h] # 0
        PROVE  Listed(h)' /\ changer'[h] = live'[h] /\ changer'[h] \in Drives
    <3>1. CASE h = at
      <4>1. Len(list) + 1 \in 1 .. Len(list')
        BY <1>1, <1>3
      <4> QED
        BY <1>1, <1>2, <1>3, <1>5, <3>1, <4>1 DEF Listed
    <3>2. CASE h # at
      <4>1. Listed(h) /\ changer[h] = live[h] /\ changer[h] \in Drives
        BY <1>5, <2>1, <3>2 DEF Ledger, Accounts
      <4>2. PICK i \in 1 .. Len(list) : list[i] = h
        BY <4>1 DEF Listed
      <4>3. i \in 1 .. Len(list')
        BY <1>1, <1>3
      <4> QED
        BY <1>2, <1>3, <1>5, <3>2, <4>1, <4>2, <4>3 DEF Listed
    <3> QED
      BY <3>1, <3>2
  <2> QED
    BY <1>5, <2>1 DEF Accounts
<1>11. Len(live') = Len(live) /\ at' <= Len(live') + 1 /\ task' # "off"
  BY <1>1, <1>2 DEF Building
<1>12. pdev' = [h \in Hosts |-> pdev'[h]] /\ table'
  BY <1>1, <1>2, <1>5
<1> QED
  BY <1>2, <1>3, <1>7, <1>9, <1>10, <1>11, <1>12 DEF Ledger


\* list_del of the first host listed, the others being behind it.
LEMMA UnlistedFirst ==
    ASSUME NEW s \in Seq(Hosts), NEW h \in Hosts,
           \A i \in 1 .. Len(s) : h <= s[i],
           \A i, j \in 1 .. Len(s) : i < j => s[i] < s[j]
    PROVE  /\ Unlisted(s, h) \in Seq(Hosts)
           /\ \/ Unlisted(s, h) = s /\ \A i \in 1 .. Len(s) : s[i] # h
              \/ /\ Len(s) > 0 /\ s[1] = h /\ Len(Unlisted(s, h)) = Len(s) - 1
                 /\ \A i \in 1 .. Len(s) - 1 : Unlisted(s, h)[i] = s[i + 1]
<1>1. Len(s) \in Nat /\ DOMAIN s = 1 .. Len(s) /\ h \in Int
  BY HostAssumption DEF HostAssumption, Hosts
<1>2. CASE h \notin ToSet(s)
  BY <1>1, <1>2 DEF Unlisted, ToSet
<1>3. CASE h \in ToSet(s)
  <2> DEFINE k == CHOOSE i \in DOMAIN s : s[i] = h
  <2>1. \E i \in DOMAIN s : s[i] = h
    BY <1>3 DEF ToSet
  <2>2. k \in 1 .. Len(s) /\ s[k] = h
    BY <1>1, <2>1
  <2>3. Unlisted(s, h) = RemoveAt(s, k)
    BY <1>3 DEF Unlisted
  <2> HIDE DEF k
  <2>4. k = 1
    <3>1. ASSUME k # 1 PROVE FALSE
      <4>1. 1 \in 1 .. Len(s) /\ 1 < k
        BY <1>1, <2>2, <3>1
      <4>2. s[1] < s[k] /\ h <= s[1]
        BY <2>2, <4>1
      <4>3. s[1] \in Int
        BY <4>1, HostAssumption DEF HostAssumption, Hosts
      <4> QED
        BY <1>1, <2>2, <4>2, <4>3
    <3> QED
      BY <3>1
  <2>5. Len(s) > 0 /\ s[1] = h
    BY <1>1, <2>2, <2>4
  <2>6. /\ SubSeq(s, 2, Len(s)) \in Seq(Hosts) /\ Len(SubSeq(s, 2, Len(s))) = Len(s) - 1
        /\ \A i \in 1 .. Len(s) - 1 : SubSeq(s, 2, Len(s))[i] = s[i + 1]
    <3>1. \A i \in 2 .. Len(s) : s[i] \in Hosts
      BY <1>1
    <3>2. /\ SubSeq(s, 2, Len(s)) \in Seq(Hosts)
          /\ Len(SubSeq(s, 2, Len(s))) = IF 2 <= Len(s) THEN Len(s) - 2 + 1 ELSE 0
          /\ \A i \in 1 .. Len(s) - 2 + 1 : SubSeq(s, 2, Len(s))[i] = s[2 + i - 1]
      BY <1>1, <3>1, SubSeqProperties
    <3>3. \A i \in 1 .. Len(s) - 1 : 2 + i - 1 = i + 1
      BY <1>1
    <3> QED
      BY <1>1, <2>5, <3>2, <3>3
  <2>7. SubSeq(s, 1, 0) = << >>
    BY <1>1
  <2>8. Unlisted(s, h) = SubSeq(s, 2, Len(s))
    <3>1. Unlisted(s, h) = SubSeq(s, 1, 0) \o SubSeq(s, 2, Len(s))
      BY <2>3, <2>4 DEF RemoveAt
    <3> QED
      BY <2>6, <2>7, <3>1
  <2> QED
    BY <2>5, <2>6, <2>8
<1> QED
  BY <1>2, <1>3

LEMMA UnregisterLedger == ASSUME Progress, Ledger, Unregister PROVE Ledger'
<1>1. /\ at \in Nat /\ at >= 1 /\ at <= Len(live) /\ at \in Hosts
      /\ list \in Seq(Hosts) /\ Len(list) \in Nat
      /\ \A i \in 1 .. Len(list) : at <= list[i] /\ list[i] \in Hosts /\ list[i] \in Int
      /\ \A i, j \in 1 .. Len(list) : i < j => list[i] < list[j]
      /\ \A i \in 1 .. Len(list) : i <= list[i] /\ list[i] <= Len(live) /\ pdev[list[i]] = "bound"
  <2>1. at \in Nat /\ at >= 1 /\ at <= Len(live) /\ step = "unregister"
    BY DEF Unregister, Progress
  <2>2. list \in Seq(Hosts) /\ \A i \in 1 .. Len(list) : at <= list[i]
    BY <2>1 DEF Ledger
  <2>3. \A i \in 1 .. Len(list) : list[i] \in Hosts /\ list[i] \in Int
    BY <2>2, HostAssumption DEF HostAssumption, Hosts
  <2>4. at \in Hosts
    BY <2>1, GeometryAt DEF Progress
  <2> QED
    BY <2>1, <2>2, <2>3, <2>4 DEF Ledger, InOrder
<1>2. /\ step' = "unregister" /\ at' = at + 1 /\ UNCHANGED <<live, table, task>> /\ table
      /\ pdev' = [pdev EXCEPT ![at] = "none"]
  BY DEF Unregister, GoTo, geometry
<1>3. pdev' = [h \in Hosts |-> IF h = at THEN "none" ELSE pdev[h]]
  BY <1>2 DEF Ledger
<1>4. CASE \A i \in 1 .. Len(list) : list[i] # at
  <2>1. list' = list /\ (changer' = changer \/ changer' = [changer EXCEPT ![at] = 0])
    <3>1. ASSUME list' = Unlisted(list, at) PROVE list' = list
      <4>1. at \notin ToSet(list)
        BY <1>1, <1>4 DEF ToSet
      <4> QED
        BY <3>1, <4>1 DEF Unlisted
    <3> QED
      BY <3>1 DEF Unregister, Detach
  <2>2. \A i \in 1 .. Len(list) : at + 1 <= list[i] /\ pdev'[list[i]] = "bound"
    BY <1>1, <1>3, <1>4
  <2>3. InOrder'
    BY <1>1, <1>2, <2>1, <2>2 DEF InOrder
  <2>4. Accounts'
    BY <1>2, <2>1 DEF Ledger, Accounts, Listed
  <2>5. step' # "register" /\ (task' = "off" => list' = << >>) /\ table'
    BY <1>2, <2>1 DEF Ledger
  <2> QED
    BY <1>1, <1>2, <1>3, <2>1, <2>2, <2>3, <2>4, <2>5 DEF Ledger
<1>5. CASE \E i \in 1 .. Len(list) : list[i] = at
  <2>1. PICK i \in 1 .. Len(list) : list[i] = at
    BY <1>5
  <2>2. pdev[at] = "bound"
    BY <1>1, <2>1
  <2>3. list' = Unlisted(list, at) /\ changer' = [changer EXCEPT ![at] = 0]
    BY <2>2 DEF Unregister, Detach
  <2>4. /\ list' \in Seq(Hosts) /\ Len(list') = Len(list) - 1 /\ list[1] = at /\ Len(list) > 0
        /\ \A j \in 1 .. Len(list) - 1 : list'[j] = list[j + 1]
    BY SMTT(40), <1>1, <2>1, <2>3, UnlistedFirst
  <2>5. \A j \in 1 .. Len(list') : j + 1 \in 1 .. Len(list) /\ 1 < j + 1 /\ list'[j] = list[j + 1]
    BY <1>1, <2>4
  <2>6. \A j \in 1 .. Len(list') : at < list'[j] /\ list'[j] \in Hosts
    <3> SUFFICES ASSUME NEW j \in 1 .. Len(list')
                 PROVE  at < list[j + 1] /\ list[j + 1] \in Hosts
      BY <2>5
    <3>1. 1 \in 1 .. Len(list) /\ j + 1 \in 1 .. Len(list) /\ 1 < j + 1
      BY <1>1, <2>4, <2>5
    <3>2. list[1] < list[j + 1]
      BY <1>1, <3>1
    <3> QED
      BY <1>1, <2>4, <3>1, <3>2
  <2>7. ASSUME NEW j \in 1 .. Len(list')
        PROVE  /\ j <= list'[j] /\ list'[j] <= Len(live) /\ pdev'[list'[j]] = "bound"
               /\ at + 1 <= list'[j]
    <3>1. j + 1 <= list[j + 1] /\ list[j + 1] <= Len(live) /\ list[j + 1] \in Int
      BY <1>1, <2>5
    <3>2. j \in Int /\ list'[j] = list[j + 1] /\ at < list[j + 1]
      BY <2>5, <2>6
    <3>3. pdev[list[j + 1]] = "bound" /\ list[j + 1] \in Hosts /\ list[j + 1] # at
      BY SMTT(40), <1>1, <2>5, <3>2
    <3>4. pdev'[list'[j]] = "bound"
      BY <1>3, <3>2, <3>3
    <3> QED
      BY <1>1, <3>1, <3>2, <3>4
  <2>8. \A j, k \in 1 .. Len(list') : j < k => list'[j] < list'[k]
    <3> SUFFICES ASSUME NEW j \in 1 .. Len(list'), NEW k \in 1 .. Len(list'), j < k
                 PROVE  list[j + 1] < list[k + 1]
      BY <2>5
    <3>1. j + 1 \in 1 .. Len(list) /\ k + 1 \in 1 .. Len(list) /\ j + 1 < k + 1
      BY <2>5
    <3> QED
      BY <1>1, <3>1
  <2>9. InOrder'
    BY <1>2, <2>7, <2>8 DEF InOrder
  <2>10. Accounts'
    <3>1. changer' = [h \in Hosts |-> IF h = at THEN 0 ELSE changer[h]]
      BY <2>3 DEF Ledger, Accounts
    <3>2. ASSUME NEW h \in Hosts, changer'[h] # 0
          PROVE  Listed(h)' /\ changer'[h] = live'[h] /\ changer'[h] \in Drives
      <4>1. h # at /\ changer[h] # 0 /\ changer'[h] = changer[h]
        BY <3>1, <3>2
      <4>2. changer[h] = live[h] /\ Listed(h) /\ changer[h] \in Drives
        BY <4>1 DEF Ledger, Accounts
      <4>3. PICK j \in 1 .. Len(list) : list[j] = h
        BY <4>2 DEF Listed
      <4>4. j # 1
        BY <2>4, <4>1, <4>3
      <4>5. j - 1 \in 1 .. Len(list') /\ (j - 1) + 1 = j
        BY <1>1, <2>4, <4>4
      <4>6. list'[j - 1] = h
        BY <2>5, <4>3, <4>5
      <4> QED
        BY <1>2, <4>1, <4>2, <4>5, <4>6 DEF Listed
    <3> QED
      BY <3>1, <3>2 DEF Accounts
  <2>11. task # "off"
    BY <2>4 DEF Ledger
  <2> QED
    BY <1>2, <1>3, <2>4, <2>7, <2>9, <2>10, <2>11 DEF Ledger
<1> QED
  BY <1>4, <1>5


LEMMA RegisterLedger == ASSUME Progress, Ledger, Register PROVE Ledger'
<1>1. CASE RegisterBegin
  <2>1. /\ list = << >> /\ table' = TRUE /\ step' = "register" /\ at' = 1
        /\ UNCHANGED <<list, pdev, changer, live, task>> /\ Len(live) \in Nat /\ Building
    BY <1>1 DEF RegisterBegin, GoTo, devices, Ledger, Progress, AnyGeometry
  <2>2. Len(list) = 0
    BY <2>1
  <2> QED
    BY <2>1, <2>2 DEF Ledger, InOrder, Accounts, Listed, Building
<1>2. CASE ProbeFails
  <2>1. /\ UNCHANGED <<list, changer, live, table, task>> /\ step = "register" /\ step' = "register"
        /\ pdev' = [pdev EXCEPT ![at] = "unbound"] /\ at' = at + 1 /\ at <= Len(live)
        /\ at \in Nat /\ Len(live) \in Nat
    BY <1>2 DEF ProbeFails, GoTo, geometry, Progress, AnyGeometry
  <2>2. \A i \in 1 .. Len(list) : list[i] < at /\ list[i] \in Int /\ list[i] \in Hosts
    <3>1. \A i \in 1 .. Len(list) : list[i] < at /\ list[i] \in Hosts
      BY <2>1 DEF Ledger
    <3> QED
      BY <3>1, HostAssumption DEF HostAssumption, Hosts
  <2>3. /\ pdev' = [h \in Hosts |-> pdev'[h]]
        /\ \A i \in 1 .. Len(list) : pdev'[list[i]] = pdev[list[i]]
    <3>1. pdev = [h \in Hosts |-> pdev[h]]
      BY DEF Ledger
    <3>2. pdev' = [h \in Hosts |-> IF h = at THEN "unbound" ELSE pdev[h]]
      BY <2>1, <3>1
    <3>3. pdev' = [h \in Hosts |-> pdev'[h]]
      BY <3>2
    <3> QED
      BY <2>2, <3>2, <3>3
  <2>4. InOrder' /\ Accounts'
    BY <2>1, <2>3 DEF Ledger, InOrder, Accounts, Listed
  <2>5. at' <= Len(live') + 1 /\ \A i \in 1 .. Len(list') : list'[i] < at'
    BY <2>1, <2>2
  <2> QED
    BY <2>1, <2>3, <2>4, <2>5 DEF Ledger, Building
<1>3. CASE DeviceFails
  <2>1. step = "register" /\ step' = "quiesce" /\ UNCHANGED task
    BY <1>3 DEF DeviceFails, GoTo
  <2>2. Building' => table
    BY <2>1 DEF Ledger, Building
  <2> QED
    BY <1>3, <2>1, <2>2, LedgerStays DEF DeviceFails, GoTo, geometry, devices
<1> QED
  BY <1>1, <1>2, <1>3, RegisterDeviceLedger DEF Register

LEMMA TearDownLedger == ASSUME Progress, Ledger, TearDown PROVE Ledger'
<1>1. CASE Quiesce \/ CancelWork \/ CancelEnd
  <2>1. /\ UNCHANGED <<list, pdev, changer, live, table, task>>
        /\ step \in {"quiesce", "cancel"} /\ step' \in {"cancel", "count", "remove"}
    BY <1>1 DEF Quiesce, CancelWork, CancelEnd, GoTo, geometry, devices
  <2>2. Building' => table
    BY <2>1 DEF Ledger, Building
  <2> QED
    BY <2>1, <2>2, LedgerStays
<1>2. CASE RemoveHost
  <2>1. /\ UNCHANGED <<list, pdev, live, table, task, step>> /\ step = "remove"
        /\ changer' = changer \/ changer' = [changer EXCEPT ![list[at]] = 0]
    BY <1>2 DEF RemoveHost, Detach, GoTo, geometry
  <2>2. Accounts'
    BY <2>1 DEF Ledger, Accounts, Listed
  <2> QED
    BY <2>1, <2>2 DEF Ledger, InOrder, Building
<1>3. CASE RemoveEnd
  <2>1. /\ UNCHANGED <<list, pdev, changer, live, table, task>>
        /\ step = "remove" /\ step' = "unregister" /\ at' = 1
    BY <1>3 DEF RemoveEnd, GoTo, geometry, devices
  <2>2. \A i \in 1 .. Len(list) : 1 <= list[i]
    BY HostAssumption DEF HostAssumption, Hosts, Ledger
  <2> QED
    BY <2>1, <2>2 DEF Ledger, InOrder, Accounts, Listed, Building
<1> QED
  BY <1>1, <1>2, <1>3, UnregisterLedger DEF TearDown

LEMMA RestOfThreadLedger ==
    ASSUME Progress, Progress', Ledger, Thread, ~Register, ~TearDown PROVE Ledger'
<1>1. live' \in AnyGeometry
  BY DEF Progress
<1>2. RegisterFailed => list = << >>
  BY UnregisteredIsEmpty DEF RegisterFailed, Ledger
<1>3. CASE ModuleGone \/ JobRebuilds \/ JobRollsBack
  <2>1. list = << >>
    BY <1>2, <1>3, UnregisteredIsEmpty DEF ModuleGone, JobRebuilds, JobRollsBack, Ledger
  <2>2. UNCHANGED devices /\ (step' = "table" \/ (step' = "none" /\ task' \in {"off", "none"}))
    BY <1>3 DEF ModuleGone, JobRebuilds, JobRollsBack, GoTo
  <2> QED
    BY <1>1, <2>1, <2>2, NothingListed DEF devices
<1>4. CASE InsmodEnd \/ JobTearsDown
  <2>1. /\ UNCHANGED <<live, table, devices>> /\ step' \in {"none", "quiesce"}
        /\ task' \in {"none", "exit", "teardown"}
    BY <1>4 DEF InsmodEnd, JobTearsDown, GoTo, geometry
  <2> QED
    BY <2>1, LedgerStays DEF devices, Building
<1>5. ASSUME NEW c \in Callers, JobBusy(c) \/ JobSucceeds(c) \/ RollbackSucceeds(c)
      PROVE  Ledger'
  <2>1. UNCHANGED <<live, table, devices>> /\ step' = "none" /\ task' = "none"
    BY <1>5 DEF JobBusy, JobSucceeds, RollbackSucceeds, JobEnds, GoTo, geometry
  <2> QED
    BY <2>1, LedgerStays DEF devices, Building
<1>6. ASSUME NEW c \in Callers, RollbackFails(c) PROVE Ledger'
  <2>1. RegisterFailed /\ UNCHANGED devices /\ step' = "none" /\ task' = "none"
    BY <1>6 DEF RollbackFails, JobEnds, GoTo
  <2> QED
    BY <1>1, <1>2, <2>1, NothingListed DEF devices
<1> QED
  BY <1>3, <1>4, <1>5, <1>6 DEF Thread

\* RESIZE_GEOMETRY replaces the size of a changer and of the host at once.
LEMMA ResizedLedger ==
    ASSUME Progress, Ledger, NEW h \in Nat, h >= 1, h <= Len(target),
           Resized(h, target[h]) \/ NotResized(h, target[h]),
           UNCHANGED <<pdev, list, table, task, step>>, step = "none"
    PROVE  Ledger'
<1>1. Len(live') = Len(live)
  BY DEF Resized, NotResized, Progress, AnyGeometry
<1>2. Accounts'
  <2>1. CASE NotResized(h, target[h])
    BY <2>1 DEF NotResized, Ledger, Accounts, Listed
  <2>2. CASE Resized(h, target[h])
    <3> DEFINE n == Clamp(target[h], MaxDrives)
    <3>0. n \in Drives
      BY GeometryAt, ClampInRange DEF Progress
    <3>1. h \in Hosts /\ changer[h] # 0
      BY <2>2, GeometryAt DEF Resized, Progress
    <3>2. Listed(h)
      BY <3>1 DEF Ledger, Accounts
    <3>3. h \in 1 .. Len(live)
      <4>1. PICK i \in 1 .. Len(list) : list[i] = h
        BY <3>2 DEF Listed
      <4> QED
        BY <4>1 DEF Ledger, InOrder
    <3>4. /\ live' = [i \in 1 .. Len(live) |-> IF i = h THEN n ELSE live[i]]
          /\ changer' = [g \in Hosts |-> IF g = h THEN n ELSE changer[g]]
      <4>1. /\ live' = [live EXCEPT ![h] = n]
            /\ changer' = [changer EXCEPT ![h] = n]
        BY <2>2 DEF Resized
      <4>2. live = [i \in 1 .. Len(live) |-> live[i]]
        BY DEF Progress, AnyGeometry
      <4>3. changer = [g \in Hosts |-> changer[g]]
        BY DEF Ledger, Accounts
      <4>4. live' = [i \in 1 .. Len(live) |-> IF i = h THEN n ELSE live[i]]
        BY <4>1, <4>2
      <4> QED
        BY <4>1, <4>3, <4>4
    <3>5. ASSUME NEW g \in Hosts, changer'[g] # 0
          PROVE  Listed(g)' /\ changer'[g] = live'[g] /\ changer'[g] \in Drives
      <4>1. Listed(g) /\ (g # h => changer[g] = live[g] /\ changer[g] \in Drives)
        BY <3>2, <3>4, <3>5 DEF Ledger, Accounts
      <4>2. g \in 1 .. Len(live)
        <5>1. PICK i \in 1 .. Len(list) : list[i] = g
          BY <4>1 DEF Listed
        <5>2. g <= Len(live)
          BY <5>1 DEF Ledger, InOrder
        <5>3. g \in Nat /\ g >= 1
          BY HostAssumption DEF HostAssumption, Hosts
        <5>4. Len(live) \in Nat
          BY DEF Progress, AnyGeometry
        <5> QED
          BY <5>2, <5>3, <5>4
      <4> QED
        BY <3>0, <3>4, <4>1, <4>2 DEF Listed
    <3> QED
      BY <3>4, <3>5 DEF Accounts
  <2> QED
    BY <2>1, <2>2
<1> QED
  BY <1>1, <1>2 DEF Ledger, InOrder, Building

LEMMA CallerLedger ==
    ASSUME Progress, Ledger, NEW c \in Callers, Call(c) \/ GoesOn(c) PROVE Ledger'
<1>1. CASE ResizeHost(c) \/ ResizeUndo(c)
  <2>1. /\ at <= Len(target) /\ Resizer(c) /\ UNCHANGED <<pdev, list, table, task, step>>
        /\ Resized(at, target[at]) \/ NotResized(at, target[at])
    <3>1. CASE ResizeHost(c)
      BY <3>1 DEF ResizeHost, Resizer
    <3>2. CASE ResizeUndo(c)
      BY <3>2 DEF ResizeUndo, Resizer
    <3> QED
      BY <1>1, <3>1, <3>2
  <2>2. at \in Nat /\ at >= 1 /\ step = "none"
    BY <2>1 DEF Progress, Resizer
  <2> QED
    BY <2>1, <2>2, ResizedLedger
<1>2. CASE JobBegin(c)
  <2>1. UNCHANGED <<geometry, devices>> /\ task' = "check" /\ step' = "cancel"
    BY <1>2 DEF JobBegin, GoTo
  <2> QED
    BY <2>1, LedgerStays DEF geometry, devices, Building
<1>3. CASE ResizeEnd(c) \/ \E s \in Specs : ResizeBegin(c, s)
  <2>1. UNCHANGED <<live, table, devices, task, step>> /\ task \notin {"init", "set", "rollback"}
        /\ step = "none"
    <3>1. CASE ResizeEnd(c)
      BY <3>1 DEF ResizeEnd, Progress
    <3>2. ASSUME NEW s \in Specs, ResizeBegin(c, s) PROVE <2>1!1 /\ <2>1!2
      <4>1. task = "none" /\ UNCHANGED <<live, table, devices, task, step>>
        BY <3>2 DEF ResizeBegin, geometry, ReconfigLocked, Loaded, Progress, Tasks
      <4> QED
        BY <4>1 DEF Progress
    <3> QED
      BY <1>3, <3>1, <3>2
  <2> QED
    BY <2>1, LedgerStays DEF devices, Building
<1>4. CASE \/ \E s \in Specs : CallSet(c, s) \/ ResizeNothing(c, s)
           \/ \E i \in Hosts : GetChanger(c, i)
           \/ Submit(c) \/ JobRefused(c) \/ JobAllowed(c) \/ JobNothingToDo(c) \/ UnlockJob(c)
           \/ ReadResult(c) \/ ReleaseChanger(c)
  <2>1. UNCHANGED <<live, table, devices, thread>>
    BY <1>4 DEF CallSet, ResizeNothing, GetChanger, Submit, JobRefused, JobAllowed,
       JobNothingToDo, UnlockJob, ReadResult, ReleaseChanger, geometry
  <2> QED
    BY <2>1, LedgerStays DEF devices, thread, Building, Ledger
<1> QED
  BY <1>1, <1>2, <1>3, <1>4 DEF Call, GoesOn

LEMMA LedgerKept == ASSUME Progress, Ledger, [Next]_vars PROVE Ledger'
<1>1. Progress'
  BY ProgressKept
<1>2. ASSUME UNCHANGED <<geometry, devices, thread>> PROVE Ledger'
  BY <1>2, LedgerStays DEF geometry, devices, thread, Building, Ledger
<1>3. CASE UNCHANGED vars \/ Traffic \/ Administration \/ \E h \in Hosts : CommandEnd(h)
  BY <1>2, <1>3 DEF vars, Traffic, Administration, WriteParam, ScanByHand, CommandStart,
     CommandEnd
<1>4. ASSUME NEW w \in Work, Handler(w) PROVE Ledger'
  BY <1>2, <1>4 DEF Handler, BringupStart, BringupLock, BringupOut, BringupAdd, BringupAddFails,
     ScanStart, Scan, ScanEnd
<1>5. CASE Load
  <2>1. task = "off" /\ UNCHANGED devices /\ step' = "table"
    BY <1>5 DEF Load, Insmod, GoTo
  <2>2. list = << >> /\ live' \in AnyGeometry
    BY <1>1, <2>1 DEF Ledger, Progress
  <2> QED
    BY <2>1, <2>2, NothingListed DEF devices
<1>6. CASE Rmmod
  <2>1. UNCHANGED <<geometry, devices>> /\ task' = "exit" /\ step' = "quiesce"
    BY <1>6 DEF Rmmod, GoTo
  <2> QED
    BY <2>1, LedgerStays DEF geometry, devices, Building
<1>7. CASE Thread
  BY <1>1, <1>7, RegisterLedger, TearDownLedger, RestOfThreadLedger
<1> QED
  BY <1>3, <1>4, <1>5, <1>6, <1>7, CallerLedger DEF Next


-----------------------------------------------------------------------------
(* The list matches the geometry                                           *)

\* Hosts 1 .. n are listed, all of them, unless a probe has failed.
Complete(n) ==
    (\A i \in 1 .. n : pdev[i] # "unbound") => Len(list) = n /\ \A i \in 1 .. n : list[i] = i

\* Unless the allocation of the device table fails, that is so for every host of
\* the geometry when nobody builds or tears down.
AllThere ==
    /\ task \in {"none", "check"} => Complete(Len(live))
    /\ task = "check" => step \in {"cancel", "count"}
    /\ step = "count" => task = "check"
    /\ step = "register" => Complete(at - 1)

LEMMA AllThereStays ==
    ASSUME AllThere, UNCHANGED <<list, pdev>>, Len(live') = Len(live),
           task' \in {"none", "check"} => task \in {"none", "check"},
           task' = "check" => step' \in {"cancel", "count"},
           step' = "count" => task' = "check",
           step' = "register" => UNCHANGED <<step, at>>
    PROVE  AllThere'
  BY DEF AllThere, Complete

LEMMA RegisterAllThere ==
    ASSUME Progress, Ledger, AllThere, Register PROVE AllThere'
<1>1. CASE RegisterBegin
  <2>1. list' = << >> /\ at' = 1 /\ step' = "register" /\ task' \notin {"none", "check"}
    BY <1>1 DEF RegisterBegin, GoTo, devices, Ledger, Building
  <2> QED
    BY <2>1 DEF AllThere, Complete
<1>2. CASE RegisterDevice
  <2>1. /\ list' = Append(list, at) /\ at' = at + 1 /\ step = "register" /\ step' = "register"
        /\ task' \notin {"none", "check"} /\ at \in Nat /\ list \in Seq(Hosts) /\ at \in Hosts
    BY <1>2, GeometryAt DEF RegisterDevice, GoTo, Ledger, Building, Progress
  <2>2. /\ Len(list') = Len(list) + 1 /\ list'[Len(list) + 1] = at
        /\ \A i \in 1 .. Len(list) : list'[i] = list[i]
    BY <2>1, AppendProperties
  <2>3. \A i \in 1 .. at - 1 : pdev'[i] = pdev[i]
    BY <1>2, <2>1 DEF RegisterDevice, Ledger
  <2> SUFFICES ASSUME \A i \in 1 .. at : pdev'[i] # "unbound"
               PROVE  Len(list') = at /\ \A i \in 1 .. at : list'[i] = i
    BY <2>1 DEF AllThere, Complete
  <2>4. Len(list) = at - 1 /\ \A i \in 1 .. at - 1 : list[i] = i
    BY <2>1, <2>3 DEF AllThere, Complete
  <2> QED
    BY <2>1, <2>2, <2>4
<1>3. CASE DeviceFails
  BY <1>3, AllThereStays DEF DeviceFails, GoTo, geometry, devices, Building
<1>4. CASE ProbeFails
  <2>1. /\ pdev' = [pdev EXCEPT ![at] = "unbound"] /\ at' = at + 1 /\ step' = "register"
        /\ task' \notin {"none", "check"} /\ at \in Nat /\ at >= 1 /\ at \in Hosts
    BY <1>4, GeometryAt DEF ProbeFails, GoTo, Building, Progress
  <2>2. pdev'[at] = "unbound" /\ at \in 1 .. at' - 1
    BY <2>1 DEF Ledger
  <2> QED
    BY <2>1, <2>2 DEF AllThere, Complete
<1> QED
  BY <1>1, <1>2, <1>3, <1>4 DEF Register

LEMMA ThreadAllThere ==
    ASSUME "table" \notin Faults, Progress, Ledger, AllThere, Thread, ~Register
    PROVE  AllThere'
<1>1. CASE TearDown
  <2>1. CASE Quiesce \/ CancelWork \/ CancelEnd
    <3>1. /\ UNCHANGED <<list, pdev, live, task>> /\ step' \in {"cancel", "count", "remove"}
          /\ task = "check" => step' \in {"cancel", "count"}
          /\ step' = "count" => task = "check"
      BY <2>1 DEF Quiesce, CancelWork, CancelEnd, GoTo, geometry, devices
    <3> QED
      BY <3>1, AllThereStays
  <2>2. CASE RemoveHost \/ RemoveEnd \/ Unregister
    <3>1. /\ step \in {"remove", "unregister"} /\ step' \in {"remove", "unregister"} /\ task' = task
      BY <2>2 DEF RemoveHost, RemoveEnd, Unregister, GoTo
    <3>2. task \notin {"none", "check"}
      BY <3>1 DEF AllThere, Progress
    <3> QED
      BY <3>1, <3>2 DEF AllThere
  <2> QED
    BY <1>1, <2>1, <2>2 DEF TearDown
<1>2. CASE InsmodEnd
  <2>1. /\ step = "register" /\ at > Len(live) /\ UNCHANGED <<list, pdev, live>>
        /\ task' \in {"none", "exit"} /\ step' \in {"none", "quiesce"}
    BY <1>2 DEF InsmodEnd, GoTo, devices
  <2>2. Complete(Len(live))
    <3>1. at - 1 = Len(live)
      BY <2>1 DEF Ledger, Progress, AnyGeometry
    <3> QED
      BY <2>1, <3>1 DEF AllThere
  <2> QED
    BY <2>1, <2>2 DEF AllThere, Complete
<1>3. CASE ModuleGone \/ JobTearsDown \/ JobRebuilds \/ JobRollsBack
  <2>1. task' \notin {"none", "check"} /\ step' \notin {"register", "count"}
    BY <1>3 DEF ModuleGone, JobTearsDown, JobRebuilds, JobRollsBack, GoTo
  <2> QED
    BY <2>1 DEF AllThere
<1>4. ASSUME NEW c \in Callers, JobBusy(c) PROVE AllThere'
  <2>1. UNCHANGED <<list, pdev, live>> /\ task' = "none" /\ step' = "none" /\ task = "check"
    BY <1>4 DEF JobBusy, JobEnds, GoTo, geometry, devices, AllThere
  <2> QED
    BY <2>1, AllThereStays
<1>5. ASSUME NEW c \in Callers, JobSucceeds(c) \/ RollbackSucceeds(c) PROVE AllThere'
  <2>1. /\ UNCHANGED <<list, pdev, live>> /\ task' = "none" /\ step' = "none"
        /\ step = "register" /\ at > Len(live)
    BY <1>5 DEF JobSucceeds, RollbackSucceeds, JobEnds, GoTo, devices
  <2>2. at - 1 = Len(live)
    BY <2>1 DEF Ledger, Progress, AnyGeometry
  <2> QED
    BY <2>1, <2>2 DEF AllThere, Complete
<1>6. ASSUME NEW c \in Callers, RollbackFails(c) PROVE AllThere'
  <2>1. /\ UNCHANGED list /\ live' = LiveAfter /\ task' = "none" /\ step' = "none"
        /\ RegisterFailed /\ Building
    BY <1>6 DEF RollbackFails, JobEnds, GoTo, devices, Building
  <2>2. Unregistered
    BY <2>1 DEF RegisterFailed
  <2>3. list = << >> /\ table
    <3>1. list = << >>
      BY <2>2, UnregisteredIsEmpty
    <3>2. table
      BY <2>1, <2>2 DEF Unregistered, Ledger
    <3> QED
      BY <3>1, <3>2
  <2>4. live' = << >>
    BY <2>1, <2>3 DEF LiveAfter
  <2> QED
    BY <2>1, <2>3, <2>4 DEF AllThere, Complete
<1> QED
  BY <1>1, <1>2, <1>3, <1>4, <1>5, <1>6 DEF Thread

LEMMA CallerAllThere ==
    ASSUME Progress, AllThere, NEW c \in Callers, Call(c) \/ GoesOn(c) PROVE AllThere'
<1>1. CASE ResizeHost(c) \/ ResizeUndo(c)
  <2>1. /\ UNCHANGED <<list, pdev, task, step>> /\ Resizer(c)
        /\ Resized(at, target[at]) \/ NotResized(at, target[at])
    <3>1. CASE ResizeHost(c)
      BY <3>1 DEF ResizeHost, Resizer
    <3>2. CASE ResizeUndo(c)
      BY <3>2 DEF ResizeUndo, Resizer
    <3> QED
      BY <1>1, <3>1, <3>2
  <2>2. Len(live') = Len(live)
    BY <2>1 DEF Resized, NotResized, Progress, AnyGeometry
  <2>3. step = "none" /\ task = "none"
    BY <2>1 DEF Progress, Resizer
  <2> QED
    BY <2>1, <2>2, <2>3, AllThereStays
<1>2. CASE JobBegin(c)
  <2>1. UNCHANGED <<list, pdev, live>> /\ task = "none" /\ task' = "check" /\ step' = "cancel"
    BY <1>2 DEF JobBegin, GoTo, geometry, devices
  <2> QED
    BY <2>1, AllThereStays
<1>3. CASE ResizeEnd(c) \/ \E s \in Specs : ResizeBegin(c, s)
  <2>1. UNCHANGED <<list, pdev, live, task, step>> /\ step = "none"
    <3>1. CASE ResizeEnd(c)
      BY <3>1 DEF ResizeEnd, devices, Progress
    <3>2. ASSUME NEW s \in Specs, ResizeBegin(c, s) PROVE <2>1!1 /\ <2>1!2
      <4>1. task = "none" /\ UNCHANGED <<list, pdev, live, task, step>>
        BY <3>2 DEF ResizeBegin, geometry, devices, ReconfigLocked, Loaded, Progress, Tasks
      <4> QED
        BY <4>1 DEF Progress
    <3> QED
      BY <1>3, <3>1, <3>2
  <2> QED
    BY <2>1, AllThereStays DEF AllThere
<1>4. CASE \/ \E s \in Specs : CallSet(c, s) \/ ResizeNothing(c, s)
           \/ \E i \in Hosts : GetChanger(c, i)
           \/ Submit(c) \/ JobRefused(c) \/ JobAllowed(c) \/ JobNothingToDo(c) \/ UnlockJob(c)
           \/ ReadResult(c) \/ ReleaseChanger(c)
  <2>1. UNCHANGED <<live, devices, thread>>
    BY <1>4 DEF CallSet, ResizeNothing, GetChanger, Submit, JobRefused, JobAllowed,
       JobNothingToDo, UnlockJob, ReadResult, ReleaseChanger, geometry
  <2> QED
    BY <2>1 DEF devices, thread, AllThere, Complete
<1> QED
  BY <1>1, <1>2, <1>3, <1>4 DEF Call, GoesOn

LEMMA AllThereKept ==
    ASSUME "table" \notin Faults, Progress, Ledger, AllThere, [Next]_vars
    PROVE  AllThere'
<1>1. ASSUME UNCHANGED <<list, pdev, live, thread>> PROVE AllThere'
  BY <1>1 DEF thread, AllThere, Complete
<1>2. CASE UNCHANGED vars \/ Traffic \/ Administration \/ \E h \in Hosts : CommandEnd(h)
  BY <1>1, <1>2 DEF vars, Traffic, Administration, WriteParam, ScanByHand, CommandStart,
     CommandEnd, geometry, devices
<1>3. ASSUME NEW w \in Work, Handler(w) PROVE AllThere'
  BY <1>1, <1>3 DEF Handler, BringupStart, BringupLock, BringupOut, BringupAdd, BringupAddFails,
     ScanStart, Scan, ScanEnd, geometry, devices
<1>4. CASE Load \/ Rmmod
  BY <1>4 DEF Load, Insmod, Rmmod, GoTo, AllThere
<1> QED
  BY <1>2, <1>3, <1>4, RegisterAllThere, ThreadAllThere, CallerAllThere DEF Next, Thread

\* Unless the allocation of the device table fails: outside a rebuild, when no
\* probe has failed, position i of vtl_host_list is host i of the live geometry, and its changer has
\* the size the module believes in (vtl_register_all_pdevs, vtl_geom_apply_job,
\* vtl_apply_geom_resize_only).
THEOREM HostsAreTheGeometry ==
    ASSUME "table" \notin Faults PROVE Spec => []HostsMatch
<1>1. Init => Progress /\ Ledger /\ AllThere
  <2>1. << >> \in Seq(Hosts) /\ Len(<< >>) = 0
    OBVIOUS
  <2>2. Init => Ledger
    BY <2>1 DEF Init, Ledger, InOrder, Accounts, Building
  <2>3. Init => AllThere
    BY DEF Init, AllThere
  <2> QED
    BY Begins, <2>2, <2>3
<1>2. Progress /\ Ledger /\ AllThere /\ [Next]_vars => Progress' /\ Ledger' /\ AllThere'
  BY ProgressKept, LedgerKept, AllThereKept
<1>3. Progress /\ Ledger /\ AllThere => HostsMatch
  <2> SUFFICES ASSUME Progress, Ledger, AllThere, task = "none",
                      \A i \in DOMAIN live : pdev[i] # "unbound"
               PROVE  /\ list = [i \in DOMAIN live |-> i]
                      /\ \A i \in DOMAIN live : changer[i] \in {0, live[i]}
    BY DEF HostsMatch
  <2>1. /\ DOMAIN live = 1 .. Len(live) /\ list \in Seq(Hosts)
        /\ Len(list) = Len(live) /\ \A i \in 1 .. Len(live) : list[i] = i
    <3>1. DOMAIN live = 1 .. Len(live) /\ list \in Seq(Hosts)
      BY DEF Progress, AnyGeometry, Ledger
    <3>2. Complete(Len(live))
      BY DEF AllThere
    <3> QED
      BY <3>1, <3>2 DEF Complete
  <2>2. list = [i \in 1 .. Len(live) |-> i]
    BY <2>1
  <2>3. \A i \in 1 .. Len(live) : i \in Hosts
    BY GeometryAt DEF Progress
  <2> QED
    BY <2>1, <2>2, <2>3 DEF Ledger, Accounts
<1> QED
  BY <1>1, <1>2, <1>3, PTL DEF Spec


-----------------------------------------------------------------------------
(* Types                                                                   *)

WorkState == {"none", "pending", "mutex", "add", "scan", "scanning", "out"}
WorksTyped ==
    /\ work \in [Work -> WorkState]
    /\ fullMutex \in Hosts \cup {NoHost} /\ scanMutex \in Work \cup {NoWork}
    /\ registered \in [Hosts -> BOOLEAN] /\ scanDone \in [Hosts -> BOOLEAN]
    /\ sdev \in [Hosts -> BOOLEAN] /\ cmd \in [Hosts -> BOOLEAN]

FlagsTyped ==
    /\ table \in BOOLEAN /\ serialFull \in BOOLEAN /\ noscan \in BOOLEAN /\ hotGeom \in BOOLEAN
    /\ reconfigActive \in BOOLEAN /\ unloading \in BOOLEAN
    /\ pdev \in [Hosts -> {"none", "bound", "unbound"}]
    /\ step \in {"none", "table", "register", "quiesce", "cancel", "count", "remove", "unregister"}

PcState == {"idle", "queued", "submitted", "allowed", "woken", "read", "resizing", "undoing",
            "using"}
CallsTyped ==
    /\ published \in Specs \cup AnyGeometry
    /\ pc \in [Callers -> PcState]
    /\ held \in [Callers -> Hosts \cup {NoHost, Dangling}]
    /\ jobRet \in Result

LEMMA WorksTypedKept == ASSUME Calm, WorksTyped, [Next]_vars PROVE WorksTyped'
<1>1. ASSUME UNCHANGED <<scsi, works>> PROVE WorksTyped'
  BY <1>1 DEF scsi, works, WorksTyped
<1>2. ASSUME NEW w \in Work, Handler(w) PROVE WorksTyped'
  <2>1. w[1] \in Hosts /\ \A x : x \in Work => x \in Work \cup {NoWork}
    BY DEF Work
  <2>2. CASE BringupStart(w[1]) \/ BringupLock(w[1]) \/ BringupOut(w[1])
    BY <2>1, <2>2 DEF BringupStart, BringupLock, BringupOut, scsi, WorksTyped, WorkState
  <2>3. CASE BringupAdd(w[1])
    <3>1. work' \in [Work -> WorkState]
      BY <2>3 DEF BringupAdd, WorksTyped, WorkState
    <3> QED
      BY <2>3, <3>1 DEF BringupAdd, WorksTyped
  <2>4. CASE BringupAddFails(w[1]) \/ ScanStart(w[1])
    BY <2>4 DEF BringupAddFails, ScanStart, scsi, WorksTyped, WorkState
  <2>5. CASE Scan(w) \/ ScanEnd(w)
    BY <2>5 DEF Scan, ScanEnd, WorksTyped, WorkState
  <2> QED
    BY <1>2, <2>2, <2>3, <2>4, <2>5 DEF Handler
<1>3. CASE Traffic \/ Administration \/ \E h \in Hosts : CommandEnd(h)
  BY <1>3 DEF Traffic, Administration, WriteParam, ScanByHand, CommandStart, CommandEnd, works,
     scsi, WorksTyped
<1>4. CASE Register
  <2>1. CASE RegisterDevice
    BY <2>1 DEF RegisterDevice, WorksTyped, WorkState
  <2> QED
    BY <1>1, <1>4, <2>1 DEF Register, RegisterBegin, ProbeFails, DeviceFails
<1>5. CASE TearDown
  <2>1. CASE CancelWork
    BY <2>1 DEF CancelWork, scsi, WorksTyped, WorkState
  <2>2. CASE RemoveHost
    BY <2>2 DEF RemoveHost, Detach, works, WorksTyped
  <2>3. CASE Unregister
    <3>1. work' \in [Work -> WorkState]
      BY <2>3 DEF Unregister, WorksTyped, WorkState
    <3> QED
      BY <2>3, <3>1 DEF Unregister, Detach, WorksTyped
  <2> QED
    BY <1>1, <1>5, <2>1, <2>2, <2>3 DEF TearDown, Quiesce, CancelEnd, RemoveEnd
<1>6. CASE Thread /\ ~Register /\ ~TearDown
  BY <1>1, <1>6 DEF Thread, InsmodEnd, ModuleGone, JobTearsDown, JobRebuilds, JobRollsBack,
     JobBusy,
     JobSucceeds, RollbackSucceeds, RollbackFails
<1>7. CASE UNCHANGED vars \/ Load \/ Rmmod
  BY <1>1, <1>7 DEF vars, Load, Insmod, Rmmod
<1>8. ASSUME NEW c \in Callers, Call(c) \/ GoesOn(c) PROVE WorksTyped'
  BY <1>1, <1>8 DEF Call, CallSet, ResizeNothing, ResizeBegin, GetChanger, GoesOn, Submit,
     JobRefused, JobAllowed, JobNothingToDo, JobBegin, UnlockJob, ReadResult, ResizeHost,
     ResizeUndo, ResizeEnd, ReleaseChanger
<1> QED
  BY <1>2, <1>3, <1>4, <1>5, <1>6, <1>7, <1>8 DEF Next

LEMMA FlagsTypedKept == ASSUME FlagsTyped, [Next]_vars PROVE FlagsTyped'
<1>1. ASSUME UNCHANGED <<table, params, flags, pdev, step>> PROVE FlagsTyped'
  BY <1>1 DEF params, flags, FlagsTyped
<1>2. CASE UNCHANGED vars \/ Traffic \/ \E h \in Hosts : CommandEnd(h)
  BY <1>1, <1>2 DEF vars, Traffic, ScanByHand, CommandStart, CommandEnd, geometry, devices,
     thread
<1>11. CASE Administration
  <2>1. PICK w \in Writes : WriteParam(w[1], w[2])
    BY <1>11 DEF Administration
  <2>2. w[2] \in BOOLEAN
    BY HostAssumption DEF HostAssumption
  <2> QED
    BY <2>1, <2>2 DEF WriteParam, geometry, devices, flags, thread, FlagsTyped
<1>3. ASSUME NEW w \in Work, Handler(w) PROVE FlagsTyped'
  BY <1>1, <1>3 DEF Handler, BringupStart, BringupLock, BringupOut, BringupAdd, BringupAddFails,
     ScanStart, Scan, ScanEnd, geometry, devices, thread
<1>4. CASE Load \/ Rmmod
  <2>1. SerialFull \subseteq BOOLEAN /\ NoScan \subseteq BOOLEAN /\ AllowHotGeom \subseteq BOOLEAN
    BY HostAssumption DEF HostAssumption
  <2> QED
    BY <1>4, <2>1 DEF Load, Insmod, Rmmod, GoTo, geometry, devices, params, flags, FlagsTyped
<1>5. CASE Register
  BY <1>5 DEF Register, RegisterBegin, RegisterDevice, ProbeFails, DeviceFails, GoTo, geometry,
     devices, params, flags, FlagsTyped
<1>6. CASE TearDown
  BY <1>6 DEF TearDown, Quiesce, CancelWork, CancelEnd, RemoveHost, RemoveEnd, Unregister, GoTo,
     geometry, devices, params, flags, FlagsTyped
<1>7. CASE InsmodEnd \/ ModuleGone \/ JobTearsDown \/ JobRebuilds \/ JobRollsBack
  BY <1>7 DEF InsmodEnd, ModuleGone, JobTearsDown, JobRebuilds, JobRollsBack, Tune, GoTo,
     geometry,
     devices, params, flags, FlagsTyped
<1>8. ASSUME NEW c \in Callers,
             JobBusy(c) \/ JobSucceeds(c) \/ RollbackSucceeds(c) \/ RollbackFails(c)
      PROVE  FlagsTyped'
  BY <1>8 DEF JobBusy, JobSucceeds, RollbackSucceeds, RollbackFails, JobEnds, Tune, GoTo,
     geometry,
     devices, params, flags, FlagsTyped
<1>9. ASSUME NEW c \in Callers, Call(c) PROVE FlagsTyped'
  <2>1. ASSUME NEW s \in Specs, ResizeBegin(c, s) PROVE FlagsTyped'
    BY <2>1 DEF ResizeBegin, geometry, devices, params, FlagsTyped
  <2>2. CASE \/ \E s \in Specs : CallSet(c, s) \/ ResizeNothing(c, s)
             \/ \E i \in Hosts : GetChanger(c, i)
    BY <1>1, <2>2 DEF CallSet, ResizeNothing, GetChanger, geometry, devices, thread
  <2> QED
    BY <1>9, <2>1, <2>2 DEF Call
<1>10. ASSUME NEW c \in Callers, GoesOn(c) PROVE FlagsTyped'
  <2>1. CASE JobBegin(c)
    BY <2>1 DEF JobBegin, GoTo, geometry, devices, params, flags, FlagsTyped
  <2>2. CASE ResizeEnd(c)
    BY <2>2 DEF ResizeEnd, devices, params, FlagsTyped
  <2>3. CASE ResizeHost(c) \/ ResizeUndo(c)
    BY <1>1, <2>3 DEF ResizeHost, ResizeUndo
  <2>4. CASE Submit(c) \/ JobRefused(c) \/ JobAllowed(c) \/ JobNothingToDo(c)
    BY <1>1, <2>4 DEF Submit, JobRefused, JobAllowed, JobNothingToDo, geometry, devices, thread
  <2>5. CASE UnlockJob(c) \/ ReadResult(c) \/ ReleaseChanger(c)
    BY <1>1, <2>5 DEF UnlockJob, ReadResult, ReleaseChanger, geometry, devices, thread
  <2> QED
    BY <1>10, <2>1, <2>2, <2>3, <2>4, <2>5 DEF GoesOn
<1> QED
  BY <1>2, <1>3, <1>4, <1>5, <1>6, <1>7, <1>8, <1>9, <1>10, <1>11 DEF Next, Thread

LEMMA CallsTypedKept ==
    ASSUME Progress, Calm, CallsTyped, [Next]_vars PROVE CallsTyped'
<1>1. ASSUME UNCHANGED <<published, calls>> PROVE CallsTyped'
  BY <1>1 DEF calls, CallsTyped
<1>2. \A g \in AnyGeometry : g \in Specs \cup AnyGeometry
  OBVIOUS
<1>3. << >> \in Specs \cup AnyGeometry /\ live \in AnyGeometry
      /\ \A c \in Callers : spec[c] \in Specs \cup AnyGeometry
  BY EmptyIsGeometry DEF Progress
<1>4. CASE UNCHANGED vars \/ Traffic \/ Administration \/ \E h \in Hosts : CommandEnd(h)
  BY <1>1, <1>4 DEF vars, Traffic, Administration, WriteParam, ScanByHand, CommandStart,
     CommandEnd, geometry
<1>5. ASSUME NEW w \in Work, Handler(w) PROVE CallsTyped'
  BY <1>1, <1>5 DEF Handler, BringupStart, BringupLock, BringupOut, BringupAdd, BringupAddFails,
     ScanStart, Scan, ScanEnd, geometry
<1>6. CASE Load \/ Rmmod
  BY <1>3, <1>6 DEF Load, Insmod, Rmmod, geometry, calls, CallsTyped
<1>7. CASE Register
  BY <1>1, <1>7 DEF Register, RegisterBegin, RegisterDevice, ProbeFails, DeviceFails, geometry
<1>8. CASE TearDown
  <2>1. ASSUME NEW h, UNCHANGED <<published, pc, jobRet>>, held' = held \/ held' = Freed(h)
        PROVE  CallsTyped'
    BY <2>1 DEF Freed, CallsTyped
  <2>2. CASE RemoveHost
    BY <2>1, <2>2 DEF RemoveHost, Detach, geometry
  <2>3. CASE Unregister
    BY <2>1, <2>3 DEF Unregister, Detach, geometry
  <2> QED
    BY <1>1, <1>8, <2>2, <2>3 DEF TearDown, Quiesce, CancelWork, CancelEnd, RemoveEnd, geometry
<1>9. CASE InsmodEnd \/ ModuleGone \/ JobTearsDown \/ JobRebuilds \/ JobRollsBack
  BY <1>3, <1>9 DEF InsmodEnd, ModuleGone, JobTearsDown, JobRebuilds, JobRollsBack, geometry,
     calls,
     CallsTyped
<1>10. ASSUME NEW c \in Callers, NEW r \in Result, Answer(c, r),
              published' \in Specs \cup AnyGeometry
       PROVE  CallsTyped'
  BY <1>10 DEF Answer, CallsTyped, PcState
<1>11. ASSUME NEW c \in Callers,
              JobBusy(c) \/ JobSucceeds(c) \/ RollbackSucceeds(c) \/ RollbackFails(c)
       PROVE  CallsTyped'
  <2>1. published' \in Specs \cup AnyGeometry
    BY <1>3, <1>11 DEF JobBusy, JobSucceeds, RollbackSucceeds, RollbackFails, geometry,
       CallsTyped
  <2>2. \E r \in Result : Answer(c, r)
    BY <1>11 DEF JobBusy, JobSucceeds, RollbackSucceeds, RollbackFails, JobEnds, Result
  <2> QED
    BY <1>10, <2>1, <2>2
<1>12. ASSUME NEW c \in Callers, Call(c) PROVE CallsTyped'
  <2>1. ASSUME NEW s \in Specs, CallSet(c, s) \/ ResizeNothing(c, s) \/ ResizeBegin(c, s)
        PROVE  CallsTyped'
    BY <2>1 DEF CallSet, ResizeNothing, ResizeBegin, geometry, calls, CallsTyped, PcState
  <2>2. ASSUME NEW i \in Hosts, GetChanger(c, i) PROVE CallsTyped'
    <3>1. list[i] \in Hosts
      BY <2>2, HostAssumption DEF HostAssumption, Hosts, GetChanger, Calm
    <3> QED
      BY <2>2, <3>1 DEF GetChanger, geometry, CallsTyped, PcState
  <2> QED
    BY <1>12, <2>1, <2>2 DEF Call
<1>13. ASSUME NEW c \in Callers, GoesOn(c) PROVE CallsTyped'
  <2>1. CASE JobNothingToDo(c) \/ JobRefused(c)
    <3>1. published' \in Specs \cup AnyGeometry
      BY <1>3, <2>1 DEF JobNothingToDo, JobRefused, geometry, CallsTyped
    <3>2. \E r \in Result : Answer(c, r)
      BY <2>1 DEF JobNothingToDo, JobRefused, Result
    <3> QED
      BY <1>10, <3>1, <3>2
  <2>2. CASE Submit(c) \/ JobAllowed(c) \/ JobBegin(c) \/ UnlockJob(c) \/ ReadResult(c)
    BY <2>2 DEF Submit, JobAllowed, JobBegin, UnlockJob, ReadResult, geometry, calls,
       CallsTyped, PcState
  <2>3. CASE ResizeHost(c) \/ ResizeUndo(c)
    BY <2>3 DEF ResizeHost, ResizeUndo, calls, CallsTyped, PcState
  <2>4. CASE ResizeEnd(c) \/ ReleaseChanger(c)
    BY <1>3, <2>4 DEF ResizeEnd, ReleaseChanger, geometry, CallsTyped, PcState
  <2> QED
    BY <1>13, <2>1, <2>2, <2>3, <2>4 DEF GoesOn
<1> QED
  BY <1>4, <1>5, <1>6, <1>7, <1>8, <1>9, <1>11, <1>12, <1>13 DEF Next, Thread

LEMMA GeometryIsFunction == AnyGeometry \subseteq Geometry
<1> SUFFICES ASSUME NEW g \in AnyGeometry PROVE g \in Geometry
  OBVIOUS
<1>1. Len(g) \in 0 .. MaxHosts /\ g \in [1 .. Len(g) -> Sizes]
  BY HostAssumption DEF HostAssumption, AnyGeometry
<1> QED
  BY <1>1 DEF Geometry

\* Whatever fails and whoever calls, the state of the hosts, their works and the
\* ioctls keeps its types; in particular no more hosts are listed than there may be.
THEOREM TypesOfHosts == Spec => []TypeOK
<1> DEFINE Inv == Progress /\ Calm /\ Ledger /\ WorksTyped /\ FlagsTyped /\ CallsTyped
<1>1. Init => Inv
  <2>1. << >> \in Seq(Hosts) /\ Len(<< >>) = 0
    OBVIOUS
  <2>2. Init => Ledger
    BY <2>1 DEF Init, Ledger, InOrder, Accounts, Building
  <2>3. Init => Calm
    BY <2>1 DEF Init, Calm, Listed, Over, Work
  <2>4. Init => WorksTyped
    BY DEF Init, WorksTyped, WorkState
  <2>6. Init => FlagsTyped
    BY ZenonT(60) DEF Init, FlagsTyped
  <2>5. Init => CallsTyped
    BY EmptyIsGeometry DEF Init, CallsTyped, PcState, Result
  <2> QED
    BY Begins, <2>2, <2>3, <2>4, <2>5, <2>6
<1>2. Inv /\ [Next]_vars => Inv'
  BY ProgressKept, CalmKept, LedgerKept, WorksTypedKept, FlagsTypedKept, CallsTypedKept
<1>3. Inv => TypeOK
  <2> SUFFICES ASSUME Inv PROVE TypeOK
    OBVIOUS
  <2>1. live \in Geometry /\ target \in Geometry /\ prev \in Geometry
    BY GeometryIsFunction DEF Progress
  <2>2. published \in Specs \cup Geometry
    BY GeometryIsFunction DEF CallsTyped
  <2>3. list \in UNION {[1 .. n -> Hosts] : n \in 0 .. MaxHosts}
    <3>1. list \in Seq(Hosts) /\ Len(list) \in Nat /\ list \in [1 .. Len(list) -> Hosts]
      BY DEF Ledger
    <3>2. Len(list) <= MaxHosts
      <4>1. CASE Len(list) > 0
        <5>1. Len(list) \in 1 .. Len(list)
          BY <3>1, <4>1
        <5>2. Len(list) <= list[Len(list)]
          BY <5>1 DEF Ledger, InOrder
        <5>3. list[Len(list)] \in Hosts
          BY <3>1, <5>1
        <5> QED
          BY <3>1, <5>2, <5>3, HostAssumption DEF HostAssumption, Hosts
      <4> QED
        BY <3>1, <4>1, HostAssumption DEF HostAssumption
    <3>3. Len(list) \in 0 .. MaxHosts
      BY <3>1, <3>2, HostAssumption DEF HostAssumption
    <3> QED
      BY <3>1, <3>3
  <2>4. changer \in [Hosts -> 0 .. MaxDrives]
    <3>1. ASSUME NEW h \in Hosts, changer[h] # 0 PROVE changer[h] \in 0 .. MaxDrives
      BY <3>1, HostAssumption DEF HostAssumption, Ledger, Accounts, Drives
    <3>2. 0 \in 0 .. MaxDrives
      BY HostAssumption DEF HostAssumption
    <3>3. \A h \in Hosts : changer[h] \in 0 .. MaxDrives
      BY <3>1, <3>2
    <3> QED
      BY <3>3 DEF Ledger, Accounts
  <2>5. at \in Nat /\ spec \in [Callers -> Specs \cup {<< >>}] /\ task \in Tasks
    BY DEF Progress
  <2> QED
    BY <2>1, <2>2, <2>3, <2>4, <2>5
    DEF TypeOK, WorksTyped, FlagsTyped, CallsTyped, WorkState, PcState, Tasks
<1> QED
  BY <1>1, <1>2, <1>3, PTL DEF Spec


-----------------------------------------------------------------------------
(* What sysfs shows                                                        *)

Rebuild == {"check", "teardown", "set"}

\* One SET_INSTANCES at a time is the job's, and a rebuild is for what it asks.
Turn == {"submitted", "allowed", "woken"}
Asked ==
    /\ \A c, d \in Callers : pc[c] \in Turn /\ pc[d] \in Turn => c = d
    /\ task \in Rebuild \cup {"rollback"} => \E c \in Callers : pc[c] = "allowed"
    /\ task \in Rebuild => target # << >>
    /\ task \in Rebuild => \A c \in Callers : pc[c] = "allowed" => target = Parse(spec[c])

\* Between the rebuilds the module shows nothing without hosts, and what it shows
\* can be read back.
Shown ==
    /\ task = "set" => live = target
    /\ task = "rollback" => live = prev /\ prev # << >>
    /\ task \in Rebuild /\ prev = << >> => published = << >>
    /\ task \in {"none", "check"} /\ live = << >> => published = << >>
    /\ published # << >> => Parse(published) # << >>

LEMMA ParseOfGeometry == ASSUME NEW g \in AnyGeometry, InRange(g) PROVE Parse(g) = g
<1>1. g \in Seq(Sizes) /\ Len(g) <= MaxHosts /\ MaxHosts \in Nat /\ Len(g) \in Nat
  BY HostAssumption DEF HostAssumption, AnyGeometry
<1>2. \A i \in DOMAIN g : Clamp(g[i], MaxDrives) = g[i]
  BY <1>1, HostAssumption DEF HostAssumption, Clamp, InRange
<1>3. Parse(g) = [i \in DOMAIN g |-> g[i]]
  BY <1>1, <1>2 DEF Parse
<1> QED
  BY <1>1, <1>3

LEMMA ParseIsNotEmpty == ASSUME NEW g \in AnyGeometry, g # << >> PROVE Parse(g) # << >>
<1>1. g \in Seq(Sizes) /\ Len(g) <= MaxHosts /\ MaxHosts \in Nat /\ Len(g) \in Nat
  BY HostAssumption DEF HostAssumption, AnyGeometry
<1>2. Parse(g) = [i \in 1 .. Len(g) |-> Clamp(g[i], MaxDrives)] /\ Len(g) # 0
  BY <1>1 DEF Parse
<1>3. DOMAIN Parse(g) # {}
  BY <1>1, <1>2
<1> QED
  BY <1>3

LEMMA AskedKept == ASSUME Progress, Pointers, Asked, [Next]_vars PROVE Asked'
<1>1. ASSUME UNCHANGED <<pc, spec>>, task' \notin Rebuild \cup {"rollback"} PROVE Asked'
  BY <1>1 DEF Asked, Rebuild
<1>2. ASSUME UNCHANGED <<pc, spec, task, target>> PROVE Asked'
  BY <1>2 DEF Asked
<1>3. CASE UNCHANGED vars \/ Traffic \/ Administration \/ \E h \in Hosts : CommandEnd(h)
  BY <1>2, <1>3 DEF vars, Traffic, Administration, WriteParam, ScanByHand, CommandStart,
     CommandEnd, thread, calls
<1>4. ASSUME NEW w \in Work, Handler(w) PROVE Asked'
  BY <1>2, <1>4 DEF Handler, BringupStart, BringupLock, BringupOut, BringupAdd, BringupAddFails,
     ScanStart, Scan, ScanEnd, thread, calls
<1>5. CASE Load \/ Rmmod \/ InsmodEnd \/ ModuleGone
  BY <1>1, <1>5 DEF Load, Insmod, Rmmod, InsmodEnd, ModuleGone, calls, Rebuild
<1>6. CASE Register \/ TearDown
  BY <1>2, <1>6 DEF Register, RegisterBegin, RegisterDevice, ProbeFails, DeviceFails, TearDown,
     Quiesce, CancelWork, CancelEnd, RemoveHost, RemoveEnd, Unregister, calls
<1>7. CASE JobTearsDown \/ JobRebuilds \/ JobRollsBack
  <2>1. UNCHANGED <<pc, spec, target>> /\ task \in Rebuild
    BY <1>7 DEF JobTearsDown, JobRebuilds, JobRollsBack, calls, Pointers, Rebuild
  <2>2. task' \in Rebuild \cup {"rollback"}
    BY <1>7 DEF JobTearsDown, JobRebuilds, JobRollsBack, Rebuild
  <2> QED
    BY <2>1, <2>2 DEF Asked
<1>8. ASSUME NEW c \in Callers, NEW x, pc' = [pc EXCEPT ![c] = x], x # "submitted",
             x \in Turn => pc[c] \in Turn, task' \notin Rebuild \cup {"rollback"}
      PROVE  Asked'
  <2>1. \A d \in Callers : pc'[d] \in Turn => pc[d] \in Turn
    BY <1>8 DEF Progress, Turn
  <2>2. task' \notin Rebuild
    BY <1>8
  <2> QED
    BY <1>8, <2>1, <2>2 DEF Asked, Turn
<1>9. ASSUME NEW c \in Callers,
             JobBusy(c) \/ JobSucceeds(c) \/ RollbackSucceeds(c) \/ RollbackFails(c)
      PROVE  Asked'
  <2>1. pc' = [pc EXCEPT ![c] = "woken"] /\ pc[c] = "allowed" /\ task' = "none"
    BY <1>9 DEF JobBusy, JobSucceeds, RollbackSucceeds, RollbackFails, JobEnds, Answer
  <2>2. task' \notin Rebuild \cup {"rollback"}
    BY <2>1 DEF Rebuild
  <2> QED
    BY <1>8, <2>1, <2>2 DEF Turn
<1>10. ASSUME NEW c \in Callers, NEW x, pc' = [pc EXCEPT ![c] = x], pc[c] # "allowed",
              x \notin Turn, UNCHANGED <<task, target>>,
              \A d \in Callers \ {c} : spec'[d] = spec[d]
       PROVE  Asked'
  <2>1. \A d \in Callers : pc'[d] \in Turn => d # c /\ pc'[d] = pc[d]
    BY <1>10 DEF Progress, Turn
  <2>2. \A d \in Callers : pc[d] = "allowed" => d # c /\ pc'[d] = pc[d]
    BY <1>10 DEF Progress, Turn
  <2> QED
    BY <1>10, <2>1, <2>2 DEF Asked, Turn
<1>11. ASSUME NEW c \in Callers, Call(c) PROVE Asked'
  <2>1. ASSUME NEW s \in Specs, CallSet(c, s) PROVE Asked'
    <3>1. /\ \E x \in {"queued"} : pc' = [pc EXCEPT ![c] = x]
          /\ pc[c] # "allowed" /\ UNCHANGED <<task, target>>
          /\ \A d \in Callers \ {c} : spec'[d] = spec[d]
      BY <2>1 DEF CallSet, thread, Progress
    <3> QED
      BY <1>10, <3>1 DEF Turn
  <2>2. ASSUME NEW s \in Specs, ResizeNothing(c, s) PROVE Asked'
    BY <1>2, <2>2 DEF ResizeNothing, thread, calls
  <2>3. ASSUME NEW s \in Specs, ResizeBegin(c, s) PROVE Asked'
    <3>1. task \notin Rebuild \cup {"rollback"} /\ UNCHANGED task
      BY <2>3 DEF ResizeBegin, ReconfigLocked, Rebuild
    <3> QED
      BY <1>8, <2>3, <3>1 DEF ResizeBegin, Turn
  <2>4. ASSUME NEW i \in Hosts, GetChanger(c, i) PROVE Asked'
    <3>1. /\ \E x \in {"using"} : pc' = [pc EXCEPT ![c] = x]
          /\ pc[c] # "allowed" /\ UNCHANGED <<task, target>>
          /\ \A d \in Callers \ {c} : spec'[d] = spec[d]
      BY <2>4 DEF GetChanger, thread
    <3> QED
      BY <1>10, <3>1 DEF Turn
  <2> QED
    BY <1>11, <2>1, <2>2, <2>3, <2>4 DEF Call
<1>12. ASSUME NEW c \in Callers, GoesOn(c) PROVE Asked'
  <2>1. CASE Submit(c)
    <3>1. /\ \A d \in Callers : pc[d] \notin Turn
          /\ pc' = [pc EXCEPT ![c] = "submitted"] /\ UNCHANGED <<task, target, spec>>
      BY <2>1 DEF Submit, JobQueueLocked, Turn, thread
    <3>2. task \notin Rebuild \cup {"rollback"} /\ task \notin Rebuild
      BY <3>1 DEF Asked, Turn
    <3>3. \A d \in Callers : pc'[d] \in Turn => d = c
      BY <3>1 DEF Progress, Turn
    <3> QED
      BY <3>1, <3>2, <3>3 DEF Asked, Turn
  <2>2. CASE JobNothingToDo(c)
    <3>1. task' = "none" /\ pc[c] = "allowed" /\ pc' = [pc EXCEPT ![c] = "woken"]
      BY <2>2 DEF JobNothingToDo, Answer, thread
    <3>2. task' \notin Rebuild \cup {"rollback"}
      BY <3>1 DEF Rebuild
    <3> QED
      BY <1>8, <3>1, <3>2 DEF Turn
  <2>6. CASE JobRefused(c) \/ JobAllowed(c)
    <3>1. /\ pc[c] = "submitted" /\ UNCHANGED task
          /\ \E x \in {"woken", "allowed"} : pc' = [pc EXCEPT ![c] = x]
      BY <2>6 DEF JobRefused, JobAllowed, Answer, thread
    <3>2. task' \notin Rebuild \cup {"rollback"}
      BY <3>1 DEF Asked, Turn
    <3> QED
      BY <1>8, <3>1, <3>2 DEF Turn
  <2>3. CASE JobBegin(c)
    <3>1. /\ pc[c] = "allowed" /\ target' = Parse(spec[c]) /\ target' # << >>
          /\ UNCHANGED <<pc, spec>>
      BY <2>3 DEF JobBegin, calls
    <3>2. \A d \in Callers : pc[d] = "allowed" => d = c
      BY <3>1 DEF Asked, Turn
    <3> QED
      BY <3>1, <3>2 DEF Asked
  <2>4. CASE UnlockJob(c) \/ ReadResult(c) \/ ReleaseChanger(c)
    <3>1. /\ \E x \in {"read", "idle"} : pc' = [pc EXCEPT ![c] = x]
          /\ pc[c] # "allowed" /\ UNCHANGED <<task, target>>
          /\ \A d \in Callers \ {c} : spec'[d] = spec[d]
      BY <2>4 DEF UnlockJob, ReadResult, ReleaseChanger, thread, Progress
    <3> QED
      BY <1>10, <3>1 DEF Turn
  <2>5. CASE ResizeHost(c) \/ ResizeUndo(c) \/ ResizeEnd(c)
    <3>1. /\ UNCHANGED <<spec, task>> /\ Resizer(c)
          /\ pc' = pc \/ \E x \in {"undoing", "idle"} : pc' = [pc EXCEPT ![c] = x]
      BY <2>5 DEF ResizeHost, ResizeUndo, ResizeEnd, Resizer, calls
    <3>2. task' \notin Rebuild \cup {"rollback"}
      BY <3>1 DEF Progress, Resizer, Rebuild
    <3> QED
      BY <1>1, <1>8, <3>1, <3>2 DEF Turn
  <2> QED
    BY <1>12, <2>1, <2>2, <2>3, <2>4, <2>5, <2>6 DEF GoesOn
<1> QED
  BY <1>3, <1>4, <1>5, <1>6, <1>7, <1>9, <1>11, <1>12 DEF Next, Thread


LEMMA ShownStays ==
    ASSUME Shown, UNCHANGED <<live, published, task, target, prev>> PROVE Shown'
  BY DEF Shown

\* Something else is shown, outside a rebuild.
LEMMA ShowsAnother ==
    ASSUME task' \notin Rebuild \cup {"rollback"},
           task' = "none" /\ live' = << >> => published' = << >>,
           published' # << >> => Parse(published') # << >>
    PROVE  Shown'
  BY DEF Shown, Rebuild

LEMMA JobEndsShown ==
    ASSUME Progress, Asked, Shown, NEW c \in Callers,
           JobBusy(c) \/ JobSucceeds(c) \/ RollbackSucceeds(c) \/ RollbackFails(c), Pointers
    PROVE  Shown'
<1>1. pc[c] = "allowed" /\ task' = "none" /\ task' \notin Rebuild \cup {"rollback"}
  BY DEF JobBusy, JobSucceeds, RollbackSucceeds, RollbackFails, JobEnds, Answer, Rebuild
<1>2. CASE JobBusy(c)
  <2>1. task = "check" /\ UNCHANGED <<live, published>>
    BY <1>2 DEF JobBusy, Pointers, geometry
  <2> QED
    BY <1>1, <2>1, ShowsAnother DEF Shown
<1>3. CASE JobSucceeds(c)
  <2>1. task = "set" /\ published' = spec[c] /\ live' = live
    BY <1>3 DEF JobSucceeds
  <2>2. live = Parse(spec[c]) /\ live # << >>
    BY <1>1, <2>1 DEF Asked, Shown, Rebuild
  <2> QED
    BY <1>1, <2>1, <2>2, ShowsAnother
<1>4. CASE RollbackSucceeds(c)
  <2>1. /\ task = "rollback" /\ live' = live /\ live \in AnyGeometry /\ live # << >>
        /\ published' = IF published = << >> THEN live ELSE published
    BY <1>4 DEF RollbackSucceeds, Shown, Progress
  <2>2. Parse(live) # << >>
    BY <2>1, ParseIsNotEmpty
  <2> QED
    BY <1>1, <2>1, <2>2, ShowsAnother DEF Shown
<1>5. CASE RollbackFails(c)
  <2>1. published' = << >>
    BY <1>5 DEF RollbackFails, Shown, Rebuild
  <2> QED
    BY <1>1, <2>1, ShowsAnother
<1> QED
  BY <1>2, <1>3, <1>4, <1>5

LEMMA ThreadShown == ASSUME Progress, Pointers, Asked, Shown, Thread PROVE Shown'
<1>1. CASE Register \/ TearDown
  BY <1>1, ShownStays DEF Register, RegisterBegin, RegisterDevice, ProbeFails, DeviceFails,
     TearDown, Quiesce, CancelWork, CancelEnd, RemoveHost, RemoveEnd, Unregister, geometry
<1>2. CASE InsmodEnd
  <2>1. live # << >> => Parse(live) # << >>
    BY ParseIsNotEmpty DEF Progress
  <2>2. /\ published' = live /\ live' = live /\ task' \in {"none", "exit"}
        /\ task' \notin Rebuild \cup {"rollback"}
    BY <1>2 DEF InsmodEnd, Rebuild
  <2> QED
    BY <2>1, <2>2, ShowsAnother
<1>3. CASE ModuleGone
  BY <1>3, ShowsAnother DEF ModuleGone, Rebuild
<1>4. CASE JobTearsDown
  <2>1. /\ UNCHANGED <<live, published, target, prev>> /\ task \in Rebuild /\ task' = "teardown"
    BY <1>4 DEF JobTearsDown, geometry, Pointers, Rebuild
  <2> QED
    BY <2>1 DEF Shown, Rebuild
<1>5. CASE JobRebuilds
  BY <1>5 DEF JobRebuilds, Shown, Rebuild
<1>6. CASE JobRollsBack
  BY <1>6 DEF JobRollsBack, Shown, Rebuild
<1> QED
  BY <1>1, <1>2, <1>3, <1>4, <1>5, <1>6, JobEndsShown DEF Thread

LEMMA CallerShown ==
    ASSUME Progress, Shown, NEW c \in Callers, Call(c) \/ GoesOn(c) PROVE Shown'
<1>1. ASSUME NEW s \in Specs, ResizeNothing(c, s) PROVE Shown'
  <2>1. /\ published' = s /\ live' = live /\ live # << >> /\ Parse(s) = live
        /\ UNCHANGED thread /\ task \notin Rebuild \cup {"rollback"}
    BY <1>1 DEF ResizeNothing, ReconfigLocked, Rebuild
  <2> QED
    BY <2>1, ShowsAnother DEF thread
<1>2. ASSUME NEW s \in Specs, ResizeBegin(c, s) PROVE Shown'
  <2>1. UNCHANGED <<live, published, task>> /\ task = "none"
    BY <1>2 DEF ResizeBegin, geometry, ReconfigLocked, Loaded, Progress, Tasks
  <2> QED
    BY <2>1 DEF Shown, Rebuild
<1>3. CASE JobBegin(c)
  <2>1. UNCHANGED <<live, published>> /\ task = "none" /\ task' = "check" /\ prev' = live
    BY <1>3 DEF JobBegin, geometry
  <2> QED
    BY <2>1 DEF Shown, Rebuild
<1>4. CASE JobNothingToDo(c)
  <2>1. /\ UNCHANGED <<live, task>> /\ task = "none"
        /\ \/ UNCHANGED published
           \/ published' = spec[c] /\ live # << >> /\ Parse(spec[c]) = live
    BY <1>4 DEF JobNothingToDo, thread
  <2> QED
    BY <2>1, ShowsAnother DEF Shown, Rebuild
<1>5. CASE ResizeHost(c) \/ ResizeUndo(c)
  <2>1. /\ UNCHANGED <<published, task>> /\ Resizer(c)
        /\ Resized(at, target[at]) \/ NotResized(at, target[at])
    <3>1. CASE ResizeHost(c)
      BY <3>1 DEF ResizeHost, Resizer
    <3>2. CASE ResizeUndo(c)
      BY <3>2 DEF ResizeUndo, Resizer
    <3> QED
      BY <1>5, <3>1, <3>2
  <2>2. task = "none"
    BY <2>1 DEF Progress, Resizer
  <2>3. live' = << >> => live = << >>
    <3>1. Len(live') = Len(live) /\ live \in Seq(Sizes)
      BY <2>1 DEF Resized, NotResized, Progress, AnyGeometry
    <3> QED
      BY <3>1
  <2> QED
    BY <2>1, <2>2, <2>3, ShowsAnother DEF Shown, Rebuild
<1>6. CASE ResizeEnd(c)
  <2>1. /\ published' \in {live, published} /\ live' = live /\ task' = task /\ Resizer(c)
    BY <1>6 DEF ResizeEnd, Resizer
  <2>2. task = "none" /\ (live # << >> => Parse(live) # << >>)
    BY <2>1, ParseIsNotEmpty DEF Progress, Resizer
  <2> QED
    BY <2>1, <2>2, ShowsAnother DEF Shown, Rebuild
<1>7. CASE \/ \E s \in Specs : CallSet(c, s)
           \/ \E i \in Hosts : GetChanger(c, i)
           \/ Submit(c) \/ JobRefused(c) \/ JobAllowed(c) \/ UnlockJob(c) \/ ReadResult(c)
           \/ ReleaseChanger(c)
  BY <1>7, ShownStays DEF CallSet, GetChanger, Submit, JobRefused, JobAllowed, UnlockJob,
     ReadResult, ReleaseChanger, geometry, thread
<1> QED
  BY <1>1, <1>2, <1>3, <1>4, <1>5, <1>6, <1>7 DEF Call, GoesOn

LEMMA ShownKept ==
    ASSUME Progress, Pointers, Asked, Shown, [Next]_vars PROVE Shown'
<1>1. CASE UNCHANGED vars \/ Traffic \/ Administration \/ \E h \in Hosts : CommandEnd(h)
  BY <1>1, ShownStays DEF vars, Traffic, Administration, WriteParam, ScanByHand, CommandStart,
     CommandEnd, geometry, thread
<1>2. ASSUME NEW w \in Work, Handler(w) PROVE Shown'
  BY <1>2, ShownStays DEF Handler, BringupStart, BringupLock, BringupOut, BringupAdd,
     BringupAddFails, ScanStart, Scan, ScanEnd, geometry, thread
<1>3. CASE Load
  <2>1. PICK s : (s # << >> => Parse(s) # << >>) /\ published' = s /\ task' = "init"
    BY <1>3 DEF Load, Insmod, ParseInstances
  <2> QED
    BY <2>1, ShowsAnother DEF Rebuild
<1>4. CASE Rmmod
  BY <1>4 DEF Rmmod, geometry, Shown, Rebuild
<1> QED
  BY <1>1, <1>2, <1>3, <1>4, ThreadShown, CallerShown DEF Next

\* Unless the allocation of the device table fails: when insmod, a rebuild or its
\* roll back ends, what sysfs shows is read back as the live geometry (vtl_init,
\* vtl_geom_apply_job).  PublishedIsLive has two exceptions: an insmod without
\* vtl_instances takes num_drives as it is, and shows it so, out of range too
\* (vtl_parse_instances_into); and a roll back to a geometry that sysfs did not
\* show before either.
THEOREM ShowsWhatIsLive == ASSUME "table" \notin Faults PROVE Spec => PublishedIsLive
<1> DEFINE Inv == Progress /\ Calm /\ Pointers /\ Ledger /\ Asked /\ Shown
           Step == /\ task \in {"init", "set", "rollback"} /\ task' = "none"
                   /\ InRange(live')
                   /\ task = "rollback" => Parse(published) \in {prev, << >>}
                   => live' = Parse(published')
<1>1. Init => Inv
  <2>1. << >> \in Seq(Hosts) /\ Len(<< >>) = 0
    OBVIOUS
  <2>2. Init => Ledger
    BY <2>1 DEF Init, Ledger, InOrder, Accounts, Building
  <2>3. Init => Calm /\ Pointers
    BY <2>1 DEF Init, Calm, Listed, Over, Work, Pointers, PointersLive, NoHost, Dangling
  <2>4. Init => Asked /\ Shown
    BY DEF Init, Asked, Shown, Rebuild, Turn
  <2> QED
    BY Begins, <2>2, <2>3, <2>4
<1>2. Inv /\ [Next]_vars => Inv'
  BY ProgressKept, CalmKept, PointersKept, LedgerKept, AskedKept, ShownKept
<1>3. Inv /\ [Next]_vars => [Step]_vars
  <2> SUFFICES ASSUME Inv, Next, task \in {"init", "set", "rollback"}, task' = "none",
                      InRange(live'),
                      task = "rollback" => Parse(published) \in {prev, << >>}
               PROVE  live' = Parse(published')
    OBVIOUS
  <2>1. CASE InsmodEnd
    BY <2>1, ParseOfGeometry DEF InsmodEnd, Progress
  <2>2. ASSUME NEW c \in Callers, JobSucceeds(c) PROVE live' = Parse(published')
    BY <2>2 DEF JobSucceeds, JobEnds, Answer, Asked, Shown, Rebuild
  <2>3. ASSUME NEW c \in Callers, RollbackSucceeds(c) PROVE live' = Parse(published')
    <3>1. /\ task = "rollback" /\ live' = live /\ live = prev
          /\ published' = IF published = << >> THEN live ELSE published
      BY <2>3 DEF RollbackSucceeds, Shown
    <3>2. Parse(live) = live
      BY <3>1, ParseOfGeometry DEF Progress
    <3> QED
      BY <3>1, <3>2 DEF Shown
  <2>4. ASSUME NEW c \in Callers, RollbackFails(c) PROVE live' = Parse(published')
    <3>1. published' = << >> /\ Unregistered /\ live' = LiveAfter
      BY <2>4 DEF RollbackFails, RegisterFailed, Shown, Rebuild
    <3>2. table
      BY <3>1 DEF Unregistered, Ledger, Building
    <3> QED
      BY <3>1, <3>2, EmptyIsGeometry, ParseOfGeometry DEF LiveAfter
  <2>5. ASSUME NEW c \in Callers, JobBusy(c) PROVE FALSE
    BY <2>5 DEF JobBusy, Pointers
  <2>6. CASE Register \/ TearDown
    BY <2>6 DEF Register, RegisterBegin, RegisterDevice, ProbeFails, DeviceFails, TearDown,
       Quiesce, CancelWork, CancelEnd, RemoveHost, RemoveEnd, Unregister
  <2>7. CASE ModuleGone \/ JobTearsDown \/ JobRebuilds \/ JobRollsBack \/ Load \/ Rmmod
    BY <2>7 DEF ModuleGone, JobTearsDown, JobRebuilds, JobRollsBack, Load, Insmod, Rmmod
  <2>8. ASSUME NEW w \in Work, Handler(w) PROVE FALSE
    BY <2>8 DEF Handler, BringupStart, BringupLock, BringupOut, BringupAdd, BringupAddFails,
       ScanStart, Scan, ScanEnd, thread
  <2>9. CASE Traffic \/ Administration \/ \E h \in Hosts : CommandEnd(h)
    BY <2>9 DEF Traffic, Administration, WriteParam, ScanByHand, CommandStart, CommandEnd,
       thread
  <2>10. ASSUME NEW c \in Callers, Call(c) PROVE FALSE
    BY <2>10 DEF Call, CallSet, ResizeNothing, ResizeBegin, GetChanger, thread
  <2>11. ASSUME NEW c \in Callers, GoesOn(c) PROVE FALSE
    BY <2>11 DEF GoesOn, Submit, JobRefused, JobAllowed, JobNothingToDo, JobBegin, UnlockJob,
       ReadResult, ResizeHost,
       ResizeUndo, ResizeEnd, ReleaseChanger, thread
  <2> QED
    BY <2>1, <2>2, <2>3, <2>4, <2>5, <2>6, <2>7, <2>8, <2>9, <2>10, <2>11 DEF Next, Thread
<1> QED
  BY <1>1, <1>2, <1>3, PTL DEF Spec, PublishedIsLive

-----------------------------------------------------------------------------
(* Who waits for whom                                                      *)

\* A mutex of the bring-up is owned by a handler inside its critical section, which
\* finds vtl_serial_full_bringup set when it gets to the end; and a host's scan is
\* not scheduled before its bring-up has registered it.
MutexesHeld ==
    /\ fullMutex \in Hosts => serialFull /\ work[<<fullMutex, "bringup">>] \in Holding
    /\ \A h \in Hosts : work[<<h, "bringup">>] = "mutex" => serialFull
    /\ scanMutex # NoWork => work[scanMutex] = "scanning"
    /\ \A h \in Hosts : work[<<h, "bringup">>] \in {"pending", "mutex", "add"} =>
           work[<<h, "scan">>] = "none"

\* Every step but those of the handlers leaves running works alone.
LEMMA RunningStays ==
    ASSUME WorksTyped, MutexesHeld, UNCHANGED <<fullMutex, scanMutex>>,
           serialFull => serialFull',
           \A w \in Work : work'[w] = work[w] \/ (work'[w] = "none" /\ ~Running(w))
    PROVE  MutexesHeld'
<1>1. ASSUME fullMutex \in Hosts
      PROVE  serialFull' /\ work'[<<fullMutex, "bringup">>] \in Holding
  <2>1. <<fullMutex, "bringup">> \in Work /\ Running(<<fullMutex, "bringup">>)
    BY <1>1 DEF MutexesHeld, Holding, Running, Work
  <2> QED
    BY <1>1, <2>1 DEF MutexesHeld
<1>2. ASSUME scanMutex # NoWork PROVE work'[scanMutex] = "scanning"
  BY <1>2 DEF MutexesHeld, WorksTyped, Running
<1>3. ASSUME NEW h \in Hosts, work'[<<h, "bringup">>] \in {"pending", "mutex", "add"}
      PROVE  work'[<<h, "scan">>] = "none"
  BY <1>3 DEF MutexesHeld, Work
<1>4. ASSUME NEW h \in Hosts, work'[<<h, "bringup">>] = "mutex" PROVE serialFull'
  BY <1>4 DEF MutexesHeld, Work
<1> QED
  BY <1>1, <1>2, <1>3, <1>4 DEF MutexesHeld

LEMMA NoWorkIsNone == NoWork \notin Work /\ NoHost \notin Hosts
BY HostAssumption DEF HostAssumption, NoWork, NoHost, Work, Hosts

LEMMA HandlerMutexes ==
    ASSUME WorksTyped, FlagsTyped, MutexesHeld, NEW w \in Work, Handler(w)
    PROVE  MutexesHeld'
<1>1. PICK h \in Hosts : w = <<h, "bringup">> \/ w = <<h, "scan">>
  BY DEF Work
<1>2. /\ UNCHANGED serialFull /\ w[1] = h /\ h # NoHost
      /\ <<h, "bringup">> \in Work /\ <<h, "scan">> \in Work
      /\ \A g \in Hosts : <<g, "bringup">> \in Work /\ <<g, "scan">> \in Work
  BY <1>1, NoWorkIsNone DEF Handler, BringupStart, BringupLock, BringupOut, BringupAdd,
     BringupAddFails, ScanStart, Scan, ScanEnd, params, Work
<1> USE DEF WorksTyped, MutexesHeld
<1>3. CASE BringupStart(h) \/ BringupAddFails(h)
  <2>1. CASE BringupStart(h)
    BY <1>2, <2>1 DEF BringupStart, Holding
  <2>2. CASE BringupAddFails(h)
    BY <1>2, <2>2 DEF BringupAddFails, Holding
  <2> QED
    BY <1>3, <2>1, <2>2
<1>4. CASE BringupLock(h)
  BY <1>2, <1>4, NoWorkIsNone DEF BringupLock, Holding, FlagsTyped
<1>5. CASE BringupAdd(h)
  <2>1. PICK x \in {"scan", "out"}, y \in {"none", "pending"} :
            work' = [work EXCEPT ![<<h, "bringup">>] = x, ![<<h, "scan">>] = y]
    <3>1. work[<<h, "scan">>] = "none"
      BY <1>2, <1>5 DEF BringupAdd
    <3> QED
      BY ZenonT(60), <1>2, <1>5, <3>1 DEF BringupAdd
  <2>2. work[<<h, "bringup">>] = "add" /\ UNCHANGED <<fullMutex, scanMutex>>
        /\ work[<<h, "scan">>] = "none"
    BY <1>2, <1>5 DEF BringupAdd
  <2> QED
    BY <1>2, <2>1, <2>2 DEF Holding
<1>6. CASE BringupOut(h)
  BY <1>2, <1>6, NoWorkIsNone DEF BringupOut, Holding
<1>7. CASE ScanStart(h)
  BY <1>2, <1>7 DEF ScanStart, Holding
<1>8. CASE Scan(w)
  BY <1>1, <1>2, <1>8 DEF Scan, Holding
<1>9. CASE ScanEnd(w)
  BY <1>1, <1>2, <1>9 DEF ScanEnd, Holding
<1> QED
  BY <1>1, <1>2, <1>3, <1>4, <1>5, <1>6, <1>7, <1>8, <1>9 DEF Handler

LEMMA MutexesKept ==
    ASSUME NeverLowered, Calm, Ledger, WorksTyped, FlagsTyped, MutexesHeld, Progress, [Next]_vars
    PROVE  MutexesHeld'
<1>1. CASE Register
  <2>1. CASE RegisterDevice
    <3>1. at \in Hosts /\ ~Listed(at)
      <4>1. Building /\ step = "register" /\ at <= Len(live) /\ at \in Nat /\ at >= 1
        BY <2>1 DEF RegisterDevice, Progress
      <4>2. at \in Hosts
        BY <4>1, GeometryAt DEF Progress, AnyGeometry
      <4>3. \A i \in 1 .. Len(list) : list[i] < at
        BY <4>1 DEF Ledger
      <4> QED
        BY <4>1, <4>2, <4>3 DEF Listed
    <3>2. Over(at)
      BY <3>1 DEF Calm
    <3>3. /\ work' = [work EXCEPT ![<<at, "bringup">>] = "pending"]
          /\ UNCHANGED <<fullMutex, scanMutex, serialFull>>
      BY <2>1 DEF RegisterDevice, params
    <3> QED
      BY <3>1, <3>2, <3>3 DEF WorksTyped, MutexesHeld, Over, Holding, Work
  <2> QED
    BY <1>1, <2>1, RunningStays DEF Register, RegisterBegin, ProbeFails, DeviceFails, works,
       params
<1>2. CASE TearDown
  <2>1. CASE CancelWork
    <3>1. PICK w : ~Running(w) /\ work' = [work EXCEPT ![w] = "none"]
      BY <2>1 DEF CancelWork
    <3> QED
      BY <2>1, <3>1, RunningStays DEF CancelWork, params, WorksTyped
  <2>2. CASE Unregister
    <3>1. CASE pdev[at] = "bound"
      BY <2>2, <3>1, RunningStays DEF Unregister, params, WorksTyped
    <3>2. CASE pdev[at] # "bound"
      BY <2>2, <3>2, RunningStays DEF Unregister, params
    <3> QED
      BY <3>1, <3>2
  <2> QED
    BY <1>2, <2>1, <2>2, RunningStays DEF TearDown, Quiesce, CancelEnd, RemoveHost, RemoveEnd,
       works, params
<1>3. CASE Thread /\ ~Register /\ ~TearDown
  <2>1. UNCHANGED works /\ (serialFull => serialFull')
    <3>1. CASE InsmodEnd \/ \E c \in Callers : JobSucceeds(c)
      BY <3>1 DEF InsmodEnd, JobSucceeds, Tune
    <3>2. CASE UNCHANGED <<works, params>>
      BY <3>2 DEF params
    <3> QED
      BY <1>3, <3>1, <3>2 DEF Thread, ModuleGone, JobTearsDown, JobRebuilds, JobRollsBack,
         JobBusy, RollbackSucceeds, RollbackFails
  <2> QED
    BY <2>1, RunningStays DEF works
<1>4. CASE Load
  <2>1. task = "off" /\ UNCHANGED works
    BY <1>4 DEF Load, Insmod
  <2>2. ASSUME NEW h \in Hosts PROVE Over(h)
    <3>1. list = << >>
      BY <2>1 DEF Ledger
    <3> QED
      BY <3>1 DEF Calm, Listed
  <2>3. fullMutex \notin Hosts
    BY <2>2 DEF MutexesHeld, Over, Holding
  <2>4. \A h \in Hosts : work'[<<h, "bringup">>] # "mutex"
    BY <2>1, <2>2 DEF Over, works
  <2> QED
    BY <2>1, <2>3, <2>4 DEF MutexesHeld, works
<1>5. CASE UNCHANGED vars \/ Rmmod \/ Traffic \/ \E h \in Hosts : CommandEnd(h)
  BY <1>5, RunningStays DEF vars, Rmmod, Traffic, ScanByHand, CommandStart, CommandEnd, works,
     params
<1>6. ASSUME NEW c \in Callers, Call(c) \/ GoesOn(c) PROVE MutexesHeld'
  <2>1. UNCHANGED <<works, params>>
    BY <1>6 DEF Call, CallSet, ResizeNothing, ResizeBegin, GetChanger, GoesOn, Submit,
       JobRefused, JobAllowed, JobNothingToDo, JobBegin, UnlockJob, ReadResult, ResizeHost,
       ResizeUndo, ResizeEnd, ReleaseChanger
  <2> QED
    BY <2>1, RunningStays DEF works, params
<1>7. CASE Administration
  <2>1. UNCHANGED works /\ (serialFull => serialFull')
    BY <1>7, WritesKeepSerial DEF FlagsTyped
  <2> QED
    BY <2>1, RunningStays DEF works
<1> QED
  BY <1>1, <1>2, <1>3, <1>4, <1>5, <1>6, <1>7, HandlerMutexes DEF Next

\* The handlers that own a mutex the next step of a running handler has to
\* take.  Its other steps wait for nobody; in particular no handler takes
\* vtl_list_lock, vtl_reconfig_mutex or the mutexes of the geometry jobs.
WaitsFor(w) ==
    {v \in Work :
        \/ work[w] = "mutex" /\ v = <<fullMutex, "bringup">>
        \/ work[w] = "scan" /\ v = scanMutex}

\* A handler waits for vtl_full_bringup_mutex, its owner at most for
\* vtl_host_scan_mutex, and the owner of that is scanning and waits for
\* nobody.  When no handler runs, both mutexes are free.
HandlersOrdered ==
    /\ \A w \in Work : \A v \in WaitsFor(w) :
           /\ Running(v)
           /\ \A u \in WaitsFor(v) : work[u] = "scanning" /\ WaitsFor(u) = {}
    /\ (\A w \in Work : ~Running(w)) => fullMutex = NoHost /\ scanMutex = NoWork

\* As long as nobody writes N to serial_full_bringup, what rmmod and SET_INSTANCES
\* wait for comes to an end: the handlers that cancel_delayed_work_sync and
\* flush_workqueue wait for (vtl_quiesce_all_hosts) never wait for one another in a
\* circle, nor for a mutex left locked by a handler that is gone, although each
\* bring-up reads the parameter three times, and insmod, the tuning or the
\* administrator may turn it from N to Y in between.  The assumption is needed: an N
\* written between the lock and the unlock of one bring-up leaves
\* vtl_full_bringup_mutex locked for ever, which the code does not guard against.
THEOREM BringupsNeverDeadlock ==
    ASSUME <<"serial_full_bringup", FALSE>> \notin Writes PROVE Spec => []HandlersOrdered
<1> DEFINE Inv == Progress /\ Calm /\ Ledger /\ WorksTyped /\ FlagsTyped /\ MutexesHeld
<1>1. Init => Inv
  <2>1. << >> \in Seq(Hosts) /\ Len(<< >>) = 0
    OBVIOUS
  <2>2. Init => Ledger
    BY <2>1 DEF Init, Ledger, InOrder, Accounts, Building
  <2>3. Init => Calm
    BY <2>1 DEF Init, Calm, Listed, Over, Work
  <2>4. Init => WorksTyped
    BY DEF Init, WorksTyped, WorkState
  <2>5. Init => FlagsTyped
    BY DEF Init, FlagsTyped
  <2>6. Init => MutexesHeld
    BY NoWorkIsNone DEF Init, MutexesHeld, Work
  <2> QED
    BY Begins, <2>2, <2>3, <2>4, <2>5, <2>6
<1>2. Inv /\ [Next]_vars => Inv'
  BY ProgressKept, CalmKept, LedgerKept, WorksTypedKept, FlagsTypedKept, MutexesKept
     DEF NeverLowered
<1>3. Inv => HandlersOrdered
  <2> SUFFICES ASSUME Inv PROVE HandlersOrdered
    OBVIOUS
  <2>1. ASSUME NEW w \in Work, NEW v \in WaitsFor(w)
        PROVE  /\ v \in Work
               /\ \/ work[w] = "mutex" /\ work[v] \in Holding
                  \/ work[w] = "scan" /\ work[v] = "scanning"
    <3>1. CASE work[w] = "mutex" /\ v = <<fullMutex, "bringup">>
      BY <2>1, <3>1 DEF WaitsFor, MutexesHeld, Work
    <3>2. CASE work[w] = "scan" /\ v = scanMutex
      BY <2>1, <3>2, NoWorkIsNone DEF WaitsFor, MutexesHeld
    <3> QED
      BY <2>1, <3>1, <3>2 DEF WaitsFor
  <2>2. ASSUME NEW w \in Work, work[w] = "scanning" PROVE WaitsFor(w) = {}
    BY <2>2 DEF WaitsFor
  <2>3. ASSUME \A w \in Work : ~Running(w)
        PROVE  fullMutex = NoHost /\ scanMutex = NoWork
    BY <2>3 DEF WorksTyped, MutexesHeld, Running, Holding, Work
  <2>4. ASSUME NEW w \in Work, NEW v \in WaitsFor(w)
        PROVE  /\ Running(v)
               /\ \A u \in WaitsFor(v) : work[u] = "scanning" /\ WaitsFor(u) = {}
    <3>1. v \in Work /\ work[v] \in Holding
      BY <2>1, <2>4 DEF Holding
    <3>2. ASSUME NEW u \in WaitsFor(v) PROVE work[u] = "scanning" /\ WaitsFor(u) = {}
      BY <2>1, <2>2, <3>1, <3>2 DEF Holding
    <3> QED
      BY <3>1, <3>2 DEF Running, Holding
  <2> QED
    BY <2>3, <2>4 DEF HandlersOrdered
<1> QED
  BY <1>1, <1>2, <1>3, PTL DEF Spec
=============================================================================
