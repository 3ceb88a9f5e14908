-------------------------- MODULE TapeDriveProofs --------------------------
(***************************************************************************)
(* Proofs about module TapeDrive, for any number of commands and media and *)
(* any transfer lengths and SPACE counts: types, media, locks.             *)
(***************************************************************************)
EXTENDS TapeDriveProperties, TLAPS

\* A command past its start has a tape in its local variable.  It is what
\* makes the other invariants inductive: no command works on a NULL pointer,
\* although the robot may have taken the tape out of the drive meanwhile.
HasTape == \A p \in Proc : pc[p] \in {"locked", "io", "picked"} => cur[p] \in Tape

IInv == TypeOK /\ HasTape /\ OnMedium /\ UsedCoversData /\ OneAtATime

\* What is recorded on the media, and how far they are written.
MediaOK ==
    /\ position \in [Tape -> Nat] /\ used \in [Tape -> Nat]
    /\ image \in [Tape -> [Block -> Content]]
    /\ OnMedium /\ UsedCoversData

-----------------------------------------------------------------------------
LEMMA CapacityType == capacity \in [Tape -> Nat]
BY DriveAssumption DEF capacity

LEMMA NoCommandType == NoCommand \in Command
BY DEF NoCommand, Command

\* What the handlers rely on about the arguments of a command.
LEMMA CommandFacts ==
    ASSUME NEW c \in Command
    PROVE  /\ c.n \in Int /\ c.code \in 0 .. 4 /\ c.data \in Content
           /\ c.op \in {"read", "write"} => c.n \in Nat
<1>1. /\ c.op \in {"read", "write"} => c.n \in Lengths
      /\ c.n \in Lengths \cup Counts \cup {1}
  BY DEF Command
<1>2. /\ \A n \in Lengths : n \in Nat
      /\ \A n \in Lengths \cup Counts \cup {1} : n \in Int
  BY DriveAssumption
<1>3. c.code \in {0, 1, 2, 3, 4}
  BY DEF Command
<1>4. c.data \in Content
  BY DEF Command, Content
<1> QED
  BY <1>1, <1>2, <1>3, <1>4

\* SPACE adds and subtracts a distance that is never negative.
LEMMA SpaceToType ==
    ASSUME TypeOK, NEW t \in Tape, NEW code \in 0 .. 4, NEW n \in Int
    PROVE  SpaceTo(t, code, n) \in Int
<1>1. position[t] \in Int /\ capacity[t] \in Int
  BY CapacityType DEF TypeOK
<1>2. Distance(n) \in Int
  BY DriveAssumption DEF Distance
<1> QED
  BY <1>1, <1>2 DEF SpaceTo

\* Bringing a number between zero and a limit, as SPACE does.
LEMMA Bounded ==
    ASSUME NEW n \in Int, NEW limit \in Nat
    PROVE  Least(Most(n, 0), limit) \in 0 .. limit
BY DEF Least, Most

\* A transfer of at least one block ends between the position and the capacity.
LEMMA TransferEnd ==
    ASSUME TypeOK, OnMedium, NEW t \in Tape, NEW n \in Nat
    PROVE  Least(position[t] + n, capacity[t]) \in position[t] .. capacity[t]
BY CapacityType DEF TypeOK, OnMedium, Least

-----------------------------------------------------------------------------
(* The media                                                               *)

\* Steps that move a tape without writing: the marks stay on the medium.
LEMMA PositionStep ==
    ASSUME TypeOK, OnMedium, UsedCoversData, NEW t \in Tape,
           NEW n \in 0 .. capacity[t],
           position' = [position EXCEPT ![t] = n],
           UNCHANGED <<used, image>>
    PROVE  MediaOK'
BY CapacityType DEF TypeOK, OnMedium, UsedCoversData, MediaOK, capacity

\* A write, complete or cut short, raises the high-water mark over what it
\* records.
LEMMA WriteStep ==
    ASSUME IInv, NEW p \in Proc, Write(p)
    PROVE  MediaOK'
<1> DEFINE t == cur[p]
           limit == Least(position[t] + cmd[p].n, capacity[t])
<1>1. t \in Tape /\ cmd[p].n \in Nat /\ cmd[p].data \in Content
  BY CommandFacts DEF Write, IInv, TypeOK, HasTape
<1>2. /\ position[t] \in Nat /\ used[t] \in Nat /\ capacity[t] \in Nat
      /\ position[t] <= capacity[t] /\ used[t] <= capacity[t]
  BY <1>1, CapacityType DEF IInv, TypeOK, OnMedium
<1>3. limit \in position[t] .. capacity[t]
  BY <1>1, TransferEnd DEF IInv
<1>4. PICK last \in Least(position[t] + 1, limit) .. limit :
         /\ image' = [image EXCEPT ![t] = [b \in Block |->
                         IF b \in position[t] .. last - 1 THEN cmd[p].data ELSE @[b]]]
         /\ position' = [position EXCEPT ![t] = last]
         /\ used' = [used EXCEPT ![t] = Most(last, @)]
  BY DEF Write
<1>5. last \in Nat /\ last <= capacity[t]
  BY <1>2, <1>3, <1>4 DEF Least
<1>6. used'[t] \in Nat /\ used'[t] >= used[t] /\ used'[t] >= last /\ used'[t] <= capacity[t]
  BY <1>1, <1>2, <1>4, <1>5 DEF IInv, TypeOK, Most
<1>7. position' \in [Tape -> Nat] /\ used' \in [Tape -> Nat]
  BY <1>1, <1>2, <1>4, <1>5 DEF IInv, TypeOK, Most
<1>8. image' \in [Tape -> [Block -> Content]]
  BY <1>1, <1>4 DEF IInv, TypeOK
<1>9. OnMedium'
  BY <1>1, <1>4, <1>5, <1>6 DEF IInv, TypeOK, OnMedium, capacity
<1>10. UsedCoversData'
  <2> SUFFICES ASSUME NEW s \in Tape, NEW b \in Block, image'[s][b] # Blank
               PROVE  b < used'[s]
    BY DEF UsedCoversData
  <2>1. CASE s # t
    BY <2>1, <1>1, <1>4 DEF IInv, TypeOK, UsedCoversData
  <2>2. CASE s = t /\ b \in position[t] .. last - 1
    BY <2>2, <1>2, <1>5, <1>6 DEF Block
  <2>3. CASE s = t /\ b \notin position[t] .. last - 1
    <3>1. image'[t][b] = image[t][b]
      BY <2>3, <1>1, <1>4 DEF IInv, TypeOK
    <3>2. b < used[t]
      BY <3>1, <2>3, <1>1 DEF IInv, UsedCoversData
    <3> QED
      BY <3>2, <2>3, <1>2, <1>6, DriveAssumption DEF Block
  <2> QED
    BY <2>1, <2>2, <2>3
<1> QED
  BY <1>7, <1>8, <1>9, <1>10 DEF MediaOK

\* A READ leaves its tape between where it stood and the capacity.
LEMMA ReadStep ==
    ASSUME IInv, NEW p \in Proc, Read(p)
    PROVE  MediaOK'
<1> DEFINE t == cur[p]
           last == Least(position[t] + cmd[p].n, capacity[t])
<1>1. t \in Tape /\ cmd[p].n \in Nat
  BY CommandFacts DEF Read, IInv, TypeOK, HasTape
<1>2. position[t] \in Nat /\ last \in position[t] .. capacity[t]
  BY <1>1, TransferEnd DEF IInv, TypeOK
<1>3. CASE UNCHANGED position
  BY <1>3 DEF Read, IInv, TypeOK, OnMedium, UsedCoversData, MediaOK, capacity
<1>4. CASE position' = [position EXCEPT ![t] = last]
  <2>1. last \in 0 .. capacity[t]
    BY <1>1, <1>2, CapacityType
  <2> HIDE DEF last
  <2> QED
    BY <1>4, <1>1, <2>1, PositionStep DEF Read, IInv
<1> QED
  BY <1>3, <1>4 DEF Read

\* SPACE, whatever its count, and REWIND stay on the medium.
LEMMA SpaceStep ==
    ASSUME IInv, NEW p \in Proc, Space(p) \/ Rewind(p)
    PROVE  MediaOK'
<1> DEFINE t == cur[p]
           to == Least(Most(SpaceTo(t, cmd[p].code, cmd[p].n), 0), capacity[t])
<1>1. t \in Tape /\ capacity[t] \in Nat
  BY CapacityType DEF Space, Rewind, IInv, HasTape
<1>2. to \in 0 .. capacity[t] /\ 0 \in 0 .. capacity[t]
  <2>1. cmd[p].code \in 0 .. 4 /\ cmd[p].n \in Int
    BY CommandFacts DEF IInv, TypeOK
  <2>2. SpaceTo(t, cmd[p].code, cmd[p].n) \in Int
    BY <2>1, <1>1, SpaceToType DEF IInv
  <2>3. \A n \in Int : Least(Most(n, 0), capacity[t]) \in 0 .. capacity[t]
    BY <1>1, Bounded
  <2> QED
    BY <2>2, <2>3, <1>1
<1>3. \E n \in {to, 0} : position' = [position EXCEPT ![t] = n]
  BY DEF Space, Rewind
<1>4. UNCHANGED <<used, image>>
  BY DEF Space, Rewind
<1> HIDE DEF to
<1> QED
  BY <1>1, <1>2, <1>3, <1>4, PositionStep DEF IInv

\* No other step touches the media.
LEMMA MediaStep ==
    ASSUME IInv, Next
    PROVE  MediaOK'
<1>1. ASSUME UNCHANGED tapeVars
      PROVE  MediaOK'
  BY <1>1 DEF tapeVars, IInv, TypeOK, OnMedium, UsedCoversData, MediaOK, capacity
<1>2. CASE Robot
  BY <1>2, <1>1 DEF Robot, RobotLoad, RobotUnload
<1>3. ASSUME NEW p \in Proc, NEW c \in Command, Arrive(p, c)
      PROVE  MediaOK'
  BY <1>3, <1>1 DEF Arrive
<1>4. ASSUME NEW p \in Proc, WaitStep(p)
      PROVE  MediaOK'
  BY <1>4, <1>1, SpaceStep DEF WaitStep, LockDrive, LockTape, WriteFilemarks
<1>5. ASSUME NEW p \in Proc, RunStep(p)
      PROVE  MediaOK'
  BY <1>5, <1>1, ReadStep, WriteStep DEF RunStep, ProbeWrite, PickTape, FileError, Unload
<1> QED
  BY <1>2, <1>3, <1>4, <1>5 DEF Next

-----------------------------------------------------------------------------
(* The commands and their locks                                            *)

\* The drive, the commands and the locks.
CommandOK ==
    /\ loaded \in Tape \cup {NoTape}
    /\ atFilemark \in BOOLEAN
    /\ drvLock \in Proc \cup {NoProc}
    /\ tapeLock \in [Tape -> Proc \cup {NoProc}]
    /\ pc \in [Proc -> PC]
    /\ cmd \in [Proc -> Command]
    /\ cur \in [Proc -> Tape \cup {NoTape}]
    /\ HasTape /\ OneAtATime

\* A command that answers forgets its tape.
LEMMA ReplyStep ==
    ASSUME IInv, NEW p \in Proc, Reply(p),
           \/ pc[p] # "io" /\ UNCHANGED tapeLock
           \/ pc[p] = "io" /\ Unlock(cur[p]),
           loaded' \in Tape \cup {NoTape}, drvLock' \in Proc \cup {NoProc},
           atFilemark' \in BOOLEAN
    PROVE  CommandOK'
<1>1. /\ tapeLock' \in [Tape -> Proc \cup {NoProc}]
      /\ pc' \in [Proc -> PC]
      /\ cmd' \in [Proc -> Command]
      /\ cur' \in [Proc -> Tape \cup {NoTape}]
  BY NoCommandType DEF IInv, TypeOK, Reply, Unlock, PC
<1>2. HasTape'
  BY DEF IInv, TypeOK, HasTape, Reply
<1>3. OneAtATime'
  BY DriveAssumption DEF IInv, TypeOK, HasTape, OneAtATime, Reply, Unlock
<1> QED
  BY <1>1, <1>2, <1>3 DEF CommandOK, IInv, TypeOK

LEMMA CommandStep ==
    ASSUME IInv, Next
    PROVE  CommandOK'
<1> USE DEF IInv, TypeOK
<1>1. CASE Robot
  BY <1>1 DEF Robot, RobotLoad, RobotUnload, CommandOK, HasTape, OneAtATime,
              tapeVars, locks
<1>2. ASSUME NEW p \in Proc, NEW c \in Command, Arrive(p, c)
      PROVE  CommandOK'
  BY <1>2 DEF Arrive, PC, CommandOK, HasTape, OneAtATime, tapeVars, locks
<1>3. ASSUME NEW p \in Proc, WaitStep(p)
      PROVE  CommandOK'
  <2>1. CASE LockDrive(p)
    <3>1. CASE loaded = NoTape
      BY <3>1, <2>1, ReplyStep DEF LockDrive
    <3>2. CASE loaded # NoTape
      <4>1. pc' \in [Proc -> PC] /\ cur' \in [Proc -> Tape \cup {NoTape}]
        BY <3>2, <2>1 DEF LockDrive, PC
      <4>2. HasTape' /\ OneAtATime'
        BY <3>2, <2>1 DEF LockDrive, HasTape, OneAtATime
      <4> QED
        BY <3>2, <2>1, <4>1, <4>2 DEF LockDrive, CommandOK
    <3> QED
      BY <3>1, <3>2
  <2>2. CASE LockTape(p)
    BY <2>2, DriveAssumption DEF LockTape, PC, CommandOK, HasTape, OneAtATime
  <2>3. CASE Space(p) \/ Rewind(p) \/ WriteFilemarks(p)
    BY <2>3, ReplyStep DEF Space, Rewind, WriteFilemarks, locks
  <2> QED
    BY <1>3, <2>1, <2>2, <2>3 DEF WaitStep
<1>4. ASSUME NEW p \in Proc, RunStep(p)
      PROVE  CommandOK'
  <2>1. CASE PickTape(p)
    <3>1. CASE loaded = NoTape
      BY <3>1, <2>1, ReplyStep DEF PickTape, locks
    <3>2. CASE loaded # NoTape
      <4>1. pc' \in [Proc -> PC] /\ cur' \in [Proc -> Tape \cup {NoTape}]
        BY <3>2, <2>1 DEF PickTape, PC
      <4>2. HasTape'
        BY <3>2, <2>1 DEF PickTape, HasTape
      <4>3. OneAtATime'
        BY <3>2, <2>1 DEF PickTape, OneAtATime, locks
      <4> QED
        BY <3>2, <2>1, <4>1, <4>2, <4>3 DEF PickTape, CommandOK, locks
    <3> QED
      BY <3>1, <3>2
  <2>2. CASE FileError(p) \/ Unload(p)
    BY <2>2, ReplyStep DEF FileError, Unload
  <2>3. CASE Read(p)
    BY <2>3, ReplyStep DEF Read
  <2>4. CASE Write(p)
    BY <2>4, ReplyStep DEF Write
  <2>5. CASE ProbeWrite(p)
    BY SMTT(40), <2>5 DEF ProbeWrite, PC, CommandOK, HasTape, OneAtATime, tapeVars, locks
  <2> QED
    BY <1>4, <2>1, <2>2, <2>3, <2>4, <2>5 DEF RunStep
<1> QED
  BY <1>1, <1>2, <1>3, <1>4 DEF Next

-----------------------------------------------------------------------------
(* The theorems                                                            *)

LEMMA InitInv == Init => IInv
<1> SUFFICES ASSUME Init PROVE IInv
  OBVIOUS
<1>1. TypeOK
  BY NoCommandType DEF Init, TypeOK, PC, Content
<1>2. OnMedium /\ UsedCoversData
  BY CapacityType DEF Init, OnMedium, UsedCoversData
<1>3. HasTape /\ OneAtATime
  BY DriveAssumption DEF Init, HasTape, OneAtATime
<1> QED
  BY <1>1, <1>2, <1>3 DEF IInv

LEMMA NextInv == IInv /\ [Next]_vars => IInv'
<1> SUFFICES ASSUME IInv, [Next]_vars PROVE IInv'
  OBVIOUS
<1>1. CASE Next
  BY <1>1, MediaStep, CommandStep DEF IInv, TypeOK, MediaOK, CommandOK
<1>2. CASE UNCHANGED vars
  BY <1>2 DEF vars, tapeVars, locks, IInv, TypeOK, HasTape, OnMedium,
              UsedCoversData, OneAtATime, capacity
<1> QED
  BY <1>1, <1>2

LEMMA Invariant == Spec => []IInv
BY InitInv, NextInv, PTL DEF Spec

\* Drive, media and commands keep their types, whatever the robot does under the
\* commands: a position is never negative, and a command past its start keeps the
\* tape it has picked up.
THEOREM DriveTyped == Spec => []TypeOK
<1>1. IInv => TypeOK
  BY DEF IInv
<1> QED
  BY <1>1, Invariant, PTL

\* No command, with any length or count and in any interleaving with the robot,
\* takes a tape or its high-water mark past the capacity (vtl_tape_read,
\* vtl_tape_write, vtl_tape_space, vtl_tape_rewind).
THEOREM TapeInBounds == Spec => []OnMedium
<1>1. IInv => OnMedium
  BY DEF IInv
<1> QED
  BY <1>1, Invariant, PTL

\* Every block recorded lies below the high-water mark (vtl_tape_write), also when
\* a write is cut short or the tape was swapped under it.
THEOREM MarkCoversData == Spec => []UsedCoversData
<1>1. IInv => UsedCoversData
  BY DEF IInv
<1> QED
  BY <1>1, Invariant, PTL

\* No two transfers or unloads ever work on one tape (tape->lock), wherever
\* the robot has put it meanwhile.
THEOREM OneCommandPerTape == Spec => []OneAtATime
<1>1. IInv => OneAtATime
  BY DEF IInv
<1> QED
  BY <1>1, Invariant, PTL

\* Swapping tapes under a running command never redirects its data.
THEOREM DataStays == Spec => OnlyWritesChangeData
<1> DEFINE Step ==
      \A t \in Tape, b \in Block : image'[t][b] # image[t][b] =>
        \E p \in Proc :
            /\ pc[p] = "io" /\ cmd[p].op = "write" /\ cur[p] = t
            /\ position[t] <= b /\ b < position'[t]
            /\ image'[t][b] = cmd[p].data
<1>1. ASSUME IInv, [Next]_vars PROVE [Step]_vars
  <2> SUFFICES ASSUME Next, NEW t \in Tape, NEW b \in Block,
                      image'[t][b] # image[t][b]
               PROVE  \E p \in Proc :
                         /\ pc[p] = "io" /\ cmd[p].op = "write" /\ cur[p] = t
                         /\ position[t] <= b /\ b < position'[t]
                         /\ image'[t][b] = cmd[p].data
    BY <1>1
  <2>1. PICK p \in Proc : Write(p)
    BY DEF Next, Robot, RobotLoad, RobotUnload, Arrive, WaitStep, LockDrive, LockTape,
           Space, Rewind, WriteFilemarks, RunStep, ProbeWrite, PickTape,
           FileError, Read, Unload,
           tapeVars
  <2>2. PICK last \in Least(position[cur[p]] + 1,
                            Least(position[cur[p]] + cmd[p].n, capacity[cur[p]])) ..
                      Least(position[cur[p]] + cmd[p].n, capacity[cur[p]]) :
           /\ image' = [image EXCEPT ![cur[p]] = [c \in Block |->
                  IF c \in position[cur[p]] .. last - 1 THEN cmd[p].data ELSE @[c]]]
           /\ position' = [position EXCEPT ![cur[p]] = last]
    BY <2>1 DEF Write
  <2>3. cur[p] = t /\ b \in position[t] .. last - 1
    BY <2>2, <1>1 DEF IInv, TypeOK
  <2>4. image'[t][b] = cmd[p].data /\ position'[t] = last
    BY <2>2, <2>3, <1>1 DEF IInv, TypeOK
  <2> QED
    BY <2>1, <2>3, <2>4 DEF Write, Block
<1> QED
  BY <1>1, Invariant, PTL DEF Spec, OnlyWritesChangeData
-----------------------------------------------------------------------------
(* Who waits for whom                                                      *)

\* drv->lock is held exactly from the look at the loaded tape until tape->lock
\* is obtained, and by an UNLOAD until it has answered.
DriveHeld ==
    \A p \in Proc :
        drvLock = p <=> pc[p] = "locked" \/ (pc[p] = "io" /\ cmd[p].op = "unload")

LockedInv == IInv /\ DriveHeld

\* A command that answers holds no drv->lock any more.
LEMMA ReplyHeld ==
    ASSUME LockedInv, NEW p \in Proc, Reply(p),
           \/ UNCHANGED drvLock /\ pc[p] # "locked"
              /\ ~(pc[p] = "io" /\ cmd[p].op = "unload")
           \/ drvLock = p /\ drvLock' = NoProc
    PROVE  DriveHeld'
BY DriveAssumption DEF LockedInv, IInv, TypeOK, DriveHeld, Reply

LEMMA HeldStep == LockedInv /\ [Next]_vars => DriveHeld'
<1> SUFFICES ASSUME LockedInv, [Next]_vars PROVE DriveHeld'
  OBVIOUS
<1> USE DEF LockedInv
<1>1. CASE Robot \/ UNCHANGED vars
  BY <1>1 DEF Robot, RobotLoad, RobotUnload, DriveHeld, vars, locks
<1>2. ASSUME NEW p \in Proc, NEW c \in Command, Arrive(p, c)
      PROVE  DriveHeld'
  BY <1>2 DEF IInv, TypeOK, Arrive, DriveHeld, locks
<1>3. ASSUME NEW p \in Proc, LockDrive(p)
      PROVE  DriveHeld'
  <2>1. CASE loaded = NoTape
    BY <1>3, <2>1, ReplyHeld DEF LockDrive
  <2>2. CASE loaded # NoTape
    BY <1>3, <2>2, DriveAssumption DEF LockDrive, IInv, TypeOK, DriveHeld
  <2> QED BY <2>1, <2>2
<1>4. ASSUME NEW p \in Proc, LockTape(p)
      PROVE  DriveHeld'
  BY <1>4, DriveAssumption DEF LockTape, IInv, TypeOK, DriveHeld
<1>5. ASSUME NEW p \in Proc, Space(p) \/ Rewind(p) \/ WriteFilemarks(p)
      PROVE  DriveHeld'
  BY <1>5, ReplyHeld DEF Space, Rewind, WriteFilemarks, locks
<1>6. ASSUME NEW p \in Proc, ProbeWrite(p)
      PROVE  DriveHeld'
  BY <1>6 DEF IInv, TypeOK, ProbeWrite, DriveHeld, locks
<1>7. ASSUME NEW p \in Proc, PickTape(p)
      PROVE  DriveHeld'
  <2>1. CASE loaded = NoTape
    BY <1>7, <2>1, ReplyHeld DEF PickTape, locks
  <2>2. CASE loaded # NoTape
    BY <1>7, <2>2 DEF PickTape, IInv, TypeOK, DriveHeld, locks
  <2> QED BY <2>1, <2>2
<1>8. ASSUME NEW p \in Proc, FileError(p) \/ Read(p) \/ Write(p)
      PROVE  DriveHeld'
  BY <1>8, ReplyHeld DEF FileError, Read, Write
<1>9. ASSUME NEW p \in Proc, Unload(p)
      PROVE  DriveHeld'
  BY <1>9, ReplyHeld DEF Unload, DriveHeld
<1> QED
  BY <1>1, <1>2, <1>3, <1>4, <1>5, <1>6, <1>7, <1>8, <1>9
     DEF Next, WaitStep, RunStep

LEMMA LockedInvHolds == Spec => []LockedInv
<1>1. Init => DriveHeld
  BY DriveAssumption DEF Init, DriveHeld
<1> QED
  BY <1>1, InitInv, NextInv, HeldStep, PTL DEF Spec, LockedInv

\* The commands that own a lock the next step of p has to take.
WaitsFor(p) ==
    {q \in Proc :
        \/ pc[p] = "start" /\ cmd[p].op \in DriveLockOp /\ drvLock = q
        \/ pc[p] \in {"locked", "picked"} /\ tapeLock[cur[p]] = q}

\* A command waits for drv->lock, its owner at most for tape->lock, and the
\* owner of that for nobody: it is at its transfer or its unload.
LocksOrdered ==
    \A p \in Proc : \A q \in WaitsFor(p) :
        /\ pc[q] \in {"locked", "io"}
        /\ \A r \in WaitsFor(q) : pc[r] = "io" /\ WaitsFor(r) = {}
        /\ pc[q] = "io" => WaitsFor(q) = {}

\* drv->lock and tape->lock cannot deadlock, although UNLOAD holds the first
\* while it waits for the second and SPACE, REWIND and WRITE FILEMARKS take
\* the second alone: chains of waiting commands have at most two links and end
\* at a command that waits for nobody, for any number of commands and tapes.
THEOREM NoWaitingCycle == Spec => []LocksOrdered
<1>1. LockedInv => LocksOrdered
  <2> SUFFICES ASSUME LockedInv PROVE LocksOrdered
    OBVIOUS
  <2>1. ASSUME NEW p \in Proc, NEW q \in WaitsFor(p)
        PROVE  /\ q \in Proc
               /\ \/ pc[p] = "start" /\ pc[q] \in {"locked", "io"}
                  \/ pc[p] \in {"locked", "picked"} /\ pc[q] = "io"
    BY <2>1 DEF WaitsFor, LockedInv, DriveHeld, IInv, HasTape, OneAtATime
  <2>2. ASSUME NEW p \in Proc, pc[p] = "io"
        PROVE  WaitsFor(p) = {}
    BY <2>2 DEF WaitsFor
  <2> QED
    BY <2>1, <2>2 DEF LocksOrdered
<1> QED
  BY <1>1, LockedInvHolds, PTL
=============================================================================
