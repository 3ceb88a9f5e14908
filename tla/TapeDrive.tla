----------------------------- MODULE TapeDrive ------------------------------
(***************************************************************************)
(* One tape drive of the kernel module and the media that pass through it  *)
(* (kernel/src/vtl_tape.c: read, write, space, rewind, filemarks, unload;  *)
(* their SCSI handlers in kernel/src/vtl_scsi.c).                          *)
(*                                                                         *)
(* SCSI commands of several initiators run concurrently.  READ, WRITE and  *)
(* UNLOAD take drv->lock and then tape->lock; SPACE, REWIND and WRITE      *)
(* FILEMARKS pick up the loaded tape without drv->lock.  The robot swaps   *)
(* media under ch->lock, which none of them takes (module Changer).        *)
(*                                                                         *)
(* Lengths and positions are counted in blocks of drv->block_size, which   *)
(* nothing changes after changer_alloc; write_protected is never set.      *)
(***************************************************************************)
EXTENDS Integers, Sequences

CONSTANTS
    Tape, NoTape,
    Proc, NoProc,
    Opened,      \* media opened by name from an existing image
                 \* (vtl_tape_open_existing); the others were made by
                 \* VTL_IOCTL_CREATE_TAPE
    Size,        \* size given to VTL_IOCTL_CREATE_TAPE
    Data, Blank, \* what a block can hold; Blank is the empty image
    Wrap,        \* 2^32 bytes, in blocks: the width of count * block_size
    Lengths,     \* transfer lengths initiators use
    Counts       \* SPACE counts initiators use

ASSUME DriveAssumption ==
    /\ NoTape \notin Tape /\ NoProc \notin Proc
    /\ Opened \subseteq Tape
    /\ Size \in Nat /\ Wrap \in Nat \ {0}
    /\ Blank \notin Data
    /\ Lengths \subseteq Nat \ {0}
    /\ Counts \subseteq Int

VARIABLES
    loaded,                     \* drv->loaded_tape
    atFilemark,                 \* drv->at_filemark (at_bot and at_end: see README)
    position, used,             \* tape->position, meta.used
    image,                      \* the blocks of the image file
    drvLock, tapeLock,          \* owners of drv->lock and of each tape->lock
    pc, cmd, cur                \* per command: progress, arguments, tape pointer

tapeVars == <<position, used, image>>
locks == <<drvLock, tapeLock>>
vars == <<loaded, atFilemark, tapeVars, locks, pc, cmd, cur>>

\* meta.capacity: vtl_tape_create stores the size, vtl_tape_open_existing
\* clears the metadata and never learns the size of the image.
capacity == [t \in Tape |-> IF t \in Opened THEN 0 ELSE Size]

Block == 0 .. Size - 1
Content == Data \cup {Blank}
Op == {"read", "write", "unload", "space", "rewind", "filemarks"}
DriveLockOp == {"read", "write", "unload"}
PC == {"idle", "probe", "start", "locked", "io", "picked", "oops"}

\* n: blocks to transfer, or the SPACE count; code: the SPACE code;
\* data: what a WRITE brings for each of its blocks.
NoCommand == [op |-> "rewind", n |-> 1, code |-> 0, data |-> Blank]

Init ==
    /\ loaded = NoTape
    /\ atFilemark = FALSE
    /\ position = [t \in Tape |-> 0]
    /\ used = [t \in Tape |-> 0]
    /\ image = [t \in Tape |-> [b \in Block |-> Blank]]
    /\ drvLock = NoProc
    /\ tapeLock = [t \in Tape |-> NoProc]
    /\ pc = [p \in Proc |-> "idle"]
    /\ cmd = [p \in Proc |-> NoCommand]
    /\ cur = [p \in Proc |-> NoTape]

-----------------------------------------------------------------------------
(* The robot                                                               *)

\* vtl_changer_move_medium brings a medium to the drive or takes it away: it
\* only assigns loaded_tape, and waits for no command of the drive.
RobotLoad(t) ==
    /\ loaded = NoTape
    /\ loaded' = t
    /\ UNCHANGED <<atFilemark, tapeVars, locks, pc, cmd, cur>>

RobotUnload ==
    /\ loaded # NoTape
    /\ loaded' = NoTape
    /\ UNCHANGED <<atFilemark, tapeVars, locks, pc, cmd, cur>>

-----------------------------------------------------------------------------
(* Commands arrive                                                         *)

\* Every handler first looks whether a tape is loaded, without a lock, and
\* answers at once when none is (NOT READY, or GOOD to an UNLOAD).
Arrive(p, c) ==
    /\ pc[p] = "idle" /\ loaded # NoTape
    /\ pc' = [pc EXCEPT ![p] = IF c.op = "write" THEN "probe" ELSE "start"]
    /\ cmd' = [cmd EXCEPT ![p] = c]
    /\ UNCHANGED <<loaded, atFilemark, tapeVars, locks, cur>>

\* vtl_handle_write goes on to read drv->loaded_tape->write_protected.  The
\* compiler may load the pointer a second time: it can be NULL by now.
ProbeWrite(p) ==
    /\ pc[p] = "probe"
    /\ \/ loaded = NoTape /\ pc' = [pc EXCEPT ![p] = "oops"]
       \/ pc' = [pc EXCEPT ![p] = "start"]
    /\ UNCHANGED <<loaded, atFilemark, tapeVars, locks, cmd, cur>>

Reply(p) ==
    /\ pc' = [pc EXCEPT ![p] = "idle"]
    /\ cmd' = [cmd EXCEPT ![p] = NoCommand]
    /\ cur' = [cur EXCEPT ![p] = NoTape]

\* READ, WRITE, UNLOAD: the tape is picked up under drv->lock.  If it is gone
\* by now, READ and WRITE report MEDIUM ERROR and UNLOAD says GOOD.
LockDrive(p) ==
    /\ pc[p] = "start" /\ cmd[p].op \in DriveLockOp
    /\ drvLock = NoProc
    /\ UNCHANGED <<loaded, atFilemark, tapeVars, tapeLock>>
    /\ \/ /\ loaded = NoTape
          /\ Reply(p)
          /\ UNCHANGED drvLock
       \/ /\ loaded # NoTape
          /\ drvLock' = p
          /\ cur' = [cur EXCEPT ![p] = loaded]
          /\ pc' = [pc EXCEPT ![p] = "locked"]
          /\ UNCHANGED cmd

\* ... then tape->lock; READ and WRITE let go of the drive, UNLOAD does not.
LockTape(p) ==
    LET t == cur[p] IN
    /\ pc[p] = "locked" /\ tapeLock[t] = NoProc
    /\ tapeLock' = [tapeLock EXCEPT ![t] = p]
    /\ drvLock' = IF cmd[p].op = "unload" THEN p ELSE NoProc
    /\ pc' = [pc EXCEPT ![p] = "io"]
    /\ UNCHANGED <<loaded, atFilemark, tapeVars, cmd, cur>>

\* SPACE, REWIND, WRITE FILEMARKS: no lock; a tape that is gone is ignored.
PickTape(p) ==
    /\ pc[p] = "start" /\ cmd[p].op \notin DriveLockOp
    /\ UNCHANGED <<loaded, atFilemark, tapeVars, locks>>
    /\ \/ loaded = NoTape /\ Reply(p)
       \/ /\ loaded # NoTape
          /\ cur' = [cur EXCEPT ![p] = loaded]
          /\ pc' = [pc EXCEPT ![p] = "picked"]
          /\ UNCHANGED cmd

-----------------------------------------------------------------------------
(* Commands that transfer data                                             *)

Least(a, b) == IF a < b THEN a ELSE b
Most(a, b) == IF a > b THEN a ELSE b

Unlock(t) == tapeLock' = [tapeLock EXCEPT ![t] = NoProc]

\* Mutant: the error path forgets tape->lock.
FileErrorKeepsLock(p) ==
    /\ pc[p] = "io" /\ cmd[p].op \in {"read", "write"}
    /\ Reply(p)
    /\ UNCHANGED <<loaded, atFilemark, tapeVars, locks>>

\* The image file could not be read or written: MEDIUM ERROR.
FileError(p) ==
    /\ pc[p] = "io" /\ cmd[p].op \in {"read", "write"}
    /\ Reply(p)
    /\ Unlock(cur[p])
    /\ UNCHANGED <<loaded, atFilemark, tapeVars, drvLock>>

\* A filemark to report, the end of the tape, or blocks up to the capacity.
Read(p) ==
    LET t == cur[p]
        last == Least(position[t] + cmd[p].n, capacity[t])
    IN
    /\ pc[p] = "io" /\ cmd[p].op = "read"
    /\ atFilemark' = FALSE
    /\ \/ /\ atFilemark \/ position[t] >= capacity[t]
          /\ UNCHANGED position
       \/ /\ ~atFilemark /\ position[t] < capacity[t]
          /\ position' = [position EXCEPT ![t] = last]
    /\ Reply(p) /\ Unlock(t)
    /\ UNCHANGED <<loaded, used, image, drvLock>>

\* Mutant: the tape is looked up again after the locks were taken.
WriteLoaded(p) ==
    LET t == IF loaded = NoTape THEN cur[p] ELSE loaded
        last == Least(position[t] + cmd[p].n, capacity[t])
    IN
    /\ pc[p] = "io" /\ cmd[p].op = "write"
    /\ image' = [image EXCEPT ![t] = [b \in Block |->
                    IF b \in position[t] .. last - 1 THEN cmd[p].data ELSE @[b]]]
    /\ position' = [position EXCEPT ![t] = last]
    /\ used' = [used EXCEPT ![t] = Most(last, @)]
    /\ Reply(p) /\ Unlock(cur[p])
    /\ UNCHANGED <<loaded, atFilemark, drvLock>>

\* Mutant: meta.used is not raised.
WriteKeepsUsed(p) ==
    LET t == cur[p]
        last == Least(position[t] + cmd[p].n, capacity[t])
    IN
    /\ pc[p] = "io" /\ cmd[p].op = "write"
    /\ image' = [image EXCEPT ![t] = [b \in Block |->
                    IF b \in position[t] .. last - 1 THEN cmd[p].data ELSE @[b]]]
    /\ position' = [position EXCEPT ![t] = last]
    /\ Reply(p) /\ Unlock(t)
    /\ UNCHANGED <<loaded, atFilemark, used, drvLock>>

\* A write is cut at the capacity, and may stop early when the file system of
\* the image is full; it answers GOOD all the same.
Write(p) ==
    LET t == cur[p]
        limit == Least(position[t] + cmd[p].n, capacity[t])
    IN
    /\ pc[p] = "io" /\ cmd[p].op = "write"
    /\ \E last \in Least(position[t] + 1, limit) .. limit :
          /\ image' = [image EXCEPT ![t] = [b \in Block |->
                          IF b \in position[t] .. last - 1 THEN cmd[p].data ELSE @[b]]]
          /\ position' = [position EXCEPT ![t] = last]
          /\ used' = [used EXCEPT ![t] = Most(last, @)]
    /\ atFilemark' = FALSE
    /\ Reply(p) /\ Unlock(t)
    /\ UNCHANGED <<loaded, drvLock>>

-----------------------------------------------------------------------------
(* Commands that position or unload                                        *)

\* count * block_size is computed in 32 bits, unsigned: a negative count is a
\* large distance.
Distance(count) == count % Wrap

SpaceTo(t, code, count) ==
    CASE code = 0 -> position[t] + Distance(count)
      [] code = 1 -> position[t] - Distance(count)
      [] code = 2 -> capacity[t]
      [] code = 3 -> 0
      [] OTHER    -> position[t]

\* Mutant: the new position is not held above the beginning of the tape.
SpaceBelow(p) ==
    /\ pc[p] = "picked" /\ cmd[p].op = "space" /\ tapeLock[cur[p]] = NoProc
    /\ position' = [position EXCEPT ![cur[p]] =
                       Least(SpaceTo(cur[p], cmd[p].code, cmd[p].n), capacity[cur[p]])]
    /\ Reply(p)
    /\ UNCHANGED <<loaded, atFilemark, used, image, locks>>

\* Mutant: the new position is not held below the capacity.
SpaceBeyond(p) ==
    /\ pc[p] = "picked" /\ cmd[p].op = "space" /\ tapeLock[cur[p]] = NoProc
    /\ position' = [position EXCEPT ![cur[p]] =
                       Most(SpaceTo(cur[p], cmd[p].code, cmd[p].n), 0)]
    /\ Reply(p)
    /\ UNCHANGED <<loaded, atFilemark, used, image, locks>>

Space(p) ==
    LET t == cur[p]
        code == cmd[p].code
    IN
    /\ pc[p] = "picked" /\ cmd[p].op = "space" /\ tapeLock[t] = NoProc
    /\ position' = [position EXCEPT ![t] =
                       Least(Most(SpaceTo(t, code, cmd[p].n), 0), capacity[t])]
    /\ atFilemark' = (atFilemark \/ code = 4)
    /\ Reply(p)
    /\ UNCHANGED <<loaded, used, image, locks>>

WriteFilemarks(p) ==
    /\ pc[p] = "picked" /\ cmd[p].op = "filemarks" /\ tapeLock[cur[p]] = NoProc
    /\ atFilemark' = TRUE
    /\ Reply(p)
    /\ UNCHANGED <<loaded, tapeVars, locks>>

Rewind(p) ==
    /\ pc[p] = "picked" /\ cmd[p].op = "rewind" /\ tapeLock[cur[p]] = NoProc
    /\ position' = [position EXCEPT ![cur[p]] = 0]
    /\ atFilemark' = FALSE
    /\ Reply(p)
    /\ UNCHANGED <<loaded, used, image, locks>>

Unload(p) ==
    /\ pc[p] = "io" /\ cmd[p].op = "unload"
    /\ loaded' = NoTape
    /\ Reply(p)
    /\ Unlock(cur[p]) /\ drvLock' = NoProc
    /\ UNCHANGED <<atFilemark, tapeVars>>

-----------------------------------------------------------------------------
Command ==
    [op : {"read"}, n : Lengths, code : {0}, data : {Blank}]
    \cup [op : {"write"}, n : Lengths, code : {0}, data : Data]
    \cup [op : {"space"}, n : Counts, code : {0, 1}, data : {Blank}]
    \cup [op : {"space"}, n : {1}, code : {2, 3, 4}, data : {Blank}]
    \cup [op : {"rewind", "filemarks", "unload"}, n : {1}, code : {0}, data : {Blank}]

\* The steps of a command that wait for a lock, and the ones that hold it.
WaitStep(p) ==
    LockDrive(p) \/ LockTape(p) \/ Space(p) \/ Rewind(p) \/ WriteFilemarks(p)
RunStep(p) ==
    ProbeWrite(p) \/ PickTape(p) \/ FileError(p) \/ Read(p) \/ Write(p) \/ Unload(p)

Robot == RobotUnload \/ \E t \in Tape : RobotLoad(t)

Next ==
    \/ Robot
    \/ \E p \in Proc : (\E c \in Command : Arrive(p, c)) \/ WaitStep(p) \/ RunStep(p)

Spec == Init /\ [][Next]_vars

\* A command in the module runs; a waiter for a kernel mutex gets it in turn.
Fairness == \A p \in Proc : SF_vars(WaitStep(p)) /\ WF_vars(RunStep(p))
LiveSpec == Spec /\ Fairness
=============================================================================
