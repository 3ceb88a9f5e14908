------------------------------ MODULE Changer -------------------------------
(***************************************************************************)
(* The medium changer of one host of the kernel module                     *)
(* (kernel/src/vtl_tape.c, with its callers in vtl_misc.c, vtl_scsi.c and  *)
(* the geometry code of vtl_main.c), at the granularity of its locks.      *)
(*                                                                         *)
(* Callers are ioctls on /dev/vtl and SCSI commands.  They move, place,    *)
(* load, remove and unload media while another caller may resize the       *)
(* geometry.  ch->lock protects slots, mail slots and the geometry; the    *)
(* loaded_tape of a drive is written under ch->lock by the robot but under *)
(* drv->lock by the drive's own UNLOAD.  Both kinds of caller may have to  *)
(* wait for a tape->lock on top: a load that writes the barcode under      *)
(* ch->lock, an UNLOAD, READ or WRITE under drv->lock.                     *)
(*                                                                         *)
(* `occupied' and `tape' of a slot are always assigned together, and       *)
(* tape->loaded is never read: one content per element stands for them.    *)
(***************************************************************************)
EXTENDS Elements

CONSTANTS
    Proc,                   \* the threads that call into the module
    NoProc,                 \* "unlocked"
    InitSlots, InitDrives   \* the geometry the host was built with

ASSUME ChangerAssumption ==
    /\ NoProc \notin Proc
    /\ InitSlots \in 1 .. MaxSlots
    /\ InitDrives \in 1 .. MaxDrives

VARIABLES
    medium,      \* slots[].tape, drives[].loaded_tape, mailslots[].tape
    numSlots,    \* ch->num_slots
    numDrives,   \* ch->num_drives
    chLock,      \* owner of ch->lock
    drvLock,     \* owner of each drive's drv->lock
    tapeLock,    \* owner of each medium's tape->lock
    reconfig,    \* owner of vtl_reconfig_mutex; vtl_reconfig_active is set with it
    resize,      \* the geometry asked for and the next drive to look at
    pc, req, hold,  \* per caller: where it is, its arguments, the tape pointer
                    \* in its local variable
    ret          \* errno of the last call that returned

vars == <<medium, numSlots, numDrives, chLock, drvLock, tapeLock, reconfig, resize,
          pc, req, hold, ret>>
devVars == <<numSlots, numDrives, drvLock, tapeLock, reconfig, resize>>

Request == [src : Address, dst : Address, tape : Content, load : BOOLEAN]
NoRequest == [src |-> 0, dst |-> 0, tape |-> NoTape, load |-> FALSE]

NoResize == [slots |-> 1, drives |-> 1, next |-> 0]

PC == {"idle",
       "load", "barcode", "open", "label", "place",
                                           \* VTL_IOCTL_LOAD_TAPE, SLOT_PLACE
       "move", "take", "dest",             \* vtl_changer_move_medium
       "remove", "clear",                  \* vtl_changer_remove_medium
       "eject", "unload",                  \* SCSI LOAD UNLOAD with load = 0
       "transfer", "picked", "io",         \* SCSI READ and WRITE
       "drives", "slots", "apply",         \* vtl_resize_host_geometry
       "oops"}                             \* NULL pointer dereferenced

Valid(a) == InGeometry(a, numSlots, numDrives)

Init ==
    /\ medium = [e \in Element |-> NoTape]
    /\ numSlots = InitSlots
    /\ numDrives = InitDrives
    /\ chLock = NoProc
    /\ drvLock = [d \in Drive |-> NoProc]
    /\ tapeLock = [t \in Tape |-> NoProc]
    /\ reconfig = NoProc
    /\ resize = NoResize
    /\ pc = [p \in Proc |-> "idle"]
    /\ req = [p \in Proc |-> NoRequest]
    /\ hold = [p \in Proc |-> NoTape]
    /\ ret = "ok"

-----------------------------------------------------------------------------
(* Control flow of a caller                                                *)

Goto(p, l) == pc' = [pc EXCEPT ![p] = l]

Call(p, l, r) ==
    /\ pc[p] = "idle"
    /\ Goto(p, l)
    /\ req' = [req EXCEPT ![p] = r]
    /\ UNCHANGED <<medium, chLock, hold, ret, devVars>>

Leave(p) ==
    /\ Goto(p, "idle")
    /\ req' = [req EXCEPT ![p] = NoRequest]
    /\ hold' = [hold EXCEPT ![p] = NoTape]

Return(p, code) == Leave(p) /\ ret' = code

\* A call refused on its arguments, before it takes any lock.
Refused(p, code) ==
    /\ pc[p] = "idle"
    /\ ret' = code
    /\ UNCHANGED <<medium, chLock, pc, req, hold, devVars>>

-----------------------------------------------------------------------------
(* Moving a medium                                                         *)

\* VTL_IOCTL_MOVE_MEDIUM and SCSI MOVE MEDIUM: any two addresses.
CallMove(p, src, dst) ==
    Call(p, "move", [src |-> src, dst |-> dst, tape |-> NoTape, load |-> FALSE])

\* VTL_IOCTL_UNLOAD_TAPE validates its drive and slot numbers without a lock.
CallUnload(p, drive, slot) ==
    IF Valid(drive) /\ Valid(slot)
    THEN CallMove(p, drive, slot)
    ELSE Refused(p, "EINVAL")

\* Under ch->lock, the source is looked up and emptied.  A drive is only
\* looked at here: its pointer is read again, and cleared, in MoveTake.
MoveSource(p) ==
    LET src == req[p].src IN
    /\ pc[p] = "move" /\ chLock = NoProc
    /\ UNCHANGED devVars
    /\ \/ /\ ~Valid(src) /\ Return(p, "EINVAL")
          /\ UNCHANGED <<medium, chLock>>
       \/ /\ Valid(src) /\ medium[src] = NoTape /\ Return(p, "ENODEV")
          /\ UNCHANGED <<medium, chLock>>
       \/ /\ Valid(src) /\ medium[src] # NoTape
          /\ chLock' = p
          /\ hold' = [hold EXCEPT ![p] = medium[src]]
          /\ \/ NamesDrive(src) /\ Goto(p, "take") /\ UNCHANGED medium
             \/ /\ ~NamesDrive(src) /\ Goto(p, "dest")
                /\ medium' = [medium EXCEPT ![src] = NoTape]
          /\ UNCHANGED <<req, ret>>

\* Plain loads: the compiler may use the pointer it tested or read it again.
Reread(p) == {hold[p], medium[req[p].src]}

Oops(p) == Goto(p, "oops") /\ UNCHANGED <<medium, chLock, req, hold, ret>>

\* Mutant: the drive keeps its pointer.
MoveTakeKeeps(p) ==
    /\ pc[p] = "take"
    /\ \E t \in Reread(p) \ {NoTape} : hold' = [hold EXCEPT ![p] = t]
    /\ Goto(p, "dest")
    /\ UNCHANGED <<medium, chLock, req, ret, devVars>>

MoveTake(p) ==
    /\ pc[p] = "take"
    /\ UNCHANGED devVars
    /\ \E t \in Reread(p) :
          \/ t = NoTape /\ Oops(p)
          \/ /\ t # NoTape
             /\ hold' = [hold EXCEPT ![p] = t]
             /\ medium' = [medium EXCEPT ![req[p].src] = NoTape]
             /\ Goto(p, "dest")
             /\ UNCHANGED <<chLock, req, ret>>

\* Mutant: no rollback when the destination is occupied.
MoveDestNoRollback(p) ==
    LET src == req[p].src
        dst == req[p].dst
    IN
    /\ pc[p] = "dest"
    /\ chLock' = NoProc
    /\ UNCHANGED devVars
    /\ \/ /\ ~Valid(dst) /\ Return(p, "EINVAL")
          /\ medium' = [medium EXCEPT ![src] = hold[p]]
       \/ /\ Valid(dst) /\ medium[dst] # NoTape /\ Return(p, "EBUSY")
          /\ UNCHANGED medium
       \/ /\ Valid(dst) /\ medium[dst] = NoTape /\ Return(p, "ok")
          /\ medium' = [medium EXCEPT ![dst] = hold[p]]

\* The destination accepts the medium, or the medium goes back to the source.
MoveDest(p) ==
    LET src == req[p].src
        dst == req[p].dst
    IN
    /\ pc[p] = "dest"
    /\ chLock' = NoProc
    /\ UNCHANGED devVars
    /\ \/ /\ ~Valid(dst) /\ Return(p, "EINVAL")
          /\ medium' = [medium EXCEPT ![src] = hold[p]]
       \/ /\ Valid(dst) /\ medium[dst] # NoTape /\ Return(p, "EBUSY")
          /\ medium' = [medium EXCEPT ![src] = hold[p]]
       \/ /\ Valid(dst) /\ medium[dst] = NoTape /\ Return(p, "ok")
          /\ medium' = [medium EXCEPT ![dst] = hold[p]]

-----------------------------------------------------------------------------
(* Placing and loading a named medium                                      *)

\* VTL_IOCTL_SLOT_PLACE: nothing is validated before the tape is opened.
CallSlotPlace(p, slot, t) ==
    Call(p, "open", [src |-> slot, dst |-> slot, tape |-> t, load |-> FALSE])

\* VTL_IOCTL_LOAD_TAPE: the tape name may be empty (NoTape).
CallLoad(p, slot, drive, t) ==
    IF Valid(slot) /\ Valid(drive)
    THEN Call(p, "load", [src |-> slot, dst |-> drive, tape |-> t, load |-> TRUE])
    ELSE Refused(p, "EINVAL")

\* Under ch->lock the names are compared.  A request with a barcode writes it
\* into the tape that is there, for which it needs tape->lock as well.
LoadCheck(p) ==
    LET t == req[p].tape
        found == medium[req[p].src]
    IN
    /\ pc[p] = "load" /\ chLock = NoProc
    /\ UNCHANGED <<medium, devVars>>
    /\ \/ /\ found \notin {NoTape, t} /\ t # NoTape /\ Return(p, "EBUSY")
          /\ UNCHANGED chLock
       \/ /\ found = NoTape /\ t = NoTape /\ Return(p, "ENODEV")
          /\ UNCHANGED chLock
       \/ /\ found # NoTape /\ t \in {NoTape, found} /\ UNCHANGED <<req, ret>>
          /\ \/ Goto(p, "move") /\ UNCHANGED <<chLock, hold>>
             \/ /\ Goto(p, "barcode") /\ chLock' = p
                /\ hold' = [hold EXCEPT ![p] = found]
       \/ /\ found = NoTape /\ t # NoTape /\ Goto(p, "open")
          /\ UNCHANGED <<chLock, req, hold, ret>>

\* Mutant: ch->lock is not released after the barcode.
BarcodeKeepsLock(p) ==
    /\ pc[p] = "barcode" /\ tapeLock[hold[p]] = NoProc
    /\ Goto(p, "move")
    /\ UNCHANGED <<medium, chLock, req, hold, ret, devVars>>

\* vtl_tape_set_barcode under ch->lock; then both locks are free.
Barcode(p) ==
    /\ pc[p] = "barcode" /\ tapeLock[hold[p]] = NoProc
    /\ chLock' = NoProc
    /\ Goto(p, "move")
    /\ UNCHANGED <<medium, req, hold, ret, devVars>>

\* vtl_changer_slot_place looks at the slot number before it takes ch->lock.
Accept(p) ==
    \/ ~Valid(req[p].src) /\ Return(p, "EINVAL")
    \/ Valid(req[p].src) /\ Goto(p, "place") /\ UNCHANGED <<req, hold, ret>>

\* vtl_tape_open_existing finds the tape in the table or opens its image
\* file, which may not be there; a barcode is written before the placement.
Open(p) ==
    /\ pc[p] = "open"
    /\ UNCHANGED <<medium, chLock, devVars>>
    /\ \/ Return(p, "ENOENT")
       \/ Goto(p, "label") /\ UNCHANGED <<req, hold, ret>>
       \/ Accept(p)

\* vtl_tape_set_barcode without ch->lock.
Label(p) ==
    /\ pc[p] = "label" /\ tapeLock[req[p].tape] = NoProc
    /\ Accept(p)
    /\ UNCHANGED <<medium, chLock, devVars>>

\* Mutant: an occupied slot is overwritten.
PlaceOver(p) ==
    /\ pc[p] = "place" /\ chLock = NoProc
    /\ medium' = [medium EXCEPT ![req[p].src] = req[p].tape]
    /\ \/ ~req[p].load /\ Return(p, "ok")
       \/ req[p].load /\ Goto(p, "move") /\ ret' = "ok" /\ UNCHANGED <<req, hold>>
    /\ UNCHANGED <<chLock, devVars>>

\* vtl_changer_slot_place under ch->lock; a load goes on to move the medium.
Place(p) ==
    LET s == req[p].src
        t == req[p].tape
    IN
    /\ pc[p] = "place" /\ chLock = NoProc
    /\ UNCHANGED <<chLock, devVars>>
    /\ \/ /\ medium[s] \notin {NoTape, t} /\ Return(p, "EBUSY")
          /\ UNCHANGED medium
       \/ /\ medium[s] \in {NoTape, t}
          /\ medium' = [medium EXCEPT ![s] = t]
          /\ \/ ~req[p].load /\ Return(p, "ok")
             \/ /\ req[p].load /\ Goto(p, "move") /\ ret' = "ok"
                /\ UNCHANGED <<req, hold>>

-----------------------------------------------------------------------------
(* Removing a medium from the library                                      *)

CallRemove(p, elem) ==
    Call(p, "remove", [src |-> elem, dst |-> elem, tape |-> NoTape, load |-> FALSE])

\* Mutant: a drive is emptied without ch->lock.
RemoveSourceUnlocked(p) ==
    LET e == req[p].src IN
    /\ pc[p] = "remove" /\ Valid(e) /\ medium[e] # NoTape
    /\ Goto(p, "clear")
    /\ hold' = [hold EXCEPT ![p] = medium[e]]
    /\ UNCHANGED <<medium, chLock, req, ret, devVars>>

RemoveSource(p) ==
    LET e == req[p].src IN
    /\ pc[p] = "remove" /\ chLock = NoProc
    /\ UNCHANGED devVars
    /\ \/ ~Valid(e) /\ Return(p, "EINVAL") /\ UNCHANGED <<medium, chLock>>
       \/ /\ Valid(e) /\ medium[e] = NoTape /\ Return(p, "ENODEV")
          /\ UNCHANGED <<medium, chLock>>
       \/ /\ Valid(e) /\ medium[e] # NoTape /\ ~NamesDrive(e) /\ Return(p, "ok")
          /\ medium' = [medium EXCEPT ![e] = NoTape]
          /\ UNCHANGED chLock
       \/ /\ Valid(e) /\ medium[e] # NoTape /\ NamesDrive(e) /\ Goto(p, "clear")
          /\ chLock' = p
          /\ hold' = [hold EXCEPT ![p] = medium[e]]
          /\ UNCHANGED <<medium, req, ret>>

\* d->loaded_tape->loaded = false; d->loaded_tape = NULL.
RemoveClear(p) ==
    /\ pc[p] = "clear"
    /\ UNCHANGED devVars
    /\ \E t \in Reread(p) :
          \/ t = NoTape /\ Oops(p)
          \/ /\ t # NoTape /\ Return(p, "ok")
             /\ medium' = [medium EXCEPT ![req[p].src] = NoTape]
             /\ chLock' = NoProc

-----------------------------------------------------------------------------
(* The drive's own unload: SCSI LOAD UNLOAD, under drv->lock only           *)

\* queuecommand refuses commands while a resize is in progress and for a LUN
\* beyond the geometry; an empty drive answers GOOD at once.
CallEject(p, drive) ==
    /\ reconfig = NoProc /\ Valid(drive)
    /\ medium[drive] # NoTape
    /\ Call(p, "eject", [src |-> drive, dst |-> drive, tape |-> NoTape, load |-> FALSE])

EjectRead(p) ==
    LET d == req[p].src IN
    /\ pc[p] = "eject" /\ drvLock[d] = NoProc
    /\ UNCHANGED <<medium, numSlots, numDrives, chLock, tapeLock, reconfig, resize>>
    /\ \/ medium[d] = NoTape /\ Return(p, "ENODEV") /\ UNCHANGED drvLock
       \/ /\ medium[d] # NoTape /\ Goto(p, "unload")
          /\ drvLock' = [drvLock EXCEPT ![d] = p]
          /\ hold' = [hold EXCEPT ![p] = medium[d]]
          /\ UNCHANGED <<req, ret>>

\* With drv->lock it waits for the tape->lock of the tape it picked up; then
\* the pointer is cleared, whatever the robot has put in the drive meanwhile.
EjectClear(p) ==
    LET d == req[p].src IN
    /\ pc[p] = "unload" /\ tapeLock[hold[p]] = NoProc /\ Return(p, "ok")
    /\ medium' = [medium EXCEPT ![d] = NoTape]
    /\ drvLock' = [drvLock EXCEPT ![d] = NoProc]
    /\ UNCHANGED <<numSlots, numDrives, chLock, tapeLock, reconfig, resize>>

-----------------------------------------------------------------------------
(* READ and WRITE, for the locks they hold (what they do is in TapeDrive)   *)

CallTransfer(p, drive) ==
    /\ reconfig = NoProc /\ Valid(drive)
    /\ medium[drive] # NoTape
    /\ Call(p, "transfer", [src |-> drive, dst |-> drive, tape |-> NoTape, load |-> FALSE])

TransferPick(p) ==
    LET d == req[p].src IN
    /\ pc[p] = "transfer" /\ drvLock[d] = NoProc
    /\ UNCHANGED <<medium, numSlots, numDrives, chLock, tapeLock, reconfig, resize, ret>>
    /\ \/ medium[d] = NoTape /\ Leave(p) /\ UNCHANGED drvLock
       \/ /\ medium[d] # NoTape /\ Goto(p, "picked")
          /\ drvLock' = [drvLock EXCEPT ![d] = p]
          /\ hold' = [hold EXCEPT ![p] = medium[d]]
          /\ UNCHANGED req

\* drv->lock is kept until tape->lock is there.
TransferLock(p) ==
    /\ pc[p] = "picked" /\ tapeLock[hold[p]] = NoProc
    /\ tapeLock' = [tapeLock EXCEPT ![hold[p]] = p]
    /\ drvLock' = [drvLock EXCEPT ![req[p].src] = NoProc]
    /\ Goto(p, "io")
    /\ UNCHANGED <<medium, numSlots, numDrives, chLock, reconfig, resize, req, hold, ret>>

TransferEnd(p) ==
    /\ pc[p] = "io" /\ Leave(p)
    /\ tapeLock' = [tapeLock EXCEPT ![hold[p]] = NoProc]
    /\ UNCHANGED <<medium, numSlots, numDrives, chLock, drvLock, reconfig, resize, ret>>

-----------------------------------------------------------------------------
(* Changing the geometry: VTL_IOCTL_RESIZE_GEOMETRY on this host            *)

ResizeReturn(p, code) ==
    Return(p, code) /\ reconfig' = NoProc /\ resize' = NoResize

\* Mutant: the upper limit only.
ClampAbove(n, max) == IF n > max THEN max ELSE n

Clamp(n, max) == IF n < 1 THEN 1 ELSE IF n > max THEN max ELSE n

\* The numbers asked for are brought into range before anything else.  A
\* geometry that is already in force is accepted without a resize.
CallResize(p, askedSlots, askedDrives) ==
    LET slots == Clamp(askedSlots, MaxSlots)
        drives == Clamp(askedDrives, MaxDrives)
    IN
    /\ pc[p] = "idle" /\ reconfig = NoProc
    /\ UNCHANGED <<medium, numSlots, numDrives, chLock, drvLock, tapeLock, req, hold>>
    /\ \/ /\ slots = numSlots /\ drives = numDrives /\ ret' = "ok"
          /\ UNCHANGED <<reconfig, resize, pc>>
       \/ /\ slots # numSlots \/ drives # numDrives
          /\ reconfig' = p
          /\ resize' = [slots |-> slots, drives |-> drives, next |-> drives]
          /\ UNCHANGED ret
          /\ \/ (slots < numSlots \/ drives < numDrives) /\ Goto(p, "drives")
             \/ slots >= numSlots /\ drives >= numDrives /\ Goto(p, "apply")

\* vtl_changer_prepare_shrink: the drives that go, one by one, ...
CheckDrive(p) ==
    LET d == DriveBase + resize.next IN
    /\ pc[p] = "drives"
    /\ UNCHANGED <<medium, numSlots, numDrives, chLock, drvLock, tapeLock>>
    /\ \/ /\ resize.next >= numDrives /\ Goto(p, "slots")
          /\ UNCHANGED <<resize, reconfig, req, hold, ret>>
       \/ /\ resize.next < numDrives /\ drvLock[d] = NoProc /\ medium[d] # NoTape
          /\ ResizeReturn(p, "EIO")
       \/ /\ resize.next < numDrives /\ drvLock[d] = NoProc /\ medium[d] = NoTape
          /\ resize' = [resize EXCEPT !.next = @ + 1]
          /\ UNCHANGED <<reconfig, pc, req, hold, ret>>

\* ... then the slots that go, in one critical section of ch->lock.
CheckSlots(p) ==
    /\ pc[p] = "slots" /\ chLock = NoProc
    /\ UNCHANGED <<medium, numSlots, numDrives, chLock, drvLock, tapeLock>>
    /\ LET occupied == \E s \in resize.slots .. numSlots - 1 : medium[s] # NoTape IN
       \/ occupied /\ ResizeReturn(p, "EIO")
       \/ ~occupied /\ Goto(p, "apply") /\ UNCHANGED <<reconfig, resize, req, hold, ret>>

\* Mutant: the geometry is set without ch->lock.
ApplyUnlocked(p) ==
    /\ pc[p] = "apply"
    /\ numSlots' = resize.slots
    /\ numDrives' = resize.drives
    /\ ResizeReturn(p, "ok")
    /\ UNCHANGED <<medium, chLock, drvLock, tapeLock>>

\* The new geometry is set in another critical section.
Apply(p) ==
    /\ pc[p] = "apply" /\ chLock = NoProc
    /\ numSlots' = resize.slots
    /\ numDrives' = resize.drives
    /\ ResizeReturn(p, "ok")
    /\ UNCHANGED <<medium, chLock, drvLock, tapeLock>>

-----------------------------------------------------------------------------
Calls(p) ==
    \/ \E src, dst \in Address : CallMove(p, src, dst)
    \/ \E e \in Address : CallRemove(p, e)
    \/ \E s, d \in Address :
          /\ NamesSlot(s) /\ NamesDrive(d)
          /\ \/ CallUnload(p, d, s)
             \/ \E t \in Content : CallLoad(p, s, d, t)
    \/ \E s \in Address, t \in Tape : NamesSlot(s) /\ CallSlotPlace(p, s, t)
    \/ \E d \in Drive : CallTransfer(p, d)

\* The steps of a call already made: the ones that wait for nobody, and the
\* ones that need ch->lock, a drv->lock or a tape->lock to be free.
LockedStep(p) ==
    MoveTake(p) \/ MoveDest(p) \/ RemoveClear(p) \/ Open(p) \/ TransferEnd(p)
AcquireStep(p) ==
    \/ MoveSource(p) \/ LoadCheck(p) \/ Place(p) \/ RemoveSource(p)
    \/ Barcode(p) \/ Label(p) \/ TransferPick(p) \/ TransferLock(p)
ResizeStep(p) == CheckDrive(p) \/ CheckSlots(p) \/ Apply(p)
EjectStep(p) == EjectRead(p) \/ EjectClear(p)

RobotNext ==
    \E p \in Proc : Calls(p) \/ LockedStep(p) \/ AcquireStep(p)

ResizeNext == \E p \in Proc :
    \/ \E s \in 0 .. MaxSlots + 1, d \in 0 .. MaxDrives + 1 : CallResize(p, s, d)
    \/ ResizeStep(p)

EjectNext == \E p \in Proc : EjectStep(p) \/ \E d \in Drive : CallEject(p, d)

NextNoEject == RobotNext \/ ResizeNext
Next == NextNoEject \/ EjectNext

\* Everything that can happen to a changer.
Spec == Init /\ [][Next]_vars
\* No initiator unloads a drive itself: robot operations, transfers, resizes.
SpecNoEject == Init /\ [][NextNoEject]_vars

\* A call that has been made is run by its thread.  Kernel mutexes hand the
\* lock to a waiter that has been passed over, so a thread waiting for a
\* mutex is not starved for ever.
Fairness == \A p \in Proc :
    /\ WF_vars(LockedStep(p))
    /\ SF_vars(AcquireStep(p) \/ ResizeStep(p))
LiveSpec == SpecNoEject /\ Fairness
=============================================================================
