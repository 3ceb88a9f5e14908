------------------------- MODULE ChangerProperties --------------------------
(***************************************************************************)
(* What is checked and proved about module Changer.                        *)
(***************************************************************************)
EXTENDS Changer

\* The type invariant of a changer: the device, and the callers in it.
DeviceType ==
    /\ medium \in [Element -> Content]
    /\ numSlots \in 1 .. MaxSlots
    /\ numDrives \in 1 .. MaxDrives
    /\ chLock \in Proc \cup {NoProc}
    /\ drvLock \in [Drive -> Proc \cup {NoProc}]
    /\ tapeLock \in [Tape -> Proc \cup {NoProc}]
    /\ reconfig \in Proc \cup {NoProc}
    /\ resize \in [slots : 1 .. MaxSlots, drives : 1 .. MaxDrives, next : Nat]

CallerType ==
    /\ pc \in [Proc -> PC]
    /\ req \in [Proc -> Request]
    /\ hold \in [Proc -> Content]
    /\ ret \in Code

TypeOK == DeviceType /\ CallerType

-----------------------------------------------------------------------------
(* Locks and media in transit                                              *)

\* ch->lock is held exactly by the caller that is between the two halves of
\* a move or a removal (or that crashed there), or that has a barcode to write
\* under it: never by two of them.
RobotLocked ==
    \A p \in Proc : pc[p] \in {"take", "dest", "clear", "barcode", "oops"} <=> chLock = p

\* vtl_reconfig_mutex is held exactly during a resize: one resize at a time.
ReconfigLocked ==
    \A p \in Proc : pc[p] \in {"drives", "slots", "apply"} <=> reconfig = p

\* A drive's lock is held exactly by the UNLOAD that clears that drive, or
\* the transfer that has picked up its tape and waits for tape->lock.
DriveLocked ==
    \A d \in Drive, p \in Proc :
        drvLock[d] = p <=> pc[p] \in {"unload", "picked"} /\ req[p].src = d

\* A tape's lock is held exactly by the transfer that runs on that tape, also
\* after the robot has taken it from the drive.
TapeLocked ==
    \A t \in Tape, p \in Proc :
        tapeLock[t] = p <=> pc[p] = "io" /\ hold[p] = t

\* A medium that has left its source is in nobody's element but on its way,
\* and the source is still a free element of the geometry in force: putting
\* it back (vtl_changer_move_medium, label rollback) never overwrites another
\* medium and never writes beyond the geometry.
TransitSafe ==
    \A p \in Proc : pc[p] = "dest" =>
        /\ hold[p] \in Tape
        /\ Valid(req[p].src)
        /\ medium[req[p].src] = NoTape

LockInv == RobotLocked /\ ReconfigLocked /\ DriveLocked /\ TapeLocked /\ TransitSafe

-----------------------------------------------------------------------------
(* Media are neither made nor lost                                         *)

\* Where a medium is: the elements that hold it, and the source of a move
\* that has it in hand.
Where(t) ==
    {e \in Element : medium[e] = t}
        \cup {req[p].src : p \in {q \in Proc :
                 pc[q] \in {"take", "dest"} /\ hold[q] = t}}

Leaves(p, l) == pc[p] = l /\ pc'[p] # l

\* A medium is in a further place only because it was placed there, or
\* because the move that had it in hand delivers it.
NoCopy ==
    \A t \in Tape :
        \/ \E p \in Proc : Leaves(p, "place")
        \/ Where(t)' \subseteq Where(t)
        \/ \E p \in Proc : /\ Leaves(p, "dest") /\ hold[p] = t
                          /\ Where(t)' = (Where(t) \ {req[p].src}) \cup {req[p].dst}

\* A medium appears in a further element only because vtl_changer_slot_place
\* puts it there: no move, rollback, unload by the drive or resize, in any
\* interleaving, makes a second copy of a medium.
MovesNeverDuplicate == [][NoCopy]_vars

\* A medium leaves a place only in a step that delivers it elsewhere, or that
\* was asked to take it from that place.
NoLoss ==
    \A t \in Tape : \A e \in Where(t) \ Where(t)' :
        \E p \in Proc :
            /\ req[p].src = e
            /\ \/ Leaves(p, "dest") /\ medium'[req[p].dst] = t
               \/ Leaves(p, "remove") \/ Leaves(p, "clear")
               \/ Leaves(p, "unload") \/ pc'[p] = "oops"

\* A medium stops being in an element only because a move is bringing it to
\* another one, a removal was asked for that very element, or the drive that
\* holds it is unloaded by its initiator: resizes, refused moves, loads and
\* placements lose nothing.
MediaLeaveOnRequest == [][NoLoss]_vars

-----------------------------------------------------------------------------
(* Geometry                                                                *)

\* "Refuse shrink if media would be orphaned in drives/slots being removed"
\* (vtl_main.c, vtl_changer_prepare_shrink): no medium sits in an element
\* beyond the geometry, where no operation can reach it.
NoOrphan == \A e \in Element : medium[e] # NoTape => Valid(e)

\* While a move or a removal is between its halves the geometry does not
\* change, so the source and destination it validated stay valid.
GeometryStable == [][
    (\E p \in Proc : pc[p] \in {"take", "dest", "clear"})
        => UNCHANGED <<numSlots, numDrives>>
    ]_vars

-----------------------------------------------------------------------------
(* The robot as an atomic store                                            *)

\* The store as the other callers of the robot can ever observe it: ch->lock
\* hides the moment a medium is in hand.
shown == IF chLock # NoProc /\ pc[chLock] = "dest"
         THEN [medium EXCEPT ![req[chLock].src] = hold[chLock]]
         ELSE medium

Store == INSTANCE MediumStore WITH store <- shown

\* Robot operations and resizes, interleaved at the granularity of the locks,
\* are those of an atomic store that reports the same errnos.
AtomicStore == Store!Spec

-----------------------------------------------------------------------------
(* Progress                                                                *)

\* Every ioctl, MOVE MEDIUM and transfer returns, whichever of them waits for a
\* tape->lock while it holds ch->lock or a drv->lock, as long as no drive is
\* unloaded by an initiator behind the robot's back.
CallsReturn == \A p \in Proc : pc[p] # "idle" ~> pc[p] = "idle"
=============================================================================
