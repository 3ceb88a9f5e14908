---------------------------- MODULE MediumStore -----------------------------
(***************************************************************************)
(* What a medium changer promises to the callers of its robot: a store     *)
(* from elements to media in which placing, moving and removing a medium   *)
(* each happen at one instant and report one errno.  Module Changer is     *)
(* shown to implement it.                                                  *)
(***************************************************************************)
EXTENDS Elements

CONSTANTS InitSlots, InitDrives   \* the geometry the host was built with

VARIABLES
    store,       \* what every element holds
    numSlots,    \* the geometry in force
    numDrives,
    ret          \* the errno of the last operation

vars == <<store, numSlots, numDrives, ret>>

Valid(a) == InGeometry(a, numSlots, numDrives)

Init ==
    /\ store = [e \in Element |-> NoTape]
    /\ numSlots = InitSlots
    /\ numDrives = InitDrives
    /\ ret = "ok"

-----------------------------------------------------------------------------
\* The result of a move is decided in this order: the source address, the
\* medium at the source, the destination address, the destination's medium.
MoveResult(src, dst) ==
    CASE ~Valid(src)                             -> "EINVAL"
      [] Valid(src) /\ store[src] = NoTape       -> "ENODEV"
      [] Valid(src) /\ store[src] # NoTape /\ ~Valid(dst) -> "EINVAL"
      [] OTHER -> IF dst # src /\ store[dst] # NoTape THEN "EBUSY" ELSE "ok"

\* A refused move leaves every medium where it was.
Move(src, dst) ==
    /\ ret' = MoveResult(src, dst)
    /\ store' = IF ret' = "ok"
                THEN [store EXCEPT ![src] = NoTape, ![dst] = store[src]]
                ELSE store
    /\ UNCHANGED <<numSlots, numDrives>>

\* A slot accepts a medium when it is empty or already holds that medium.
\* The slot number is validated before the operation takes effect, so the
\* geometry may be smaller by then: any slot of the array can be filled.
Place(s, t) ==
    /\ \/ /\ store[s] \in {NoTape, t}
          /\ store' = [store EXCEPT ![s] = t]
          /\ ret' = "ok"
       \/ /\ store[s] \notin {NoTape, t}
          /\ ret' = "EBUSY"
          /\ UNCHANGED store
    /\ UNCHANGED <<numSlots, numDrives>>

Remove(e) ==
    /\ \/ Valid(e) /\ store[e] # NoTape /\ ret' = "ok"
                   /\ store' = [store EXCEPT ![e] = NoTape]
       \/ Valid(e) /\ store[e] = NoTape /\ ret' = "ENODEV" /\ UNCHANGED store
       \/ ~Valid(e) /\ ret' = "EINVAL" /\ UNCHANGED store
    /\ UNCHANGED <<numSlots, numDrives>>

\* Calls refused before they reach the store, each for a reason that is true
\* when it is reported: an address out of range, no image file, no medium
\* named for an empty slot.
Refuse(a, s) ==
    /\ \/ ~Valid(a) /\ ret' = "EINVAL"
       \/ ret' = "ENOENT"
       \/ store[s] = NoTape /\ ret' = "ENODEV"
    /\ UNCHANGED <<store, numSlots, numDrives>>

\* A new geometry never touches a medium.  It is refused when some
\* element that would go is seen occupied.
Resize(slots, drives) ==
    /\ UNCHANGED store
    /\ \/ ret' = "ok" /\ numSlots' = slots /\ numDrives' = drives
       \/ ret' = "EIO" /\ UNCHANGED <<numSlots, numDrives>>

Next ==
    \/ \E src, dst \in Address : Move(src, dst)
    \/ \E s \in Slot, t \in Tape : Place(s, t)
    \/ \E e \in Address : Remove(e)
    \/ \E a \in Address, s \in Slot : Refuse(a, s)
    \/ \E slots \in 1 .. MaxSlots, drives \in 1 .. MaxDrives : Resize(slots, drives)

Spec == Init /\ [][Next]_vars
=============================================================================
