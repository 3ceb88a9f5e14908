---------------------------- MODULE StoreProofs -----------------------------
(***************************************************************************)
(* The robot of module Changer implements the atomic store of module       *)
(* MediumStore, as long as no drive is unloaded behind its back; a move    *)
(* sees one geometry; and no callers wait for one another in a circle.     *)
(***************************************************************************)
EXTENDS ChangerProofs

\* The pointer a caller tested is still the one in the drive: only the unload
\* by the drive's initiator would change it, and SpecNoEject has none.
HandSafe ==
    \A p \in Proc :
        /\ pc[p] \in {"take", "clear"} =>
              hold[p] \in Tape /\ medium[req[p].src] = hold[p]
        /\ pc[p] \notin {"eject", "unload", "oops"}

RobotInv == IInv /\ HandSafe

-----------------------------------------------------------------------------
LEMMA CallHand ==
    ASSUME RobotInv, NEW p \in Proc,
           NEW l \in {"move", "load", "open", "remove", "transfer"}, NEW r, Call(p, l, r)
    PROVE  HandSafe'
BY DEF RobotInv, HandSafe, Call, Goto, IInv, TypeOK, CallerType

LEMMA CallsHand ==
    ASSUME RobotInv, NEW p \in Proc, Calls(p)
    PROVE  HandSafe'
<1>1. ASSUME NEW code, Refused(p, code)
      PROVE  HandSafe'
  BY <1>1 DEF Refused, RobotInv, HandSafe
<1> QED
  BY <1>1, CallHand
     DEF Calls, CallMove, CallRemove, CallUnload, CallLoad, CallSlotPlace, CallTransfer

\* A caller between the two looks at a drive holds ch->lock: a step of another
\* caller keeps HandSafe if it leaves the media alone or has ch->lock.
LEMMA HandStep ==
    ASSUME RobotInv, NEW p \in Proc,
           chLock \in {NoProc, p} \/ medium' = medium,
           \A q \in Proc \ {p} :
               pc'[q] = pc[q] /\ req'[q] = req[q] /\ hold'[q] = hold[q],
           pc'[p] \in {"take", "clear"} =>
               hold'[p] \in Tape /\ medium'[req'[p].src] = hold'[p],
           pc'[p] \notin {"eject", "unload", "oops"}
    PROVE  HandSafe'
<1> SUFFICES ASSUME NEW q \in Proc
             PROVE  /\ pc'[q] \in {"take", "clear"} =>
                         hold'[q] \in Tape /\ medium'[req'[q].src] = hold'[q]
                    /\ pc'[q] \notin {"eject", "unload", "oops"}
  BY DEF HandSafe
<1>1. CASE q = p
  BY <1>1
<1>2. CASE q # p
  BY <1>2, ChangerAssumption DEF RobotInv, HandSafe, IInv, LockInv, RobotLocked
<1> QED BY <1>1, <1>2

LEMMA RobotHand ==
    ASSUME RobotInv, [NextNoEject]_vars
    PROVE  HandSafe'
<1> USE DEF RobotInv
<1>1. ASSUME NEW p \in Proc, MoveSource(p)
      PROVE  HandSafe'
  BY <1>1, HandStep, CallerFacts, ChangerAssumption
     DEF MoveSource, RobotLocked, Return, Leave, Goto, devVars, HandSafe, IInv, TypeOK, CallerType, LockInv, RobotLocked, Content
<1>2. ASSUME NEW p \in Proc, MoveTake(p)
      PROVE  HandSafe'
  BY <1>2, HandStep, CallerFacts, ChangerAssumption, ElementAssumption
     DEF MoveTake, Reread, Oops, Return, Leave, Goto, devVars, HandSafe, IInv, TypeOK, CallerType, LockInv, RobotLocked, Content
<1>3. ASSUME NEW p \in Proc, MoveDest(p)
      PROVE  HandSafe'
  BY <1>3, HandStep, CallerFacts, ChangerAssumption
     DEF MoveDest, Return, Leave, Goto, devVars, HandSafe, IInv, TypeOK, CallerType, LockInv, RobotLocked, Content
<1>4. ASSUME NEW p \in Proc, LoadCheck(p)
      PROVE  HandSafe'
  BY <1>4, HandStep, CallerFacts, ChangerAssumption
     DEF LoadCheck, Return, Leave, Goto, devVars, HandSafe, IInv, TypeOK, CallerType, LockInv, RobotLocked, Content
<1>5. ASSUME NEW p \in Proc, Open(p) \/ Label(p)
      PROVE  HandSafe'
  BY <1>5, HandStep
     DEF Open, Label, Accept, Return, Leave, Goto, devVars, HandSafe, IInv, TypeOK, CallerType
<1>6. ASSUME NEW p \in Proc, Place(p)
      PROVE  HandSafe'
  BY <1>6, HandStep, CallerFacts, ChangerAssumption
     DEF Place, Return, Leave, Goto, devVars, HandSafe, IInv, TypeOK, CallerType, LockInv, RobotLocked, Content
<1>7. ASSUME NEW p \in Proc, RemoveSource(p)
      PROVE  HandSafe'
  BY <1>7, HandStep, CallerFacts, ChangerAssumption
     DEF RemoveSource, Return, Leave, Goto, devVars, HandSafe, IInv, TypeOK, CallerType, LockInv, RobotLocked, Content
<1>8. ASSUME NEW p \in Proc, RemoveClear(p)
      PROVE  HandSafe'
  BY <1>8, HandStep, CallerFacts, ChangerAssumption, ElementAssumption
     DEF RemoveClear, Reread, Oops, Return, Leave, Goto, devVars, HandSafe, IInv, TypeOK, CallerType, LockInv, RobotLocked, Content
<1>9. ASSUME NEW p \in Proc, CheckDrive(p)
      PROVE  HandSafe'
  BY <1>9, HandStep, CallerFacts, ChangerAssumption
     DEF CheckDrive, ResizeReturn, Return, Leave, Goto, devVars, HandSafe, IInv, TypeOK, CallerType, LockInv, RobotLocked, Content
<1>10. ASSUME NEW p \in Proc, CheckSlots(p)
      PROVE  HandSafe'
  BY <1>10, HandStep, CallerFacts, ChangerAssumption
     DEF CheckSlots, ResizeReturn, Return, Leave, Goto, devVars, HandSafe, IInv, TypeOK, CallerType, LockInv, RobotLocked, Content
<1>11. ASSUME NEW p \in Proc, Apply(p)
      PROVE  HandSafe'
  BY <1>11, HandStep, CallerFacts, ChangerAssumption
     DEF Apply, ResizeReturn, Return, Leave, Goto, devVars, HandSafe, IInv, TypeOK, CallerType, LockInv, RobotLocked, Content
<1>12. ASSUME NEW p \in Proc, NEW s \in Int, NEW d \in Int, CallResize(p, s, d)
      PROVE  HandSafe'
  BY <1>12, HandStep DEF CallResize, Goto, IInv, TypeOK, CallerType, HandSafe
<1>13. CASE UNCHANGED vars
  BY <1>13 DEF vars, HandSafe
<1>14. ASSUME NEW p \in Proc,
              Barcode(p) \/ TransferPick(p) \/ TransferLock(p) \/ TransferEnd(p)
       PROVE  HandSafe'
  BY <1>14, HandStep
     DEF Barcode, TransferPick, TransferLock, TransferEnd, Leave, Goto, devVars, HandSafe,
         IInv, TypeOK, CallerType
<1> QED
  BY <1>1, <1>2, <1>3, <1>4, <1>5, <1>6, <1>7, <1>8, <1>9, <1>10, <1>11, <1>12, <1>13, <1>14, CallsHand,
     ElementAssumption
     DEF NextNoEject, RobotNext, ResizeNext, LockedStep, AcquireStep, ResizeStep

LEMMA RobotInvHolds == SpecNoEject => []RobotInv
<1>1. Init => RobotInv
  BY InitInv DEF RobotInv, HandSafe, Init
<1>2. RobotInv /\ [NextNoEject]_vars => RobotInv'
  BY NextInv, RobotHand DEF RobotInv, Next
<1> QED
  BY <1>1, <1>2, PTL DEF SpecNoEject

-----------------------------------------------------------------------------
(* Every step of a call is a step of the store, or invisible to it.        *)

\* The store and the robot agree on the geometry and on the elements.
LEMMA StoreGeometry ==
    /\ \A a : Store!Valid(a) <=> Valid(a)
    /\ Store!Slot = Slot /\ Store!Element = Element
    /\ 0 \in Slot /\ 0 \in Address
BY ElementAssumption
   DEF Store!Valid, Store!InGeometry, Store!NamesSlot, Store!NamesDrive,
       Store!Slot, Store!Drive, Store!Mailslot, Store!Element,
       Valid, InGeometry, NamesSlot, NamesDrive, Slot, Drive, Mailslot, Element

\* What the store shows while a medium is in a caller's hand, and otherwise.
LEMMA ShownFree ==
    ASSUME chLock = NoProc \/ pc[chLock] # "dest"
    PROVE  shown = medium
BY DEF shown

LEMMA ShownInHand ==
    ASSUME NEW p \in Proc, chLock = p, pc[p] = "dest"
    PROVE  shown = [medium EXCEPT ![req[p].src] = hold[p]]
BY ChangerAssumption DEF shown

\* A step that leaves the media alone, and no lock taken, is invisible unless
\* it reports an errno.
LEMMA ShownKept ==
    ASSUME RobotInv, NEW p \in Proc, pc[p] # "dest", pc'[p] # "dest",
           UNCHANGED <<medium, chLock>>,
           \A q \in Proc \ {p} :
               pc'[q] = pc[q] /\ req'[q] = req[q] /\ hold'[q] = hold[q]
    PROVE  shown' = shown
<1>1. CASE chLock = NoProc \/ chLock = p
  BY <1>1 DEF shown
<1>2. CASE chLock # NoProc /\ chLock # p
  BY <1>2 DEF shown, RobotInv, IInv, TypeOK, DeviceType
<1> QED BY <1>1, <1>2

LEMMA StoreCalls ==
    ASSUME RobotInv, NEW p \in Proc, Calls(p)
    PROVE  [Store!Next]_(Store!vars)
<1> USE DEF RobotInv, IInv, TypeOK, CallerType
<1>1. ASSUME NEW l \in {"move", "load", "open", "remove", "transfer"}, NEW r, Call(p, l, r)
      PROVE  UNCHANGED Store!vars
  <2>1. shown' = shown
    BY <1>1, ShownKept DEF Call, Goto
  <2> QED BY <1>1, <2>1 DEF Store!vars, Call, devVars
<1>2. ASSUME NEW code, Refused(p, code)
      PROVE  UNCHANGED <<shown, numSlots, numDrives>> /\ ret' = code
  <2>1. shown' = shown
    BY <1>2, ShownKept DEF Refused
  <2> QED BY <1>2, <2>1 DEF Refused, devVars
<1>3. ASSUME NEW a \in Address, ~Valid(a), Refused(p, "EINVAL")
      PROVE  Store!Next
  <2>1. Store!Refuse(a, 0)
    BY <1>2, <1>3, StoreGeometry DEF Store!Refuse
  <2> QED BY <2>1, StoreGeometry DEF Store!Next
<1>5. ASSUME NEW src, NEW dst, CallMove(p, src, dst)
      PROVE  UNCHANGED Store!vars
  BY <1>1, <1>5 DEF CallMove
<1>6. ASSUME NEW s \in Address, NEW d \in Address, CallUnload(p, d, s)
      PROVE  [Store!Next]_(Store!vars)
  BY <1>3, <1>5, <1>6 DEF CallUnload
<1>7. ASSUME NEW s \in Address, NEW d \in Address, NEW t, CallLoad(p, s, d, t)
      PROVE  [Store!Next]_(Store!vars)
  BY <1>1, <1>3, <1>7 DEF CallLoad
<1>8. ASSUME NEW s, NEW t, CallSlotPlace(p, s, t)
      PROVE  UNCHANGED Store!vars
  BY <1>1, <1>8 DEF CallSlotPlace
<1>9. ASSUME NEW e, CallRemove(p, e)
      PROVE  UNCHANGED Store!vars
  BY <1>1, <1>9 DEF CallRemove
<1>10. ASSUME NEW d, CallTransfer(p, d)
       PROVE  UNCHANGED Store!vars
  BY <1>1, <1>10 DEF CallTransfer
<1> QED
  BY <1>5, <1>6, <1>7, <1>8, <1>9, <1>10 DEF Calls

LEMMA StoreMoveSource ==
    ASSUME RobotInv, NEW p \in Proc, MoveSource(p)
    PROVE  [Store!Next]_(Store!vars)
<1> DEFINE src == req[p].src
           dst == req[p].dst
<1> USE DEF RobotInv, IInv
<1>0. /\ shown = medium /\ chLock = NoProc /\ pc[p] = "move"
      /\ src \in Address /\ dst \in Address
      /\ UNCHANGED <<numSlots, numDrives>>
  BY ShownFree, CallerFacts DEF MoveSource, devVars
<1>1. ASSUME medium' = medium, chLock' = NoProc, ret' = Store!MoveResult(src, dst),
             ret' # "ok"
      PROVE  Store!Next
  <2>1. shown' = medium'
    BY <1>1 DEF shown
  <2>2. Store!Move(src, dst)
    BY <1>0, <1>1, <2>1 DEF Store!Move
  <2> QED BY <1>0, <2>2 DEF Store!Next
<1>2. CASE ~Valid(src) /\ Return(p, "EINVAL") /\ UNCHANGED <<medium, chLock>>
  BY <1>0, <1>1, <1>2, StoreGeometry DEF Store!MoveResult, Return
<1>3. CASE /\ Valid(src) /\ medium[src] = NoTape /\ Return(p, "ENODEV")
           /\ UNCHANGED <<medium, chLock>>
  BY <1>0, <1>1, <1>3, StoreGeometry DEF Store!MoveResult, Return
<1>4. CASE /\ Valid(src) /\ chLock' = p
           /\ hold' = [hold EXCEPT ![p] = medium[src]]
           /\ UNCHANGED <<req, ret>>
           /\ \/ Goto(p, "take") /\ UNCHANGED medium
              \/ Goto(p, "dest") /\ medium' = [medium EXCEPT ![src] = NoTape]
  <2>1. pc'[p] = "take" /\ medium' = medium => shown' = medium
    BY <1>4, ChangerAssumption DEF shown
  <2>2. pc'[p] = "dest" => shown' = [medium' EXCEPT ![src] = medium[src]]
    BY <1>4, ChangerAssumption DEF shown, TypeOK, CallerType
  <2>3. shown' = medium
    BY <1>4, <2>1, <2>2, CallerFacts DEF TypeOK, DeviceType, CallerType, Goto
  <2> QED BY <1>0, <1>4, <2>3 DEF Store!vars
<1> QED
  BY <1>2, <1>3, <1>4 DEF MoveSource

LEMMA StoreMoveTake ==
    ASSUME RobotInv, NEW p \in Proc, MoveTake(p)
    PROVE  UNCHANGED Store!vars
<1> DEFINE src == req[p].src
<1> USE DEF RobotInv, IInv
<1>1. chLock = p /\ pc[p] = "take" /\ hold[p] = medium[src] /\ hold[p] \in Tape
  BY DEF MoveTake, HandSafe, LockInv, RobotLocked
<1>2. /\ hold' = [hold EXCEPT ![p] = medium[src]]
      /\ medium' = [medium EXCEPT ![src] = NoTape]
      /\ Goto(p, "dest") /\ UNCHANGED <<chLock, req, ret, numSlots, numDrives>>
  BY <1>1, ElementAssumption DEF MoveTake, Reread, devVars
<1>3. shown = medium
  BY <1>1, ShownFree
<1>4. shown' = [medium' EXCEPT ![src] = medium[src]]
  BY <1>1, <1>2, ChangerAssumption DEF shown, Goto, TypeOK, CallerType
<1>5. shown' = medium
  BY <1>1, <1>2, <1>4, CallerFacts DEF TypeOK, DeviceType
<1> QED BY <1>2, <1>3, <1>5 DEF Store!vars

LEMMA StoreMoveDest ==
    ASSUME RobotInv, NEW p \in Proc, MoveDest(p)
    PROVE  Store!Next
<1> DEFINE src == req[p].src
           dst == req[p].dst
<1> USE DEF RobotInv, IInv
<1>1. chLock = p /\ pc[p] = "dest" /\ hold[p] \in Tape
      /\ Valid(src) /\ medium[src] = NoTape /\ src \in Element
      /\ src \in Address /\ dst \in Address
  BY CallerFacts DEF MoveDest, LockInv, RobotLocked, TransitSafe
<1> SUFFICES Store!Move(src, dst)
  BY <1>1 DEF Store!Next
<1>2. shown = [medium EXCEPT ![src] = hold[p]]
  BY <1>1, ShownInHand
<1>3. shown' = medium' /\ UNCHANGED <<numSlots, numDrives>>
  BY DEF MoveDest, shown, devVars
<1>4. medium \in [Element -> Content] /\ (Valid(dst) => dst \in Element)
  BY CallerFacts DEF TypeOK, DeviceType
<1>5. Valid(src) /\ shown[src] = hold[p] /\ shown[src] # NoTape
  BY <1>1, <1>2, <1>4, ElementAssumption
<1>6. ASSUME medium' = [medium EXCEPT ![src] = hold[p]],
             ret' = Store!MoveResult(src, dst), ret' # "ok"
      PROVE  Store!Move(src, dst)
  BY <1>2, <1>3, <1>6 DEF Store!Move
<1>7. CASE ~Valid(dst) /\ Return(p, "EINVAL") /\ medium' = [medium EXCEPT ![src] = hold[p]]
  <2>1. Store!MoveResult(src, dst) = "EINVAL"
    BY <1>5, <1>7, StoreGeometry DEF Store!MoveResult
  <2> QED BY <1>6, <1>7, <2>1 DEF Return
<1>8. CASE /\ Valid(dst) /\ medium[dst] # NoTape /\ Return(p, "EBUSY")
           /\ medium' = [medium EXCEPT ![src] = hold[p]]
  <2>1. dst # src /\ shown[dst] # NoTape
    BY <1>1, <1>2, <1>4, <1>8
  <2>2. Store!MoveResult(src, dst) = "EBUSY"
    BY <1>5, <1>8, <2>1, StoreGeometry DEF Store!MoveResult
  <2> QED BY <1>6, <1>8, <2>2 DEF Return
<1>9. CASE /\ Valid(dst) /\ medium[dst] = NoTape /\ Return(p, "ok")
           /\ medium' = [medium EXCEPT ![dst] = hold[p]]
  <2>1. dst = src \/ shown[dst] = NoTape
    BY <1>1, <1>2, <1>4, <1>9
  <2>2. Store!MoveResult(src, dst) = "ok"
    BY <1>5, <1>9, <2>1, StoreGeometry DEF Store!MoveResult
  <2>3. medium' = [shown EXCEPT ![src] = NoTape, ![dst] = shown[src]]
    BY <1>1, <1>2, <1>4, <1>9
  <2> QED BY <1>3, <1>9, <2>2, <2>3 DEF Store!Move, Return
<1> QED
  BY <1>6, <1>7, <1>8, <1>9 DEF MoveDest

\* The steps that end in one critical section: the store is what it shows.
LEMMA StoreLoadCheck ==
    ASSUME RobotInv, NEW p \in Proc, LoadCheck(p)
    PROVE  [Store!Next]_(Store!vars)
<1> DEFINE src == req[p].src
           t == req[p].tape
<1> USE DEF RobotInv, IInv
<1>1. /\ pc[p] = "load" /\ chLock = NoProc /\ src \in Slot /\ t \in Content
      /\ UNCHANGED <<medium, numSlots, numDrives>>
  BY CallerFacts DEF LoadCheck, ReqSafe, devVars
<1>2. shown = medium /\ shown' = medium
  <2>1. chLock' = NoProc \/ (Goto(p, "barcode") /\ chLock' = p)
    BY <1>1 DEF LoadCheck
  <2>2. Goto(p, "barcode") => pc'[p] = "barcode"
    BY DEF Goto, TypeOK, CallerType
  <2> QED BY <1>1, <2>1, <2>2 DEF shown
<1>3. CASE medium[src] \notin {NoTape, t} /\ t # NoTape /\ Return(p, "EBUSY")
  <2>1. Store!Place(src, t)
    BY <1>1, <1>2, <1>3 DEF Store!Place, Return
  <2> QED BY <1>1, <1>3, <2>1, StoreGeometry DEF Store!Next, Content
<1>4. CASE medium[src] = NoTape /\ t = NoTape /\ Return(p, "ENODEV")
  <2>1. Store!Refuse(0, src)
    BY <1>1, <1>2, <1>4 DEF Store!Refuse, Return
  <2> QED BY <1>1, <2>1, StoreGeometry DEF Store!Next
<1>5. CASE ret' = ret
  BY <1>1, <1>2, <1>5 DEF Store!vars
<1> QED BY <1>3, <1>4, <1>5 DEF LoadCheck

LEMMA StoreOpen ==
    ASSUME RobotInv, NEW p \in Proc, Open(p) \/ Label(p)
    PROVE  [Store!Next]_(Store!vars)
<1> DEFINE src == req[p].src
<1> USE DEF RobotInv, IInv
<1>1. /\ UNCHANGED <<medium, chLock, numSlots, numDrives>> /\ src \in Address
  BY CallerFacts DEF Open, Label, devVars
<1>2. shown' = shown
  BY ShownKept DEF Open, Label, Accept, devVars, Return, Leave, Goto, TypeOK, CallerType
<1>3. CASE Return(p, "ENOENT")
  <2>1. Store!Refuse(0, 0)
    BY <1>1, <1>2, <1>3 DEF Store!Refuse, Return
  <2> QED BY <2>1, StoreGeometry DEF Store!Next
<1>4. CASE ~Valid(src) /\ Return(p, "EINVAL")
  <2>1. Store!Refuse(src, 0)
    BY <1>1, <1>2, <1>4, StoreGeometry DEF Store!Refuse, Return
  <2> QED BY <1>1, <2>1, StoreGeometry DEF Store!Next
<1>5. CASE ret' = ret
  BY <1>1, <1>2, <1>5 DEF Store!vars
<1> QED BY <1>3, <1>4, <1>5 DEF Open, Label, Accept

\* Barcodes and transfers concern the tapes, not where they are.
LEMMA StoreTapes ==
    ASSUME RobotInv, NEW p \in Proc,
           Barcode(p) \/ TransferPick(p) \/ TransferLock(p) \/ TransferEnd(p)
    PROVE  UNCHANGED Store!vars
<1> USE DEF RobotInv, IInv, TypeOK, CallerType
<1>1. UNCHANGED <<medium, numSlots, numDrives, ret>>
  BY DEF Barcode, TransferPick, TransferLock, TransferEnd, devVars
<1>2. shown' = shown
  <2>1. CASE Barcode(p)
    BY <2>1 DEF Barcode, LockInv, RobotLocked, shown
  <2>2. CASE TransferPick(p) \/ TransferLock(p) \/ TransferEnd(p)
    BY <2>2, ShownKept DEF TransferPick, TransferLock, TransferEnd, Leave, Goto
  <2> QED BY <2>1, <2>2
<1> QED BY <1>1, <1>2 DEF Store!vars

LEMMA StorePlace ==
    ASSUME RobotInv, NEW p \in Proc, Place(p)
    PROVE  Store!Next
<1> DEFINE s == req[p].src
           t == req[p].tape
<1> USE DEF RobotInv, IInv
<1>1. /\ pc[p] = "place" /\ chLock = NoProc /\ s \in Slot /\ t \in Tape
      /\ UNCHANGED <<chLock, numSlots, numDrives>>
  BY DEF Place, ReqSafe, devVars
<1>2. shown = medium /\ shown' = medium'
  BY <1>1 DEF shown
<1>3. Store!Place(s, t)
  BY <1>1, <1>2 DEF Place, Store!Place, Return
<1> QED BY <1>1, <1>3, StoreGeometry DEF Store!Next

LEMMA StoreRemoveSource ==
    ASSUME RobotInv, NEW p \in Proc, RemoveSource(p)
    PROVE  [Store!Next]_(Store!vars)
<1> DEFINE e == req[p].src
<1> USE DEF RobotInv, IInv
<1>1. /\ pc[p] = "remove" /\ chLock = NoProc /\ e \in Address
      /\ shown = medium /\ UNCHANGED <<numSlots, numDrives>>
  BY CallerFacts, ShownFree DEF RemoveSource, devVars
<1>2. CASE chLock' = p /\ Goto(p, "clear") /\ UNCHANGED <<medium, ret>>
  <2>1. shown' = medium
    BY <1>2, ChangerAssumption DEF shown, Goto, TypeOK, CallerType
  <2> QED BY <1>1, <1>2, <2>1 DEF Store!vars
<1>3. CASE UNCHANGED chLock
  <2>1. shown' = medium'
    BY <1>1, <1>3 DEF shown
  <2>2. Store!Remove(e)
    BY <1>1, <1>3, <2>1, StoreGeometry, ChangerAssumption
       DEF RemoveSource, Store!Remove, Return
  <2> QED BY <1>1, <2>2 DEF Store!Next
<1> QED BY <1>2, <1>3 DEF RemoveSource

LEMMA StoreRemoveClear ==
    ASSUME RobotInv, NEW p \in Proc, RemoveClear(p)
    PROVE  Store!Next
<1> DEFINE e == req[p].src
<1> USE DEF RobotInv, IInv
<1>1. /\ chLock = p /\ pc[p] = "clear" /\ Valid(e) /\ e \in Address
      /\ medium[e] \in Tape /\ hold[p] = medium[e]
  BY CallerFacts DEF RemoveClear, HandSafe, ReqSafe
                   , LockInv, RobotLocked
<1>2. /\ medium' = [medium EXCEPT ![e] = NoTape] /\ chLock' = NoProc /\ ret' = "ok"
      /\ UNCHANGED <<numSlots, numDrives>>
  BY <1>1, ElementAssumption DEF RemoveClear, Reread, Return, devVars
<1>3. shown = medium /\ shown' = medium'
  BY <1>1, <1>2, ShownFree DEF shown
<1>4. Store!Remove(e)
  BY <1>1, <1>2, <1>3, StoreGeometry, ElementAssumption DEF Store!Remove
<1> QED BY <1>1, <1>4 DEF Store!Next

\* Resizes, seen by the store, only change the geometry.
LEMMA StoreResize ==
    ASSUME RobotInv, NEW p \in Proc,
           ResizeStep(p) \/ \E s, d \in Int : CallResize(p, s, d)
    PROVE  [Store!Next]_(Store!vars)
<1> USE DEF RobotInv, IInv
<1>1. UNCHANGED <<medium, chLock>>
  BY DEF ResizeStep, CheckDrive, CheckSlots, Apply, CallResize
<1>2. shown' = shown
  BY <1>1, ShownKept
     DEF ResizeStep, CheckDrive, CheckSlots, Apply, CallResize, ResizeReturn, Return,
         Leave, Goto, TypeOK, CallerType
<1>3. \/ UNCHANGED <<numSlots, numDrives, ret>>
      \/ UNCHANGED <<numSlots, numDrives>> /\ ret' \in {"ok", "EIO"}
      \/ /\ ret' = "ok"
         /\ numSlots' = resize.slots /\ numDrives' = resize.drives
  BY DEF ResizeStep, CheckDrive, CheckSlots, Apply, CallResize, ResizeReturn, Return
<1>4. /\ numSlots \in 1 .. MaxSlots /\ numDrives \in 1 .. MaxDrives
      /\ resize.slots \in 1 .. MaxSlots /\ resize.drives \in 1 .. MaxDrives
  BY DEF TypeOK, DeviceType
<1>5. CASE UNCHANGED <<numSlots, numDrives, ret>>
  BY <1>2, <1>5 DEF Store!vars
<1>6. CASE UNCHANGED <<numSlots, numDrives>> /\ ret' \in {"ok", "EIO"}
  <2>1. Store!Resize(numSlots, numDrives)
    BY <1>2, <1>6 DEF Store!Resize
  <2> QED BY <1>4, <2>1 DEF Store!Next
<1>7. CASE ret' = "ok" /\ numSlots' = resize.slots /\ numDrives' = resize.drives
  <2>1. Store!Resize(resize.slots, resize.drives)
    BY <1>2, <1>7 DEF Store!Resize
  <2> QED BY <1>4, <2>1 DEF Store!Next
<1> QED BY <1>3, <1>5, <1>6, <1>7

LEMMA StoreStep ==
    ASSUME RobotInv, [NextNoEject]_vars
    PROVE  [Store!Next]_(Store!vars)
<1>1. CASE RobotNext
  <2> PICK p \in Proc : Calls(p) \/ LockedStep(p) \/ AcquireStep(p)
    BY <1>1 DEF RobotNext
  <2>1. CASE LockedStep(p)
    BY <2>1, StoreMoveTake, StoreMoveDest, StoreRemoveClear, StoreOpen, StoreTapes
       DEF LockedStep
  <2>2. CASE AcquireStep(p)
    BY <2>2, StoreMoveSource, StoreLoadCheck, StorePlace, StoreRemoveSource, StoreOpen,
       StoreTapes
       DEF AcquireStep
  <2> QED BY <2>1, <2>2, StoreCalls
<1>2. CASE ResizeNext
  BY <1>2, StoreResize, ElementAssumption DEF ResizeNext
<1>3. CASE UNCHANGED vars
  BY <1>3 DEF vars, Store!vars, shown
<1> QED BY <1>1, <1>2, <1>3 DEF NextNoEject

\* Moves, placements, loads, removals and resizes by any number of callers
\* happen as if each took one instant, and report what that instant says.
THEOREM RobotImplementsStore == SpecNoEject => AtomicStore
<1>1. Init => Store!Init
  BY ChangerAssumption, StoreGeometry DEF Init, Store!Init, shown
<1>2. RobotInv /\ [NextNoEject]_vars => [Store!Next]_(Store!vars)
  BY StoreStep
<1> QED
  BY <1>1, <1>2, RobotInvHolds, PTL DEF SpecNoEject, AtomicStore, Store!Spec

-----------------------------------------------------------------------------
\* A move or a removal in progress sees one geometry from its first check to
\* its last.
THEOREM GeometryHolds == Spec => GeometryStable
<1> DEFINE Step == (\E p \in Proc : pc[p] \in {"take", "dest", "clear"})
                       => UNCHANGED <<numSlots, numDrives>>
<1>1. IInv /\ [Next]_vars => [Step]_vars
  <2> SUFFICES ASSUME IInv, [Next]_vars, NEW p \in Proc, pc[p] \in {"take", "dest", "clear"}
               PROVE  UNCHANGED <<numSlots, numDrives>>
    OBVIOUS
  <2>1. chLock # NoProc
    BY ChangerAssumption DEF IInv, LockInv, RobotLocked
  <2>2. ASSUME NEW q \in Proc, Calls(q)
        PROVE  UNCHANGED <<numSlots, numDrives>>
    BY <2>2 DEF Calls, CallMove, CallRemove, CallUnload, CallLoad, CallSlotPlace, CallTransfer,
       Call, Refused, devVars
  <2>3. ASSUME NEW q \in Proc, LockedStep(q) \/ AcquireStep(q)
        PROVE  UNCHANGED <<numSlots, numDrives>>
    BY <2>3 DEF LockedStep, AcquireStep, MoveSource, MoveTake, MoveDest, LoadCheck, Barcode,
       Open, Label, Place, RemoveSource, RemoveClear, TransferPick, TransferLock, TransferEnd,
       devVars
  <2>4. ASSUME NEW q \in Proc,
               ResizeStep(q) \/ \E s \in 0 .. MaxSlots + 1, d \in 0 .. MaxDrives + 1 : CallResize(q, s, d)
        PROVE  UNCHANGED <<numSlots, numDrives>>
    BY <2>1, <2>4 DEF ResizeStep, CallResize, CheckDrive, CheckSlots, Apply
  <2>5. ASSUME NEW q \in Proc, EjectStep(q) \/ \E d \in Drive : CallEject(q, d)
        PROVE  UNCHANGED <<numSlots, numDrives>>
    BY <2>5 DEF EjectStep, EjectRead, EjectClear, CallEject, Call, devVars
  <2>6. CASE UNCHANGED vars
    BY <2>6 DEF vars
  <2> QED
    BY <2>2, <2>3, <2>4, <2>5, <2>6 DEF Next, NextNoEject, RobotNext, ResizeNext, EjectNext
<1>2. Spec => []IInv
  BY InitInv, NextInv, PTL DEF Spec
<1> QED
  BY <1>1, <1>2, PTL DEF Spec, GeometryStable
-----------------------------------------------------------------------------
(* Who waits for whom                                                      *)

\* The callers that own a lock the next step of p has to take.  The other
\* steps of a call that was made wait for nobody.
WaitsFor(p) ==
    {q \in Proc :
        \/ pc[p] \in {"move", "load", "place", "remove", "slots", "apply"}
           /\ chLock = q
        \/ pc[p] \in {"eject", "transfer"} /\ drvLock[req[p].src] = q
        \/ pc[p] = "drives" /\ resize.next < numDrives
           /\ drvLock[DriveBase + resize.next] = q
        \/ pc[p] \in {"barcode", "unload", "picked"} /\ tapeLock[hold[p]] = q
        \/ pc[p] = "label" /\ tapeLock[req[p].tape] = q}

\* How many locks may still be between a caller and the end of its wait:
\* ch->lock or a drv->lock, whose owner may wait for one tape->lock, whose
\* owner has all it needs.
Rank(p) ==
    IF pc[p] \in {"move", "load", "place", "remove", "slots", "apply", "eject",
                  "transfer", "drives"} THEN 2
    ELSE IF pc[p] \in {"barcode", "unload", "picked", "label"} THEN 1
    ELSE 0

\* Who waits for a lock waits for callers nearer to their end, so no waiting
\* callers form a cycle of any length: a caller asks for a tape->lock while
\* it has ch->lock (a load with a barcode) or a drv->lock (UNLOAD, READ,
\* WRITE), never for one of these while it has a tape->lock.
WaitingEnds == \A p \in Proc : \A q \in WaitsFor(p) : Rank(q) < Rank(p)

\* The callers that own a lock, by the lock.
LEMMA Owners ==
    ASSUME IInv, NEW p \in Proc, NEW q \in WaitsFor(p)
    PROVE  \/ Rank(p) = 2 /\ pc[q] \in {"take", "dest", "clear", "barcode", "oops"}
           \/ Rank(p) = 2 /\ pc[q] \in {"unload", "picked"}
           \/ Rank(p) = 1 /\ pc[q] = "io"
<1> USE DEF IInv, LockInv, Rank
<1>1. q \in Proc
  BY DEF WaitsFor
<1>2. CASE /\ pc[p] \in {"move", "load", "place", "remove", "slots", "apply"}
           /\ chLock = q
  BY <1>1, <1>2 DEF RobotLocked
<1>3. CASE pc[p] \in {"eject", "transfer"} /\ drvLock[req[p].src] = q
  BY <1>1, <1>3 DEF ReqSafe, DriveLocked
<1>4. CASE pc[p] = "drives" /\ resize.next < numDrives
           /\ drvLock[DriveBase + resize.next] = q
  <2>1. DriveBase + resize.next \in Drive
    BY <1>4, ElementAssumption DEF TypeOK, DeviceType, Drive
  <2> QED BY <1>1, <1>4, <2>1 DEF DriveLocked
<1>5. CASE pc[p] \in {"barcode", "unload", "picked"} /\ tapeLock[hold[p]] = q
  BY <1>1, <1>5 DEF ReqSafe, TapeLocked
<1>6. CASE pc[p] = "label" /\ tapeLock[req[p].tape] = q
  BY <1>1, <1>6 DEF ReqSafe, TapeLocked
<1> QED
  BY <1>2, <1>3, <1>4, <1>5, <1>6 DEF WaitsFor

\* The locks of a changer, its drives and its media cannot deadlock, for any
\* number of callers: robot operations with or without a barcode, transfers,
\* resizes and the drives' own unloads together.
THEOREM NoWaitingCycle == Spec => []WaitingEnds
<1>1. IInv => WaitingEnds
  BY Owners DEF WaitingEnds, Rank
<1> QED
  BY <1>1, InitInv, NextInv, PTL DEF Spec

\* As long as no drive is unloaded behind the robot's back, whoever is waited
\* for is in the middle of its critical section: it completes it whatever the
\* others do, or waits there for the transfers that run on one tape, and a
\* transfer that runs waits for nobody.
OwnersFinish ==
    \A p \in Proc : \A q \in WaitsFor(p) :
        \/ pc[q] \in {"take", "dest", "clear", "io"} /\ WaitsFor(q) = {}
        \/ /\ pc[q] \in {"barcode", "picked"}
           /\ \A r \in WaitsFor(q) : pc[r] = "io" /\ WaitsFor(r) = {}

\* No operation of the robot waits, at one remove or at two, for a caller
\* that crashed: every critical section of ch->lock, of a drv->lock and of a
\* tape->lock can be left.
THEOREM OwnersAlwaysFinish == SpecNoEject => []OwnersFinish
<1>1. ASSUME RobotInv, NEW p \in Proc, NEW q \in WaitsFor(p)
      PROVE  \/ pc[q] \in {"take", "dest", "clear", "io"} /\ WaitsFor(q) = {}
             \/ /\ pc[q] \in {"barcode", "picked"}
                /\ \A r \in WaitsFor(q) : pc[r] = "io" /\ WaitsFor(r) = {}
  <2>1. q \in Proc /\ pc[q] \in {"take", "dest", "clear", "barcode", "picked", "io"}
    BY <1>1, Owners DEF RobotInv, HandSafe, WaitsFor
  <2>2. CASE pc[q] \in {"take", "dest", "clear", "io"}
    BY <2>2 DEF WaitsFor
  <2>3. CASE pc[q] \in {"barcode", "picked"}
    <3>1. ASSUME NEW r \in WaitsFor(q)
          PROVE  pc[r] = "io"
      <4>1. Rank(q) # 2
        BY <2>3 DEF Rank
      <4>2. RobotInv => IInv
        BY DEF RobotInv
      <4> QED BY <1>1, <2>1, <3>1, <4>1, <4>2, Owners
    <3> QED BY <2>3, <3>1 DEF WaitsFor
  <2> QED BY <2>1, <2>2, <2>3
<1>2. RobotInv => OwnersFinish
  BY <1>1 DEF OwnersFinish
<1> QED
  BY <1>2, RobotInvHolds, PTL
=============================================================================
