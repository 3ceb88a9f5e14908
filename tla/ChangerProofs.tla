--------------------------- MODULE ChangerProofs ----------------------------
(***************************************************************************)
(* Proofs about module Changer, for any number of callers, media, slots    *)
(* and drives.                                                             *)
(***************************************************************************)
EXTENDS ChangerProperties, TLAPS

\* What the local variables of a call in progress have been checked for.
\* It is what makes TypeOK and LockInv inductive: medium is only ever read at
\* an element of the arrays.
ReqSafe ==
    \A p \in Proc :
        /\ pc[p] \in {"take", "clear"} =>
              Valid(req[p].src) /\ NamesDrive(req[p].src)
        /\ pc[p] \in {"eject", "unload", "transfer", "picked"} => req[p].src \in Drive
        /\ pc[p] \in {"load", "place"} => req[p].src \in Slot
        /\ pc[p] \in {"open", "label"} => NamesSlot(req[p].src)
        /\ pc[p] \in {"open", "label", "place"} => req[p].tape \in Tape
        /\ pc[p] \in {"barcode", "unload", "picked", "io"} => hold[p] \in Tape

IInv == TypeOK /\ ReqSafe /\ LockInv

-----------------------------------------------------------------------------
\* An address of the geometry in force is an element of the arrays.
LEMMA ValidElement ==
    ASSUME TypeOK, NEW a \in Address, Valid(a)
    PROVE  /\ a \in Element
           /\ NamesDrive(a) => a \in Drive
           /\ NamesSlot(a) => a \in Slot
BY ElementAssumption
   DEF TypeOK, DeviceType, Valid, InGeometry, NamesDrive, NamesSlot, Element, Slot, Drive, Mailslot

\* Slot 0 exists, so the arguments of an idle caller have the right type.
LEMMA NoRequestType == NoRequest \in Request
BY ElementAssumption DEF NoRequest, Request, Element, Slot, Content

\* A call that returns forgets its arguments; one that goes on keeps them.
LEMMA LeaveType ==
    ASSUME CallerType, NEW p \in Proc, Leave(p), ret' \in Code
    PROVE  CallerType'
BY NoRequestType DEF CallerType, Leave, Goto, PC, Content

LEMMA ReturnType ==
    ASSUME CallerType, NEW p \in Proc, NEW code \in Code, Return(p, code)
    PROVE  CallerType'
BY LeaveType DEF Return

LEMMA GotoType ==
    ASSUME CallerType, NEW p \in Proc, NEW l \in PC, Goto(p, l),
           UNCHANGED req, hold' \in [Proc -> Content], ret' \in Code
    PROVE  CallerType'
BY DEF CallerType, Goto

\* A resize that returns leaves no trace.
LEMMA NoResizeType ==
    NoResize \in [slots : 1 .. MaxSlots, drives : 1 .. MaxDrives, next : Nat]
BY ElementAssumption DEF NoResize

\* A call that starts disturbs nothing but its own arguments.
LEMMA CallInv ==
    ASSUME IInv, NEW p \in Proc,
           NEW l \in {"move", "load", "open", "remove", "eject", "transfer"},
           NEW r \in Request,
           l = "load" => r.src \in Slot,
           l = "open" => NamesSlot(r.src) /\ r.tape \in Tape,
           l \in {"eject", "transfer"} => r.src \in Drive,
           Call(p, l, r)
    PROVE  IInv'
<1> USE DEF IInv, TypeOK, DeviceType, CallerType, Call, Goto, devVars
<1>1. TypeOK'
  BY DEF PC
<1>2. ReqSafe'
  BY DEF ReqSafe, Valid
<1>3. RobotLocked'
  BY DEF LockInv, RobotLocked
<1>4. ReconfigLocked'
  BY DEF LockInv, ReconfigLocked
<1>5. DriveLocked'
  BY DEF LockInv, DriveLocked
<1>6. TransitSafe'
  BY DEF LockInv, TransitSafe, Valid
<1>7. TapeLocked'
  BY DEF LockInv, TapeLocked
<1> QED BY <1>1, <1>2, <1>3, <1>4, <1>5, <1>6, <1>7 DEF LockInv

\* What a caller has in hand: its arguments and its tape pointer are of their
\* types, and the element it works on is one of the arrays'.
LEMMA CallerFacts ==
    ASSUME IInv, NEW p \in Proc
    PROVE  /\ req[p].src \in Address /\ req[p].dst \in Address
           /\ req[p].tape \in Content
           /\ hold[p] \in Content
           /\ \A t \in Content : [hold EXCEPT ![p] = t] \in [Proc -> Content]
           /\ \/ Valid(req[p].src)
              \/ pc[p] \in {"take", "clear", "dest", "eject", "unload", "transfer", "picked"}
              =>
                 /\ req[p].src \in Element
                 /\ NamesDrive(req[p].src) => req[p].src \in Drive
                 /\ medium[req[p].src] \in Content
                 /\ \A t \in Content :
                       [medium EXCEPT ![req[p].src] = t] \in [Element -> Content]
           /\ Valid(req[p].dst) => req[p].dst \in Element
<1> DEFINE r == req[p]
           InArray(a) == a \in Element /\ (NamesDrive(a) => a \in Drive)
<1>1. /\ r.src \in Address /\ r.dst \in Address /\ r.tape \in Content
      /\ hold[p] \in Content
      /\ \A t \in Content : [hold EXCEPT ![p] = t] \in [Proc -> Content]
  BY DEF IInv, TypeOK, CallerType, Request
<1>2. /\ Valid(r.src) => InArray(r.src)
      /\ Valid(r.dst) => r.dst \in Element
  BY <1>1, ValidElement DEF IInv
<1>3. pc[p] \in {"take", "clear", "dest"} => InArray(r.src)
  BY <1>2 DEF IInv, ReqSafe, LockInv, TransitSafe
<1>4. pc[p] \in {"eject", "unload", "transfer", "picked"} => InArray(r.src)
  BY DEF IInv, ReqSafe, Element
<1>5. InArray(r.src) =>
         /\ medium[r.src] \in Content
         /\ \A t \in Content : [medium EXCEPT ![r.src] = t] \in [Element -> Content]
  BY DEF IInv, TypeOK, DeviceType
<1> QED
  BY <1>1, <1>2, <1>3, <1>4, <1>5

-----------------------------------------------------------------------------
(* Every step of a call preserves the invariant.                           *)

LEMMA MoveSourceInv ==
    ASSUME IInv, NEW p \in Proc, MoveSource(p)
    PROVE  IInv'
<1> USE DEF IInv, TypeOK
<1>1. DeviceType'
  BY DEF DeviceType, MoveSource, devVars, Content
<1>2. CallerType'
  <2>1. CASE \E code \in Code : Return(p, code)
    BY <2>1, ReturnType
  <2>2. CASE /\ \E l \in PC : Goto(p, l)
             /\ UNCHANGED req
             /\ hold' \in [Proc -> Content] /\ ret' \in Code
    BY <2>2, GotoType
  <2>3. CASE UNCHANGED <<pc, req, hold>> /\ ret' \in Code
    BY <2>3 DEF CallerType
  <2>4. ret \in Code /\ hold \in [Proc -> Content]
    BY DEF CallerType
  <2> QED
    BY CallerFacts, <2>1, <2>2, <2>4 DEF MoveSource, PC, Code
<1>3. ReqSafe'
  BY DEF MoveSource, Return, Leave, Goto, devVars, CallerType, ReqSafe, Valid
<1>4. RobotLocked'
  BY ChangerAssumption DEF MoveSource, Return, Leave, Goto, CallerType, LockInv, RobotLocked
<1>5. ReconfigLocked'
  BY DEF MoveSource, Return, Leave, Goto, devVars, CallerType, LockInv, ReconfigLocked
<1>6. DriveLocked'
  BY DEF MoveSource, Return, Leave, Goto, devVars, CallerType, LockInv, DriveLocked
<1>7. TransitSafe'
  BY CallerFacts
     DEF MoveSource, Return, Leave, Goto, devVars, CallerType, LockInv, TransitSafe, Valid,
         Content
<1>8. TapeLocked'
  BY DEF MoveSource, Return, Leave, Goto, devVars, CallerType, LockInv, TapeLocked
<1> QED
  BY <1>1, <1>2, <1>3, <1>4, <1>5, <1>6, <1>7, <1>8 DEF LockInv

LEMMA MoveTakeInv ==
    ASSUME IInv, NEW p \in Proc, MoveTake(p)
    PROVE  IInv'
<1> USE DEF IInv, TypeOK
<1>1. DeviceType'
  BY DEF DeviceType, MoveTake, Oops, devVars, Content
<1>2. CallerType'
  <2>1. CASE \E code \in Code : Return(p, code)
    BY <2>1, ReturnType
  <2>2. CASE /\ \E l \in PC : Goto(p, l)
             /\ UNCHANGED req
             /\ hold' \in [Proc -> Content] /\ ret' \in Code
    BY <2>2, GotoType
  <2>3. CASE UNCHANGED <<pc, req, hold>> /\ ret' \in Code
    BY <2>3 DEF CallerType
  <2>4. ret \in Code /\ hold \in [Proc -> Content]
    BY DEF CallerType
  <2> QED
    BY CallerFacts, <2>2, <2>4 DEF MoveTake, Reread, Oops, PC
<1>3. ReqSafe'
  BY DEF MoveTake, Oops, Goto, CallerType, ReqSafe, LockInv, RobotLocked
<1>4. RobotLocked'
  BY DEF MoveTake, Oops, Goto, CallerType, LockInv, RobotLocked
<1>5. ReconfigLocked'
  BY DEF MoveTake, Oops, Goto, devVars, CallerType, LockInv, ReconfigLocked
<1>6. DriveLocked'
  BY DEF MoveTake, Oops, Goto, devVars, CallerType, LockInv, DriveLocked
<1>7. TransitSafe'
  BY CallerFacts
     DEF MoveTake, Reread, Oops, Goto, devVars, CallerType, LockInv, TransitSafe,
         Valid, ReqSafe, Content
<1>8. TapeLocked'
  BY DEF MoveTake, Oops, Goto, devVars, CallerType, LockInv, TapeLocked
<1> QED
  BY <1>1, <1>2, <1>3, <1>4, <1>5, <1>6, <1>7, <1>8 DEF LockInv

LEMMA MoveDestInv ==
    ASSUME IInv, NEW p \in Proc, MoveDest(p)
    PROVE  IInv'
<1> USE DEF IInv, TypeOK
<1>1. DeviceType'
  BY CallerFacts DEF DeviceType, MoveDest, devVars
<1>2. CallerType'
  <2>1. CASE \E code \in Code : Return(p, code)
    BY <2>1, ReturnType
  <2>2. CASE /\ \E l \in PC : Goto(p, l)
             /\ UNCHANGED req
             /\ hold' \in [Proc -> Content] /\ ret' \in Code
    BY <2>2, GotoType
  <2>3. CASE UNCHANGED <<pc, req, hold>> /\ ret' \in Code
    BY <2>3 DEF CallerType
  <2>4. ret \in Code /\ hold \in [Proc -> Content]
    BY DEF CallerType
  <2> QED
    BY <2>1 DEF MoveDest, Code
<1>3. ReqSafe'
  BY DEF MoveDest, Return, Leave, Goto, CallerType, ReqSafe, LockInv, RobotLocked
<1>4. RobotLocked'
  BY ChangerAssumption DEF MoveDest, Return, Leave, Goto, CallerType, LockInv, RobotLocked
<1>5. ReconfigLocked'
  BY DEF MoveDest, Return, Leave, Goto, devVars, CallerType, LockInv, ReconfigLocked
<1>6. DriveLocked'
  BY DEF MoveDest, Return, Leave, Goto, devVars, CallerType, LockInv, DriveLocked
<1>7. TransitSafe'
  BY DEF MoveDest, Return, Leave, Goto, CallerType, LockInv, TransitSafe, RobotLocked
<1>8. TapeLocked'
  BY DEF MoveDest, Return, Leave, Goto, devVars, CallerType, LockInv, TapeLocked
<1> QED
  BY <1>1, <1>2, <1>3, <1>4, <1>5, <1>6, <1>7, <1>8 DEF LockInv

LEMMA LoadCheckInv ==
    ASSUME IInv, NEW p \in Proc, LoadCheck(p)
    PROVE  IInv'
<1> USE DEF IInv, TypeOK
<1>1. DeviceType'
  BY DEF DeviceType, LoadCheck, devVars
<1>2. CallerType'
  <2>1. CASE \E code \in Code : Return(p, code)
    BY <2>1, ReturnType
  <2>2. CASE /\ \E l \in PC : Goto(p, l)
             /\ UNCHANGED req
             /\ hold' \in [Proc -> Content] /\ ret' \in Code
    BY <2>2, GotoType
  <2>3. CASE UNCHANGED <<pc, req, hold>> /\ ret' \in Code
    BY <2>3 DEF CallerType
  <2>4. ret \in Code /\ hold \in [Proc -> Content]
    BY DEF CallerType
  <2>5. pc[p] = "load" => medium[req[p].src] \in Content
    BY DEF ReqSafe, DeviceType, Element
  <2> QED
    BY CallerFacts, <2>1, <2>2, <2>4, <2>5 DEF LoadCheck, PC, Code
<1>3. ReqSafe'
  BY CallerFacts, ChangerAssumption, ElementAssumption
     DEF NamesSlot, Slot, Element, DeviceType, LoadCheck, Return, Leave, Goto, CallerType, ReqSafe, Content, LockInv, RobotLocked
<1>4. RobotLocked'
  BY ChangerAssumption DEF LoadCheck, Return, Leave, Goto, CallerType, LockInv, RobotLocked
<1>5. ReconfigLocked'
  BY DEF LoadCheck, Return, Leave, Goto, devVars, CallerType, LockInv, ReconfigLocked
<1>6. DriveLocked'
  BY DEF LoadCheck, Return, Leave, Goto, devVars, CallerType, LockInv, DriveLocked
<1>7. TransitSafe'
  BY ChangerAssumption
     DEF LoadCheck, Return, Leave, Goto, CallerType, LockInv, TransitSafe, RobotLocked
<1>8. TapeLocked'
  BY DEF LoadCheck, Return, Leave, Goto, devVars, CallerType, LockInv, TapeLocked
<1> QED
  BY <1>1, <1>2, <1>3, <1>4, <1>5, <1>6, <1>7, <1>8 DEF LockInv

LEMMA OpenInv ==
    ASSUME IInv, NEW p \in Proc, Open(p)
    PROVE  IInv'
<1> USE DEF IInv, TypeOK
<1>1. DeviceType'
  BY DEF DeviceType, Open, devVars
<1>2. CallerType'
  <2>1. CASE \E code \in Code : Return(p, code)
    BY <2>1, ReturnType
  <2>2. CASE /\ \E l \in PC : Goto(p, l)
             /\ UNCHANGED req
             /\ hold' \in [Proc -> Content] /\ ret' \in Code
    BY <2>2, GotoType
  <2>3. CASE UNCHANGED <<pc, req, hold>> /\ ret' \in Code
    BY <2>3 DEF CallerType
  <2>4. ret \in Code /\ hold \in [Proc -> Content]
    BY DEF CallerType
  <2> QED
    BY <2>1, <2>2, <2>4 DEF Open, Accept, PC, Code
<1>3. ReqSafe'
  BY CallerFacts, ValidElement
     DEF Open, Accept, Return, Leave, Goto, devVars, CallerType, ReqSafe, Valid
<1>4. RobotLocked'
  BY DEF Open, Accept, Return, Leave, Goto, CallerType, LockInv, RobotLocked
<1>5. ReconfigLocked'
  BY DEF Open, Accept, Return, Leave, Goto, devVars, CallerType, LockInv, ReconfigLocked
<1>6. DriveLocked'
  BY DEF Open, Accept, Return, Leave, Goto, devVars, CallerType, LockInv, DriveLocked
<1>7. TransitSafe'
  BY DEF Open, Accept, Return, Leave, Goto, devVars, CallerType, LockInv, TransitSafe, Valid
<1>8. TapeLocked'
  BY DEF Open, Accept, Return, Leave, Goto, devVars, CallerType, LockInv, TapeLocked
<1> QED
  BY <1>1, <1>2, <1>3, <1>4, <1>5, <1>6, <1>7, <1>8 DEF LockInv

LEMMA BarcodeInv ==
    ASSUME IInv, NEW p \in Proc, Barcode(p)
    PROVE  IInv'
<1> USE DEF IInv, TypeOK
<1>1. DeviceType'
  BY DEF DeviceType, Barcode, devVars
<1>2. CallerType'
  <2>2. CASE /\ \E l \in PC : Goto(p, l)
             /\ UNCHANGED req
             /\ hold' \in [Proc -> Content] /\ ret' \in Code
    BY <2>2, GotoType
  <2>4. ret \in Code /\ hold \in [Proc -> Content]
    BY DEF CallerType
  <2> QED
    BY <2>2, <2>4 DEF Barcode, PC
<1>3. ReqSafe'
  BY DEF Barcode, Goto, devVars, CallerType, ReqSafe, Valid
<1>4. RobotLocked'
  BY ChangerAssumption DEF Barcode, Goto, CallerType, LockInv, RobotLocked
<1>5. ReconfigLocked'
  BY DEF Barcode, Goto, devVars, CallerType, LockInv, ReconfigLocked
<1>6. DriveLocked'
  BY DEF Barcode, Goto, devVars, DeviceType, CallerType, LockInv, DriveLocked
<1>7. TransitSafe'
  BY DEF Barcode, Goto, devVars, CallerType, LockInv, TransitSafe, Valid
<1>8. TapeLocked'
  BY DEF Barcode, Goto, devVars, DeviceType, CallerType, LockInv, TapeLocked
<1> QED
  BY <1>1, <1>2, <1>3, <1>4, <1>5, <1>6, <1>7, <1>8 DEF LockInv

LEMMA LabelInv ==
    ASSUME IInv, NEW p \in Proc, Label(p)
    PROVE  IInv'
<1> USE DEF IInv, TypeOK
<1>1. DeviceType'
  BY DEF DeviceType, Label, devVars
<1>2. CallerType'
  <2>1. CASE \E code \in Code : Return(p, code)
    BY <2>1, ReturnType
  <2>2. CASE /\ \E l \in PC : Goto(p, l)
             /\ UNCHANGED req
             /\ hold' \in [Proc -> Content] /\ ret' \in Code
    BY <2>2, GotoType
  <2>4. ret \in Code /\ hold \in [Proc -> Content]
    BY DEF CallerType
  <2> QED
    BY <2>1, <2>2, <2>4 DEF Label, Accept, PC, Code
<1>3. ReqSafe'
  <2>1. /\ pc[p] = "label" /\ req[p].tape \in Tape
        /\ Valid(req[p].src) => req[p].src \in Slot
    BY CallerFacts, ValidElement DEF Label, ReqSafe
  <2>2. /\ \A q \in Proc \ {p} : pc'[q] = pc[q] /\ req'[q] = req[q] /\ hold'[q] = hold[q]
        /\ \/ pc'[p] = "idle"
           \/ pc'[p] = "place" /\ Valid(req[p].src) /\ UNCHANGED req
    BY DEF Label, Accept, Return, Leave, Goto, CallerType
  <2> QED BY <2>1, <2>2 DEF Label, devVars, ReqSafe, Valid
<1>4. RobotLocked'
  BY DEF Label, Accept, Return, Leave, Goto, CallerType, LockInv, RobotLocked
<1>5. ReconfigLocked'
  BY DEF Label, Accept, Return, Leave, Goto, devVars, CallerType, LockInv, ReconfigLocked
<1>6. DriveLocked'
  BY DEF Label, Accept, Return, Leave, Goto, devVars, DeviceType, CallerType, LockInv, DriveLocked
<1>7. TransitSafe'
  BY DEF Label, Accept, Return, Leave, Goto, devVars, CallerType, LockInv, TransitSafe, Valid
<1>8. TapeLocked'
  BY DEF Label, Accept, Return, Leave, Goto, devVars, DeviceType, CallerType, LockInv, TapeLocked
<1> QED
  BY <1>1, <1>2, <1>3, <1>4, <1>5, <1>6, <1>7, <1>8 DEF LockInv

LEMMA TransferPickInv ==
    ASSUME IInv, NEW p \in Proc, TransferPick(p)
    PROVE  IInv'
<1> USE DEF IInv, TypeOK
<1>1. DeviceType'
  BY DEF DeviceType, TransferPick, devVars
<1>2. CallerType'
  <2>2. CASE /\ \E l \in PC : Goto(p, l)
             /\ UNCHANGED req
             /\ hold' \in [Proc -> Content] /\ ret' \in Code
    BY <2>2, GotoType
  <2>4. ret \in Code /\ hold \in [Proc -> Content]
    BY DEF CallerType
  <2>5. medium[req[p].src] \in Content /\ pc[p] = "transfer"
    BY CallerFacts DEF TransferPick
  <2> QED
    BY <2>2, <2>4, <2>5, CallerFacts, LeaveType DEF TransferPick, PC
<1>3. ReqSafe'
  BY CallerFacts DEF TransferPick, Leave, Goto, devVars, CallerType, ReqSafe, Valid, Content
<1>4. RobotLocked'
  BY DEF TransferPick, Leave, Goto, CallerType, LockInv, RobotLocked
<1>5. ReconfigLocked'
  BY DEF TransferPick, Leave, Goto, devVars, CallerType, LockInv, ReconfigLocked
<1>6. DriveLocked'
  BY ChangerAssumption DEF TransferPick, Leave, Goto, devVars, DeviceType, CallerType, LockInv, DriveLocked
<1>7. TransitSafe'
  BY DEF TransferPick, Leave, Goto, devVars, CallerType, LockInv, TransitSafe, Valid
<1>8. TapeLocked'
  BY DEF TransferPick, Leave, Goto, devVars, DeviceType, CallerType, LockInv, TapeLocked
<1> QED
  BY <1>1, <1>2, <1>3, <1>4, <1>5, <1>6, <1>7, <1>8 DEF LockInv

LEMMA TransferLockInv ==
    ASSUME IInv, NEW p \in Proc, TransferLock(p)
    PROVE  IInv'
<1> USE DEF IInv, TypeOK
<1>1. DeviceType'
  BY DEF DeviceType, TransferLock, devVars
<1>2. CallerType'
  <2>2. CASE /\ \E l \in PC : Goto(p, l)
             /\ UNCHANGED req
             /\ hold' \in [Proc -> Content] /\ ret' \in Code
    BY <2>2, GotoType
  <2>4. ret \in Code /\ hold \in [Proc -> Content]
    BY DEF CallerType
  <2> QED
    BY <2>2, <2>4 DEF TransferLock, PC
<1>3. ReqSafe'
  BY DEF TransferLock, Goto, devVars, CallerType, ReqSafe, Valid
<1>4. RobotLocked'
  BY DEF TransferLock, Goto, CallerType, LockInv, RobotLocked
<1>5. ReconfigLocked'
  BY DEF TransferLock, Goto, devVars, CallerType, LockInv, ReconfigLocked
<1>6. DriveLocked'
  BY ChangerAssumption DEF TransferLock, Goto, devVars, DeviceType, CallerType, LockInv, DriveLocked
<1>7. TransitSafe'
  BY DEF TransferLock, Goto, devVars, CallerType, LockInv, TransitSafe, Valid
<1>8. TapeLocked'
  BY ChangerAssumption DEF TransferLock, Goto, devVars, DeviceType, CallerType, LockInv, TapeLocked
<1> QED
  BY <1>1, <1>2, <1>3, <1>4, <1>5, <1>6, <1>7, <1>8 DEF LockInv

LEMMA TransferEndInv ==
    ASSUME IInv, NEW p \in Proc, TransferEnd(p)
    PROVE  IInv'
<1> USE DEF IInv, TypeOK
<1>1. DeviceType'
  BY DEF DeviceType, TransferEnd, devVars
<1>2. CallerType'
  BY LeaveType DEF TransferEnd, CallerType
<1>3. ReqSafe'
  BY DEF TransferEnd, Leave, Goto, devVars, CallerType, ReqSafe, Valid
<1>4. RobotLocked'
  BY DEF TransferEnd, Leave, Goto, CallerType, LockInv, RobotLocked
<1>5. ReconfigLocked'
  BY DEF TransferEnd, Leave, Goto, devVars, CallerType, LockInv, ReconfigLocked
<1>6. DriveLocked'
  BY DEF TransferEnd, Leave, Goto, devVars, DeviceType, CallerType, LockInv, DriveLocked
<1>7. TransitSafe'
  BY DEF TransferEnd, Leave, Goto, devVars, CallerType, LockInv, TransitSafe, Valid
<1>8. TapeLocked'
  BY ChangerAssumption DEF TransferEnd, Leave, Goto, devVars, DeviceType, CallerType, LockInv, TapeLocked
<1> QED
  BY <1>1, <1>2, <1>3, <1>4, <1>5, <1>6, <1>7, <1>8 DEF LockInv

LEMMA PlaceInv ==
    ASSUME IInv, NEW p \in Proc, Place(p)
    PROVE  IInv'
<1> USE DEF IInv, TypeOK
<1>1. DeviceType'
  BY CallerFacts DEF DeviceType, Place, devVars
<1>2. CallerType'
  <2>1. CASE \E code \in Code : Return(p, code)
    BY <2>1, ReturnType
  <2>2. CASE /\ \E l \in PC : Goto(p, l)
             /\ UNCHANGED req
             /\ hold' \in [Proc -> Content] /\ ret' \in Code
    BY <2>2, GotoType
  <2>3. CASE UNCHANGED <<pc, req, hold>> /\ ret' \in Code
    BY <2>3 DEF CallerType
  <2>4. ret \in Code /\ hold \in [Proc -> Content]
    BY DEF CallerType
  <2> QED
    BY <2>1, <2>2, <2>4 DEF Place, PC, Code
<1>3. ReqSafe'
  BY ChangerAssumption
     DEF Place, Return, Leave, Goto, CallerType, ReqSafe, LockInv, RobotLocked
<1>4. RobotLocked'
  BY DEF Place, Return, Leave, Goto, CallerType, LockInv, RobotLocked
<1>5. ReconfigLocked'
  BY DEF Place, Return, Leave, Goto, devVars, CallerType, LockInv, ReconfigLocked
<1>6. DriveLocked'
  BY DEF Place, Return, Leave, Goto, devVars, CallerType, LockInv, DriveLocked
<1>7. TransitSafe'
  BY ChangerAssumption
     DEF Place, Return, Leave, Goto, CallerType, LockInv, TransitSafe, RobotLocked
<1>8. TapeLocked'
  BY DEF Place, Return, Leave, Goto, devVars, CallerType, LockInv, TapeLocked
<1> QED
  BY <1>1, <1>2, <1>3, <1>4, <1>5, <1>6, <1>7, <1>8 DEF LockInv

LEMMA RemoveSourceInv ==
    ASSUME IInv, NEW p \in Proc, RemoveSource(p)
    PROVE  IInv'
<1> USE DEF IInv, TypeOK
<1>1. DeviceType'
  BY DEF DeviceType, RemoveSource, devVars, Content
<1>2. CallerType'
  <2>1. CASE \E code \in Code : Return(p, code)
    BY <2>1, ReturnType
  <2>2. CASE /\ \E l \in PC : Goto(p, l)
             /\ UNCHANGED req
             /\ hold' \in [Proc -> Content] /\ ret' \in Code
    BY <2>2, GotoType
  <2>3. CASE UNCHANGED <<pc, req, hold>> /\ ret' \in Code
    BY <2>3 DEF CallerType
  <2>4. ret \in Code /\ hold \in [Proc -> Content]
    BY DEF CallerType
  <2> QED
    BY CallerFacts, <2>1, <2>2, <2>4 DEF RemoveSource, PC, Code
<1>3. ReqSafe'
  BY DEF RemoveSource, Return, Leave, Goto, devVars, CallerType, ReqSafe, Valid
<1>4. RobotLocked'
  BY ChangerAssumption
     DEF RemoveSource, Return, Leave, Goto, CallerType, LockInv, RobotLocked
<1>5. ReconfigLocked'
  BY DEF RemoveSource, Return, Leave, Goto, devVars, CallerType, LockInv, ReconfigLocked
<1>6. DriveLocked'
  BY DEF RemoveSource, Return, Leave, Goto, devVars, CallerType, LockInv, DriveLocked
<1>7. TransitSafe'
  BY ChangerAssumption
     DEF RemoveSource, Return, Leave, Goto, CallerType, LockInv, TransitSafe, RobotLocked
<1>8. TapeLocked'
  BY DEF RemoveSource, Return, Leave, Goto, devVars, CallerType, LockInv, TapeLocked
<1> QED
  BY <1>1, <1>2, <1>3, <1>4, <1>5, <1>6, <1>7, <1>8 DEF LockInv

LEMMA RemoveClearInv ==
    ASSUME IInv, NEW p \in Proc, RemoveClear(p)
    PROVE  IInv'
<1> USE DEF IInv, TypeOK
<1>1. DeviceType'
  BY DEF DeviceType, RemoveClear, Oops, devVars, Content
<1>2. CallerType'
  <2>1. CASE \E code \in Code : Return(p, code)
    BY <2>1, ReturnType
  <2>2. CASE /\ \E l \in PC : Goto(p, l)
             /\ UNCHANGED req
             /\ hold' \in [Proc -> Content] /\ ret' \in Code
    BY <2>2, GotoType
  <2>3. CASE UNCHANGED <<pc, req, hold>> /\ ret' \in Code
    BY <2>3 DEF CallerType
  <2>4. ret \in Code /\ hold \in [Proc -> Content]
    BY DEF CallerType
  <2> QED
    BY <2>1, <2>2, <2>4 DEF RemoveClear, Oops, PC, Code
<1>3. ReqSafe'
  BY DEF RemoveClear, Oops, Return, Leave, Goto, CallerType, ReqSafe, LockInv, RobotLocked
<1>4. RobotLocked'
  BY ChangerAssumption
     DEF RemoveClear, Oops, Return, Leave, Goto, CallerType, LockInv, RobotLocked
<1>5. ReconfigLocked'
  BY DEF RemoveClear, Oops, Return, Leave, Goto, devVars, CallerType, LockInv, ReconfigLocked
<1>6. DriveLocked'
  BY DEF RemoveClear, Oops, Return, Leave, Goto, devVars, CallerType, LockInv, DriveLocked
<1>7. TransitSafe'
  BY DEF RemoveClear, Oops, Return, Leave, Goto, CallerType, LockInv, TransitSafe,
         RobotLocked
<1>8. TapeLocked'
  BY DEF RemoveClear, Oops, Return, Leave, Goto, devVars, CallerType, LockInv, TapeLocked
<1> QED
  BY <1>1, <1>2, <1>3, <1>4, <1>5, <1>6, <1>7, <1>8 DEF LockInv

LEMMA EjectReadInv ==
    ASSUME IInv, NEW p \in Proc, EjectRead(p)
    PROVE  IInv'
<1> USE DEF IInv, TypeOK
<1>1. DeviceType'
  BY DEF DeviceType, EjectRead
<1>2. CallerType'
  <2>1. CASE \E code \in Code : Return(p, code)
    BY <2>1, ReturnType
  <2>2. CASE /\ \E l \in PC : Goto(p, l)
             /\ UNCHANGED req
             /\ hold' \in [Proc -> Content] /\ ret' \in Code
    BY <2>2, GotoType
  <2>3. CASE UNCHANGED <<pc, req, hold>> /\ ret' \in Code
    BY <2>3 DEF CallerType
  <2>4. ret \in Code /\ hold \in [Proc -> Content]
    BY DEF CallerType
  <2> QED
    BY CallerFacts, <2>1, <2>2, <2>4 DEF EjectRead, PC, Code
<1>3. ReqSafe'
  BY CallerFacts DEF EjectRead, Return, Leave, Goto, CallerType, ReqSafe, Valid, Content
<1>4. RobotLocked'
  BY DEF EjectRead, Return, Leave, Goto, CallerType, LockInv, RobotLocked
<1>5. ReconfigLocked'
  BY DEF EjectRead, Return, Leave, Goto, CallerType, LockInv, ReconfigLocked
<1>6. DriveLocked'
  BY ChangerAssumption
     DEF EjectRead, Return, Leave, Goto, DeviceType, CallerType, LockInv, DriveLocked
<1>7. TransitSafe'
  BY DEF EjectRead, Return, Leave, Goto, CallerType, LockInv, TransitSafe, Valid
<1>8. TapeLocked'
  BY DEF EjectRead, Return, Leave, Goto, CallerType, LockInv, TapeLocked
<1> QED
  BY <1>1, <1>2, <1>3, <1>4, <1>5, <1>6, <1>7, <1>8 DEF LockInv

LEMMA EjectClearInv ==
    ASSUME IInv, NEW p \in Proc, EjectClear(p)
    PROVE  IInv'
<1> USE DEF IInv, TypeOK
<1>1. DeviceType'
  BY DEF DeviceType, EjectClear, Content
<1>2. CallerType'
  <2>1. CASE \E code \in Code : Return(p, code)
    BY <2>1, ReturnType
  <2>2. CASE /\ \E l \in PC : Goto(p, l)
             /\ UNCHANGED req
             /\ hold' \in [Proc -> Content] /\ ret' \in Code
    BY <2>2, GotoType
  <2>3. CASE UNCHANGED <<pc, req, hold>> /\ ret' \in Code
    BY <2>3 DEF CallerType
  <2>4. ret \in Code /\ hold \in [Proc -> Content]
    BY DEF CallerType
  <2> QED
    BY <2>1 DEF EjectClear, Code
<1>3. ReqSafe'
  BY DEF EjectClear, Return, Leave, Goto, CallerType, ReqSafe, Valid
<1>4. RobotLocked'
  BY DEF EjectClear, Return, Leave, Goto, LockInv, RobotLocked
<1>5. ReconfigLocked'
  BY DEF EjectClear, Return, Leave, Goto, LockInv, ReconfigLocked
<1>6. DriveLocked'
  BY ChangerAssumption
     DEF EjectClear, Return, Leave, Goto, DeviceType, CallerType, LockInv, DriveLocked
<1>7. TransitSafe'
  BY DEF EjectClear, Return, Leave, Goto, LockInv, TransitSafe, Valid
<1>8. TapeLocked'
  BY DEF EjectClear, Return, Leave, Goto, CallerType, LockInv, TapeLocked
<1> QED
  BY <1>1, <1>2, <1>3, <1>4, <1>5, <1>6, <1>7, <1>8 DEF LockInv

LEMMA CallResizeInv ==
    ASSUME IInv, NEW p \in Proc, NEW s \in Int, NEW d \in Int, CallResize(p, s, d)
    PROVE  IInv'
<1> USE DEF IInv, TypeOK
<1>1. DeviceType'
  BY ElementAssumption DEF DeviceType, CallResize, Clamp
<1>2. CallerType'
  <2>1. CASE \E code \in Code : Return(p, code)
    BY <2>1, ReturnType
  <2>2. CASE /\ \E l \in PC : Goto(p, l)
             /\ UNCHANGED req
             /\ hold' \in [Proc -> Content] /\ ret' \in Code
    BY <2>2, GotoType
  <2>3. CASE UNCHANGED <<pc, req, hold>> /\ ret' \in Code
    BY <2>3 DEF CallerType
  <2>4. ret \in Code /\ hold \in [Proc -> Content]
    BY DEF CallerType
  <2> QED
    BY <2>2, <2>3, <2>4 DEF CallResize, PC, Code
<1>3. ReqSafe'
  BY DEF CallResize, Goto, CallerType, ReqSafe, Valid
<1>4. RobotLocked'
  BY DEF CallResize, Goto, CallerType, LockInv, RobotLocked
<1>5. ReconfigLocked'
  BY ChangerAssumption DEF CallResize, Goto, CallerType, LockInv, ReconfigLocked
<1>6. DriveLocked'
  BY DEF CallResize, Goto, CallerType, LockInv, DriveLocked
<1>7. TransitSafe'
  BY DEF CallResize, Goto, CallerType, LockInv, TransitSafe, Valid
<1>8. TapeLocked'
  BY DEF CallResize, Goto, CallerType, LockInv, TapeLocked
<1> QED
  BY <1>1, <1>2, <1>3, <1>4, <1>5, <1>6, <1>7, <1>8 DEF LockInv

LEMMA CheckDriveInv ==
    ASSUME IInv, NEW p \in Proc, CheckDrive(p)
    PROVE  IInv'
<1> USE DEF IInv, TypeOK
<1>1. DeviceType'
  BY NoResizeType DEF DeviceType, CheckDrive, ResizeReturn
<1>2. CallerType'
  <2>1. CASE \E code \in Code : Return(p, code)
    BY <2>1, ReturnType
  <2>2. CASE /\ \E l \in PC : Goto(p, l)
             /\ UNCHANGED req
             /\ hold' \in [Proc -> Content] /\ ret' \in Code
    BY <2>2, GotoType
  <2>3. CASE UNCHANGED <<pc, req, hold>> /\ ret' \in Code
    BY <2>3 DEF CallerType
  <2>4. ret \in Code /\ hold \in [Proc -> Content]
    BY DEF CallerType
  <2> QED
    BY <2>1, <2>2, <2>3, <2>4 DEF CheckDrive, ResizeReturn, PC, Code
<1>3. ReqSafe'
  BY DEF CheckDrive, ResizeReturn, Return, Leave, Goto, CallerType, ReqSafe, Valid
<1>4. RobotLocked'
  BY DEF CheckDrive, ResizeReturn, Return, Leave, Goto, CallerType, LockInv, RobotLocked
<1>5. ReconfigLocked'
  BY ChangerAssumption
     DEF CheckDrive, ResizeReturn, Return, Leave, Goto, CallerType, LockInv, ReconfigLocked
<1>6. DriveLocked'
  BY DEF CheckDrive, ResizeReturn, Return, Leave, Goto, CallerType, LockInv, DriveLocked
<1>7. TransitSafe'
  BY DEF CheckDrive, ResizeReturn, Return, Leave, Goto, CallerType, LockInv, TransitSafe,
         Valid
<1>8. TapeLocked'
  BY DEF CheckDrive, ResizeReturn, Return, Leave, Goto, CallerType, LockInv, TapeLocked
<1> QED
  BY <1>1, <1>2, <1>3, <1>4, <1>5, <1>6, <1>7, <1>8 DEF LockInv

LEMMA CheckSlotsInv ==
    ASSUME IInv, NEW p \in Proc, CheckSlots(p)
    PROVE  IInv'
<1> USE DEF IInv, TypeOK
<1>1. DeviceType'
  BY NoResizeType DEF DeviceType, CheckSlots, ResizeReturn
<1>2. CallerType'
  <2>1. CASE \E code \in Code : Return(p, code)
    BY <2>1, ReturnType
  <2>2. CASE /\ \E l \in PC : Goto(p, l)
             /\ UNCHANGED req
             /\ hold' \in [Proc -> Content] /\ ret' \in Code
    BY <2>2, GotoType
  <2>3. CASE UNCHANGED <<pc, req, hold>> /\ ret' \in Code
    BY <2>3 DEF CallerType
  <2>4. ret \in Code /\ hold \in [Proc -> Content]
    BY DEF CallerType
  <2> QED
    BY <2>1, <2>2, <2>4 DEF CheckSlots, ResizeReturn, PC, Code
<1>3. ReqSafe'
  BY ChangerAssumption
     DEF CheckSlots, ResizeReturn, Return, Leave, Goto, CallerType, ReqSafe, LockInv,
         RobotLocked
<1>4. RobotLocked'
  BY DEF CheckSlots, ResizeReturn, Return, Leave, Goto, CallerType, LockInv, RobotLocked
<1>5. ReconfigLocked'
  BY ChangerAssumption
     DEF CheckSlots, ResizeReturn, Return, Leave, Goto, CallerType, LockInv, ReconfigLocked
<1>6. DriveLocked'
  BY DEF CheckSlots, ResizeReturn, Return, Leave, Goto, CallerType, LockInv, DriveLocked
<1>7. TransitSafe'
  BY DEF CheckSlots, ResizeReturn, Return, Leave, Goto, CallerType, LockInv, TransitSafe,
         Valid
<1>8. TapeLocked'
  BY DEF CheckSlots, ResizeReturn, Return, Leave, Goto, CallerType, LockInv, TapeLocked
<1> QED
  BY <1>1, <1>2, <1>3, <1>4, <1>5, <1>6, <1>7, <1>8 DEF LockInv

LEMMA ApplyInv ==
    ASSUME IInv, NEW p \in Proc, Apply(p)
    PROVE  IInv'
<1> USE DEF IInv, TypeOK
<1>1. DeviceType'
  BY NoResizeType DEF DeviceType, Apply, ResizeReturn
<1>2. CallerType'
  <2>1. CASE \E code \in Code : Return(p, code)
    BY <2>1, ReturnType
  <2>2. CASE /\ \E l \in PC : Goto(p, l)
             /\ UNCHANGED req
             /\ hold' \in [Proc -> Content] /\ ret' \in Code
    BY <2>2, GotoType
  <2>3. CASE UNCHANGED <<pc, req, hold>> /\ ret' \in Code
    BY <2>3 DEF CallerType
  <2>4. ret \in Code /\ hold \in [Proc -> Content]
    BY DEF CallerType
  <2> QED
    BY <2>1 DEF Apply, ResizeReturn, Code
<1>3. ReqSafe'
  BY ChangerAssumption
     DEF Apply, ResizeReturn, Return, Leave, Goto, ReqSafe, LockInv, RobotLocked
<1>4. RobotLocked'
  BY DEF Apply, ResizeReturn, Return, Leave, Goto, LockInv, RobotLocked
<1>5. ReconfigLocked'
  BY ChangerAssumption
     DEF Apply, ResizeReturn, Return, Leave, Goto, CallerType, LockInv, ReconfigLocked
<1>6. DriveLocked'
  BY DEF Apply, ResizeReturn, Return, Leave, Goto, LockInv, DriveLocked
<1>7. TransitSafe'
  BY ChangerAssumption
     DEF Apply, ResizeReturn, Return, Leave, Goto, LockInv, TransitSafe, RobotLocked
<1>8. TapeLocked'
  BY DEF Apply, ResizeReturn, Return, Leave, Goto, CallerType, LockInv, TapeLocked
<1> QED
  BY <1>1, <1>2, <1>3, <1>4, <1>5, <1>6, <1>7, <1>8 DEF LockInv

\* The calls of the robot start with arguments of the right kind.
LEMMA CallsInv ==
    ASSUME IInv, NEW p \in Proc, Calls(p)
    PROVE  IInv'
<1> DEFINE Req(src, dst, t, l) == [src |-> src, dst |-> dst, tape |-> t, load |-> l]
<1>0. ASSUME NEW src \in Address, NEW dst \in Address, NEW t \in Content,
             NEW l \in BOOLEAN
      PROVE  Req(src, dst, t, l) \in Request
  BY DEF Request
<1>1. ASSUME NEW code \in Code, Refused(p, code)
      PROVE  IInv'
  BY <1>1 DEF Refused, IInv, TypeOK, DeviceType, CallerType, ReqSafe, LockInv,
              RobotLocked, ReconfigLocked, DriveLocked, TapeLocked, TransitSafe, Valid, devVars
<1>2. ASSUME NEW src \in Address, NEW dst \in Address, CallMove(p, src, dst)
      PROVE  IInv'
  BY <1>0, <1>2, CallInv DEF CallMove, Content
<1>3. ASSUME NEW e \in Address, CallRemove(p, e)
      PROVE  IInv'
  BY <1>0, <1>3, CallInv DEF CallRemove, Content
<1>4. ASSUME NEW s \in Address, NEW d \in Address, CallUnload(p, d, s)
      PROVE  IInv'
  BY <1>1, <1>2, <1>4 DEF CallUnload, Code
<1>5. ASSUME NEW s \in Address, NEW d \in Address, NEW t \in Content,
             NamesSlot(s), CallLoad(p, s, d, t)
      PROVE  IInv'
  <2>1. Valid(s) => s \in Slot
    BY <1>5, ValidElement DEF IInv
  <2>2. CASE Valid(s) /\ Valid(d)
    BY <1>0, <1>5, <2>1, <2>2, CallInv DEF CallLoad
  <2>3. CASE ~(Valid(s) /\ Valid(d))
    BY <1>1, <1>5, <2>3 DEF CallLoad, Code
  <2> QED BY <2>2, <2>3
<1>6. ASSUME NEW s \in Address, NEW t \in Tape, NamesSlot(s), CallSlotPlace(p, s, t)
      PROVE  IInv'
  BY <1>0, <1>6, CallInv DEF CallSlotPlace, Content
<1>7. ASSUME NEW d \in Drive, CallTransfer(p, d)
      PROVE  IInv'
  BY <1>0, <1>7, CallInv, ElementAssumption DEF CallTransfer, Content, Element
<1> QED
  BY <1>2, <1>3, <1>4, <1>5, <1>6, <1>7 DEF Calls

LEMMA CallEjectInv ==
    ASSUME IInv, NEW p \in Proc, NEW d \in Drive, CallEject(p, d)
    PROVE  IInv'
<1> DEFINE r == [src |-> d, dst |-> d, tape |-> NoTape, load |-> FALSE]
<1>1. r \in Request
  BY ElementAssumption DEF Request, Element, Content
<1> QED
  BY <1>1, CallInv DEF CallEject

-----------------------------------------------------------------------------
(* The inductive invariant                                                 *)

LEMMA InitInv == Init => IInv
<1> SUFFICES ASSUME Init PROVE IInv
  OBVIOUS
<1>1. TypeOK
  BY NoRequestType, NoResizeType, ChangerAssumption
     DEF Init, TypeOK, DeviceType, CallerType, PC, Code, Content
<1>2. ReqSafe /\ LockInv
  BY ChangerAssumption
     DEF Init, ReqSafe, LockInv, RobotLocked, ReconfigLocked, DriveLocked, TapeLocked,
         TransitSafe
<1> QED
  BY <1>1, <1>2 DEF IInv

LEMMA StutterInv == IInv /\ UNCHANGED vars => IInv'
BY DEF vars, IInv, TypeOK, DeviceType, CallerType, ReqSafe, LockInv, RobotLocked,
       ReconfigLocked, DriveLocked, TapeLocked, TransitSafe, Valid

LEMMA NextInv == IInv /\ [Next]_vars => IInv'
<1> SUFFICES ASSUME IInv, [Next]_vars PROVE IInv'
  OBVIOUS
<1>1. CASE RobotNext
  <2> PICK p \in Proc : Calls(p) \/ LockedStep(p) \/ AcquireStep(p)
    BY <1>1 DEF RobotNext
  <2>1. CASE Calls(p)
    BY <2>1, CallsInv
  <2>2. CASE LockedStep(p)
    BY <2>2, MoveTakeInv, MoveDestInv, RemoveClearInv, OpenInv, TransferEndInv
       DEF LockedStep
  <2>3. CASE AcquireStep(p)
    BY <2>3, MoveSourceInv, LoadCheckInv, PlaceInv, RemoveSourceInv, BarcodeInv,
       LabelInv, TransferPickInv, TransferLockInv
       DEF AcquireStep
  <2> QED BY <2>1, <2>2, <2>3
<1>2. CASE ResizeNext
  <2> PICK p \in Proc :
         \/ \E s \in 0 .. MaxSlots + 1, d \in 0 .. MaxDrives + 1 : CallResize(p, s, d)
         \/ ResizeStep(p)
    BY <1>2 DEF ResizeNext
  <2>1. CASE ResizeStep(p)
    BY <2>1, CheckDriveInv, CheckSlotsInv, ApplyInv DEF ResizeStep
  <2>2. ASSUME NEW s \in 0 .. MaxSlots + 1, NEW d \in 0 .. MaxDrives + 1,
               CallResize(p, s, d)
        PROVE  IInv'
    BY <2>2, CallResizeInv
  <2> QED BY <2>1, <2>2
<1>3. CASE EjectNext
  BY <1>3, EjectReadInv, EjectClearInv, CallEjectInv DEF EjectNext, EjectStep
<1>4. CASE UNCHANGED vars
  BY <1>4, StutterInv
<1> QED
  BY <1>1, <1>2, <1>3, <1>4 DEF Next, NextNoEject

\* Whatever callers do, the changer's data keep their types.
THEOREM TypeCorrect == Spec => []TypeOK
<1>1. IInv => TypeOK
  BY DEF IInv
<1> QED
  BY <1>1, InitInv, NextInv, PTL DEF Spec

\* Robot operations, resizes and unloads by the drive exclude one another as
\* the locks intend, and a medium in transit can always be put back: the
\* rollback of vtl_changer_move_medium never overwrites a medium and never
\* writes outside the geometry, for any number of concurrent callers.
THEOREM LocksSafe == Spec => []LockInv
<1>1. IInv => LockInv
  BY DEF IInv
<1> QED
  BY <1>1, InitInv, NextInv, PTL DEF Spec

-----------------------------------------------------------------------------
(* Media are neither made nor lost                                         *)

Carries(p, t) == pc[p] \in {"take", "dest"} /\ hold[p] = t

\* While ch->lock is held between the two looks at a drive, the drive's own
\* unload may empty it, but nobody puts another medium there.
InHand ==
    \A p \in Proc : pc[p] \in {"take", "clear"} =>
        hold[p] \in Tape /\ medium[req[p].src] \in {hold[p], NoTape}

MediaInv == IInv /\ InHand

LEMMA WhereIs ==
    ASSUME NEW t, NEW e
    PROVE  e \in Where(t) <=>
              \/ e \in Element /\ medium[e] = t
              \/ \E p \in Proc : Carries(p, t) /\ req[p].src = e
BY DEF Where, Carries

\* The other callers are where they were.
Alone(p) == \A q \in Proc \ {p} :
    pc'[q] = pc[q] /\ req'[q] = req[q] /\ hold'[q] = hold[q]

\* ch->lock admits one caller with a medium in hand.
LEMMA OneCarries ==
    ASSUME IInv, NEW p \in Proc, NEW q \in Proc,
           pc[p] \in {"take", "dest", "clear", "oops"},
           pc[q] \in {"take", "dest", "clear", "oops"}
    PROVE  p = q
BY DEF IInv, LockInv, RobotLocked

\* Only a caller that holds ch->lock or finds it free touches the media, but
\* for an unload by the drive, which only empties one.
LEMMA InHandStep ==
    ASSUME MediaInv, NEW p \in Proc, Alone(p),
           \/ chLock \in {NoProc, p}
           \/ \A e \in Element : medium'[e] \in {medium[e], NoTape},
           pc'[p] \in {"take", "clear"} =>
               hold'[p] \in Tape /\ medium'[req'[p].src] \in {hold'[p], NoTape}
    PROVE  InHand'
<1> SUFFICES ASSUME NEW q \in Proc, pc'[q] \in {"take", "clear"}
             PROVE  hold'[q] \in Tape /\ medium'[req'[q].src] \in {hold'[q], NoTape}
  BY DEF InHand
<1>1. CASE q = p
  BY <1>1
<1>2. CASE q # p
  <2>1. pc[q] \in {"take", "clear"} /\ req'[q] = req[q] /\ hold'[q] = hold[q]
    BY <1>2 DEF Alone
  <2>2. /\ hold[q] \in Tape /\ medium[req[q].src] \in {hold[q], NoTape}
        /\ req[q].src \in Element
    BY <2>1, CallerFacts DEF MediaInv, InHand
  <2>3. chLock \notin {NoProc, p}
    BY <2>1, <1>2, ChangerAssumption DEF MediaInv, IInv, LockInv, RobotLocked
  <2> QED
    BY <2>1, <2>2, <2>3
<1> QED BY <1>1, <1>2

LEMMA WhereNext ==
    ASSUME NEW t, NEW e
    PROVE  e \in Where(t)' <=>
              \/ e \in Element /\ medium'[e] = t
              \/ \E p \in Proc : Carries(p, t)' /\ req'[p].src = e
BY DEF Where, Carries

\* A step of p leaves the other callers' media in their hands.
LEMMA OthersCarry ==
    ASSUME NEW p \in Proc, Alone(p), NEW t, NEW q \in Proc, q # p
    PROVE  (Carries(q, t)' <=> Carries(q, t)) /\ req'[q] = req[q]
BY DEF Alone, Carries

\* A caller without a medium in hand, before and after, changes the places of
\* media only by what it writes to the elements.
LEMMA PlacesWritten ==
    ASSUME NEW p \in Proc, Alone(p), NEW t,
           pc[p] \notin {"take", "dest"}, pc'[p] \notin {"take", "dest"},
           NEW e, e \in Element => medium'[e] = medium[e]
    PROVE  e \in Where(t)' <=> e \in Where(t)
<1>1. ASSUME NEW q \in Proc
      PROVE  (Carries(q, t)' <=> Carries(q, t))
             /\ (Carries(q, t) => req'[q] = req[q])
  <2>1. CASE q = p
    BY <2>1 DEF Carries
  <2>2. CASE q # p
    BY <2>2, OthersCarry
  <2> QED BY <2>1, <2>2
<1> QED
  BY <1>1, WhereIs, WhereNext

LEMMA QuietStep ==
    ASSUME NEW p \in Proc, Alone(p), UNCHANGED medium,
           pc[p] \notin {"take", "dest"}, pc'[p] \notin {"take", "dest"}
    PROVE  NoCopy /\ NoLoss
<1>1. ASSUME NEW t, NEW e
      PROVE  e \in Where(t)' <=> e \in Where(t)
  BY PlacesWritten
<1> QED
  BY <1>1 DEF NoCopy, NoLoss

\* A caller that empties an element its request names: nothing is copied, and
\* only that element loses its medium.
LEMMA EmptiesStep ==
    ASSUME TypeOK, NEW p \in Proc, Alone(p), req[p].src \in Element,
           medium' = [medium EXCEPT ![req[p].src] = NoTape],
           pc[p] \in {"remove", "clear", "unload"}, pc'[p] = "idle"
    PROVE  NoCopy /\ NoLoss
<1> DEFINE s == req[p].src
<1>1. ASSUME NEW t \in Tape
      PROVE  /\ Where(t)' \subseteq Where(t)
             /\ Where(t) \ Where(t)' \subseteq {s}
  <2>1. ASSUME NEW e, e # s
        PROVE  e \in Where(t)' <=> e \in Where(t)
    <3>1. e \in Element => medium'[e] = medium[e]
      BY <2>1 DEF TypeOK, DeviceType
    <3> QED BY <3>1, PlacesWritten
  <2>2. s \in Where(t)' => s \in Where(t)
    <3>1. medium'[s] = NoTape
      BY DEF TypeOK, DeviceType
    <3>2. SUFFICES ASSUME s \in Where(t)' PROVE s \in Where(t)
      OBVIOUS
    <3>3. PICK q \in Proc : Carries(q, t)' /\ req'[q].src = s
      BY <3>1, <3>2, WhereNext, ElementAssumption
    <3>4. q # p
      BY <3>3 DEF Carries
    <3> QED
      BY <3>3, <3>4, OthersCarry, WhereIs
  <2> QED
    BY <2>1, <2>2
<1>2. \A t \in Tape : Where(t)' \subseteq Where(t) /\ Where(t) \ Where(t)' \subseteq {s}
  BY <1>1
<1>3. Leaves(p, "remove") \/ Leaves(p, "clear") \/ Leaves(p, "unload")
  BY DEF Leaves
<1>4. NoCopy
  BY <1>2 DEF NoCopy
<1>5. NoLoss
  BY <1>2, <1>3 DEF NoLoss
<1> QED BY <1>4, <1>5

-----------------------------------------------------------------------------
(* The steps of a call                                                     *)

LEMMA MoveSourceMedia ==
    ASSUME MediaInv, NEW p \in Proc, MoveSource(p)
    PROVE  NoCopy /\ NoLoss /\ InHand'
<1> DEFINE s == req[p].src
<1> USE DEF MediaInv, IInv
<1>1. Alone(p)
  BY DEF Alone, MoveSource, Return, Leave, Goto, TypeOK, CallerType
<1>2. pc[p] = "move" /\ chLock = NoProc
  BY DEF MoveSource
<1>3. CASE UNCHANGED medium /\ pc' = [pc EXCEPT ![p] = "idle"]
  <2>1. pc'[p] = "idle"
    BY <1>3 DEF TypeOK, CallerType
  <2> QED BY <1>1, <1>2, <1>3, <2>1, QuietStep, InHandStep
<1>4. CASE /\ Valid(s) /\ medium[s] # NoTape
           /\ hold' = [hold EXCEPT ![p] = medium[s]]
           /\ \/ NamesDrive(s) /\ Goto(p, "take") /\ UNCHANGED medium
              \/ /\ ~NamesDrive(s) /\ Goto(p, "dest")
                 /\ medium' = [medium EXCEPT ![s] = NoTape]
           /\ UNCHANGED <<req, ret>>
  <2>1. s \in Element /\ medium[s] \in Tape
    BY <1>4, CallerFacts DEF Content
  <2>2. /\ hold'[p] = medium[s] /\ pc'[p] \in {"take", "dest"} /\ req' = req
        /\ pc'[p] = "take" => medium' = medium
        /\ medium'[s] \in {medium[s], NoTape}
        /\ \A e \in Element \ {s} : medium'[e] = medium[e]
    BY <1>4, <2>1 DEF Goto, TypeOK, CallerType, DeviceType
  <2>3. ASSUME NEW t \in Tape
        PROVE  Where(t)' = Where(t)
    <3> SUFFICES ASSUME NEW e
                 PROVE  e \in Where(t)' <=> e \in Where(t)
      OBVIOUS
    <3>1. Carries(p, t)' <=> medium[s] = t
      BY <2>2 DEF Carries
    <3>2. ~Carries(p, t)
      BY <1>2 DEF Carries
    <3>3. \A q \in Proc \ {p} : Carries(q, t)' <=> Carries(q, t)
      BY <1>1, OthersCarry
    <3>8. e \in Where(t) <=> \/ e \in Element /\ medium[e] = t
                             \/ \E q \in Proc : Carries(q, t) /\ req[q].src = e
      BY WhereIs
    <3>9. e \in Where(t)' <=> \/ e \in Element /\ medium'[e] = t
                              \/ \E q \in Proc : Carries(q, t)' /\ req'[q].src = e
      BY WhereNext
    <3>4. \A q \in Proc \ {p} : req'[q].src = e <=> req[q].src = e
      BY <2>2
    <3>5. req'[p].src = s
      BY <2>2
    <3>6. medium'[s] = t => medium[s] = t
      BY <2>1, <2>2, ElementAssumption
    <3>7. CASE e = s
      BY <2>1, <3>1, <3>5, <3>7, <3>8, <3>9, <3>6, <3>2, <3>3, <3>4
    <3>10. CASE e # s
      BY <2>1, <2>2, <3>1, <3>2, <3>3, <3>4, <3>5, <3>8, <3>9, <3>10
    <3> QED BY <3>7, <3>10
  <2>4. InHand'
    <3>1. pc'[p] \in {"take", "clear"} =>
             hold'[p] \in Tape /\ medium'[req'[p].src] \in {hold'[p], NoTape}
      BY <2>1, <2>2
    <3> QED BY <1>1, <1>2, <3>1, InHandStep
  <2> QED BY <2>3, <2>4 DEF NoCopy, NoLoss
<1> QED
  BY <1>3, <1>4 DEF MoveSource, Return, Leave, Goto

\* The pointer read again is the one that was tested, or NULL.
LEMMA MoveTakeMedia ==
    ASSUME MediaInv, NEW p \in Proc, MoveTake(p)
    PROVE  NoCopy /\ NoLoss /\ InHand'
<1> DEFINE s == req[p].src
<1> USE DEF MediaInv, IInv
<1>1. Alone(p)
  BY DEF Alone, MoveTake, Oops, Goto, TypeOK, CallerType
<1>2. /\ pc[p] = "take" /\ chLock = p /\ s \in Element
      /\ hold[p] \in Tape /\ medium[s] \in {hold[p], NoTape}
  BY CallerFacts DEF MoveTake, InHand, LockInv, RobotLocked
<1>3. ASSUME NEW t, NEW q \in Proc, Carries(q, t)
      PROVE  q = p /\ t = hold[p]
  BY <1>2, <1>3, OneCarries DEF Carries
<1>4. CASE Oops(p)
  <2>1. pc'[p] = "oops" /\ UNCHANGED <<medium, req, hold>>
    BY <1>4 DEF Oops, Goto, TypeOK, CallerType
  <2>2. ASSUME NEW t, NEW e
        PROVE  /\ e \in Where(t)' => e \in Where(t)
               /\ e \in Where(t) /\ e \notin Where(t)' => e = s
    <3>1. \A q \in Proc : Carries(q, t)' => Carries(q, t)
      BY <1>1, <2>1, OthersCarry DEF Carries
    <3> QED
      BY <1>3, <2>1, <3>1, WhereIs, WhereNext
  <2>3. \A t \in Tape : Where(t)' \subseteq Where(t) /\ Where(t) \ Where(t)' \subseteq {s}
    BY <2>2
  <2>4. InHand'
    BY <1>1, <1>2, <2>1, InHandStep
  <2> QED BY <2>1, <2>3, <2>4 DEF NoCopy, NoLoss
<1>5. CASE /\ hold' = [hold EXCEPT ![p] = hold[p]]
           /\ medium' = [medium EXCEPT ![s] = NoTape]
           /\ Goto(p, "dest") /\ UNCHANGED req
  <2>1. /\ hold'[p] = hold[p] /\ pc'[p] = "dest" /\ req' = req
        /\ medium'[s] = NoTape
        /\ \A e \in Element \ {s} : medium'[e] = medium[e]
    BY <1>2, <1>5 DEF Goto, TypeOK, CallerType, DeviceType
  <2>2. ASSUME NEW t \in Tape, NEW e
        PROVE  e \in Where(t)' <=> e \in Where(t)
    <3>1. \A q \in Proc : Carries(q, t)' <=> Carries(q, t)
      BY <1>1, <1>2, <2>1, OthersCarry DEF Carries
    <3>2. medium[s] = t => Carries(p, t)
      BY <1>2, ElementAssumption DEF Carries
    <3>8. e \in Where(t) <=> \/ e \in Element /\ medium[e] = t
                             \/ \E q \in Proc : Carries(q, t) /\ req[q].src = e
      BY WhereIs
    <3>9. e \in Where(t)' <=> \/ e \in Element /\ medium'[e] = t
                              \/ \E q \in Proc : Carries(q, t)' /\ req'[q].src = e
      BY WhereNext
    <3>3. CASE e = s
      BY <1>2, <2>1, <3>1, <3>2, <3>3, <3>8, <3>9, ElementAssumption
    <3>4. CASE e # s
      BY <2>1, <3>1, <3>4, <3>8, <3>9
    <3> QED BY <3>3, <3>4
  <2>3. \A t \in Tape : Where(t)' = Where(t)
    BY <2>2
  <2>4. InHand'
    BY <1>1, <1>2, <2>1, InHandStep
  <2> QED BY <2>3, <2>4 DEF NoCopy, NoLoss
<1> QED
  BY <1>2, <1>4, <1>5 DEF MoveTake, Reread

LEMMA MoveDestMedia ==
    ASSUME MediaInv, NEW p \in Proc, MoveDest(p)
    PROVE  NoCopy /\ NoLoss /\ InHand'
<1> DEFINE s == req[p].src
           d == req[p].dst
<1> USE DEF MediaInv, IInv
<1>1. Alone(p)
  BY DEF Alone, MoveDest, Return, Leave, Goto, TypeOK, CallerType
<1>2. /\ pc[p] = "dest" /\ chLock = p /\ s \in Element
      /\ hold[p] \in Tape /\ medium[s] = NoTape /\ pc'[p] = "idle"
  BY CallerFacts DEF MoveDest, Return, Leave, Goto, LockInv, RobotLocked, TransitSafe, TypeOK, CallerType
<1>3. Leaves(p, "dest")
  BY <1>2 DEF Leaves
<1>4. ASSUME NEW t, NEW q \in Proc, Carries(q, t)
      PROVE  q = p /\ t = hold[p]
  BY <1>2, <1>4, OneCarries DEF Carries
<1>5. ASSUME NEW t, NEW q \in Proc
      PROVE  ~Carries(q, t)'
  BY <1>1, <1>2, <1>4, OthersCarry DEF Carries
<1>6. InHand'
  BY <1>1, <1>2, InHandStep
<1>7. Carries(p, hold[p])
  BY <1>2 DEF Carries
<1>8. CASE medium' = [medium EXCEPT ![s] = hold[p]]
  <2>1. medium'[s] = hold[p] /\ \A e \in Element \ {s} : medium'[e] = medium[e]
    BY <1>2, <1>8 DEF TypeOK, DeviceType
  <2>2. ASSUME NEW t \in Tape, NEW e
        PROVE  e \in Where(t)' <=> e \in Where(t)
    <3>8. e \in Where(t) <=> \/ e \in Element /\ medium[e] = t
                             \/ \E q \in Proc : Carries(q, t) /\ req[q].src = e
      BY WhereIs
    <3>9. e \in Where(t)' <=> \/ e \in Element /\ medium'[e] = t
                              \/ \E q \in Proc : Carries(q, t)' /\ req'[q].src = e
      BY WhereNext
    <3>1. e \in Where(t)' <=> e \in Element /\ medium'[e] = t
      BY <1>5, <3>9
    <3>2. (\E q \in Proc : Carries(q, t) /\ req[q].src = e) <=> t = hold[p] /\ e = s
      BY <1>4, <1>7
    <3> QED
      BY <1>2, <2>1, <3>1, <3>2, <3>8, ElementAssumption
  <2>3. \A t \in Tape : Where(t)' = Where(t)
    BY <2>2
  <2> QED BY <1>6, <2>3 DEF NoCopy, NoLoss
<1>9. CASE Valid(d) /\ medium[d] = NoTape /\ medium' = [medium EXCEPT ![d] = hold[p]]
  <2> PICK h \in Tape : h = hold[p]
    BY <1>2
  <2>1. /\ d \in Element /\ medium'[d] = h
        /\ \A e \in Element \ {d} : medium'[e] = medium[e]
    BY <1>9, CallerFacts DEF TypeOK, DeviceType
  <2>2. ASSUME NEW t \in Tape, NEW e
        PROVE  /\ e \in Where(t)' <=> IF e = d THEN t = h ELSE e \in Element /\ medium[e] = t
               /\ e \in Where(t) <=> (e \in Element /\ medium[e] = t) \/ (t = h /\ e = s)
    <3>8. e \in Where(t) <=> \/ e \in Element /\ medium[e] = t
                             \/ \E q \in Proc : Carries(q, t) /\ req[q].src = e
      BY WhereIs
    <3>9. e \in Where(t)' <=> \/ e \in Element /\ medium'[e] = t
                              \/ \E q \in Proc : Carries(q, t)' /\ req'[q].src = e
      BY WhereNext
    <3>1. e \in Where(t)' <=> e \in Element /\ medium'[e] = t
      BY <1>5, <3>9
    <3>2. (\E q \in Proc : Carries(q, t) /\ req[q].src = e) <=> t = h /\ e = s
      BY <1>4, <1>7
    <3> QED
      BY <2>1, <3>1, <3>2, <3>8
  <2>3. \A t \in Tape \ {h} : Where(t)' \subseteq Where(t) /\ Where(t) \subseteq Where(t)'
    BY <1>9, <2>2, ElementAssumption
  <2>4. \A e : e \in Where(h)' <=> e \in (Where(h) \ {s}) \cup {d}
    BY <1>2, <1>9, <2>2, ElementAssumption
  <2>5. Where(h)' = (Where(h) \ {s}) \cup {d}
    BY <2>4
  <2>6. NoCopy
    BY <1>3, <2>3, <2>5 DEF NoCopy
  <2>7. NoLoss
    BY <1>3, <2>1, <2>3, <2>5 DEF NoLoss
  <2> QED BY <1>6, <2>6, <2>7
<1> QED
  BY <1>8, <1>9 DEF MoveDest

\* Only here does a medium appear where it was not.
LEMMA PlaceMedia ==
    ASSUME MediaInv, NEW p \in Proc, Place(p)
    PROVE  NoCopy /\ NoLoss /\ InHand'
<1> DEFINE s == req[p].src
<1> USE DEF MediaInv, IInv
<1>1. Alone(p)
  BY DEF Alone, Place, Return, Leave, Goto, TypeOK, CallerType
<1>2. /\ pc[p] = "place" /\ chLock = NoProc /\ pc'[p] \in {"idle", "move"}
      /\ s \in Element /\ req[p].tape \in Tape
  BY DEF Place, Return, Leave, Goto, TypeOK, CallerType, ReqSafe, Element
<1>3. NoCopy
  <2>1. Leaves(p, "place")
    BY <1>2 DEF Leaves
  <2> QED BY <2>1 DEF NoCopy
<1>4. NoLoss
  <2>1. ASSUME NEW t \in Tape, NEW e, e \in Where(t)
        PROVE  e \in Where(t)'
    <3>1. CASE e \in Element /\ medium[e] = t
      <4>1. medium'[e] = t
        BY <1>2, <3>1, ElementAssumption DEF Place, TypeOK, DeviceType
      <4> QED BY <3>1, <4>1, WhereNext
    <3>2. CASE \E q \in Proc : Carries(q, t) /\ req[q].src = e
      <4> PICK q \in Proc : Carries(q, t) /\ req[q].src = e
        BY <3>2
      <4>1. q # p
        BY <1>2 DEF Carries
      <4>2. Carries(q, t)' /\ req'[q].src = e
        BY <1>1, <4>1, OthersCarry
      <4> QED BY <4>2, WhereNext
    <3> QED BY <2>1, <3>1, <3>2, WhereIs
  <2> QED BY <2>1 DEF NoLoss
<1> QED BY <1>1, <1>2, <1>3, <1>4, InHandStep

LEMMA RemoveSourceMedia ==
    ASSUME MediaInv, NEW p \in Proc, RemoveSource(p)
    PROVE  NoCopy /\ NoLoss /\ InHand'
<1> DEFINE s == req[p].src
<1> USE DEF MediaInv, IInv
<1>1. Alone(p)
  BY DEF Alone, RemoveSource, Return, Leave, Goto, TypeOK, CallerType
<1>2. pc[p] = "remove" /\ chLock = NoProc /\ pc'[p] \in {"idle", "clear"}
  BY DEF RemoveSource, Return, Leave, Goto, TypeOK, CallerType
<1>3. CASE UNCHANGED medium
  <2>1. NoCopy /\ NoLoss
    BY <1>1, <1>2, <1>3, QuietStep
  <2>2. pc'[p] = "clear" =>
           hold'[p] = medium[s] /\ medium[s] \in Tape /\ req' = req
    BY CallerFacts, <1>3 DEF RemoveSource, Return, Leave, Goto, TypeOK, CallerType, Content
  <2> QED BY <1>1, <1>2, <1>3, <2>1, <2>2, InHandStep
<1>4. CASE medium' = [medium EXCEPT ![s] = NoTape] /\ Valid(s) /\ pc'[p] = "idle"
  BY <1>1, <1>2, <1>4, CallerFacts, EmptiesStep, InHandStep
<1> QED
  BY <1>3, <1>4 DEF RemoveSource, Return, Leave, Goto, TypeOK, CallerType

LEMMA RemoveClearMedia ==
    ASSUME MediaInv, NEW p \in Proc, RemoveClear(p)
    PROVE  NoCopy /\ NoLoss /\ InHand'
<1> USE DEF MediaInv, IInv
<1>1. Alone(p)
  BY DEF Alone, RemoveClear, Oops, Return, Leave, Goto, TypeOK, CallerType
<1>2. pc[p] = "clear" /\ chLock = p /\ req[p].src \in Element
  BY CallerFacts DEF RemoveClear, LockInv, RobotLocked
<1>3. CASE Oops(p)
  BY <1>1, <1>2, <1>3, QuietStep, InHandStep DEF Oops, Goto, TypeOK, CallerType
<1>4. CASE medium' = [medium EXCEPT ![req[p].src] = NoTape] /\ pc'[p] = "idle"
  BY <1>1, <1>2, <1>4, EmptiesStep, InHandStep
<1> QED
  BY <1>3, <1>4 DEF RemoveClear, Return, Leave, Goto, TypeOK, CallerType

LEMMA EjectClearMedia ==
    ASSUME MediaInv, NEW p \in Proc, EjectClear(p)
    PROVE  NoCopy /\ NoLoss /\ InHand'
<1> USE DEF MediaInv, IInv
<1>1. Alone(p)
  BY DEF Alone, EjectClear, Return, Leave, Goto, TypeOK, CallerType
<1>2. /\ pc[p] = "unload" /\ pc'[p] = "idle" /\ req[p].src \in Element
      /\ medium' = [medium EXCEPT ![req[p].src] = NoTape]
  BY CallerFacts DEF EjectClear, Return, Leave, Goto, TypeOK, CallerType
<1>3. \A e \in Element : medium'[e] \in {medium[e], NoTape}
  BY <1>2 DEF TypeOK, DeviceType
<1> QED BY <1>1, <1>2, <1>3, EmptiesStep, InHandStep

\* A step that leaves the media and everybody's hands as they are.
LEMMA HandsOff ==
    ASSUME MediaInv, NEW p \in Proc, Alone(p), UNCHANGED medium,
           pc[p] \notin {"take", "dest", "clear"}, pc'[p] \notin {"take", "dest", "clear"}
    PROVE  NoCopy /\ NoLoss /\ InHand'
BY QuietStep, InHandStep

LEMMA CallsMedia ==
    ASSUME MediaInv, NEW p \in Proc, Calls(p) \/ \E d \in Drive : CallEject(p, d)
    PROVE  NoCopy /\ NoLoss /\ InHand'
<1> USE DEF MediaInv, IInv, TypeOK, CallerType
<1>1. ASSUME NEW l \in {"move", "load", "open", "remove", "eject", "transfer"}, NEW r, Call(p, l, r)
      PROVE  NoCopy /\ NoLoss /\ InHand'
  <2>1. /\ Alone(p) /\ UNCHANGED medium /\ pc[p] = "idle" /\ pc'[p] = l
    BY <1>1 DEF Alone, Call, Goto
  <2> QED BY <2>1, HandsOff
<1>2. ASSUME NEW code, Refused(p, code)
      PROVE  NoCopy /\ NoLoss /\ InHand'
  <2>1. /\ Alone(p) /\ UNCHANGED medium /\ pc[p] = "idle" /\ pc'[p] = "idle"
    BY <1>2 DEF Alone, Refused
  <2> QED BY <2>1, HandsOff
<1> QED
  BY <1>1, <1>2
     DEF Calls, CallMove, CallRemove, CallUnload, CallLoad, CallSlotPlace, CallTransfer,
         CallEject

LEMMA OtherMedia ==
    ASSUME MediaInv, NEW p \in Proc,
           \/ LoadCheck(p) \/ Barcode(p) \/ Open(p) \/ Label(p)
           \/ TransferPick(p) \/ TransferLock(p) \/ TransferEnd(p)
           \/ EjectRead(p) \/ ResizeStep(p)
           \/ \E s, d \in Int : CallResize(p, s, d)
    PROVE  NoCopy /\ NoLoss /\ InHand'
<1> USE DEF MediaInv, IInv, TypeOK, CallerType
<1>1. CASE \/ LoadCheck(p) \/ Barcode(p) \/ Open(p) \/ Label(p)
           \/ TransferPick(p) \/ TransferLock(p) \/ TransferEnd(p) \/ EjectRead(p)
  <2>1. /\ Alone(p) /\ UNCHANGED medium
        /\ pc[p] \notin {"take", "dest", "clear"} /\ pc'[p] \notin {"take", "dest", "clear"}
    BY <1>1 DEF Alone, LoadCheck, Barcode, Open, Label, Accept, TransferPick, TransferLock,
              TransferEnd, EjectRead, Return, Leave, Goto
  <2> QED BY <2>1, HandsOff
<1>2. CASE ResizeStep(p)
  <2>1. /\ Alone(p) /\ UNCHANGED medium
        /\ pc[p] \notin {"take", "dest", "clear"} /\ pc'[p] \notin {"take", "dest", "clear"}
    BY <1>2 DEF Alone, ResizeStep, CheckDrive, CheckSlots, Apply, ResizeReturn, Return, Leave, Goto
  <2> QED BY <2>1, HandsOff
<1>3. ASSUME NEW s \in Int, NEW d \in Int, CallResize(p, s, d)
      PROVE  NoCopy /\ NoLoss /\ InHand'
  <2>1. /\ Alone(p) /\ UNCHANGED medium
        /\ pc[p] \notin {"take", "dest", "clear"} /\ pc'[p] \notin {"take", "dest", "clear"}
    BY <1>3 DEF Alone, CallResize, Goto
  <2> QED BY <2>1, HandsOff
<1> QED BY <1>1, <1>2, <1>3

LEMMA StepMedia ==
    ASSUME MediaInv, Next
    PROVE  NoCopy /\ NoLoss /\ InHand'
<1>1. CASE RobotNext
  BY <1>1, CallsMedia, MoveTakeMedia, MoveDestMedia, RemoveClearMedia, OtherMedia,
     MoveSourceMedia, PlaceMedia, RemoveSourceMedia
     DEF RobotNext, LockedStep, AcquireStep
<1>2. CASE ResizeNext
  <2>1. \A n \in Int : \A i \in 0 .. n : i \in Int
    OBVIOUS
  <2>2. MaxSlots + 1 \in Int /\ MaxDrives + 1 \in Int
    BY ElementAssumption
  <2> QED BY <1>2, <2>1, <2>2, OtherMedia DEF ResizeNext
<1>3. CASE EjectNext
  BY <1>3, CallsMedia, OtherMedia, EjectClearMedia DEF EjectNext, EjectStep
<1> QED BY <1>1, <1>2, <1>3 DEF Next, NextNoEject

LEMMA MediaInvHolds == Spec => []MediaInv
<1>1. Init => MediaInv
  BY InitInv DEF MediaInv, InHand, Init
<1>2. MediaInv /\ [Next]_vars => MediaInv'
  <2>1. CASE UNCHANGED vars
    BY <2>1, StutterInv DEF MediaInv, InHand, vars
  <2> QED BY <2>1, NextInv, StepMedia DEF MediaInv
<1> QED BY <1>1, <1>2, PTL DEF Spec

\* However moves, loads, removals, resizes and the drives' own unloads of any
\* number of callers interleave, a medium is in two elements only if somebody
\* placed it there a second time (vtl_changer_slot_place).
THEOREM NoMediumCopied == Spec => MovesNeverDuplicate
<1>1. MediaInv /\ [Next]_vars => [NoCopy]_vars
  BY StepMedia
<1> QED
  BY <1>1, MediaInvHolds, PTL DEF Spec, MovesNeverDuplicate

\* No interleaving loses a medium: it leaves an element only in a move that
\* delivers it, a removal asked for that element, or the drive's own unload.
THEOREM NoMediumLost == Spec => MediaLeaveOnRequest
<1>1. MediaInv /\ [Next]_vars => [NoLoss]_vars
  BY StepMedia
<1> QED
  BY <1>1, MediaInvHolds, PTL DEF Spec, MediaLeaveOnRequest
=============================================================================
