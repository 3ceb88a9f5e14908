--------------------------- MODULE CatalogProofs ----------------------------
(***************************************************************************)
(* For any number of processes, tapes and drives, and of slots up to the   *)
(* address of the first drive: the catalogue names a tape in at most one   *)
(* row until import_tape gives it a second one, an undisturbed pass leaves *)
(* no stray in the changer and takes nothing else out of it, and commands  *)
(* given one after the other keep the two in step, but for those that do   *)
(* not tell the robot.                                                     *)
(***************************************************************************)
EXTENDS CatalogProperties, SequenceTheorems, WellFoundedInduction, TLAPS

rows == <<tapes, shelf, slots, drives, doubled>>

RowTypes ==
    /\ tapes \subseteq Tape
    /\ shelf \in [Tape -> BOOLEAN]
    /\ slots \in [SlotId -> Content]
    /\ drives \in [DriveId -> Content]

OneSlot == \A n, m \in SlotId : slots[n] # NoTape /\ slots[n] = slots[m] => n = m
OneDrive == \A d, e \in DriveId : drives[d] # NoTape /\ drives[d] = drives[e] => d = e
SlotOrDrive == \A n \in SlotId, d \in DriveId : slots[n] # NoTape => slots[n] # drives[d]
SlotsKnown == \A n \in SlotId : slots[n] # NoTape => slots[n] \in tapes /\ ~shelf[slots[n]]
DrivesKnown == \A d \in DriveId : drives[d] \in tapes \cup {NoTape}

\* The rows of two tables never name the same tape, and no table names it
\* twice: what DbInventoryOK says location by location.
OneRow == OneSlot /\ OneDrive /\ SlotOrDrive

RowInv == RowTypes /\ SlotsKnown /\ DrivesKnown /\ (~doubled => OneRow)

\* The inventory of the catalogue is unambiguous when the rows are: data
\* slots and mail slots have different numbers.
LEMMA RowsUnique == RowInv => RowsAgree
<1> SUFFICES ASSUME RowInv PROVE RowsAgree
    OBVIOUS
<1>1. ASSUME OneRow, NEW t \in Tape, NEW a \in Rows(t), NEW b \in Rows(t)
      PROVE  a = b
  <2> USE <1>1 DEF OneRow
  <2>1. t # NoTape
    BY ElementAssumption
  <2>2. \/ \E n \in Slot : slots[n] = t /\ a = DataSlot(n)
        \/ \E d \in DriveId : drives[d] = t /\ a = InDrive(d)
        \/ \E n \in MailId : slots[n] = t /\ a = MailSlot(n)
    BY DEF Rows
  <2>3. \/ \E n \in Slot : slots[n] = t /\ b = DataSlot(n)
        \/ \E d \in DriveId : drives[d] = t /\ b = InDrive(d)
        \/ \E n \in MailId : slots[n] = t /\ b = MailSlot(n)
    BY DEF Rows
  <2>4. \A n \in Slot, m \in MailId : n # m
    BY DEF MailId
  <2>5. Slot \subseteq SlotId /\ MailId \subseteq SlotId
    BY DEF SlotId
  <2>6. CASE \E n \in Slot : slots[n] = t /\ a = DataSlot(n)
    BY <2>1, <2>3, <2>4, <2>5, <2>6 DEF OneSlot, SlotOrDrive
  <2>7. CASE \E d \in DriveId : drives[d] = t /\ a = InDrive(d)
    BY <2>1, <2>3, <2>5, <2>7 DEF OneDrive, SlotOrDrive
  <2>8. CASE \E n \in MailId : slots[n] = t /\ a = MailSlot(n)
    BY <2>1, <2>3, <2>4, <2>5, <2>8 DEF OneSlot, SlotOrDrive
  <2> QED
    BY <2>2, <2>6, <2>7, <2>8
<1>2. ~doubled => DbInventoryOK
  BY <1>1 DEF DbInventoryOK, RowInv
<1> QED
  BY <1>2 DEF RowsAgree, RowInv, SlotsKnown, DrivesKnown

LEMMA RowsStart == Init => RowInv
BY DEF Init, RowInv, RowTypes, OneRow, OneSlot, OneDrive, SlotOrDrive, SlotsKnown, DrivesKnown,
   Content

LEMMA CreateRows == ASSUME NEW t \in Tape, RowInv, create_tape(t) PROVE RowInv'
BY ElementAssumption DEF RowInv, RowTypes, OneRow, OneSlot, OneDrive, SlotOrDrive, SlotsKnown,
   DrivesKnown, create_tape

LEMMA DeleteRows == ASSUME NEW t \in Tape, RowInv, delete_tape_in_library(t) PROVE RowInv'
BY ElementAssumption DEF RowInv, RowTypes, OneRow, OneSlot, OneDrive, SlotOrDrive, SlotsKnown,
   DrivesKnown, delete_tape_in_library, Content

\* A tape on the shelf has no slot row, and one that is in no drive gets one.
LEMMA AssignRows ==
    ASSUME NEW p \in Proc, NEW t \in Tape, NEW n \in SlotNumber, RowInv,
           assign_tape_to_slot(p, t, n)
    PROVE  RowInv'
BY ElementAssumption DEF RowInv, RowTypes, OneRow, OneSlot, OneDrive, SlotOrDrive, SlotsKnown,
   DrivesKnown, assign_tape_to_slot, Begin, tape_in_drive, Content

\* An import of a tape without a row keeps the rows apart, and puts no tape of
\* the shelf or unknown into a slot whatever it finds there.
LEMMA ImportRows ==
    ASSUME NEW t \in Tape, NEW n \in ImportNumber, RowInv, import_tape(t, n)
    PROVE  RowInv'
<1>1. (\E m \in SlotId : slots[m] = t) \/ (\E d \in DriveId : drives[d] = t) => Rows(t) # {}
  BY DEF Rows, SlotId
<1> QED
  BY <1>1, ElementAssumption DEF RowInv, RowTypes, OneRow, OneSlot, OneDrive, SlotOrDrive,
     SlotsKnown, DrivesKnown, import_tape, Content

\* A tape that was not in the library has no row there.
LEMMA OfflineRows ==
    ASSUME NEW p \in Proc, NEW t \in Tape, NEW n \in ImportNumber, RowInv,
           import_offline_tape_to_online_slot(p, t, n)
    PROVE  RowInv'
BY ElementAssumption DEF RowInv, RowTypes, OneRow, OneSlot, OneDrive, SlotOrDrive, SlotsKnown,
   DrivesKnown, import_offline_tape_to_online_slot, Begin, Content

LEMMA LoadRows ==
    ASSUME NEW p \in Proc, NEW n \in SlotId, NEW d \in DriveNumber, RowInv, load_tape(p, n, d)
    PROVE  RowInv'
BY ElementAssumption DEF RowInv, RowTypes, OneRow, OneSlot, OneDrive, SlotOrDrive, SlotsKnown,
   DrivesKnown, load_tape, Begin, Content

\* Whichever slot the tape goes to, its drive row goes away with it.
LEMMA UnloadRows ==
    ASSUME NEW p \in Proc, NEW d \in DriveId, RowInv, unload_tape(p, d)
    PROVE  RowInv'
BY ElementAssumption DEF RowInv, RowTypes, OneRow, OneSlot, OneDrive, SlotOrDrive, SlotsKnown,
   DrivesKnown, unload_tape, Begin, Content

LEMMA EjectRows ==
    ASSUME NEW p \in Proc, NEW n \in SlotId, RowInv, eject_tape(p, n)
    PROVE  RowInv'
BY ElementAssumption DEF RowInv, RowTypes, OneRow, OneSlot, OneDrive, SlotOrDrive, SlotsKnown,
   DrivesKnown, eject_tape, Begin, Content

LEMMA ShelveRows == ASSUME NEW p \in Proc, RowInv, Shelve(p) PROVE RowInv'
BY ElementAssumption DEF RowInv, RowTypes, OneRow, OneSlot, OneDrive, SlotOrDrive, SlotsKnown,
   DrivesKnown, Shelve, history, Content

\* A snapshot puts a tape in one location, which is a row of one table.
LEMMA PullRows == ASSUME NEW p \in Proc, RowInv, apply_kernel_to_db(p) PROVE RowInv'
<1> DEFINE loc(t) == FromElement(seen[p][t])
<1>1. ASSUME NEW locs, NEW u \in Arrivals(p, locs)
      PROVE  u = NoTape \/ (u \in tapes /\ seen[p][u] # NoSlot /\ loc(u) \in locs)
  BY DEF Arrivals
<1>2. ASSUME NEW n \in SlotId
      PROVE  \/ slots'[n] = NoTape
             \/ /\ slots'[n] \in tapes /\ seen[p][slots'[n]] # NoSlot
                /\ loc(slots'[n]) \in {DataSlot(n), MailSlot(n)}
  BY <1>1 DEF apply_kernel_to_db
<1>3. ASSUME NEW d \in DriveId
      PROVE  \/ drives'[d] = NoTape
             \/ drives'[d] \in tapes /\ loc(drives'[d]) = InDrive(d)
  <2>1. drives'[d] \in Arrivals(p, {InDrive(d)})
    BY DEF apply_kernel_to_db
  <2> QED
    BY <1>1, <2>1
<1>4. RowTypes'
  <2>1. slots' \in [SlotId -> Content] /\ drives' \in [DriveId -> Content]
    BY DEF apply_kernel_to_db
  <2>2. tapes' \subseteq Tape /\ shelf' \in [Tape -> BOOLEAN]
    BY DEF apply_kernel_to_db, RowInv, RowTypes
  <2> QED
    BY <2>1, <2>2 DEF RowTypes
<1>5. OneSlot'
  <2> SUFFICES ASSUME NEW n \in SlotId, NEW m \in SlotId,
                      slots'[n] # NoTape, slots'[n] = slots'[m]
               PROVE  n = m
    BY DEF OneSlot
  <2> QED
    BY <1>2 DEF DataSlot, MailSlot
<1>6. OneDrive'
  BY <1>3 DEF OneDrive, InDrive
<1>7. SlotOrDrive'
  BY <1>2, <1>3 DEF SlotOrDrive, DataSlot, MailSlot, InDrive
<1>8. SlotsKnown'
  <2> SUFFICES ASSUME NEW n \in SlotId, slots'[n] # NoTape
               PROVE  slots'[n] \in tapes' /\ ~shelf'[slots'[n]]
    BY DEF SlotsKnown
  <2> QED
    BY <1>2 DEF apply_kernel_to_db, RowInv, RowTypes
<1>9. DrivesKnown'
  BY <1>3 DEF DrivesKnown, apply_kernel_to_db
<1> QED
  BY <1>4, <1>5, <1>6, <1>7, <1>8, <1>9 DEF RowInv, OneRow

LEMMA MirrorRows ==
    ASSUME NEW p \in Proc, RowInv, mirror_kernel_catalog_hints_only(p) PROVE RowInv'
BY DEF RowInv, RowTypes, OneRow, OneSlot, OneDrive, SlotOrDrive, SlotsKnown, DrivesKnown,
   mirror_kernel_catalog_hints_only, history

LEMMA RowsKept == RowInv /\ UNCHANGED rows => RowInv'
BY DEF RowInv, RowTypes, OneRow, OneSlot, OneDrive, SlotOrDrive, SlotsKnown, DrivesKnown, rows

LEMMA RowsStep == RowInv /\ [Next]_vars => RowInv'
<1> SUFFICES ASSUME RowInv, [Next]_vars PROVE RowInv'
    OBVIOUS
<1>1. CASE UNCHANGED vars
  BY <1>1, RowsKept DEF vars, tables, history, rows
<1>2. CASE Backup
  BY <1>2, RowsKept DEF Backup, tables, rows
<1>3. CASE \/ \E t \in Tape : create_tape(t) \/ delete_tape_in_library(t)
           \/ \E t \in Tape, n \in ImportNumber : import_tape(t, n)
  BY <1>3, CreateRows, DeleteRows, ImportRows
<1>4. ASSUME NEW p \in Proc,
             \/ \E t \in Tape, n \in SlotNumber : assign_tape_to_slot(p, t, n)
             \/ \E t \in Tape, n \in ImportNumber : import_offline_tape_to_online_slot(p, t, n)
             \/ \E n \in SlotId, d \in DriveNumber : load_tape(p, n, d)
             \/ \E d \in DriveId : unload_tape(p, d)
             \/ \E n \in SlotId : eject_tape(p, n)
             \/ Shelve(p) \/ apply_kernel_to_db(p) \/ mirror_kernel_catalog_hints_only(p)
      PROVE  RowInv'
  BY <1>4, AssignRows, OfflineRows, LoadRows, UnloadRows, EjectRows, ShelveRows, PullRows,
     MirrorRows
<1>5. ASSUME NEW p \in Proc,
             \/ \E t \in Tape : shelf_place_tape(p, t)
             \/ kernel_slot_place(p) \/ LoadCheck(p) \/ LoadPlace(p) \/ LoadMove(p)
             \/ kernel_unload(p) \/ kernel_move_medium(p) \/ RowGone(p)
             \/ ReadShelved(p) \/ ListShelved(p) \/ ReadKernel(p) \/ Compare(p)
             \/ Look(p) \/ evacuate_element(p) \/ ReadInventory(p)
             \/ reconcile_library(p) \/ Reconcile(p)
             \/ auto_align_library(p) \/ FindDrifts(p) \/ FreshInventory(p)
             \/ IoctlFails(p) \/ Crash(p)
      PROVE  RowInv'
  <2>1. UNCHANGED <<tables, doubled>>
    BY <1>5 DEF history, Begin, shelf_place_tape, kernel_slot_place, LoadCheck, LoadPlace,
       LoadMove,
       kernel_unload, kernel_move_medium, RowGone, ReadShelved, ListShelved, ReadKernel,
       Compare, Look, evacuate_element, ReadInventory, reconcile_library, Reconcile,
       auto_align_library, FindDrifts, FreshInventory, IoctlFails, Crash
  <2> QED
    BY <2>1, RowsKept DEF tables, rows
<1> QED
  BY <1>1, <1>2, <1>3, <1>4, <1>5 DEF Next

\* Whatever processes interleave, fail, crash, or pull from a robot that others
\* move, db_inventory finds no tape in two rows, except after import_tape of a
\* tape that has a row and before the next pull, and no row ever has a shelved
\* tape or one that was deleted.  The library is one that create_named_library
\* made, with any number of slots below the address of the first drive.
THEOREM CatalogUnambiguous == Spec => []RowsAgree
<1>1. Init => RowInv
  BY RowsStart
<1>2. RowInv /\ [Next]_vars => RowInv'
  BY RowsStep
<1>3. RowInv => RowsAgree
  BY RowsUnique
<1> QED
  BY <1>1, <1>2, <1>3, PTL DEF Spec
-----------------------------------------------------------------------------
(* Types                                                                   *)

\* A process in a pass of an evacuation has a plan, whose first entry is that pass.
Passing == {"pass", "list", "compare", "look", "remove"}

LEMMA AddressesOfElements ==
    ASSUME numSlots = MaxSlots, numDrives = MaxDrives
    PROVE  /\ \A a \in Int : Robot!Valid(a) <=> a \in Element
           /\ Element \subseteq Int
BY ElementAssumption DEF Robot!Valid, Robot!InGeometry, Robot!NamesSlot, Robot!NamesDrive,
   Element, Slot, Drive, Mailslot

\* What the ioctls do to the changer.
Changer == /\ store \in [Element -> Content] /\ ret \in Code
           /\ numSlots = MaxSlots /\ numDrives = MaxDrives

LEMMA PlaceTyped ==
    ASSUME Changer, NEW s, NEW t \in Content, Robot!Place(s, t)
    PROVE  Changer' /\ ret' \in {"ok", "EBUSY"}
BY DEF Changer, Robot!Place, Code

LEMMA MoveTyped ==
    ASSUME Changer, NEW a \in Int, NEW b \in Int, Robot!Move(a, b)
    PROVE  Changer'
<1>1. Robot!MoveResult(a, b) \in {"ok", "EINVAL", "ENODEV", "EBUSY"}
  BY DEF Robot!MoveResult
<1>2. Robot!MoveResult(a, b) = "ok" => a \in Element
  BY AddressesOfElements DEF Robot!MoveResult, Changer
<1>3. a \in Element => store[a] \in Content
  BY DEF Changer
<1> QED
  BY <1>1, <1>2, <1>3 DEF Changer, Robot!Move, Code, Content

LEMMA RemoveTyped ==
    ASSUME Changer, NEW e, Robot!Remove(e)
    PROVE  Changer'
BY DEF Changer, Robot!Remove, Code, Content

LEMMA SnapshotTyped ==
    /\ Snapshot \in [Tape -> Element \cup {NoSlot}]
    /\ \A t \in Tape : Snapshot[t] # NoSlot => store[Snapshot[t]] = t
<1>1. ASSUME NEW t \in Tape, Holding(t) # {}
      PROVE  (CHOOSE e \in Holding(t) : TRUE) \in Holding(t)
  BY <1>1
<1> QED
  BY <1>1, Zenon DEF Snapshot, Holding

Job == [tape : Content, slot : Int, elem : Int, row : BOOLEAN]

\* A process that is about to tell the robot of a tape.
OnTape == {"assign", "load", "place", "move", "unload", "eject", "shelve", "remove"}

\* Where the processes are and what they have in hand.
WorkInv ==
    /\ pc \in [Proc -> Label] /\ plan \in [Proc -> Seq(PassName)]
    /\ todo \in [Proc -> SUBSET Tape]
    /\ DOMAIN known = Proc /\ \A p \in Proc : DOMAIN known[p] = Tape
    /\ seen \in [Proc -> [Tape -> Element \cup {NoSlot}]]
    /\ job \in [Proc -> Job]
    /\ \A p \in Proc : pc[p] \in Passing => plan[p] # << >>
    /\ \A p \in Proc : pc[p] = "remove" => job[p].elem \in Element
    /\ \A p \in Proc : pc[p] \in OnTape => job[p].tape \in Tape

TableTypes == RowInv /\ slotOf \in [Tape -> Int]

Flags == calm \in BOOLEAN /\ disturbed \in BOOLEAN /\ doubled \in BOOLEAN

\* Who gives a tape a second row does not tell the robot.
Marked == doubled => disturbed

TypeInv == WorkInv /\ TableTypes /\ Changer /\ Flags /\ Marked

LEMMA BeginWork ==
    ASSUME WorkInv, NEW p \in Proc, NEW l \in Label \ Passing, NEW t \in Content,
           NEW n \in Int, NEW e \in Int, NEW b, Begin(p, l, t, n, e, b),
           l \in OnTape => t \in Tape, UNCHANGED <<plan, todo>>,
           UNCHANGED seen \/ seen' = [seen EXCEPT ![p] = Snapshot],
           UNCHANGED known \/ known' = [known EXCEPT ![p] = DbInventory]
    PROVE  WorkInv'
<1>1. pc' = [pc EXCEPT ![p] = l]
      /\ job' = [job EXCEPT ![p] = [tape |-> t, slot |-> n, elem |-> e, row |-> TRUE]]
  BY DEF Begin, Goto
<1>2. [tape |-> t, slot |-> n, elem |-> e, row |-> TRUE] \in Job
  BY DEF Job
<1>3. seen' \in [Proc -> [Tape -> Element \cup {NoSlot}]]
  BY SnapshotTyped DEF WorkInv
<1>4. DOMAIN known' = Proc /\ \A q \in Proc : DOMAIN known'[q] = Tape
  BY DEF WorkInv, DbInventory
<1> QED
  BY <1>1, <1>2, <1>3, <1>4 DEF WorkInv, Passing

LEMMA NoJobTyped == NoJob \in Job
BY CatalogAssumption, Zenon DEF NoJob, Job, Content

LEMMA EndWork == ASSUME WorkInv, NEW p \in Proc, End(p) PROVE WorkInv'
<1>1. NothingSeen \in [Tape -> Element \cup {NoSlot}]
      /\ DOMAIN NothingKnown = Tape /\ << >> \in Seq(PassName)
  BY DEF NothingSeen, NothingKnown
<1> HIDE DEF NoJob, NothingSeen, NothingKnown
<1>2. "idle" \in Label \ Passing
  BY DEF Label, Passing
<1>3. "idle" \notin OnTape
  BY DEF OnTape
<1> QED
  BY <1>1, <1>2, <1>3, NoJobTyped DEF WorkInv, Passing, End, Goto

LEMMA AfterOpPlan == AfterOp \in Seq(PassName) /\ AfterOp # << >>
                     /\ <<"single">> \o AfterOp \in Seq(PassName)
                     /\ <<"single">> \o AfterOp # << >>
<1>1. ASSUME NEW a \in PassName, NEW b \in PassName
      PROVE  <<a>> \in Seq(PassName) /\ <<a, b>> \in Seq(PassName) /\ << >> \in Seq(PassName)
             /\ Len(<<a>>) = 1 /\ Len(<<a, b>>) = 2
  OBVIOUS
<1> DEFINE more == IF AutoPull THEN <<"shelved again", "strays again">> ELSE << >>
<1>2. more \in Seq(PassName) /\ <<"shelved", "strays">> \in Seq(PassName)
      /\ Len(<<"shelved", "strays">>) = 2 /\ <<"single">> \in Seq(PassName)
  BY <1>1 DEF PassName
<1>3. AfterOp \in Seq(PassName) /\ Len(AfterOp) >= 2
  <2> HIDE DEF more
  <2>1. AfterOp = <<"shelved", "strays">> \o more
    BY DEF AfterOp, more
  <2> QED
    BY <1>2, <2>1, ConcatProperties, LenProperties
<1>4. <<"single">> \o AfterOp \in Seq(PassName)
      /\ Len(<<"single">> \o AfterOp) = Len(<<"single">>) + Len(AfterOp)
  <2> DEFINE first == <<"single">>
  <2>1. first \in Seq(PassName)
    BY <1>2
  <2> HIDE DEF AfterOp, first
  <2>2. first \o AfterOp \in Seq(PassName) /\ Len(first \o AfterOp) = Len(first) + Len(AfterOp)
    BY <2>1, <1>3, ConcatProperties
  <2> QED
    BY <2>2 DEF first
<1>5. Len(<<"single">>) = 1 /\ Len(AfterOp) \in Nat
  BY <1>3, LenProperties
<1>6. Len(<< >>) = 0
  BY EmptySeq
<1> HIDE DEF AfterOp
<1> QED
  BY <1>3, <1>4, <1>5, <1>6

LEMMA AlignWork == ASSUME WorkInv, NEW p \in Proc, Align(p) PROVE WorkInv'
<1>1. NoJob \in Job
  BY NoJobTyped
<1>2. "pass" \in Label /\ "pass" # "remove" /\ "pass" \notin OnTape
  BY DEF Label, OnTape
<1> HIDE DEF NoJob, AfterOp
<1> QED
  BY <1>1, <1>2, AfterOpPlan DEF WorkInv, Align, Goto

LEMMA NextPassWork == ASSUME WorkInv, NEW p \in Proc, pc[p] \in Passing, NextPass(p) PROVE WorkInv'
<1>1. CASE Len(plan[p]) = 1
  BY <1>1, EndWork DEF NextPass
<1>2. CASE Len(plan[p]) # 1
  <2>1. plan[p] \in Seq(PassName) /\ plan[p] # << >>
    BY DEF WorkInv
  <2>2. Tail(plan[p]) \in Seq(PassName) /\ Len(Tail(plan[p])) = Len(plan[p]) - 1
    BY <2>1, HeadTailProperties
  <2>3. Tail(plan[p]) # << >>
    <3>1. Len(plan[p]) # 0 /\ Len(plan[p]) \in Nat
      BY <2>1, EmptySeq, LenProperties
    <3>2. Len(Tail(plan[p])) # 0
      BY <1>2, <2>2, <3>1
    <3> QED
      BY <3>2, EmptySeq
  <2>4. pc' = [pc EXCEPT ![p] = "pass"] /\ plan' = [plan EXCEPT ![p] = Tail(plan[p])]
        /\ todo' = [todo EXCEPT ![p] = {}] /\ UNCHANGED <<job, seen, known>>
    BY <1>2 DEF NextPass, Goto, WorkInv
  <2>5. "pass" \in Label /\ "pass" \notin OnTape
    BY DEF Label, OnTape
  <2> QED
    BY <2>2, <2>3, <2>4, <2>5 DEF WorkInv
<1> QED
  BY <1>1, <1>2

LEMMA PassFailsWork ==
    ASSUME WorkInv, NEW p \in Proc, pc[p] \in Passing, PassFails(p) PROVE WorkInv'
BY EndWork, NextPassWork DEF PassFails

\* Counting an evacuation keeps a plan a plan.
LEMMA CountPlan ==
    ASSUME WorkInv, NEW p \in Proc, Count(p)
    PROVE  /\ plan' \in [Proc -> Seq(PassName)]
           /\ \A q \in Proc : plan'[q] = << >> <=> plan[q] = << >>
           /\ \A q \in Proc : Len(plan'[q]) = Len(plan[q])
<1> DEFINE s == plan[p]
           new == [i \in DOMAIN s |-> IF s[i] = "drifts" THEN "drifts again" ELSE s[i]]
<1>1. s \in Seq(PassName)
  BY DEF WorkInv
<1>2. new \in Seq(PassName) /\ Len(new) = Len(s) /\ (new = << >> <=> s = << >>)
  <2>1. DOMAIN s = 1 .. Len(s) /\ Len(s) \in Nat /\ \A i \in DOMAIN s : s[i] \in PassName
    BY <1>1, LenProperties, ElementOfSeq
  <2>2. new \in [1 .. Len(s) -> PassName]
    BY <2>1 DEF PassName
  <2> HIDE DEF new, s
  <2>3. new \in Seq(PassName)
    BY <2>1, <2>2
  <2>4. Len(new) = Len(s)
    <3>1. DOMAIN new = 1 .. Len(new) /\ Len(new) \in Nat
      BY <2>3, LenProperties
    <3>2. DOMAIN new = 1 .. Len(s)
      BY <2>2
    <3>3. ASSUME NEW a \in Nat, NEW b \in Nat, 1 .. a = 1 .. b PROVE a = b
      BY <3>3
    <3> QED
      BY <2>1, <3>1, <3>2, <3>3, Zenon
  <2> QED
    BY <1>1, <2>3, <2>4, EmptySeq
<1>3. plan' = [plan EXCEPT ![p] = new]
  BY DEF Count, WorkInv
<1> HIDE DEF new
<1> QED
  BY <1>1, <1>2, <1>3 DEF WorkInv

LEMMA LessThanWellFounded ==
    \E R : IsWellFoundedOn(R, Nat) /\ \A m, n \in Nat : m < n => <<m, n>> \in R
<1>1. \A m, n \in Nat : m < n => <<m, n>> \in OpToRel(<, Nat)
  BY Zenon DEF OpToRel
<1> QED
  BY <1>1, NatLessThanWellFounded, Zenon

LEMMA FirstOf == ASSUME NEW ids \in SUBSET Nat, ids # {} PROVE First(ids) \in ids
<1>1. PICK R : IsWellFoundedOn(R, Nat) /\ \A m, n \in Nat : m < n => <<m, n>> \in R
  BY LessThanWellFounded
<1>2. PICK n \in ids : \A m \in ids : ~(<<m, n>> \in R)
  <2>1. ASSUME NEW S, IsWellFoundedOn(R, S), NEW T, T \subseteq S, T # {}
        PROVE  \E x \in T : \A y \in T : ~(<<y, x>> \in R)
    BY <2>1, WFMin, Zenon
  <2>2. IsWellFoundedOn(R, Nat) /\ ids \subseteq Nat /\ ids # {}
    BY <1>1
  <2> QED
    BY <2>1, <2>2, Zenon
<1>3. ASSUME NEW m \in ids PROVE n <= m
  <2>1. m \in Nat /\ n \in Nat /\ (m < n => <<m, n>> \in R)
    BY <1>1, Zenon
  <2>2. ~(m < n)
    BY <1>2, <2>1, Zenon
  <2> QED
    BY <2>1, <2>2
<1> QED
  BY <1>3 DEF First

LEMMA FreeSlots ==
    /\ SlotId \in SUBSET Nat /\ Slot \subseteq SlotId /\ MailId \subseteq SlotId
    /\ Free(Slot) # {} => First(Free(Slot)) \in Free(Slot)
    /\ Free(MailId) # {} => First(Free(MailId)) \in Free(MailId)
<1>1. SlotId \in SUBSET Nat /\ Slot \subseteq SlotId /\ MailId \subseteq SlotId
  BY ElementAssumption, CatalogAssumption DEF SlotId, Slot, MailId
<1>2. Free(Slot) \in SUBSET Nat /\ Free(MailId) \in SUBSET Nat
  BY <1>1 DEF Free
<1> QED
  BY <1>1, <1>2, FirstOf

\* The catalogue's rows hold tapes, elements and slot numbers are integers.
LEMMA Ranges ==
    ASSUME TableTypes
    PROVE  /\ \A n \in SlotId : slots[n] \in Content
           /\ \A d \in DriveId : drives[d] \in Content /\ DriveBase + d \in Int
           /\ \A d \in DriveNumber : DriveBase + d \in Int
           /\ SlotNumber \subseteq Int /\ ImportNumber \subseteq Int /\ SlotId \subseteq Int /\ NoSlot \in Int
           /\ Tape \subseteq Content /\ NoTape \in Content
           /\ \A n \in SlotId : MailElement(n) \in Int
           /\ \A t \in Tape : slotOf[t] \in Int
BY ElementAssumption, CatalogAssumption, FreeSlots
   DEF TableTypes, RowInv, RowTypes, Content, MailElement, DriveId

\* Commands on the catalogue begin.
CatalogCommand(p) ==
    \/ \E t \in Tape, n \in SlotNumber : assign_tape_to_slot(p, t, n)
    \/ \E n \in SlotId, d \in DriveNumber : load_tape(p, n, d)
    \/ \E d \in DriveId : unload_tape(p, d)
    \/ \E n \in SlotId : eject_tape(p, n)
    \/ \E t \in Tape : shelf_place_tape(p, t)

\* Commands that commit a slot and do not tell the robot.
Import == \E t \in Tape, n \in ImportNumber : import_tape(t, n)
OfflineImport(p) ==
    \E t \in Tape, n \in ImportNumber : import_offline_tape_to_online_slot(p, t, n)

LEMMA CommandWork ==
    ASSUME WorkInv, TableTypes, NEW p \in Proc, CatalogCommand(p)
    PROVE  WorkInv'
<1> USE Ranges
<1>1. {"assign", "load", "unload", "eject", "shelve"} \subseteq Label \ Passing
  BY DEF Label, Passing
<1>2. UNCHANGED <<plan, todo, seen, known>>
  BY DEF CatalogCommand, assign_tape_to_slot, load_tape, unload_tape, eject_tape,
     shelf_place_tape, work
<1>3. ASSUME NEW l \in Label \ Passing, NEW t \in Content, NEW n \in Int, NEW e \in Int,
             NEW b, Begin(p, l, t, n, e, b), l \in OnTape => t \in Tape
      PROVE  WorkInv'
  BY <1>2, <1>3, BeginWork
<1>4. CASE \E t \in Tape, n \in SlotNumber : assign_tape_to_slot(p, t, n)
  BY <1>1, <1>3, <1>4 DEF assign_tape_to_slot
<1>5. CASE \E n \in SlotId, d \in DriveNumber : load_tape(p, n, d)
  BY <1>1, <1>3, <1>5 DEF load_tape, Content
<1>6. ASSUME NEW d \in DriveId, unload_tape(p, d)
      PROVE  WorkInv'
  <2> DEFINE t == drives[d]
             n == IF slotOf[t] # NoSlot THEN slotOf[t] ELSE First(Free(Slot))
  <2>1. t # NoTape /\ (slotOf[t] # NoSlot \/ Free(Slot) # {})
        /\ Begin(p, "unload", t, n, DriveBase + d, FALSE)
    BY <1>6 DEF unload_tape
  <2>2. t \in Tape
    BY <2>1 DEF Content
  <2>3. n \in Int
    BY <2>1, <2>2, FreeSlots DEF Free
  <2> HIDE DEF n, t
  <2> QED
    BY <1>1, <1>3, <2>1, <2>2, <2>3
<1>7. ASSUME NEW n \in SlotId, eject_tape(p, n)
      PROVE  WorkInv'
  <2>1. First(Free(MailId)) \in SlotId
    BY <1>7, FreeSlots DEF eject_tape, Free
  <2> QED
    BY <1>1, <1>3, <1>7, <2>1 DEF eject_tape, Content
<1>8. CASE \E t \in Tape : shelf_place_tape(p, t)
  BY <1>1, <1>3, <1>8 DEF shelf_place_tape
<1> QED
  BY <1>4, <1>5, <1>6, <1>7, <1>8 DEF CatalogCommand

\* Commands on the robot go on, fail or are killed.
LEMMA StepsOfCommands ==
    ASSUME WorkInv, TableTypes, NEW p \in Proc,
           \/ kernel_slot_place(p) \/ LoadCheck(p) \/ LoadPlace(p) \/ LoadMove(p)
           \/ kernel_unload(p) \/ kernel_move_medium(p) \/ Shelve(p) \/ RowGone(p)
    PROVE  WorkInv'
<1>1. CASE kernel_slot_place(p) \/ LoadMove(p) \/ kernel_unload(p) \/ kernel_move_medium(p)
  BY <1>1, AlignWork, EndWork DEF kernel_slot_place, LoadMove, kernel_unload, kernel_move_medium
<1>2. ASSUME pc[p] \in OnTape, NEW l \in {"move", "place"}, Goto(p, l),
             UNCHANGED <<job, work>>
      PROVE  WorkInv'
  BY <1>2 DEF WorkInv, Goto, work, Label, Passing, OnTape
<1>3. CASE LoadCheck(p)
  BY <1>2, <1>3, AlignWork DEF LoadCheck, OnTape
<1>4. CASE LoadPlace(p)
  BY <1>2, <1>4, AlignWork DEF LoadPlace, OnTape
<1>5. CASE Shelve(p)
  <2>1. /\ pc' = [pc EXCEPT ![p] = "look"]
        /\ plan' = [plan EXCEPT ![p] = <<"single">> \o AfterOp]
        /\ todo' = [todo EXCEPT ![p] = {job[p].tape}]
        /\ job' = [job EXCEPT ![p] = NoJob]
        /\ UNCHANGED <<seen, known>>
    BY <1>5 DEF Shelve, Goto
  <2>2. job[p].tape \in Tape /\ "look" \in Label /\ "look" \notin OnTape
    BY <1>5 DEF Shelve, WorkInv, Label, OnTape
  <2> QED
    <3> HIDE DEF AfterOp, NoJob
    <3> QED
      BY <2>1, <2>2, AfterOpPlan, NoJobTyped DEF WorkInv, Passing, OnTape
<1>6. CASE RowGone(p)
  BY <1>6, EndWork DEF RowGone
<1> QED
  BY <1>1, <1>3, <1>4, <1>5, <1>6

\* A pass reads an inventory and goes on.
LEMMA PassGoesOn ==
    ASSUME WorkInv, NEW p \in Proc, pc[p] \in Passing,
           NEW l \in {"list", "look", "compare"}, Goto(p, l), UNCHANGED <<job, plan>>,
           NEW ts \in SUBSET Tape, todo' = [todo EXCEPT ![p] = ts],
           \/ UNCHANGED seen
           \/ \E s \in [Tape -> Element \cup {NoSlot}] : seen' = [seen EXCEPT ![p] = s],
           UNCHANGED known \/ known' = [known EXCEPT ![p] = DbInventory]
    PROVE  WorkInv'
<1>1. l \in Label /\ l \in Passing /\ l # "remove" /\ l \notin OnTape
  BY DEF Label, Passing, OnTape
<1>2. seen' \in [Proc -> [Tape -> Element \cup {NoSlot}]]
  BY DEF WorkInv
<1>3. DOMAIN known' = Proc /\ \A q \in Proc : DOMAIN known'[q] = Tape
  BY DEF WorkInv, DbInventory
<1>4. /\ pc' \in [Proc -> Label] /\ todo' \in [Proc -> SUBSET Tape]
      /\ \A q \in Proc : pc'[q] = IF q = p THEN l ELSE pc[q]
  BY <1>1 DEF WorkInv, Goto
<1> QED
  BY <1>1, <1>2, <1>3, <1>4 DEF WorkInv

LEMMA StepsOfPasses ==
    ASSUME WorkInv, TableTypes, NEW p \in Proc,
           ReadShelved(p) \/ ListShelved(p) \/ ReadKernel(p) \/ Compare(p)
    PROVE  WorkInv'
<1>1. pc[p] \in Passing /\ todo[p] \in SUBSET Tape /\ todo = [todo EXCEPT ![p] = todo[p]]
  BY DEF ReadShelved, ListShelved, ReadKernel, Compare, Passing, WorkInv
<1>2. CASE ReadShelved(p)
  <2>1. {t \in tapes : shelf[t]} \in SUBSET Tape
    BY DEF TableTypes, RowInv, RowTypes
  <2> QED
    BY <1>1, <1>2, <2>1, PassGoesOn DEF ReadShelved
<1>3. CASE ListShelved(p)
  <2>1. CASE SnapshotOK
    <3> DEFINE ts == {t \in todo[p] : Snapshot[t] # NoSlot}
    <3>1. ts \in SUBSET Tape
      BY <1>1
    <3>2. Goto(p, "look") /\ todo' = [todo EXCEPT ![p] = ts]
          /\ UNCHANGED <<job, plan, seen, known>>
      BY <1>3, <2>1 DEF ListShelved, WorkInv
    <3> HIDE DEF ts
    <3> QED
      BY <1>1, <3>1, <3>2, PassGoesOn
  <2>2. CASE ~SnapshotOK
    BY <1>1, <1>3, <2>2, PassFailsWork DEF ListShelved
  <2> QED
    BY <2>1, <2>2
<1>4. CASE ReadKernel(p)
  <2>1. CASE SnapshotOK
    <3>1. Goto(p, "compare") /\ seen' = [seen EXCEPT ![p] = Snapshot]
          /\ UNCHANGED <<job, plan, todo, known>>
      BY <1>4, <2>1 DEF ReadKernel
    <3> QED
      BY <1>1, <3>1, SnapshotTyped, PassGoesOn
  <2>2. CASE ~SnapshotOK
    BY <1>1, <1>4, <2>2, PassFailsWork DEF ReadKernel
  <2> QED
    BY <2>1, <2>2
<1>5. CASE Compare(p)
  <2>1. NothingSeen \in [Tape -> Element \cup {NoSlot}]
    BY DEF NothingSeen
  <2>2. CASE DbInventoryOK
    <3> DEFINE ts == {t \in Tape : seen[p][t] # NoSlot /\ Rows(t) = {}}
    <3>1. /\ Goto(p, "look") /\ todo' = [todo EXCEPT ![p] = ts] /\ UNCHANGED <<job, plan>>
          /\ \/ known' = [known EXCEPT ![p] = DbInventory] /\ UNCHANGED seen
             \/ seen' = [seen EXCEPT ![p] = NothingSeen] /\ UNCHANGED known
      BY <1>5, <2>2 DEF Compare
    <3>2. ts \in SUBSET Tape
      OBVIOUS
    <3> HIDE DEF ts
    <3> QED
      BY <1>1, <2>1, <3>1, <3>2, PassGoesOn
  <2>3. CASE ~DbInventoryOK
    BY <1>1, <1>5, <2>3, PassFailsWork DEF Compare
  <2> QED
    BY <2>2, <2>3
<1> QED
  BY <1>2, <1>3, <1>4, <1>5

LEMMA StepsOfEvacuation ==
    ASSUME WorkInv, NEW p \in Proc, Look(p) \/ evacuate_element(p)
    PROVE  WorkInv'
<1>1. pc[p] \in Passing /\ pc[p] \in {"look", "remove"} /\ "look" \in Label /\ "remove" \in Label
      /\ "look" \notin OnTape
  BY DEF Look, evacuate_element, Passing, Label, OnTape
<1>2. CASE todo[p] = {} /\ NextPass(p)
  BY <1>1, <1>2, NextPassWork
<1>3. ASSUME NEW t \in todo[p], SnapshotOK, Snapshot[t] # NoSlot, Goto(p, "remove"),
             job' = [job EXCEPT ![p].tape = t, ![p].elem = Snapshot[t]], UNCHANGED work
      PROVE  WorkInv'
  <2>1. t \in Tape /\ Snapshot[t] \in Element /\ Snapshot[t] \in Int
    BY <1>3, SnapshotTyped, ElementAssumption DEF WorkInv, Element, Slot, Drive, Mailslot
  <2>2. PICK new : new = [job[p] EXCEPT !.tape = t, !.elem = Snapshot[t]]
    OBVIOUS
  <2>3. new \in Job /\ new.elem = Snapshot[t] /\ new.tape = t
    BY ZenonT(60), <2>1, <2>2 DEF WorkInv, Job, Content
  <2>4. job' = [job EXCEPT ![p] = new]
    BY <1>3, <2>2 DEF WorkInv
  <2>5. pc' = [pc EXCEPT ![p] = "remove"] /\ UNCHANGED <<plan, todo, seen, known>>
    BY <1>3 DEF Goto, work
  <2> QED
    BY <1>1, <2>1, <2>3, <2>4, <2>5 DEF WorkInv
<1>4. ASSUME NEW t, todo' = [todo EXCEPT ![p] = @ \ {t}], Count(p) \/ UNCHANGED plan,
             (Goto(p, "look") /\ job' = [job EXCEPT ![p] = NoJob]) \/ UNCHANGED <<pc, job>>,
             UNCHANGED <<seen, known>>
      PROVE  WorkInv'
  <2>1. /\ plan' \in [Proc -> Seq(PassName)]
        /\ \A q \in Proc : plan'[q] = << >> <=> plan[q] = << >>
    BY <1>4, CountPlan DEF WorkInv
  <2> QED
    BY ZenonT(60), <1>1, <1>4, <2>1, NoJobTyped DEF WorkInv, Goto
<1>5. CASE Look(p)
  BY <1>2, <1>3, <1>4, <1>5 DEF Look
<1>6. CASE evacuate_element(p)
  BY <1>4, <1>6 DEF evacuate_element
<1> QED
  BY <1>5, <1>6

\* Pulls and the other commands that compare the two sides.
Comparison(p) ==
    \/ reconcile_library(p) \/ Reconcile(p) \/ auto_align_library(p)
    \/ FindDrifts(p) \/ FreshInventory(p) \/ ReadInventory(p)
    \/ apply_kernel_to_db(p) \/ mirror_kernel_catalog_hints_only(p)

LEMMA AlignPlan == <<"shelved again", "strays again", "drifts">> \in Seq(PassName)
BY DEF PassName

LEMMA StartPullWork ==
    ASSUME WorkInv, NEW p \in Proc, StartPull(p), UNCHANGED <<job, plan, todo>>
    PROVE  WorkInv'
<1>1. "pull" \in Label /\ "pull" \notin Passing /\ "pull" \notin OnTape
  BY DEF Label, Passing, OnTape
<1>2. DOMAIN NothingKnown = Tape
  BY DEF NothingKnown
<1>3. pc' = [pc EXCEPT ![p] = "pull"] /\ seen' = [seen EXCEPT ![p] = Snapshot]
      /\ known' = [known EXCEPT ![p] = NothingKnown]
  BY DEF StartPull, Goto
<1>4. seen' \in [Proc -> [Tape -> Element \cup {NoSlot}]]
  BY <1>3, SnapshotTyped DEF WorkInv
<1>5. DOMAIN known' = Proc /\ \A q \in Proc : DOMAIN known'[q] = Tape
  BY <1>2, <1>3 DEF WorkInv
<1>6. pc' \in [Proc -> Label] /\ \A q \in Proc : pc'[q] = IF q = p THEN "pull" ELSE pc[q]
  BY <1>1, <1>3 DEF WorkInv
<1> QED
  BY <1>1, <1>4, <1>5, <1>6 DEF WorkInv, Passing

\* A command that starts with the passes of an evacuation.
LEMMA BeginPass ==
    ASSUME WorkInv, TableTypes, NEW p \in Proc, NEW b,
           Begin(p, "pass", NoTape, NoSlot, NoSlot, b),
           NEW passes \in Seq(PassName), passes # << >>, plan' = [plan EXCEPT ![p] = passes],
           UNCHANGED <<todo, seen, known>>
    PROVE  WorkInv'
<1>1. /\ pc' = [pc EXCEPT ![p] = "pass"]
      /\ job' = [job EXCEPT ![p] = [tape |-> NoTape, slot |-> NoSlot, elem |-> NoSlot, row |-> TRUE]]
  BY DEF Begin, Goto
<1>2. [tape |-> NoTape, slot |-> NoSlot, elem |-> NoSlot, row |-> TRUE] \in Job
  BY Ranges DEF Job
<1>3. "pass" \in Label /\ "pass" # "remove" /\ "pass" \notin OnTape
  BY DEF Label, OnTape
<1> QED
  BY <1>1, <1>2, <1>3 DEF WorkInv

LEMMA StepsOfComparisons ==
    ASSUME WorkInv, TableTypes, NEW p \in Proc, Comparison(p)
    PROVE  WorkInv'
<1>1. CASE apply_kernel_to_db(p) \/ mirror_kernel_catalog_hints_only(p)
  BY <1>1, EndWork DEF apply_kernel_to_db, mirror_kernel_catalog_hints_only
<1>2. ASSUME NEW l \in {"pull", "mirror", "reconcile"}, NEW b,
             Begin(p, l, NoTape, NoSlot, NoSlot, b), UNCHANGED <<plan, todo>>,
             \/ UNCHANGED seen \/ seen' = [seen EXCEPT ![p] = Snapshot],
             \/ UNCHANGED known \/ known' = [known EXCEPT ![p] = DbInventory]
      PROVE  WorkInv'
  <2>1. l \in Label \ Passing /\ l \notin OnTape
    BY DEF Label, Passing, OnTape
  <2> QED
    BY <1>2, <2>1, Ranges, BeginWork
<1>3. CASE reconcile_library(p)
  BY <1>2, <1>3 DEF reconcile_library
<1>4. CASE ReadInventory(p)
  BY <1>2, <1>4 DEF ReadInventory
<1>5. CASE Reconcile(p)
  BY <1>5, StartPullWork, EndWork DEF Reconcile
<1>6. CASE FreshInventory(p)
  BY <1>6, StartPullWork, EndWork DEF FreshInventory
<1>7. CASE FindDrifts(p)
  <2>1. CASE Goto(p, "fresh") /\ UNCHANGED <<job, work>>
    BY <2>1 DEF Goto, work, WorkInv, Label, Passing, OnTape
  <2> QED
    BY <1>7, <2>1, EndWork DEF FindDrifts
<1>8. CASE auto_align_library(p)
  BY <1>8, AlignPlan, BeginPass DEF auto_align_library
<1> QED
  BY <1>1, <1>3, <1>4, <1>5, <1>6, <1>7, <1>8 DEF Comparison

LEMMA OfflineWork == ASSUME WorkInv, TableTypes, NEW p \in Proc, OfflineImport(p) PROVE WorkInv'
BY AfterOpPlan, BeginPass DEF OfflineImport, import_offline_tape_to_online_slot

LEMMA FailureWork ==
    ASSUME WorkInv, NEW p \in Proc, IoctlFails(p) \/ Crash(p)
    PROVE  WorkInv'
<1>1. CASE Crash(p)
  BY <1>1, EndWork DEF Crash
<1>2. CASE Align(p) \/ End(p)
  BY <1>2, AlignWork, EndWork
<1>3. CASE pc[p] \in Passing /\ PassFails(p)
  BY <1>3, PassFailsWork
<1>4. ASSUME NEW t, todo' = [todo EXCEPT ![p] = @ \ {t}],
             UNCHANGED <<plan, seen, known>>, pc[p] \in Passing,
             (Goto(p, "look") /\ job' = [job EXCEPT ![p] = NoJob]) \/ UNCHANGED <<pc, job>>
      PROVE  WorkInv'
  <2>1. "look" \in Label /\ "look" \in Passing /\ "look" \notin OnTape /\ "look" # "remove"
    BY DEF Label, Passing, OnTape
  <2>2. /\ pc' \in [Proc -> Label] /\ job' \in [Proc -> Job]
        /\ \A q \in Proc : pc'[q] = pc[q] \/ (pc'[q] = "look" /\ q = p)
        /\ \A q \in Proc : job'[q] = job[q] \/ pc'[q] = "look"
    <3>1. CASE Goto(p, "look") /\ job' = [job EXCEPT ![p] = NoJob]
      <4> HIDE DEF NoJob
      <4> QED
        BY <2>1, <3>1, NoJobTyped DEF WorkInv, Goto
    <3>2. CASE UNCHANGED <<pc, job>>
      BY <3>2 DEF WorkInv
    <3> QED
      BY <1>4, <3>1, <3>2
  <2>3. todo' \in [Proc -> SUBSET Tape]
    BY <1>4 DEF WorkInv
  <2> QED
    BY <1>4, <2>1, <2>2, <2>3 DEF WorkInv
<1>5. CASE IoctlFails(p)
  BY <1>2, <1>3, <1>4, <1>5 DEF IoctlFails, Passing
<1> QED
  BY <1>1, <1>5

LEMMA DeleteWork ==
    ASSUME WorkInv, NEW t \in Tape, delete_tape_in_library(t)
    PROVE  WorkInv'
<1>1. ASSUME NEW q \in Proc
      PROVE  /\ job'[q] = [job[q] EXCEPT !.row = @ /\ job[q].tape # t]
             /\ job'[q] \in Job /\ job'[q].tape = job[q].tape /\ job'[q].elem = job[q].elem
             /\ job'[q].slot = job[q].slot
             /\ job'[q].row => job[q].row /\ job[q].tape # t
  <2>1. job'[q] = [job[q] EXCEPT !.row = @ /\ job[q].tape # t]
    BY DEF delete_tape_in_library
  <2>2. job[q] \in Job
    BY DEF WorkInv
  <2>3. PICK j \in Job : j = job[q]
    BY <2>2
  <2>4. [j EXCEPT !.row = @ /\ j.tape # t] \in Job
    BY Zenon DEF Job
  <2> QED
    BY <2>1, <2>3, <2>4, Zenon DEF Job
<1>2. job' \in [Proc -> Job]
  <2>1. job' = [q \in Proc |-> job'[q]]
    BY DEF delete_tape_in_library
  <2> QED
    BY <1>1, <2>1
<1>3. UNCHANGED <<pc, work>>
  BY DEF delete_tape_in_library
<1> QED
  BY <1>1, <1>2, <1>3 DEF WorkInv, work

LEMMA WorkStep == ASSUME TypeInv, [Next]_vars PROVE WorkInv'
<1> USE DEF TypeInv
<1>1. ASSUME UNCHANGED <<pc, job, work>> PROVE WorkInv'
  BY <1>1 DEF WorkInv, work
<1>2. CASE UNCHANGED vars \/ Backup \/ Import \/ \E t \in Tape : create_tape(t)
  BY <1>1, <1>2 DEF vars, Backup, Import, import_tape, create_tape
<1>3. CASE \E t \in Tape : delete_tape_in_library(t)
  BY <1>3, DeleteWork
<1>4. ASSUME NEW p \in Proc, CatalogCommand(p) \/ OfflineImport(p) \/ Comparison(p)
      PROVE  WorkInv'
  BY <1>4, CommandWork, OfflineWork, StepsOfComparisons
<1>5. ASSUME NEW p \in Proc,
             \/ kernel_slot_place(p) \/ LoadCheck(p) \/ LoadPlace(p) \/ LoadMove(p)
             \/ kernel_unload(p) \/ kernel_move_medium(p) \/ Shelve(p) \/ RowGone(p)
      PROVE  WorkInv'
  BY <1>5, StepsOfCommands
<1>6. ASSUME NEW p \in Proc,
             \/ ReadShelved(p) \/ ListShelved(p) \/ ReadKernel(p) \/ Compare(p)
             \/ Look(p) \/ evacuate_element(p) \/ IoctlFails(p) \/ Crash(p)
      PROVE  WorkInv'
  BY <1>6, StepsOfPasses, StepsOfEvacuation, FailureWork
<1> QED
  BY <1>2, <1>3, <1>4, <1>5, <1>6 DEF Next, CatalogCommand, Import, OfflineImport, Comparison

\* What a snapshot has of a tape is an address, so a hint is a number.
LEMMA TablesStep == ASSUME TypeInv, [Next]_vars PROVE TableTypes'
<1>1. RowInv /\ slotOf \in [Tape -> Int]
  BY DEF TypeInv, TableTypes
<1>2. RowInv'
  BY <1>1, RowsStep
<1> SUFFICES slotOf' \in [Tape -> Int]
  BY <1>2 DEF TableTypes
<1>3. ASSUME NEW t \in Tape, NEW n \in Int, slotOf' = [slotOf EXCEPT ![t] = n]
      PROVE  slotOf' \in [Tape -> Int]
  BY <1>1, <1>3
<1>4. CASE UNCHANGED slotOf
  BY <1>1, <1>4
<1>5. CASE \E t \in Tape : delete_tape_in_library(t)
  BY <1>1, <1>5, CatalogAssumption DEF delete_tape_in_library
<1>6. ASSUME NEW p \in Proc, CatalogCommand(p)
      PROVE  slotOf' \in [Tape -> Int]
  <2> USE Ranges DEF TypeInv
  <2>1. CASE \E t \in Tape, n \in SlotNumber : assign_tape_to_slot(p, t, n)
    BY <1>3, <2>1 DEF assign_tape_to_slot
  <2>2. CASE \E n \in SlotId, d \in DriveNumber : load_tape(p, n, d)
    BY <1>1, <2>2 DEF load_tape
  <2>3. ASSUME NEW d \in DriveId, unload_tape(p, d)
        PROVE  slotOf' \in [Tape -> Int]
    <3>1. drives[d] \in Tape
      BY <2>3 DEF unload_tape, Content
    <3>2. First(Free(Slot)) \in Int \/ slotOf[drives[d]] # NoSlot
      BY <2>3, FreeSlots DEF unload_tape, Free
    <3> QED
      BY <1>1, <2>3, <3>1, <3>2 DEF unload_tape
  <2>4. ASSUME NEW n \in SlotId, eject_tape(p, n)
        PROVE  slotOf' \in [Tape -> Int]
    <3>1. slots[n] \in Tape /\ First(Free(MailId)) \in Int
      BY <2>4, FreeSlots DEF eject_tape, Content, Free
    <3> QED
      BY <1>3, <2>4, <3>1 DEF eject_tape
  <2>5. CASE \E t \in Tape : shelf_place_tape(p, t)
    BY <1>1, <2>5 DEF shelf_place_tape, tables
  <2> QED
    BY <1>6, <2>1, <2>2, <2>3, <2>4, <2>5 DEF CatalogCommand
<1>7. ASSUME NEW p \in Proc, Shelve(p)
      PROVE  slotOf' \in [Tape -> Int]
  BY <1>1, <1>7, CatalogAssumption DEF Shelve
<1>8. ASSUME NEW p \in Proc, NEW t \in Tape, seen[p][t] # NoSlot
      PROVE  FromElement(seen[p][t])[2] \in Int
  <2>1. seen[p][t] \in Element
    BY <1>8 DEF TypeInv, WorkInv
  <2> QED
    BY <2>1, ElementAssumption, CatalogAssumption
       DEF Element, Slot, Drive, Mailslot, FromElement, DataSlot, MailSlot
<1>9. ASSUME NEW p \in Proc, apply_kernel_to_db(p)
      PROVE  slotOf' \in [Tape -> Int]
  <2>1. ASSUME NEW t \in Tape, NEW n \in SlotId, slots'[n] = t
        PROVE  seen[p][t] # NoSlot
    <3>1. slots'[n] \in Arrivals(p, {DataSlot(n), MailSlot(n)}) /\ t # NoTape
      BY <1>9, <2>1, ElementAssumption DEF apply_kernel_to_db
    <3> QED
      BY <2>1, <3>1 DEF Arrivals
  <2>2. ASSUME NEW t \in Tape
        PROVE  slotOf'[t] \in Int
    <3> DEFINE found == {u \in tapes : seen[p][u] # NoSlot}
    <3>1. slotOf'[t] = IF t \notin found /\ shelf[t] THEN slotOf[t]
                       ELSE IF \E n \in SlotId : slots'[n] = t THEN FromElement(seen[p][t])[2]
                       ELSE NoSlot
      BY <1>9 DEF apply_kernel_to_db
    <3> HIDE DEF found
    <3> QED
      BY <1>1, <1>8, <2>1, <3>1, CatalogAssumption
  <2>3. slotOf' = [t \in Tape |-> slotOf'[t]]
    BY <1>9 DEF apply_kernel_to_db
  <2> QED
    BY <2>2, <2>3
<1>10. ASSUME NEW p \in Proc, mirror_kernel_catalog_hints_only(p)
       PROVE  slotOf' \in [Tape -> Int]
  <2>1. tapes \subseteq Tape /\ NoSlot \in Int
    BY <1>1, CatalogAssumption DEF RowInv, RowTypes
  <2> QED
    BY <1>8, <1>10, <2>1 DEF mirror_kernel_catalog_hints_only
<1>11. CASE \E t \in Tape : create_tape(t)
  BY <1>4, <1>11 DEF create_tape
<1>15. ASSUME Import \/ \E p \in Proc : OfflineImport(p) PROVE slotOf' \in [Tape -> Int]
  BY <1>3, <1>15, Ranges
     DEF TypeInv, Import, OfflineImport, import_tape, import_offline_tape_to_online_slot
<1>12. CASE UNCHANGED tables
  BY <1>4, <1>12 DEF tables
<1>13. CASE UNCHANGED vars \/ Backup
  BY <1>12, <1>13 DEF vars, Backup
<1>14. ASSUME NEW p \in Proc,
              \/ kernel_slot_place(p) \/ LoadCheck(p) \/ LoadPlace(p) \/ LoadMove(p)
              \/ kernel_unload(p) \/ kernel_move_medium(p) \/ RowGone(p)
              \/ ReadShelved(p) \/ ListShelved(p) \/ ReadKernel(p) \/ Compare(p)
              \/ Look(p) \/ evacuate_element(p) \/ ReadInventory(p)
              \/ reconcile_library(p) \/ Reconcile(p)
              \/ auto_align_library(p) \/ FindDrifts(p) \/ FreshInventory(p)
              \/ IoctlFails(p) \/ Crash(p)
       PROVE  UNCHANGED tables
  BY <1>14 DEF kernel_slot_place, LoadCheck, LoadPlace, LoadMove,
     kernel_unload, kernel_move_medium, RowGone, ReadShelved, ListShelved, ReadKernel,
     Compare, Look, evacuate_element, ReadInventory, reconcile_library, Reconcile,
     auto_align_library, FindDrifts, FreshInventory, IoctlFails, Crash
<1> QED
  BY <1>5, <1>6, <1>7, <1>9, <1>10, <1>11, <1>12, <1>13, <1>14, <1>15
     DEF Next, CatalogCommand, Import, OfflineImport

LEMMA ChangerStep == ASSUME TypeInv, [Next]_vars PROVE Changer'
<1> USE DEF TypeInv
<1>1. CASE UNCHANGED robot
  BY <1>1 DEF robot, geometry, Changer
<1>2. CASE ret' \in Code /\ UNCHANGED <<store, geometry>>
  BY <1>2 DEF geometry, Changer
<1>3. ASSUME NEW p \in Proc
      PROVE  job[p].slot \in Int /\ job[p].elem \in Int /\ job[p].tape \in Content
  BY DEF WorkInv, Job
<1>4. ASSUME NEW p \in Proc,
             \/ kernel_slot_place(p) \/ LoadPlace(p) \/ LoadMove(p) \/ kernel_unload(p)
             \/ kernel_move_medium(p) \/ evacuate_element(p)
      PROVE  Changer'
  BY <1>2, <1>3, <1>4, PlaceTyped, MoveTyped, RemoveTyped
     DEF kernel_slot_place, LoadPlace, LoadMove, kernel_unload, kernel_move_medium,
         evacuate_element, Code
<1>5. ASSUME NEW p \in Proc,
             \/ LoadCheck(p) \/ ListShelved(p) \/ ReadKernel(p) \/ Look(p)
             \/ ReadInventory(p) \/ Reconcile(p) \/ FindDrifts(p) \/ FreshInventory(p)
      PROVE  Changer'
  BY <1>1, <1>2, <1>5 DEF LoadCheck, ListShelved, ReadKernel, Look, ReadInventory, Reconcile,
     FindDrifts, FreshInventory, Answered, Code, Changer, geometry
<1>6. CASE Backup
  <2>1. Drive \subseteq Int /\ Address \subseteq Int
    BY SMTT(40), ElementAssumption DEF Drive
  <2> QED
    BY <1>6, <2>1, MoveTyped, RemoveTyped DEF Backup
<1>7. ASSUME NEW p \in Proc,
             \/ CatalogCommand(p) \/ OfflineImport(p) \/ Shelve(p) \/ RowGone(p)
             \/ ReadShelved(p) \/ Compare(p) \/ reconcile_library(p) \/ auto_align_library(p) \/ apply_kernel_to_db(p)
             \/ mirror_kernel_catalog_hints_only(p) \/ IoctlFails(p) \/ Crash(p)
      PROVE  Changer'
  BY <1>1, <1>7 DEF CatalogCommand, OfflineImport, import_offline_tape_to_online_slot,
     assign_tape_to_slot, load_tape, unload_tape, eject_tape,
     shelf_place_tape, Shelve, RowGone, ReadShelved, Compare, reconcile_library,
     auto_align_library, apply_kernel_to_db, mirror_kernel_catalog_hints_only, IoctlFails, Crash
<1>8. CASE UNCHANGED vars \/ Import \/ \E t \in Tape : create_tape(t) \/ delete_tape_in_library(t)
  BY <1>1, <1>8 DEF vars, Import, import_tape, create_tape, delete_tape_in_library
<1> QED
  BY <1>4, <1>5, <1>6, <1>7, <1>8 DEF Next, CatalogCommand, Import, OfflineImport

LEMMA FlagsStep == ASSUME TypeInv, [Next]_vars PROVE Flags'
<1>1. \A b : Disturb(b) => disturbed' \in BOOLEAN
  BY Zenon DEF Disturb
<1>2. \A p \in Proc : calm' = Alone(p) => calm' \in BOOLEAN
  BY Zenon DEF Alone
<1>3. Interfere \/ calm' = FALSE \/ calm' = TRUE => calm' \in BOOLEAN
  BY Zenon DEF Interfere
<1>4. /\ UNCHANGED calm => calm' \in BOOLEAN
      /\ UNCHANGED disturbed => disturbed' \in BOOLEAN
      /\ UNCHANGED doubled => doubled' \in BOOLEAN
  BY Zenon DEF TypeInv, Flags
<1>5. \A p \in Proc : apply_kernel_to_db(p) => Flags'
  BY <1>4, Zenon DEF apply_kernel_to_db, Flags
<1>6. \A p \in Proc : \A l, t, n, e, b : Begin(p, l, t, n, e, b) => Flags'
  BY <1>1, <1>2, <1>4, Zenon DEF Begin, Flags
<1>7. \A p \in Proc : StartPull(p) => disturbed' \in BOOLEAN
  BY <1>1, Zenon DEF StartPull
<1>8. UNCHANGED history => Flags'
  BY <1>4, Zenon DEF history, Flags
<1>9. CASE UNCHANGED vars
  BY <1>8, <1>9, Zenon DEF vars
<1>10. CASE Backup \/ \E t \in Tape : create_tape(t) \/ delete_tape_in_library(t)
  BY <1>1, <1>3, <1>4, <1>10, Zenon DEF Backup, create_tape, delete_tape_in_library, Flags
<1>15. CASE Import
  BY <1>1, <1>3, <1>15, Zenon DEF Import, import_tape, Flags
<1>11. ASSUME NEW p \in Proc, CatalogCommand(p) \/ OfflineImport(p)
       PROVE  Flags'
  BY <1>6, <1>11, Zenon DEF CatalogCommand, assign_tape_to_slot, load_tape, unload_tape,
     eject_tape, shelf_place_tape, OfflineImport, import_offline_tape_to_online_slot
<1>12. ASSUME NEW p \in Proc, Comparison(p)
       PROVE  Flags'
  <2>1. CASE Reconcile(p) \/ FreshInventory(p)
    BY <1>2, <1>4, <1>7, <2>1, Zenon DEF Reconcile, FreshInventory, Flags
  <2>2. CASE reconcile_library(p) \/ auto_align_library(p) \/ ReadInventory(p)
    BY <1>6, <2>2, Zenon DEF reconcile_library, auto_align_library, ReadInventory
  <2>3. CASE FindDrifts(p) \/ mirror_kernel_catalog_hints_only(p)
    BY <1>8, <2>3, Zenon DEF FindDrifts, mirror_kernel_catalog_hints_only
  <2> QED
    BY <1>5, <1>12, <2>1, <2>2, <2>3, Zenon DEF Comparison
<1>13. ASSUME NEW p \in Proc,
              \/ kernel_slot_place(p) \/ LoadCheck(p) \/ LoadPlace(p) \/ LoadMove(p)
              \/ kernel_unload(p) \/ kernel_move_medium(p) \/ Shelve(p) \/ RowGone(p)
       PROVE  Flags'
  BY <1>8, <1>13, Zenon DEF kernel_slot_place, LoadCheck, LoadPlace, LoadMove, kernel_unload,
     kernel_move_medium, Shelve, RowGone
<1>14. ASSUME NEW p \in Proc,
              \/ ReadShelved(p) \/ ListShelved(p) \/ ReadKernel(p) \/ Compare(p)
              \/ Look(p) \/ evacuate_element(p) \/ IoctlFails(p) \/ Crash(p)
       PROVE  Flags'
  <2>1. CASE ListShelved(p) \/ Compare(p) \/ Look(p) \/ evacuate_element(p)
    BY <1>8, <2>1, Zenon DEF ListShelved, Compare, Look, evacuate_element
  <2>2. CASE ReadShelved(p) \/ ReadKernel(p)
    BY <1>2, <1>4, <2>2, Zenon DEF ReadShelved, ReadKernel, Flags
  <2>3. CASE IoctlFails(p)
    BY <1>1, <1>3, <1>4, <2>3, Zenon DEF IoctlFails, Flags
  <2>4. CASE Crash(p)
    BY <1>1, <1>4, <2>4, Zenon DEF Crash, Flags
  <2> QED
    BY <1>14, <2>1, <2>2, <2>3, <2>4
<1> QED
  BY <1>9, <1>10, <1>11, <1>12, <1>13, <1>14, <1>15, Zenon
     DEF Next, CatalogCommand, Import, OfflineImport, Comparison

LEMMA MarkedStep == ASSUME TypeInv, [Next]_vars PROVE Marked'
<1>1. Marked
  BY DEF TypeInv
<1>2. ASSUME UNCHANGED doubled, UNCHANGED disturbed \/ \E b : Disturb(b) PROVE Marked'
  BY <1>1, <1>2 DEF Marked, Disturb
<1>3. UNCHANGED history => Marked'
  BY <1>2 DEF history
<1>4. ASSUME NEW p \in Proc, NEW l, NEW t, NEW n, NEW e, NEW b, Begin(p, l, t, n, e, b)
      PROVE  Marked'
  BY <1>2, <1>4 DEF Begin
<1>5. CASE UNCHANGED vars
  BY <1>3, <1>5 DEF vars
<1>6. CASE Import \/ Backup
  BY <1>6 DEF Import, import_tape, Backup, Disturb, Marked
<1>7. ASSUME NEW t \in Tape, create_tape(t) \/ delete_tape_in_library(t) PROVE Marked'
  BY <1>2, <1>7 DEF create_tape, delete_tape_in_library
<1>8. ASSUME NEW p \in Proc,
             \/ CatalogCommand(p) \/ OfflineImport(p)
             \/ reconcile_library(p) \/ auto_align_library(p) \/ ReadInventory(p)
      PROVE  Marked'
  BY <1>4, <1>8 DEF CatalogCommand, assign_tape_to_slot, load_tape, unload_tape, eject_tape,
     shelf_place_tape, OfflineImport, import_offline_tape_to_online_slot, reconcile_library,
     auto_align_library, ReadInventory
<1>9. ASSUME NEW p \in Proc,
             \/ kernel_slot_place(p) \/ LoadCheck(p) \/ LoadPlace(p) \/ LoadMove(p)
             \/ kernel_unload(p) \/ kernel_move_medium(p) \/ Shelve(p) \/ RowGone(p)
             \/ ListShelved(p) \/ Compare(p) \/ Look(p) \/ evacuate_element(p)
             \/ FindDrifts(p) \/ mirror_kernel_catalog_hints_only(p)
      PROVE  Marked'
  BY <1>3, <1>9 DEF kernel_slot_place, LoadCheck, LoadPlace, LoadMove, kernel_unload,
     kernel_move_medium, Shelve, RowGone, ListShelved, Compare, Look, evacuate_element,
     FindDrifts, mirror_kernel_catalog_hints_only
<1>10. ASSUME NEW p \in Proc,
              \/ ReadShelved(p) \/ ReadKernel(p) \/ Reconcile(p) \/ FreshInventory(p)
              \/ IoctlFails(p) \/ Crash(p)
       PROVE  Marked'
  BY <1>2, <1>10 DEF ReadShelved, ReadKernel, Reconcile, FreshInventory, StartPull,
     IoctlFails, Crash
<1>11. ASSUME NEW p \in Proc, apply_kernel_to_db(p) PROVE Marked'
  BY <1>11 DEF apply_kernel_to_db, Marked
<1> QED
  BY <1>5, <1>6, <1>7, <1>8, <1>9, <1>10, <1>11
     DEF Next, CatalogCommand, Import, OfflineImport

LEMMA TypesStart == Init => TypeInv
<1> SUFFICES ASSUME Init PROVE TypeInv
    OBVIOUS
<1>1. WorkInv
  <2>1. NothingSeen \in [Tape -> Element \cup {NoSlot}] /\ DOMAIN NothingKnown = Tape
        /\ << >> \in Seq(PassName) /\ "idle" \in Label \ Passing /\ "idle" \notin OnTape
    BY DEF NothingSeen, NothingKnown, Label, Passing, OnTape
  <2>2. /\ pc = [p \in Proc |-> "idle"] /\ job = [p \in Proc |-> NoJob]
        /\ plan = [p \in Proc |-> << >>] /\ todo = [p \in Proc |-> {}]
        /\ seen = [p \in Proc |-> NothingSeen] /\ known = [p \in Proc |-> NothingKnown]
    BY DEF Init
  <2> QED
    BY <2>1, <2>2, NoJobTyped DEF WorkInv, Passing
<1>2. TableTypes
  BY RowsStart, CatalogAssumption DEF Init, TableTypes
<1>3. Changer
  BY DEF Init, Robot!Init, Changer, Content, Code, Element, Slot, Drive, Mailslot,
     Robot!Element, Robot!Slot, Robot!Drive, Robot!Mailslot
<1>4. Flags /\ Marked
  BY DEF Init, Flags, Marked
<1> QED
  BY <1>1, <1>2, <1>3, <1>4 DEF TypeInv

LEMMA TypesStep == TypeInv /\ [Next]_vars => TypeInv'
BY WorkStep, TablesStep, ChangerStep, FlagsStep, MarkedStep DEF TypeInv

LEMMA TypesHold == TypeInv => TypeOK
BY DEF TypeInv, WorkInv, TableTypes, Changer, Flags, RowInv, RowTypes, TypeOK, Job

\* The rows, hints and inventories of any number of processes are well typed, a
\* plan is a sequence of passes, and every evacuation names an element of the
\* changer, taken from a snapshot.
THEOREM TypeCorrect == Spec => []TypeOK
<1>1. Init => TypeInv
  BY TypesStart
<1>2. TypeInv /\ [Next]_vars => TypeInv'
  BY TypesStep
<1>3. TypeInv => TypeOK
  BY TypesHold
<1> QED
  BY <1>1, <1>2, <1>3, PTL DEF Spec

-----------------------------------------------------------------------------
(* Passes that nobody interferes with                                      *)

\* As long as nobody has interfered one process works at a time.
Solo == calm => \A p, q \in Proc : pc[p] # "idle" /\ pc[q] # "idle" => p = q

\* Nothing in the changer that the running pass should take out is forgotten.
Complete(p) ==
    /\ ForShelved(p) => \A t \in tapes : shelf[t] /\ Holding(t) # {} => t \in todo[p]
    /\ ForStrays(p) => \A t \in Tape : Holding(t) # {} /\ Rows(t) = {} => t \in todo[p]

\* What process p has read is still so.
Read(p) ==
    /\ pc[p] = "list" => ForShelved(p) /\ todo[p] = {t \in tapes : shelf[t]}
    /\ pc[p] = "compare" => ForStrays(p)
    /\ pc[p] \in {"compare", "pull"} => SnapshotOK /\ seen[p] = Snapshot
    /\ pc[p] \in {"look", "remove"} =>
          /\ Head(plan[p]) = "single" \/ ForShelved(p) \/ ForStrays(p)
          /\ Head(plan[p]) # "single" => SnapshotOK
          /\ \A t \in todo[p] : Rows(t) = {} \/ shelf[t]
          /\ Complete(p)
    /\ pc[p] = "remove" => job[p].tape \in todo[p] /\ store[job[p].elem] = job[p].tape

CalmInv == Solo /\ (calm => \A p \in Proc : Read(p))

\* What the ioctls of evacuation do when they find what they look for.
LEMMA RemoveEmpties ==
    ASSUME Changer, NEW e \in Element, NEW u \in Tape, store[e] = u, SnapshotOK, Robot!Remove(e)
    PROVE  /\ SnapshotOK'
           /\ Holding(u)' = {}
           /\ \A t \in Tape \ {u} : Holding(t)' = Holding(t)
<1>1. Robot!Valid(e) /\ store[e] # NoTape
  BY AddressesOfElements, ElementAssumption DEF Changer
<1>2. store' = [store EXCEPT ![e] = NoTape]
  BY <1>1 DEF Robot!Remove
<1>3. \A x \in Element : store'[x] = IF x = e THEN NoTape ELSE store[x]
  BY <1>2 DEF Changer
<1>4. \A t \in Tape : \A x : x \in Holding(t)' <=> x \in Holding(t) /\ x # e
  BY <1>3, ElementAssumption DEF Holding
<1>5. \A x \in Holding(u) : x = e
  BY DEF SnapshotOK, Holding
<1>6. \A t \in Tape \ {u} : e \notin Holding(t)
  BY DEF Holding
<1>7. SnapshotOK'
  BY <1>4 DEF SnapshotOK
<1> QED
  BY <1>4, <1>5, <1>6, <1>7

LEMMA Found ==
    ASSUME SnapshotOK, NEW t \in Tape
    PROVE  /\ Snapshot[t] = NoSlot <=> Holding(t) = {}
           /\ Holding(t) # {} => Holding(t) = {Snapshot[t]}
<1>1. CASE Holding(t) = {}
  BY <1>1 DEF Snapshot
<1>2. CASE Holding(t) # {}
  <2>1. (CHOOSE e \in Holding(t) : TRUE) \in Holding(t)
    BY <1>2
  <2>2. Snapshot[t] \in Holding(t)
    BY <1>2, <2>1, Zenon DEF Snapshot
  <2>3. Snapshot[t] # NoSlot
    BY <2>2, ElementAssumption, CatalogAssumption DEF Holding, Element, Slot, Drive, Mailslot
  <2> QED
    BY <1>2, <2>2, <2>3 DEF SnapshotOK
<1> QED
  BY <1>1, <1>2

\* The parts of the state that a process' own part of CalmInv is about.
LEMMA SameRead ==
    ASSUME NEW p \in Proc, Read(p),
           pc'[p] = pc[p], plan'[p] = plan[p], todo'[p] = todo[p], seen'[p] = seen[p],
           job'[p] = job[p], UNCHANGED <<tables, store>>
    PROVE  Read(p)'
<1>1. UNCHANGED <<tapes, shelf, slots, drives>>
  BY DEF tables
<1>2. ForShelved(p)' = ForShelved(p) /\ ForStrays(p)' = ForStrays(p)
  BY DEF ForShelved, ForStrays
<1>3. Snapshot' = Snapshot /\ SnapshotOK' = SnapshotOK
      /\ \A t : Holding(t)' = Holding(t) /\ Rows(t)' = Rows(t)
  BY <1>1 DEF Snapshot, SnapshotOK, Holding, Rows
<1> QED
  BY <1>1, <1>2, <1>3 DEF Read, Complete

\* A process that is in none of the steps Read is about.
LEMMA NothingRead ==
    ASSUME NEW p \in Proc, pc'[p] \notin {"list", "compare", "look", "remove", "pull"}
    PROVE  Read(p)'
BY DEF Read

LEMMA OneWorks ==
    ASSUME CalmInv, calm, NEW p \in Proc, pc[p] # "idle", NEW q \in Proc \ {p}
    PROVE  pc[q] = "idle"
BY DEF CalmInv, Solo

\* A step of the only process that works, the others being idle.
LEMMA CalmStep ==
    ASSUME TypeInv, CalmInv, NEW p \in Proc,
           \A q \in Proc \ {p} : pc'[q] = pc[q],
           calm' => \A q \in Proc \ {p} : pc[q] = "idle",
           calm' => Read(p)'
    PROVE  CalmInv'
<1>1. Solo'
  BY DEF Solo
<1>2. ASSUME calm', NEW q \in Proc PROVE Read(q)'
  BY <1>2, NothingRead
<1> QED
  BY <1>1, <1>2 DEF CalmInv

\* A command begins, or ends, or fails.
LEMMA CalmBegin ==
    ASSUME TypeInv, CalmInv, NEW p \in Proc, NEW l, NEW t, NEW n, NEW e, NEW b,
           Begin(p, l, t, n, e, b), l \notin {"list", "compare", "look", "remove"},
           l = "pull" => SnapshotOK /\ seen' = [seen EXCEPT ![p] = Snapshot] /\ UNCHANGED store
    PROVE  CalmInv'
<1>1. pc' = [pc EXCEPT ![p] = l] /\ calm' = Alone(p)
  BY DEF Begin, Goto
<1>2. \A q \in Proc : pc'[q] = IF q = p THEN l ELSE pc[q]
  BY <1>1 DEF TypeInv, WorkInv
<1>3. \A q \in Proc \ {p} : calm' => pc[q] = "idle"
  BY <1>1 DEF Alone
<1>4. Read(p)'
  <2>1. CASE l # "pull"
    BY <1>2, <2>1, NothingRead
  <2>2. CASE l = "pull"
    <3>1. SnapshotOK' /\ Snapshot' = Snapshot
      BY <2>2 DEF SnapshotOK, Snapshot, Holding
    <3>2. seen'[p] = Snapshot
      BY <2>2 DEF TypeInv, WorkInv
    <3> QED
      BY <1>2, <2>2, <3>1, <3>2 DEF Read
  <2> QED
    BY <2>1, <2>2
<1> QED
  BY <1>2, <1>3, <1>4, CalmStep

LEMMA CalmQuiet ==
    ASSUME TypeInv, CalmInv, NEW p \in Proc, pc[p] # "idle",
           \A q \in Proc \ {p} : pc'[q] = pc[q], calm' => calm \/ Alone(p),
           pc'[p] \notin {"list", "compare", "look", "remove", "pull"}
    PROVE  CalmInv'
<1>1. ASSUME calm', NEW q \in Proc \ {p} PROVE pc[q] = "idle"
  BY <1>1, OneWorks DEF Alone
<1> QED
  BY <1>1, NothingRead, CalmStep

LEMMA GotoOne ==
    ASSUME WorkInv, NEW p \in Proc, NEW l, Goto(p, l)
    PROVE  pc'[p] = l /\ \A q \in Proc \ {p} : pc'[q] = pc[q]
BY DEF WorkInv, Goto

LEMMA EndsIdle ==
    ASSUME WorkInv, NEW p \in Proc, End(p)
    PROVE  pc'[p] = "idle" /\ \A q \in Proc \ {p} : pc'[q] = pc[q]
BY GotoOne DEF End

LEMMA NextPassGoes ==
    ASSUME WorkInv, NEW p \in Proc, NextPass(p) \/ PassFails(p) \/ Align(p)
    PROVE  pc'[p] \in {"idle", "pass"} /\ \A q \in Proc \ {p} : pc'[q] = pc[q]
BY GotoOne, EndsIdle DEF NextPass, PassFails, Align

\* The commands of the catalogue begin and go on.
LEMMA CalmCommands ==
    ASSUME TypeInv, CalmInv, NEW p \in Proc,
           \/ CatalogCommand(p) \/ OfflineImport(p) \/ kernel_slot_place(p) \/ LoadCheck(p)
           \/ LoadPlace(p) \/ LoadMove(p) \/ kernel_unload(p) \/ kernel_move_medium(p)
           \/ RowGone(p)
    PROVE  CalmInv'
<1> USE DEF TypeInv
<1>1. CASE CatalogCommand(p) \/ OfflineImport(p)
  BY <1>1, CalmBegin DEF CatalogCommand, assign_tape_to_slot, load_tape, unload_tape,
     eject_tape,
     shelf_place_tape, OfflineImport, import_offline_tape_to_online_slot
<1>2. ASSUME pc[p] # "idle", UNCHANGED history,
             \/ Align(p) \/ Goto(p, "move") \/ Goto(p, "place") \/ End(p)
      PROVE  CalmInv'
  <2>1. pc'[p] \notin {"list", "compare", "look", "remove", "pull"}
        /\ \A q \in Proc \ {p} : pc'[q] = pc[q]
    BY <1>2, NextPassGoes, EndsIdle, GotoOne
  <2> QED
    BY <1>2, <2>1, CalmQuiet DEF history
<1>3. CASE kernel_slot_place(p) \/ LoadCheck(p) \/ LoadPlace(p) \/ LoadMove(p)
           \/ kernel_unload(p) \/ kernel_move_medium(p) \/ RowGone(p)
  BY <1>2, <1>3 DEF kernel_slot_place, LoadCheck, LoadPlace, LoadMove, kernel_unload,
     kernel_move_medium, RowGone
<1> QED
  BY <1>1, <1>3

LEMMA SingleFirst == Head(<<"single">> \o AfterOp) = "single"
<1> DEFINE one == <<"single">>
<1>1. one \in Seq(PassName) /\ Len(one) = 1 /\ one[1] = "single"
  BY DEF PassName
<1>2. AfterOp \in Seq(PassName)
  BY AfterOpPlan
<1>3. Len(AfterOp) \in Nat
  BY <1>2, LenProperties
<1> HIDE DEF one
<1>4. one \o AfterOp \in Seq(PassName)
      /\ \A i \in 1 .. Len(one) + Len(AfterOp) :
            (one \o AfterOp)[i] = IF i <= Len(one) THEN one[i] ELSE AfterOp[i - Len(one)]
  BY <1>1, <1>2, ConcatProperties
<1>5. (one \o AfterOp)[1] = "single"
  BY <1>1, <1>3, <1>4
<1>6. \A s \in Seq(PassName) : Head(s) = s[1]
  OBVIOUS
<1> QED
  BY <1>4, <1>5, <1>6 DEF one

\* Shelving puts the tape on a shelf and starts with its evacuation.
LEMMA CalmShelve ==
    ASSUME TypeInv, CalmInv, NEW p \in Proc, Shelve(p)
    PROVE  CalmInv'
<1>1. /\ pc[p] = "shelve" /\ pc' = [pc EXCEPT ![p] = "look"]
      /\ shelf' = [shelf EXCEPT ![job[p].tape] = TRUE]
      /\ plan' = [plan EXCEPT ![p] = <<"single">> \o AfterOp]
      /\ todo' = [todo EXCEPT ![p] = {job[p].tape}]
      /\ UNCHANGED calm
  BY DEF Shelve, Goto, history
<1>2. job[p].tape \in Tape
  BY <1>1 DEF TypeInv, WorkInv, OnTape
<1>3. pc'[p] = "look" /\ (\A q \in Proc \ {p} : pc'[q] = pc[q])
      /\ todo'[p] = {job[p].tape} /\ plan'[p] = <<"single">> \o AfterOp
  BY <1>1 DEF TypeInv, WorkInv
<1>4. Head(plan'[p]) = "single"
  BY <1>3, SingleFirst
<1>5. shelf'[job[p].tape] = TRUE
  BY <1>1, <1>2 DEF TypeInv, TableTypes, RowInv, RowTypes
<1>6. Read(p)'
  BY <1>3, <1>4, <1>5 DEF Read, Complete, ForShelved, ForStrays
<1>7. ASSUME calm' PROVE \A q \in Proc \ {p} : pc[q] = "idle"
  BY <1>1, <1>7, OneWorks
<1> QED
  BY <1>3, <1>6, <1>7, CalmStep

\* What a pass reads holds as long as nobody interferes.
LEMMA CalmPasses ==
    ASSUME TypeInv, CalmInv, NEW p \in Proc,
           ReadShelved(p) \/ ListShelved(p) \/ ReadKernel(p) \/ Compare(p)
    PROVE  CalmInv'
<1>1. WorkInv /\ pc[p] # "idle"
  BY DEF TypeInv, ReadShelved, ListShelved, ReadKernel, Compare
<1>2. ASSUME PassFails(p), calm' => calm \/ Alone(p)
      PROVE  CalmInv'
  BY <1>1, <1>2, NextPassGoes, CalmQuiet
<1>3. ASSUME calm' => calm \/ Alone(p), NEW l, Goto(p, l), calm' => Read(p)'
      PROVE  CalmInv'
  <2>1. \A q \in Proc \ {p} : pc'[q] = pc[q]
    BY <1>1, <1>3, GotoOne
  <2>2. ASSUME calm', NEW q \in Proc \ {p} PROVE pc[q] = "idle"
    BY <1>1, <1>3, <2>2, OneWorks DEF Alone
  <2> QED
    BY <1>3, <2>1, <2>2, CalmStep
<1>4. CASE ReadShelved(p)
  <2>1. /\ Goto(p, "list") /\ calm' = Alone(p) /\ UNCHANGED <<tables, plan>> /\ ForShelved(p)
        /\ todo'[p] = {t \in tapes : shelf[t]} /\ pc'[p] = "list"
    BY <1>1, <1>4, GotoOne DEF ReadShelved, WorkInv
  <2>2. Read(p)'
    BY <2>1 DEF Read, ForShelved, tables
  <2> QED
    BY <1>3, <2>1, <2>2
<1>5. CASE ListShelved(p)
  <2>1. CASE ~SnapshotOK
    BY <1>2, <1>5, <2>1 DEF ListShelved, history
  <2>2. CASE SnapshotOK
    <3>1. /\ Goto(p, "look") /\ UNCHANGED <<calm, tables, plan, store>>
          /\ todo'[p] = {t \in todo[p] : Snapshot[t] # NoSlot} /\ pc'[p] = "look"
          /\ pc[p] = "list"
      BY <1>1, <1>5, <2>2, GotoOne DEF ListShelved, WorkInv, Answered, history
    <3>2. SnapshotOK' /\ (\A t : Holding(t)' = Holding(t)) /\ UNCHANGED <<tapes, shelf>>
      BY <2>2, <3>1 DEF SnapshotOK, Holding, tables
    <3>3. tapes \subseteq Tape
      BY DEF TypeInv, TableTypes, RowInv, RowTypes
    <3>4. ASSUME calm PROVE Read(p)'
      <4>1. ForShelved(p) /\ todo[p] = {t \in tapes : shelf[t]}
        BY <3>1, <3>4 DEF CalmInv, Read
      <4>2. ForShelved(p)' /\ ~ForStrays(p)'
        BY <3>1, <4>1 DEF ForShelved, ForStrays
      <4>3. \A t \in todo'[p] : shelf'[t]
        BY <3>1, <3>2, <4>1
      <4>4. \A t \in tapes' : shelf'[t] /\ Holding(t)' # {} => t \in todo'[p]
        BY <2>2, <3>1, <3>2, <3>3, <4>1, Found
      <4> QED
        BY <3>1, <3>2, <4>2, <4>3, <4>4 DEF Read, Complete
    <3> QED
      BY <1>3, <3>1, <3>4
  <2> QED
    BY <2>1, <2>2
<1>6. CASE ReadKernel(p)
  <2>1. CASE ~SnapshotOK
    BY <1>2, <1>6, <2>1 DEF ReadKernel
  <2>2. CASE SnapshotOK
    <3>1. /\ Goto(p, "compare") /\ calm' = Alone(p) /\ UNCHANGED <<plan, store>>
          /\ seen'[p] = Snapshot /\ pc'[p] = "compare" /\ ForStrays(p)
      BY <1>1, <1>6, <2>2, GotoOne DEF ReadKernel, WorkInv, Answered
    <3>2. SnapshotOK' /\ Snapshot' = Snapshot
      BY <2>2, <3>1 DEF SnapshotOK, Snapshot, Holding
    <3>3. Read(p)'
      BY <3>1, <3>2 DEF Read, ForStrays
    <3> QED
      BY <1>3, <3>1, <3>3
  <2> QED
    BY <2>1, <2>2
<1>7. CASE Compare(p)
  <2>1. CASE ~DbInventoryOK
    BY <1>2, <1>7, <2>1 DEF Compare, history
  <2>2. CASE DbInventoryOK
    <3>1. /\ Goto(p, "look") /\ UNCHANGED <<calm, tables, plan, store>>
          /\ todo'[p] = {t \in Tape : seen[p][t] # NoSlot /\ Rows(t) = {}} /\ pc'[p] = "look"
          /\ pc[p] = "compare"
      BY <1>1, <1>7, <2>2, GotoOne DEF Compare, WorkInv, history, robot
    <3>2. \A t : Holding(t)' = Holding(t) /\ Rows(t)' = Rows(t)
      BY <3>1 DEF Holding, Rows, tables
    <3>3. ASSUME calm PROVE Read(p)'
      <4>1. ForStrays(p) /\ SnapshotOK /\ seen[p] = Snapshot
        BY <3>1, <3>3 DEF CalmInv, Read
      <4>2. ~ForShelved(p)' /\ ForStrays(p)' /\ SnapshotOK'
        BY <3>1, <3>2, <4>1 DEF ForShelved, ForStrays, SnapshotOK
      <4>3. \A t \in todo'[p] : Rows(t)' = {}
        BY <3>1, <3>2
      <4>4. \A t \in Tape : Holding(t)' # {} /\ Rows(t)' = {} => t \in todo'[p]
        BY <3>1, <3>2, <4>1, Found
      <4> QED
        BY <3>1, <4>2, <4>3, <4>4 DEF Read, Complete
    <3> QED
      BY <1>3, <3>1, <3>3
  <2> QED
    BY <2>1, <2>2
<1> QED
  BY <1>4, <1>5, <1>6, <1>7

LEMMA SameRows ==
    ASSUME UNCHANGED tables
    PROVE  \A t : Rows(t)' = Rows(t)
BY DEF tables, Rows

LEMMA CountHead ==
    ASSUME WorkInv, NEW p \in Proc, plan[p] # << >>, Count(p), Head(plan[p]) # "drifts"
    PROVE  Head(plan'[p]) = Head(plan[p])
<1>1. PICK s \in Seq(PassName) : s = plan[p]
  BY DEF WorkInv
<1>2. plan'[p] = [i \in DOMAIN s |-> IF s[i] = "drifts" THEN "drifts again" ELSE s[i]]
  BY <1>1 DEF Count, WorkInv
<1>3. plan'[p] \in Seq(PassName)
  BY CountPlan
<1>4. 1 \in DOMAIN s /\ \A x \in Seq(PassName) : Head(x) = x[1]
  BY <1>1
<1>5. plan'[p][1] = IF s[1] = "drifts" THEN "drifts again" ELSE s[1]
  BY <1>2, <1>4
<1> QED
  BY <1>1, <1>3, <1>4, <1>5

\* One tape less to evacuate, or one tape chosen.
LEMMA CalmLook ==
    ASSUME TypeInv, CalmInv, NEW p \in Proc, Look(p)
    PROVE  CalmInv'
<1>1. WorkInv /\ pc[p] = "look" /\ UNCHANGED <<tables, calm>> /\ plan[p] # << >>
  BY DEF TypeInv, WorkInv, Passing, Look, history
<1>2. CASE todo[p] = {} /\ NextPass(p)
  BY <1>1, <1>2, NextPassGoes, CalmQuiet
<1>3. ASSUME NEW t \in todo[p], Answered,
             IF SnapshotOK /\ Snapshot[t] # NoSlot
             THEN /\ Goto(p, "remove")
                  /\ job' = [job EXCEPT ![p].tape = t, ![p].elem = Snapshot[t]]
                  /\ UNCHANGED work
             ELSE /\ todo' = [todo EXCEPT ![p] = @ \ {t}]
                  /\ IF SnapshotOK THEN Count(p) ELSE UNCHANGED plan
                  /\ UNCHANGED <<pc, job, seen, known>>
      PROVE  CalmInv'
  <2>1. t \in Tape /\ \A q \in Proc \ {p} : pc'[q] = pc[q]
    BY <1>1, <1>3, GotoOne DEF WorkInv
  <2>2. UNCHANGED store /\ (SnapshotOK <=> SnapshotOK')
        /\ (\A u : Holding(u)' = Holding(u) /\ Rows(u)' = Rows(u)) /\ UNCHANGED <<tapes, shelf>>
    BY <1>1, <1>3, SameRows DEF Answered, SnapshotOK, Holding, tables
  <2>3. ASSUME calm PROVE \A q \in Proc \ {p} : pc[q] = "idle"
    BY <1>1, <2>3, OneWorks
  <2>4. ASSUME calm
        PROVE  /\ Head(plan[p]) = "single" \/ ForShelved(p) \/ ForStrays(p)
               /\ Head(plan[p]) # "single" => SnapshotOK
               /\ \A u \in todo[p] : Rows(u) = {} \/ shelf[u]
               /\ Complete(p)
    BY <1>1, <2>4 DEF CalmInv, Read
  <2>5. CASE SnapshotOK /\ Snapshot[t] # NoSlot
    <3>1. /\ pc'[p] = "remove" /\ job'[p].tape = t /\ job'[p].elem = Snapshot[t]
          /\ UNCHANGED <<plan, todo>>
      <4>1. pc'[p] = "remove" /\ UNCHANGED <<plan, todo>>
        BY <1>1, <1>3, <2>5, GotoOne DEF work
      <4>2. job' = [job EXCEPT ![p].tape = t, ![p].elem = Snapshot[t]]
        BY <1>3, <2>5
      <4>3. job \in [Proc -> Job]
        BY <1>1 DEF WorkInv
      <4> QED
        BY <4>1, <4>2, <4>3 DEF Job
    <3>2. store[Snapshot[t]] = t
      BY <2>1, <2>5, SnapshotTyped
    <3>3. calm => Read(p)'
      BY <2>2, <2>4, <3>1, <3>2 DEF Read, Complete, ForShelved, ForStrays
    <3> QED
      BY <1>1, <2>1, <2>3, <3>3, CalmStep
  <2>6. CASE ~(SnapshotOK /\ Snapshot[t] # NoSlot)
    <3>1. /\ pc'[p] = "look" /\ todo'[p] = todo[p] \ {t}
          /\ (SnapshotOK /\ Count(p)) \/ (~SnapshotOK /\ UNCHANGED plan)
      BY <1>1, <1>3, <2>6 DEF WorkInv
    <3>2. ASSUME calm PROVE Head(plan'[p]) = Head(plan[p])
      BY <1>1, <2>4, <3>1, <3>2, CountHead DEF ForShelved, ForStrays
    <3>3. SnapshotOK => Holding(t) = {}
      BY <2>1, <2>6, Found
    <3>4. ASSUME calm PROVE Read(p)'
      BY <2>2, <2>4, <3>1, <3>2, <3>3, <3>4 DEF Read, Complete, ForShelved, ForStrays
    <3> QED
      BY <1>1, <2>1, <2>3, <3>4, CalmStep
  <2> QED
    BY <2>5, <2>6
<1> QED
  BY <1>2, <1>3 DEF Look

\* The element chosen is emptied, of the tape that was in it.
LEMMA CalmEvacuation ==
    ASSUME TypeInv, CalmInv, NEW p \in Proc, evacuate_element(p)
    PROVE  CalmInv'
<1>1. /\ WorkInv /\ pc[p] = "remove" /\ UNCHANGED <<tables, calm>> /\ plan[p] # << >>
      /\ pc'[p] = "look" /\ (\A q \in Proc \ {p} : pc'[q] = pc[q])
      /\ todo'[p] = todo[p] \ {job[p].tape} /\ Count(p) /\ Robot!Remove(job[p].elem)
  BY GotoOne DEF TypeInv, WorkInv, Passing, evacuate_element, history
<1>2. job[p].elem \in Element /\ job[p].tape \in Tape
  BY <1>1 DEF WorkInv, OnTape
<1>3. ASSUME calm PROVE \A q \in Proc \ {p} : pc[q] = "idle"
  BY <1>1, <1>3, OneWorks
<1>4. ASSUME calm PROVE Read(p)'
  <2>1. /\ Head(plan[p]) = "single" \/ ForShelved(p) \/ ForStrays(p)
        /\ Head(plan[p]) # "single" => SnapshotOK
        /\ \A u \in todo[p] : Rows(u) = {} \/ shelf[u]
        /\ Complete(p) /\ store[job[p].elem] = job[p].tape
    BY <1>1, <1>4 DEF CalmInv, Read
  <2>2. Head(plan'[p]) = Head(plan[p])
    BY <1>1, <2>1, CountHead DEF ForShelved, ForStrays
  <2>3. (\A u : Rows(u)' = Rows(u)) /\ UNCHANGED <<tapes, shelf>> /\ tapes \subseteq Tape
    BY <1>1, SameRows DEF tables, TypeInv, TableTypes, RowInv, RowTypes
  <2>4. ASSUME SnapshotOK
        PROVE  /\ SnapshotOK'
               /\ Holding(job[p].tape)' = {} \/ TRUE
               /\ \A u \in Tape : Holding(u)' # {} => Holding(u) # {} /\ u # job[p].tape
    <3>1. PICK e \in Element, u \in Tape : e = job[p].elem /\ u = job[p].tape
      BY <1>2
    <3>2. /\ SnapshotOK' /\ Holding(u)' = {}
          /\ \A t \in Tape \ {u} : Holding(t)' = Holding(t)
      BY <1>1, <2>1, <2>4, <3>1, RemoveEmpties DEF TypeInv
    <3> QED
      BY <3>1, <3>2
  <2> QED
    BY <1>1, <2>1, <2>2, <2>3, <2>4 DEF Read, Complete, ForShelved, ForStrays
<1> QED
  BY <1>1, <1>3, <1>4, CalmStep

LEMMA CalmComparisons ==
    ASSUME TypeInv, CalmInv, NEW p \in Proc, Comparison(p)
    PROVE  CalmInv'
<1>1. WorkInv
  BY DEF TypeInv
<1>2. ASSUME pc[p] # "idle", End(p), calm' => calm \/ Alone(p) PROVE CalmInv'
  BY <1>1, <1>2, EndsIdle, CalmQuiet
<1>3. ASSUME pc[p] # "idle", StartPull(p), SnapshotOK, UNCHANGED store,
             calm' => calm \/ Alone(p)
      PROVE  CalmInv'
  <2>1. pc'[p] = "pull" /\ seen'[p] = Snapshot /\ \A q \in Proc \ {p} : pc'[q] = pc[q]
    BY <1>1, <1>3, GotoOne DEF StartPull, WorkInv
  <2>2. SnapshotOK' /\ Snapshot' = Snapshot
    BY <1>3 DEF SnapshotOK, Snapshot, Holding
  <2>3. Read(p)'
    BY <2>1, <2>2 DEF Read
  <2>4. ASSUME calm', NEW q \in Proc \ {p} PROVE pc[q] = "idle"
    BY <1>3, <2>4, OneWorks DEF Alone
  <2> QED
    BY <2>1, <2>3, <2>4, CalmStep
<1>4. CASE apply_kernel_to_db(p) \/ mirror_kernel_catalog_hints_only(p)
  BY <1>2, <1>4 DEF apply_kernel_to_db, mirror_kernel_catalog_hints_only, history
<1>5. CASE reconcile_library(p) \/ auto_align_library(p)
  BY <1>5, CalmBegin DEF reconcile_library, auto_align_library
<1>6. CASE ReadInventory(p)
  BY <1>6, CalmBegin DEF ReadInventory, Answered
<1>7. CASE Reconcile(p)
  BY <1>2, <1>3, <1>7 DEF Reconcile, Answered
<1>8. CASE FreshInventory(p)
  BY <1>2, <1>3, <1>8 DEF FreshInventory, Answered
<1>9. CASE FindDrifts(p)
  <2>1. CASE Goto(p, "fresh")
    <3>1. pc'[p] = "fresh" /\ \A q \in Proc \ {p} : pc'[q] = pc[q]
      BY <1>1, <2>1, GotoOne
    <3> QED
      BY <1>9, <3>1, CalmQuiet DEF FindDrifts, history
  <2> QED
    BY <1>2, <1>9, <2>1 DEF FindDrifts, history
<1> QED
  BY <1>4, <1>5, <1>6, <1>7, <1>8, <1>9 DEF Comparison

\* Others interfere, and nothing is promised of the pass that was running.
LEMMA CalmOthers ==
    ASSUME TypeInv, CalmInv,
           Backup \/ Import \/ \E t \in Tape : create_tape(t) \/ delete_tape_in_library(t)
    PROVE  CalmInv'
<1>1. Interfere /\ UNCHANGED pc
  BY DEF Backup, Import, import_tape, create_tape, delete_tape_in_library
<1>2. calm' => \A q \in Proc : pc'[q] = "idle"
  BY <1>1 DEF Interfere
<1> QED
  BY <1>2 DEF CalmInv, Solo, Read

LEMMA CalmFailures ==
    ASSUME TypeInv, CalmInv, NEW p \in Proc, IoctlFails(p) \/ Crash(p)
    PROVE  CalmInv'
<1>1. CASE IoctlFails(p)
  BY <1>1 DEF IoctlFails, CalmInv, Solo
<1>2. CASE Crash(p)
  BY <1>2, EndsIdle, CalmQuiet DEF Crash, TypeInv
<1> QED
  BY <1>1, <1>2

LEMMA CalmUnchanged == ASSUME CalmInv, UNCHANGED vars PROVE CalmInv'
<1>1. \A p \in Proc : Read(p) => Read(p)'
  BY SameRead DEF vars, robot, work
<1> QED
  BY <1>1 DEF CalmInv, Solo, vars, history

LEMMA CalmStart == Init => CalmInv
BY DEF Init, CalmInv, Solo, Read

LEMMA CalmKept == ASSUME TypeInv, CalmInv, [Next]_vars PROVE CalmInv'
<1>1. ASSUME NEW p \in Proc,
             \/ CatalogCommand(p) \/ OfflineImport(p) \/ kernel_slot_place(p) \/ LoadCheck(p)
             \/ LoadPlace(p) \/ LoadMove(p) \/ kernel_unload(p) \/ kernel_move_medium(p)
             \/ RowGone(p) \/ Shelve(p)
      PROVE  CalmInv'
  BY <1>1, CalmCommands, CalmShelve
<1>2. ASSUME NEW p \in Proc,
             \/ ReadShelved(p) \/ ListShelved(p) \/ ReadKernel(p) \/ Compare(p)
             \/ Look(p) \/ evacuate_element(p) \/ Comparison(p) \/ IoctlFails(p) \/ Crash(p)
      PROVE  CalmInv'
  BY <1>2, CalmPasses, CalmLook, CalmEvacuation, CalmComparisons, CalmFailures
<1> QED
  BY <1>1, <1>2, CalmOthers, CalmUnchanged DEF Next, CatalogCommand, Import, OfflineImport,
     Comparison

\* At the end of a pass that nobody interfered with, no shelved tape is in the
\* changer, or none without a row, however far the two sides were apart.
THEOREM PassesEndClean == Spec => []PassesClean
<1>1. Init => TypeInv /\ CalmInv
  BY TypesStart, CalmStart
<1>2. TypeInv /\ CalmInv /\ [Next]_vars => (TypeInv /\ CalmInv)'
  BY TypesStep, CalmKept
<1>3. TypeInv /\ CalmInv => PassesClean
  <2> SUFFICES ASSUME TypeInv, CalmInv, NEW p \in Proc,
                      pc[p] = "look", todo[p] = {}, Head(plan[p]) # "single", calm
               PROVE  IF ForShelved(p)
                      THEN \A t \in tapes : shelf[t] => Holding(t) = {}
                      ELSE \A t \in Tape : Holding(t) # {} => Rows(t) # {}
    BY DEF PassesClean
  <2> QED
    BY DEF CalmInv, Read, Complete
<1> QED
  BY <1>1, <1>2, <1>3, PTL DEF Spec

\* Only these steps of processes touch the changer, and one of them ends a removal.
LEMMA RemovalsAre ==
    ASSUME TypeInv, [Next]_vars, NEW p \in Proc, pc[p] = "remove", pc'[p] = "look",
           store' # store
    PROVE  evacuate_element(p)
<1>1. \/ Backup
      \/ \E q \in Proc : \/ kernel_slot_place(q) \/ LoadPlace(q) \/ LoadMove(q)
                         \/ kernel_unload(q) \/ kernel_move_medium(q) \/ evacuate_element(q)
  <2>1. ASSUME NEW q \in Proc,
               \/ LoadCheck(q) \/ ListShelved(q) \/ ReadKernel(q) \/ Look(q)
               \/ ReadInventory(q) \/ Reconcile(q) \/ FindDrifts(q) \/ FreshInventory(q)
        PROVE  UNCHANGED store
    BY <2>1 DEF LoadCheck, ListShelved, ReadKernel, Look, ReadInventory, Reconcile,
       FindDrifts, FreshInventory, Answered, robot
  <2>2. ASSUME NEW q \in Proc,
               \/ CatalogCommand(q) \/ Shelve(q) \/ RowGone(q) \/ ReadShelved(q) \/ Compare(q)
               \/ reconcile_library(q) \/ auto_align_library(q) \/ apply_kernel_to_db(q)
               \/ mirror_kernel_catalog_hints_only(q) \/ IoctlFails(q) \/ Crash(q)
               \/ OfflineImport(q)
        PROVE  UNCHANGED store
    BY <2>2 DEF OfflineImport, import_offline_tape_to_online_slot, CatalogCommand,
       assign_tape_to_slot, load_tape, unload_tape, eject_tape,
       shelf_place_tape, Shelve, RowGone, ReadShelved, Compare, reconcile_library,
       auto_align_library, apply_kernel_to_db, mirror_kernel_catalog_hints_only, IoctlFails,
       Crash, robot
  <2>3. CASE UNCHANGED vars \/ Import \/ \E t \in Tape : create_tape(t) \/ delete_tape_in_library(t)
    BY <2>3 DEF vars, Import, import_tape, create_tape, delete_tape_in_library, robot
  <2> QED
    BY <2>1, <2>2, <2>3 DEF Next, CatalogCommand, Import, OfflineImport
<1>2. ~Backup
  BY DEF Backup
<1>3. ASSUME NEW q \in Proc,
             \/ kernel_slot_place(q) \/ LoadPlace(q) \/ LoadMove(q)
             \/ kernel_unload(q) \/ kernel_move_medium(q)
      PROVE  FALSE
  <2>1. Align(q) \/ End(q) \/ Goto(q, "move")
    BY <1>3 DEF kernel_slot_place, LoadPlace, LoadMove, kernel_unload, kernel_move_medium
  <2>2. pc'[q] # "look" /\ \A r \in Proc \ {q} : pc'[r] = pc[r]
    BY <2>1, NextPassGoes, EndsIdle, GotoOne DEF TypeInv
  <2> QED
    BY <2>2
<1>4. ASSUME NEW q \in Proc \ {p}, evacuate_element(q) PROVE FALSE
  BY <1>4, GotoOne DEF TypeInv, evacuate_element
<1> QED
  BY <1>1, <1>2, <1>3, <1>4

\* An evacuation that nobody interferes with takes out only what the catalogue
\* has on a shelf or not at all.
THEOREM EvacuatesOnlyStrays == Spec => EvacuatesOnlyOut
<1>1. Init => TypeInv /\ CalmInv
  BY TypesStart, CalmStart
<1>2. TypeInv /\ CalmInv /\ [Next]_vars => (TypeInv /\ CalmInv)'
  BY TypesStep, CalmKept
<1>3. ASSUME TypeInv, CalmInv, [Next]_vars, NEW p \in Proc,
             pc[p] = "remove", pc'[p] = "look", calm,
             NEW t \in Tape, Holding(t) # {}, Holding(t)' = {}
      PROVE  Rows(t) = {} \/ shelf[t]
  <2>1. job[p].tape \in todo[p] /\ store[job[p].elem] = job[p].tape
        /\ \A u \in todo[p] : Rows(u) = {} \/ shelf[u]
    BY <1>3 DEF CalmInv, Read
  <2>2. evacuate_element(p)
    BY <1>3, RemovalsAre DEF Holding
  <2>3. store' = [store EXCEPT ![job[p].elem] = NoTape] \/ store' = store
    BY <2>2 DEF evacuate_element, Robot!Remove
  <2>4. store \in [Element -> Content]
    BY <1>3 DEF TypeInv, Changer
  <2>5. store[job[p].elem] = t
    <3>1. PICK x \in Holding(t) : x \notin Holding(t)'
      BY <1>3
    <3>2. x \in Element /\ store[x] = t /\ store'[x] # t
      BY <3>1 DEF Holding
    <3> QED
      BY <2>3, <2>4, <3>2
  <2> QED
    BY <2>1, <2>5
<1>4. TypeInv /\ CalmInv /\ [Next]_vars =>
          [\A p \in Proc : pc[p] = "remove" /\ pc'[p] = "look" /\ calm =>
               \A t \in Tape : Holding(t) # {} /\ Holding(t)' = {} =>
                   Rows(t) = {} \/ shelf[t]]_vars
  BY <1>3
<1> QED
  BY <1>1, <1>2, <1>4, PTL DEF Spec, EvacuatesOnlyOut

-----------------------------------------------------------------------------
(* The catalogue and the changer                                           *)

\* The row of a mail slot, if no data slot has the number.
MailNumber(e) == MailOffset + (e - IEBase)

Rowless == {e \in Mailslot : MailNumber(e) \notin MailId}

\* The catalogue read like the changer: the tape its row has in element e.
At(e) ==
    IF e \in Slot THEN slots[e]
    ELSE IF e \in Drive THEN drives[e - DriveBase]
    ELSE IF MailNumber(e) \in MailId THEN slots[MailNumber(e)]
    ELSE NoTape

LEMMA MailNumbers ==
    ASSUME NEW e \in Mailslot
    PROVE  /\ e \notin Slot /\ e \notin Drive /\ FromElement(e)[2] = MailNumber(e)
           /\ \/ MailNumber(e) \in MailId /\ e = MailElement(MailNumber(e))
              \/ MailNumber(e) \notin MailId /\ e \in Rowless
<1>1. e \notin Slot /\ e \notin Drive /\ e = MailElement(MailNumber(e)) /\ ~(e < IEBase)
  BY ElementAssumption, CatalogAssumption DEF Mailslot, Drive, Slot, MailElement, MailNumber
<1>2. FromElement(e)[2] = MailNumber(e)
  BY <1>1 DEF FromElement, MailSlot, MailNumber
<1> QED
  BY <1>1, <1>2 DEF Rowless

LEMMA MisreadIs == Misread = Drive \cup Rowless
BY MailNumbers DEF Misread, Rowless

LEMMA AtRows ==
    /\ \A n \in Slot : n \in Element /\ At(n) = slots[n]
    /\ \A d \in DriveId : DriveBase + d \in Drive /\ At(DriveBase + d) = drives[d]
    /\ \A n \in MailId : MailElement(n) \in Mailslot /\ At(MailElement(n)) = slots[n]
<1>1. ASSUME NEW d \in DriveId PROVE DriveBase + d \in Drive /\ At(DriveBase + d) = drives[d]
  <2>1. DriveBase + d \in Drive /\ DriveBase + d \notin Slot /\ (DriveBase + d) - DriveBase = d
    BY ElementAssumption DEF DriveId, Drive, Slot
  <2> QED
    BY <2>1 DEF At
<1>2. ASSUME NEW n \in MailId PROVE MailElement(n) \in Mailslot /\ At(MailElement(n)) = slots[n]
  <2>1. /\ MailElement(n) \in Mailslot /\ MailElement(n) \notin Slot /\ MailElement(n) \notin Drive
        /\ MailNumber(MailElement(n)) = n
    BY ElementAssumption, CatalogAssumption DEF MailId, MailElement, MailNumber, Mailslot,
       Drive, Slot
  <2> QED
    BY <2>1 DEF At
<1> QED
  BY <1>1, <1>2 DEF At, Element

LEMMA AtElement ==
    ASSUME NEW e \in Element
    PROVE  \/ e \in Slot /\ At(e) = slots[e]
           \/ \E d \in DriveId : e = DriveBase + d /\ At(e) = drives[d]
           \/ \E n \in MailId : e = MailElement(n) /\ At(e) = slots[n]
           \/ e \in Rowless /\ At(e) = NoTape
<1>1. CASE e \in Slot
  BY <1>1 DEF At
<1>2. CASE e \in Drive
  <2>1. e - DriveBase \in DriveId /\ e = DriveBase + (e - DriveBase)
    BY <1>2, ElementAssumption DEF Drive, DriveId
  <2> QED
    BY <2>1, AtRows
<1>3. CASE e \in Mailslot
  BY <1>3, MailNumbers DEF At
<1> QED
  BY <1>1, <1>2, <1>3 DEF Element

\* The numbers of data slots and mail slots are not confused.
LEMMA NumbersApart == /\ \A n \in MailId : n \notin Slot /\ n \in SlotId
                      /\ \A n \in Slot : n \notin MailId /\ n \in SlotId
                      /\ NoSlot \notin SlotId
BY ElementAssumption, CatalogAssumption DEF MailId, Slot, SlotId

\* The rows of a tape are the elements the catalogue has it in.
LEMMA RowsAt ==
    ASSUME NEW t \in Tape
    PROVE  /\ {ToElement(loc) : loc \in Rows(t)} = {e \in Element : At(e) = t}
           /\ Rows(t) = {} <=> \A e \in Element : At(e) # t
<1>1. /\ \A n : ToElement(DataSlot(n)) = n
      /\ \A d : ToElement(InDrive(d)) = DriveBase + d
      /\ \A n : ToElement(MailSlot(n)) = MailElement(n)
  BY DEF ToElement, DataSlot, InDrive, MailSlot
<1>2. ASSUME NEW loc \in Rows(t) PROVE ToElement(loc) \in Element /\ At(ToElement(loc)) = t
  <2>1. \/ \E n \in Slot : slots[n] = t /\ loc = DataSlot(n)
        \/ \E d \in DriveId : drives[d] = t /\ loc = InDrive(d)
        \/ \E n \in MailId : slots[n] = t /\ loc = MailSlot(n)
    BY DEF Rows
  <2> QED
    BY <1>1, <2>1, AtRows DEF Element
<1>3. ASSUME NEW e \in Element, At(e) = t PROVE \E loc \in Rows(t) : ToElement(loc) = e
  <2>1. CASE e \in Slot /\ At(e) = slots[e]
    <3>1. DataSlot(e) \in Rows(t)
      BY <1>3, <2>1 DEF Rows
    <3> QED
      BY <1>1, <3>1
  <2>2. ASSUME NEW d \in DriveId, e = DriveBase + d, At(e) = drives[d]
        PROVE  \E loc \in Rows(t) : ToElement(loc) = e
    <3>1. InDrive(d) \in Rows(t)
      BY <1>3, <2>2 DEF Rows
    <3> QED
      BY <1>1, <2>2, <3>1
  <2>3. ASSUME NEW n \in MailId, e = MailElement(n), At(e) = slots[n]
        PROVE  \E loc \in Rows(t) : ToElement(loc) = e
    <3>1. MailSlot(n) \in Rows(t)
      BY <1>3, <2>3 DEF Rows
    <3> QED
      BY <1>1, <2>3, <3>1
  <2>4. At(e) # NoTape
    BY <1>3, ElementAssumption
  <2> QED
    BY <2>1, <2>2, <2>3, <2>4, AtElement
<1> QED
  BY <1>2, <1>3

LEMMA AtOnce ==
    ASSUME RowInv, ~doubled, NEW a \in Element, NEW b \in Element, At(a) = At(b), At(a) # NoTape
    PROVE  a = b
<1> DEFINE t == At(a)
<1>1. t \in Tape
  BY AtElement DEF RowInv, RowTypes, Content, SlotId
<1>2. \/ a \in Slot /\ t = slots[a]
      \/ \E d \in DriveId : a = DriveBase + d /\ t = drives[d]
      \/ \E n \in MailId : a = MailElement(n) /\ t = slots[n]
  BY AtElement
<1>3. \/ b \in Slot /\ t = slots[b]
      \/ \E d \in DriveId : b = DriveBase + d /\ t = drives[d]
      \/ \E n \in MailId : b = MailElement(n) /\ t = slots[n]
  BY AtElement
<1>4. t # NoTape
  OBVIOUS
<1> HIDE DEF t
<1>5. /\ \A n, m \in SlotId : slots[n] = t /\ slots[m] = t => n = m
      /\ \A c, d \in DriveId : drives[c] = t /\ drives[d] = t => c = d
      /\ \A n \in SlotId, d \in DriveId : ~(slots[n] = t /\ drives[d] = t)
  BY <1>4 DEF RowInv, OneRow, OneSlot, OneDrive, SlotOrDrive
<1>6. CASE a \in Slot /\ t = slots[a]
  BY <1>3, <1>5, <1>6, NumbersApart
<1>7. ASSUME NEW d \in DriveId, a = DriveBase + d, t = drives[d] PROVE a = b
  BY <1>3, <1>5, <1>7, NumbersApart
<1>8. ASSUME NEW n \in MailId, a = MailElement(n), t = slots[n] PROVE a = b
  BY <1>3, <1>5, <1>8, NumbersApart
<1> QED
  BY <1>2, <1>6, <1>7, <1>8

LEMMA AtTyped ==
    ASSUME RowInv, NEW e \in Element
    PROVE  At(e) \in Content /\ (At(e) # NoTape => At(e) \in tapes)
BY AtElement, NumbersApart DEF RowInv, RowTypes, SlotsKnown, DrivesKnown, Content

LEMMA SameAt == ASSUME UNCHANGED <<slots, drives>>, NEW e PROVE At(e)' = At(e)
BY DEF At

\* A tape that has no row, or is on a shelf, has no slot number.
Hints == \A t \in Tape : shelf[t] \/ t \notin tapes => slotOf[t] = NoSlot
Hinted == \A t \in Tape : slotOf[t] # NoSlot => slotOf[t] \in SlotId /\ slots[slotOf[t]] = t
OffShelf == \A e \in Element : At(e) # NoTape => ~shelf[At(e)]

\* Catalogue and changer have tape t in the same place.
Same(t) == \A e \in Element : At(e) = t <=> store[e] = t

\* The moves the robot has not yet been told of: where a tape goes, and where
\* it is till then.
Sending == {"assign", "load", "move", "unload", "eject"}
From(p) == IF pc[p] = "unload" THEN job[p].elem ELSE job[p].slot
To(p) == IF pc[p] \in {"assign", "unload"} THEN job[p].slot ELSE job[p].elem
Sent(p) ==
    /\ job[p].row /\ job[p].slot \in Slot
    /\ pc[p] # "assign" => job[p].elem \in Element \ Slot
    /\ pc[p] \in {"load", "move"} => job[p].elem \in Drive
    /\ At(To(p)) = job[p].tape
    /\ Holding(job[p].tape) = IF pc[p] = "assign" THEN {} ELSE {From(p)}
Single(p) == pc[p] \in {"look", "remove"} /\ Head(plan[p]) = "single"
Underway(p, t) ==
    \/ pc[p] \in Sending /\ job[p].tape = t
    \/ Single(p) /\ t \in todo[p]

\* What process p is doing does not part the two.
Orderly(p) ==
    /\ pc[p] \in Sending => Sent(p)
    /\ pc[p] # "place"
    /\ pc[p] = "shelve" => ~tape_in_drive(job[p].tape)
    /\ pc[p] \in {"list", "look", "remove"} => \A t \in todo[p] : Rows(t) = {}
    /\ pc[p] = "remove" => /\ Head(plan[p]) = "single" /\ job[p].tape \in todo[p]
                           /\ store[job[p].elem] = job[p].tape
    /\ pc[p] \in {"pull", "mirror"} => seen[p] = Snapshot /\ \A e \in Misread : store[e] = NoTape

Together ==
    /\ SnapshotOK /\ Hinted /\ OffShelf
    /\ \A p, q \in Proc : pc[p] # "idle" /\ pc[q] # "idle" => p = q
    /\ \A p \in Proc : Orderly(p)
    /\ \A t \in Tape : (\A p \in Proc : ~Underway(p, t)) => Same(t)

StepInv == Hints /\ (~disturbed => Together)

\* A step of the one process that works.
LEMMA TogetherStep ==
    ASSUME NEW p \in Proc, \A q \in Proc \ {p} : pc'[q] = "idle",
           SnapshotOK', Hinted', OffShelf', Orderly(p)',
           \A t \in Tape : ~Underway(p, t)' => Same(t)'
    PROVE  Together'
<1>1. \A a, b \in Proc : pc'[a] # "idle" /\ pc'[b] # "idle" => a = b
  OBVIOUS
<1>2. ASSUME NEW q \in Proc PROVE Orderly(q)'
  <2>1. CASE q = p
    BY <2>1
  <2>2. CASE pc'[q] = "idle"
    BY <2>2 DEF Orderly, Sending
  <2> QED
    BY <2>1, <2>2
<1> QED
  BY <1>1, <1>2 DEF Together

LEMMA OthersIdle ==
    ASSUME Together, NEW p \in Proc, pc[p] # "idle", NEW q \in Proc \ {p}
    PROVE  pc[q] = "idle"
BY DEF Together

LEMMA NotUnderway ==
    ASSUME Together, NEW p \in Proc, \A q \in Proc \ {p} : pc[q] = "idle",
           NEW t \in Tape, ~Underway(p, t)
    PROVE  Same(t)
<1>1. ASSUME NEW q \in Proc PROVE ~Underway(q, t)
  BY DEF Underway, Sending, Single
<1> QED
  BY <1>1 DEF Together

\* What does not touch the tables or the changer.
LEMMA SameTables ==
    ASSUME UNCHANGED <<tables, store>>
    PROVE  /\ SnapshotOK' = SnapshotOK /\ Hinted' = Hinted /\ OffShelf' = OffShelf
           /\ Snapshot' = Snapshot /\ Hints' = Hints
           /\ \A t : Same(t)' = Same(t) /\ Rows(t)' = Rows(t) /\ Holding(t)' = Holding(t)
           /\ \A t : tape_in_drive(t)' = tape_in_drive(t)
           /\ \A e : At(e)' = At(e)
<1>1. UNCHANGED <<tapes, shelf, slotOf, slots, drives, store>>
  BY DEF tables
<1>2. \A e : At(e)' = At(e)
  BY <1>1 DEF At
<1> QED
  BY <1>1, <1>2 DEF SnapshotOK, Hinted, OffShelf, Snapshot, Hints, Same, Rows, Holding,
     tape_in_drive

\* A step of the control flow alone, when no move waits for the robot.
LEMMA ControlStep ==
    ASSUME Together, NEW p \in Proc, \A q \in Proc \ {p} : pc[q] = "idle" /\ pc'[q] = pc[q],
           UNCHANGED <<tables, store>>, Orderly(p)', \A t \in Tape : ~Underway(p, t)
    PROVE  Together'
<1>1. \A t \in Tape : Same(t)'
  BY NotUnderway, SameTables
<1>2. SnapshotOK' /\ Hinted' /\ OffShelf'
  BY SameTables DEF Together
<1> QED
  BY <1>1, <1>2, TogetherStep

LEMMA Restful ==
    ASSUME NEW p \in Proc,
           pc[p] \notin Sending \cup {"place", "shelve", "list", "look", "remove", "pull", "mirror"}
    PROVE  Orderly(p)
BY DEF Orderly

\* A medium alone in its element goes where the catalogue has it.
LEMMA Delivered ==
    ASSUME TypeInv, SnapshotOK, NEW t \in Tape, NEW dst \in Element,
           At(dst) = t, \A u \in Tape \ {t} : Same(u), store[dst] # t
    PROVE  store[dst] = NoTape
<1>1. ASSUME store[dst] \in Tape PROVE FALSE
  BY <1>1 DEF Same
<1> QED
  BY <1>1 DEF TypeInv, Changer, Content

LEMMA OneMore ==
    ASSUME TypeInv, ~disturbed, SnapshotOK, NEW t \in Tape, NEW dst \in Element,
           UNCHANGED tables, At(dst) = t, store[dst] = NoTape,
           \A e \in Element : store'[e] = IF e = dst THEN t
                                          ELSE IF store[e] = t THEN NoTape ELSE store[e],
           \A u \in Tape \ {t} : Same(u)
    PROVE  SnapshotOK' /\ \A u \in Tape : Same(u)'
<1>1. \A e : At(e)' = At(e)
  BY SameAt DEF tables
<1>2. NoTape \notin Tape
  BY ElementAssumption
<1>3. ASSUME NEW e \in Element, At(e) = t PROVE e = dst
  BY <1>2, <1>3, AtOnce DEF TypeInv, TableTypes, Marked
<1>4. ASSUME NEW u \in Tape, NEW e \in Element PROVE At(e)' = u <=> store'[e] = u
  <2>1. CASE u = t
    BY <1>1, <1>2, <1>3, <2>1
  <2>2. CASE u # t
    <3>1. At(e) = u <=> store[e] = u
      BY <2>2 DEF Same
    <3> QED
      BY <1>1, <1>2, <2>2, <3>1
  <2> QED
    BY <2>1, <2>2
<1>5. ASSUME NEW u \in Tape, NEW a \in Element, NEW b \in Element, store'[a] = u, store'[b] = u
      PROVE  a = b
  <2>1. At(a) = u /\ At(b) = u
    BY <1>1, <1>4, <1>5
  <2> QED
    BY <1>2, <2>1, AtOnce DEF TypeInv, TableTypes, Marked
<1> QED
  BY <1>4, <1>5 DEF SnapshotOK, Holding, Same

\* The robot does what the catalogue has announced.
LEMMA Moved ==
    ASSUME TypeInv, ~disturbed, SnapshotOK, NEW t \in Tape, NEW src \in Element, NEW dst \in Element,
           At(dst) = t, Holding(t) = {src}, src # dst, UNCHANGED tables,
           \A u \in Tape \ {t} : Same(u), Robot!Move(src, dst)
    PROVE  SnapshotOK' /\ \A u \in Tape : Same(u)'
<1>1. store[dst] = NoTape
  <2>1. store[dst] # t
    BY DEF Holding
  <2> QED
    BY <2>1, Delivered
<1>2. store[src] = t /\ store[src] # NoTape
  BY ElementAssumption DEF Holding
<1>3. Robot!Valid(src) /\ Robot!Valid(dst)
  BY AddressesOfElements DEF TypeInv, Changer
<1>4. Robot!MoveResult(src, dst) = "ok"
  BY <1>1, <1>2, <1>3 DEF Robot!MoveResult
<1>5. store' = [store EXCEPT ![src] = NoTape, ![dst] = store[src]]
  BY <1>4 DEF Robot!Move
<1>6. \A e \in Element : store[e] = t => e = src
  BY DEF Holding
<1>7. \A e \in Element : store'[e] = IF e = dst THEN t
                                     ELSE IF store[e] = t THEN NoTape ELSE store[e]
  BY <1>2, <1>5, <1>6 DEF TypeInv, Changer
<1> QED
  BY <1>1, <1>7, OneMore

LEMMA Placed ==
    ASSUME TypeInv, ~disturbed, SnapshotOK, NEW t \in Tape, NEW n \in Slot,
           At(n) = t, Holding(t) = {}, UNCHANGED tables,
           \A u \in Tape \ {t} : Same(u), Robot!Place(n, t)
    PROVE  SnapshotOK' /\ \A u \in Tape : Same(u)'
<1>1. n \in Element
  BY DEF Element
<1>2. \A e \in Element : store[e] # t
  BY DEF Holding
<1>3. store[n] = NoTape
  BY <1>1, <1>2, Delivered
<1>4. store' = [store EXCEPT ![n] = t]
  BY <1>3 DEF Robot!Place
<1>5. \A e \in Element : store'[e] = IF e = n THEN t
                                     ELSE IF store[e] = t THEN NoTape ELSE store[e]
  BY <1>2, <1>4 DEF TypeInv, Changer
<1> QED
  BY <1>1, <1>3, <1>5, OneMore

\* A process that is about to move a medium, and its medium.
LEMMA Sender ==
    ASSUME TypeInv, Together, NEW p \in Proc, pc[p] \in Sending
    PROVE  /\ Sent(p) /\ job[p].tape \in Tape /\ \A q \in Proc \ {p} : pc[q] = "idle"
           /\ \A u \in Tape \ {job[p].tape} : Same(u)
           /\ SnapshotOK /\ Hinted /\ OffShelf
<1>1. pc[p] # "idle" /\ pc[p] \notin {"look", "remove"} /\ pc[p] \in OnTape
  BY DEF Sending, OnTape
<1>2. \A u \in Tape \ {job[p].tape} : ~Underway(p, u)
  BY <1>1 DEF Underway, Single
<1>3. \A q \in Proc \ {p} : pc[q] = "idle"
  BY <1>1, OthersIdle
<1>4. \A u \in Tape \ {job[p].tape} : Same(u)
  BY <1>2, <1>3, NotUnderway
<1>5. Sent(p)
  BY DEF Together, Orderly
<1> QED
  BY <1>1, <1>3, <1>4, <1>5 DEF TypeInv, WorkInv, Together

\* The robot has done what it was told.
LEMMA SendingEnds ==
    ASSUME TypeInv, Together, NEW p \in Proc, pc[p] \in Sending, Align(p) \/ End(p), UNCHANGED tables,
           SnapshotOK' /\ \A u \in Tape : Same(u)'
    PROVE  Together'
<1>1. Hinted' = Hinted /\ OffShelf' = OffShelf
  <2>1. \A e : At(e)' = At(e)
    BY SameAt DEF tables
  <2> QED
    BY <2>1 DEF Hinted, OffShelf, tables
<1>2. pc'[p] \in {"pass", "idle"} /\ \A q \in Proc \ {p} : pc'[q] = "idle"
  BY Sender, GotoOne DEF Align, End, TypeInv
<1>3. Orderly(p)'
  BY <1>2 DEF Orderly, Sending
<1> QED
  BY <1>1, <1>2, <1>3, Sender, TogetherStep

LEMMA SendingMoves ==
    ASSUME TypeInv, Together, ~disturbed, NEW p \in Proc, pc[p] \in Sending \ {"assign"},
           Align(p), UNCHANGED tables, Robot!Move(From(p), To(p))
    PROVE  Together'
<1>1. /\ job[p].slot \in Element /\ job[p].elem \in Element
      /\ At(To(p)) = job[p].tape /\ Holding(job[p].tape) = {From(p)}
  BY Sender DEF Sent, Element
<1>2. From(p) # To(p)
  BY Sender DEF Sent, From, To, Sending
<1>3. From(p) \in Element /\ To(p) \in Element
  BY <1>1 DEF From, To
<1>4. SnapshotOK' /\ \A u \in Tape : Same(u)'
  BY <1>1, <1>2, <1>3, Sender, Moved
<1> QED
  BY <1>4, SendingEnds

LEMMA SendingKeeps ==
    ASSUME TypeInv, Together, ~disturbed, NEW p \in Proc,
           \/ kernel_slot_place(p) \/ LoadCheck(p) \/ LoadPlace(p) \/ LoadMove(p)
           \/ kernel_unload(p) \/ kernel_move_medium(p)
    PROVE  Together'
<1>1. CASE kernel_slot_place(p)
  <2>1. /\ pc[p] = "assign" /\ (Align(p) \/ End(p)) /\ UNCHANGED tables
        /\ job[p].slot \in Slot => Robot!Place(job[p].slot, job[p].tape)
    BY <1>1 DEF kernel_slot_place
  <2>2. pc[p] \in Sending
    BY <2>1 DEF Sending
  <2>3. job[p].slot \in Slot /\ At(job[p].slot) = job[p].tape /\ Holding(job[p].tape) = {}
    BY <2>1, <2>2, Sender DEF Sent, To
  <2>4. SnapshotOK' /\ \A u \in Tape : Same(u)'
    BY <2>1, <2>2, <2>3, Sender, Placed
  <2> QED
    BY <2>1, <2>2, <2>4, SendingEnds
<1>2. CASE LoadCheck(p)
  <2>1. pc[p] = "load" /\ pc[p] \in Sending /\ UNCHANGED <<tables, store>>
    BY <1>2 DEF LoadCheck, Sending
  <2>2. job[p].slot \in Slot /\ Holding(job[p].tape) = {job[p].slot} /\ job[p].elem \in Drive
    BY <2>1, Sender DEF Sent, From
  <2>3. job[p].slot \in Element /\ store[job[p].slot] = job[p].tape
    BY <2>2 DEF Holding
  <2>4. Goto(p, "move") /\ UNCHANGED <<job, work>>
    BY <1>2, <2>2, <2>3 DEF LoadCheck
  <2>5. pc'[p] = "move" /\ \A q \in Proc \ {p} : pc'[q] = "idle"
    BY <2>1, <2>4, GotoOne, Sender DEF TypeInv
  <2>6. Sent(p)'
    <3>1. Sent(p) /\ From(p)' = From(p) /\ To(p)' = To(p)
      BY <2>1, <2>4, <2>5, Sender DEF From, To
    <3> QED
      BY <2>1, <2>4, <2>5, <3>1, SameTables DEF Sent
  <2>7. Orderly(p)'
    BY <2>5, <2>6 DEF Orderly
  <2>8. \A t \in Tape : ~Underway(p, t)' => Same(t)'
    BY <2>1, <2>4, <2>5, Sender, SameTables DEF Underway, Sending
  <2> QED
    BY <2>1, <2>5, <2>7, <2>8, Sender, SameTables, TogetherStep
<1>3. CASE LoadPlace(p)
  BY <1>3 DEF LoadPlace, Together, Orderly
<1>4. CASE LoadMove(p)
  <2>1. /\ pc[p] = "move" /\ Align(p) /\ UNCHANGED tables /\ Robot!Move(From(p), To(p))
    BY <1>4 DEF LoadMove, From, To
  <2> QED
    BY <2>1, SendingMoves DEF Sending
<1>5. CASE kernel_unload(p)
  <2>1. /\ pc[p] = "unload" /\ Align(p) /\ UNCHANGED tables
        /\ job[p].slot \in Slot => Robot!Move(From(p), To(p))
    BY <1>5 DEF kernel_unload, From, To
  <2>2. pc[p] \in Sending \ {"assign"}
    BY <2>1 DEF Sending
  <2>3. job[p].slot \in Slot
    BY <2>2, Sender DEF Sent
  <2> QED
    BY <2>1, <2>2, <2>3, SendingMoves
<1>6. CASE kernel_move_medium(p)
  <2>1. /\ pc[p] = "eject" /\ Align(p) /\ UNCHANGED tables /\ Robot!Move(From(p), To(p))
    BY <1>6 DEF kernel_move_medium, From, To
  <2> QED
    BY <2>1, SendingMoves DEF Sending
<1> QED
  BY <1>1, <1>2, <1>3, <1>4, <1>5, <1>6

\* A command begins while nothing else runs: the two agree about every tape.
LEMMA BeginsTogether ==
    ASSUME TypeInv, ~disturbed => Together, NEW p \in Proc,
           NEW l, NEW j, pc[p] = "idle", Alone(p), Goto(p, l), ~disturbed,
           job' = [job EXCEPT ![p] = j]
    PROVE  /\ SnapshotOK /\ Hinted /\ OffShelf
           /\ \A q \in Proc : pc[q] = "idle"
           /\ \A u \in Tape : Same(u)
           /\ pc'[p] = l /\ \A q \in Proc \ {p} : pc'[q] = "idle"
           /\ job'[p] = j
<1>1. \A q \in Proc : pc[q] = "idle"
  BY DEF Alone
<1>2. \A u \in Tape : Same(u)
  BY <1>1, NotUnderway DEF Underway, Sending, Single
<1>3. pc'[p] = l /\ \A q \in Proc \ {p} : pc'[q] = "idle"
  BY <1>1, GotoOne DEF TypeInv
<1>4. job'[p] = j
  BY DEF TypeInv, WorkInv
<1> QED
  BY <1>1, <1>2, <1>3, <1>4 DEF Together

\* The catalogue has tape t in dst, and not where it was; the robot will follow.
LEMMA Announced ==
    ASSUME TypeInv, TypeInv', NEW p \in Proc, NEW t \in Tape, NEW dst \in Element,
           SnapshotOK, OffShelf, \A u \in Tape : Same(u), UNCHANGED store,
           \A e \in Element : At(e)' = IF e = dst THEN t ELSE IF At(e) = t THEN NoTape ELSE At(e),
           At(dst) \in {NoTape, t}, shelf' = [shelf EXCEPT ![t] = FALSE],
           Hinted', pc'[p] \in Sending, job'[p].tape = t, Sent(p)',
           \A q \in Proc \ {p} : pc'[q] = "idle"
    PROVE  Together'
<1>1. NoTape \notin Tape
  BY ElementAssumption
<1>2. ASSUME NEW u \in Tape \ {t} PROVE Same(u)'
  BY <1>1 DEF Same
<1>3. SnapshotOK'
  BY DEF SnapshotOK, Holding
<1>4. OffShelf'
  BY <1>1 DEF OffShelf, TypeInv, TableTypes, RowInv, RowTypes
<1>5. Orderly(p)'
  BY DEF Orderly, Sending
<1>6. \A u \in Tape : ~Underway(p, u)' => Same(u)'
  BY <1>2 DEF Underway
<1> QED
  BY <1>3, <1>4, <1>5, <1>6, TogetherStep

\* The element of a row, now and after a step.
LEMMA AtStep ==
    ASSUME NEW e \in Element
    PROVE  \/ e \in Slot /\ At(e) = slots[e] /\ At(e)' = slots'[e]
           \/ \E d \in DriveId : e = DriveBase + d /\ At(e) = drives[d] /\ At(e)' = drives'[d]
           \/ \E n \in MailId : e = MailElement(n) /\ At(e) = slots[n] /\ At(e)' = slots'[n]
           \/ e \in Rowless /\ At(e) = NoTape /\ At(e)' = NoTape
<1>1. CASE e \in Slot
  BY <1>1 DEF At
<1>2. CASE e \in Drive
  <2>1. e \notin Slot /\ e - DriveBase \in DriveId /\ e = DriveBase + (e - DriveBase)
    BY <1>2, ElementAssumption DEF Drive, DriveId, Slot
  <2> QED
    BY <1>2, <2>1 DEF At
<1>3. CASE e \in Mailslot
  <2>1. e \notin Slot /\ e \notin Drive
    BY <1>3, MailNumbers
  <2>2. CASE MailNumber(e) \in MailId
    BY <1>3, <2>1, <2>2, MailNumbers DEF At
  <2>3. CASE MailNumber(e) \notin MailId
    BY <1>3, <2>1, <2>3, MailNumbers DEF At
  <2> QED
    BY <2>2, <2>3
<1> QED
  BY <1>1, <1>2, <1>3 DEF Element

LEMMA DrivesApart ==
    /\ \A d \in DriveId : DriveBase + d \in Element \ Slot
    /\ \A n \in MailId : MailElement(n) \in Element \ Slot
    /\ \A n \in MailId, d \in DriveId : MailElement(n) # DriveBase + d
    /\ \A d, c \in DriveId : DriveBase + d = DriveBase + c => d = c
    /\ \A n, m \in MailId : MailElement(n) = MailElement(m) => n = m
    /\ \A e \in Rowless : /\ e \notin Slot /\ \A d \in DriveId : e # DriveBase + d
                         /\ \A n \in MailId : e # MailElement(n)
<1>1. \A e \in Rowless, n \in MailId : e # MailElement(n)
  BY ElementAssumption, CatalogAssumption DEF Rowless, MailNumber, MailElement, MailId
<1> QED
  BY <1>1, ElementAssumption, CatalogAssumption
     DEF DriveId, MailId, MailElement, Element, Drive, Mailslot, Slot, Rowless

LEMMA AssignTogether ==
    ASSUME TypeInv, TypeInv', ~disturbed => Together, ~disturbed', NEW p \in Proc,
           NEW t \in Tape, NEW n \in SlotNumber, assign_tape_to_slot(p, t, n)
    PROVE  Together'
<1>1. /\ Begin(p, "assign", t, n, NoSlot, n \notin Slot)
      /\ slotOf' = [slotOf EXCEPT ![t] = n] /\ shelf' = [shelf EXCEPT ![t] = FALSE]
      /\ slots' = [m \in SlotId |-> IF m = n THEN t ELSE slots[m]]
      /\ UNCHANGED <<drives, store>> /\ shelf[t] /\ slotOf[t] = NoSlot
      /\ n \in SlotId => slots[n] = NoTape
  BY DEF assign_tape_to_slot, robot
<1>2. /\ SnapshotOK /\ Hinted /\ OffShelf /\ n \in Slot
      /\ \A u \in Tape : Same(u)
      /\ pc'[p] = "assign" /\ \A q \in Proc \ {p} : pc'[q] = "idle"
      /\ job'[p] = [tape |-> t, slot |-> n, elem |-> NoSlot, row |-> TRUE]
  <2>1. /\ n \in Slot /\ pc[p] = "idle" /\ Alone(p) /\ Goto(p, "assign") /\ ~disturbed
        /\ job' = [job EXCEPT ![p] = [tape |-> t, slot |-> n, elem |-> NoSlot, row |-> TRUE]]
    BY <1>1 DEF Begin, Disturb
  <2> QED
    BY <2>1, BeginsTogether
<1>3. n \in SlotId /\ n \in Element /\ slots[n] = NoTape /\ At(n) = NoTape
  BY <1>1, <1>2, NumbersApart, AtRows
<1>4. \A e \in Element : At(e) # t
  BY <1>1, <1>2, ElementAssumption DEF OffShelf
<1>5. ASSUME NEW e \in Element PROVE At(e)' = IF e = n THEN t ELSE At(e)
  BY <1>1, <1>2, <1>3, AtStep, NumbersApart, DrivesApart
<1>6. slotOf \in [Tape -> Int]
  BY DEF TypeInv, TableTypes
<1>7. Hinted'
  BY <1>1, <1>2, <1>3, <1>6, ElementAssumption DEF Hinted
<1>8. \A e \in Element : store[e] # t
  BY <1>2, <1>4 DEF Same
<1>9. Sent(p)'
  <2>1. To(p)' = n /\ At(n)' = t
    BY <1>2, <1>3, <1>5 DEF To
  <2>2. Holding(t)' = {}
    BY <1>1, <1>8 DEF Holding
  <2> QED
    BY <1>2, <2>1, <2>2 DEF Sent
<1>10. \A e \in Element : At(e)' = IF e = n THEN t ELSE IF At(e) = t THEN NoTape ELSE At(e)
  BY <1>4, <1>5
<1>11. pc'[p] \in Sending /\ job'[p].tape = t /\ At(n) \in {NoTape, t}
  BY <1>2, <1>3 DEF Sending
<1> QED
  BY <1>1, <1>2, <1>3, <1>7, <1>9, <1>10, <1>11, Announced

\* Where a tape is that the catalogue and the changer have in one place.
LEMMA AloneIn ==
    ASSUME TypeInv, ~disturbed, NEW t \in Tape, NEW e \in Element, At(e) = t, Same(t)
    PROVE  Holding(t) = {e} /\ \A x \in Element : At(x) = t <=> x = e
<1>1. \A x \in Element : At(x) = t <=> x = e
  BY ElementAssumption, AtOnce DEF TypeInv, TableTypes, Marked
<1> QED
  BY <1>1 DEF Same, Holding

LEMMA LoadTogether ==
    ASSUME TypeInv, TypeInv', ~disturbed => Together, ~disturbed', NEW p \in Proc,
           NEW n \in SlotId, NEW d \in DriveNumber, NEW t \in Tape, t = slots[n], load_tape(p, n, d)
    PROVE  Together'
<1> DEFINE e == DriveBase + d
<1>1. /\ Begin(p, "load", t, n, e, n \notin Slot \/ d \notin DriveId)
      /\ slotOf' = [slotOf EXCEPT ![t] = NoSlot] /\ shelf' = [shelf EXCEPT ![t] = FALSE]
      /\ slots' = [slots EXCEPT ![n] = NoTape]
      /\ drives' = [x \in DriveId |-> IF x = d THEN t ELSE drives[x]]
      /\ UNCHANGED store /\ (d \in DriveId => drives[d] = NoTape)
  BY DEF load_tape, robot
<1>2. slots \in [SlotId -> Content] /\ drives \in [DriveId -> Content]
      /\ slotOf \in [Tape -> Int]
  BY <1>1 DEF TypeInv, TableTypes, RowInv, RowTypes, Content
<1>3. /\ SnapshotOK /\ Hinted /\ OffShelf /\ n \in Slot /\ d \in DriveId /\ ~disturbed
      /\ \A u \in Tape : Same(u)
      /\ pc'[p] = "load" /\ \A q \in Proc \ {p} : pc'[q] = "idle"
      /\ job'[p] = [tape |-> t, slot |-> n, elem |-> e, row |-> TRUE]
  <2>1. /\ n \in Slot /\ d \in DriveId /\ pc[p] = "idle" /\ Alone(p) /\ Goto(p, "load") /\ ~disturbed
        /\ job' = [job EXCEPT ![p] = [tape |-> t, slot |-> n, elem |-> e, row |-> TRUE]]
    BY <1>1 DEF Begin, Disturb
  <2> QED
    BY <2>1, BeginsTogether
<1>4. n \in Element /\ At(n) = t /\ e \in Element \ Slot /\ At(e) = NoTape /\ e \in Drive
  BY <1>1, <1>3, AtRows, DrivesApart
<1>5. Holding(t) = {n} /\ \A x \in Element : At(x) = t <=> x = n
  BY <1>2, <1>3, <1>4, AloneIn
<1>6. ASSUME NEW x \in Element
      PROVE  At(x)' = IF x = e THEN t ELSE IF x = n THEN NoTape ELSE At(x)
  BY <1>1, <1>2, <1>3, <1>4, AtStep, NumbersApart, DrivesApart
<1>7. Hinted'
  BY <1>1, <1>2, <1>3 DEF Hinted
<1>8. Sent(p)'
  <2>1. To(p)' = e /\ From(p)' = n
    BY <1>3 DEF To, From
  <2>2. Holding(t)' = {n}
    BY <1>1, <1>5 DEF Holding
  <2>3. job'[p].row /\ job'[p].slot = n /\ job'[p].elem = e /\ job'[p].tape = t
    BY <1>3
  <2> HIDE DEF e
  <2>4. At(e)' = t
    BY <1>4, <1>6
  <2> QED
    BY <1>3, <1>4, <2>1, <2>2, <2>3, <2>4 DEF Sent
<1>9. \A x \in Element : At(x)' = IF x = e THEN t ELSE IF At(x) = t THEN NoTape ELSE At(x)
  BY <1>5, <1>6
<1>10. pc'[p] \in Sending /\ job'[p].tape = t /\ At(e) \in {NoTape, t}
  BY <1>3, <1>4 DEF Sending
<1> HIDE DEF e
<1> QED
  BY <1>1, <1>3, <1>4, <1>7, <1>8, <1>9, <1>10, Announced

LEMMA UnloadTogether ==
    ASSUME TypeInv, TypeInv', ~disturbed => Together, ~disturbed', NEW p \in Proc,
           NEW d \in DriveId, NEW t \in Tape, t = drives[d], unload_tape(p, d)
    PROVE  Together'
<1> DEFINE e == DriveBase + d
<1>1. /\ pc[p] = "idle" /\ Alone(p) /\ ~disturbed /\ Goto(p, "unload")
      /\ shelf' = [shelf EXCEPT ![t] = FALSE] /\ drives' = [drives EXCEPT ![d] = NoTape]
      /\ UNCHANGED store
  BY DEF unload_tape, Begin, Disturb, robot
<1>2. PICK n : /\ n = IF slotOf[t] # NoSlot THEN slotOf[t] ELSE First(Free(Slot))
               /\ slotOf[t] # NoSlot \/ Free(Slot) # {}
               /\ slotOf' = [slotOf EXCEPT ![t] = n]
               /\ slots' = [m \in SlotId |-> IF m = n THEN t ELSE slots[m]]
               /\ job' = [job EXCEPT ![p] = [tape |-> t, slot |-> n, elem |-> e, row |-> TRUE]]
  BY DEF unload_tape, Begin
<1>3. /\ SnapshotOK /\ Hinted /\ OffShelf
      /\ \A u \in Tape : Same(u)
      /\ pc'[p] = "unload" /\ \A q \in Proc \ {p} : pc'[q] = "idle"
      /\ job'[p] = [tape |-> t, slot |-> n, elem |-> e, row |-> TRUE]
  BY <1>1, <1>2, BeginsTogether
<1>4. slots \in [SlotId -> Content] /\ drives \in [DriveId -> Content] /\ slotOf \in [Tape -> Int]
      /\ SlotOrDrive
  BY <1>1 DEF TypeInv, TableTypes, RowInv, RowTypes, OneRow, Marked
<1>5. e \in Element \ Slot /\ At(e) = t
  BY AtRows, DrivesApart
<1>6. slotOf[t] = NoSlot
  BY <1>3, <1>4, ElementAssumption DEF Hinted, SlotOrDrive
<1>7. n \in Slot /\ slots[n] = NoTape
  <2>1. n = First(Free(Slot)) /\ Free(Slot) # {}
    BY <1>2, <1>6
  <2>2. Free(Slot) \in SUBSET Nat
    BY DEF Free, Slot
  <2>3. n \in Free(Slot)
    BY <2>1, <2>2, FirstOf
  <2> QED
    BY <2>3 DEF Free
<1>8. n \in SlotId /\ n \in Element /\ At(n) = NoTape /\ n # e
  BY <1>5, <1>7, NumbersApart, AtRows
<1>9. Holding(t) = {e} /\ \A x \in Element : At(x) = t <=> x = e
  BY <1>1, <1>3, <1>5, AloneIn
<1>10. ASSUME NEW x \in Element
       PROVE  At(x)' = IF x = n THEN t ELSE IF x = e THEN NoTape ELSE At(x)
  BY <1>1, <1>2, <1>4, <1>7, <1>8, AtStep, NumbersApart, DrivesApart
<1>11. Hinted'
  BY <1>2, <1>3, <1>4, <1>7, <1>8, ElementAssumption DEF Hinted
<1>12. Sent(p)'
  <2>1. To(p)' = n /\ From(p)' = e
    BY <1>3 DEF To, From
  <2>2. Holding(t)' = {e}
    BY <1>1, <1>9 DEF Holding
  <2>3. job'[p].row /\ job'[p].slot = n /\ job'[p].elem = e /\ job'[p].tape = t
    BY <1>3
  <2>4. At(n)' = t
    BY <1>8, <1>10
  <2> HIDE DEF e
  <2> QED
    BY <1>3, <1>5, <1>7, <2>1, <2>2, <2>3, <2>4 DEF Sent
<1>13. \A x \in Element : At(x)' = IF x = n THEN t ELSE IF At(x) = t THEN NoTape ELSE At(x)
  BY <1>9, <1>10
<1>14. pc'[p] \in Sending /\ job'[p].tape = t /\ At(n) \in {NoTape, t}
  BY <1>3, <1>8 DEF Sending
<1> QED
  BY <1>1, <1>3, <1>8, <1>11, <1>12, <1>13, <1>14, Announced

LEMMA EjectTogether ==
    ASSUME TypeInv, TypeInv', ~disturbed => Together, ~disturbed', NEW p \in Proc,
           NEW n \in SlotId, NEW t \in Tape, t = slots[n], eject_tape(p, n)
    PROVE  Together'
<1>1. /\ n \in Slot /\ pc[p] = "idle" /\ Alone(p) /\ ~disturbed /\ Goto(p, "eject")
      /\ shelf' = [shelf EXCEPT ![t] = FALSE] /\ UNCHANGED <<drives, store>>
  BY DEF eject_tape, Begin, Disturb, robot
<1>2. PICK m : /\ m = First(Free(MailId)) /\ Free(MailId) # {}
               /\ slotOf' = [slotOf EXCEPT ![t] = m]
               /\ slots' = [slots EXCEPT ![n] = NoTape, ![m] = t]
               /\ job' = [job EXCEPT ![p] =
                     [tape |-> t, slot |-> n, elem |-> MailElement(m), row |-> TRUE]]
  BY DEF eject_tape, Begin
<1> DEFINE e == MailElement(m)
<1>3. /\ SnapshotOK /\ Hinted /\ OffShelf
      /\ \A u \in Tape : Same(u)
      /\ pc'[p] = "eject" /\ \A q \in Proc \ {p} : pc'[q] = "idle"
      /\ job'[p] = [tape |-> t, slot |-> n, elem |-> e, row |-> TRUE]
  BY <1>1, <1>2, BeginsTogether
<1>4. slots \in [SlotId -> Content] /\ drives \in [DriveId -> Content] /\ slotOf \in [Tape -> Int]
  BY DEF TypeInv, TableTypes, RowInv, RowTypes
<1>5. m \in MailId /\ slots[m] = NoTape
  <2>1. Free(MailId) \in SUBSET Nat
    BY CatalogAssumption, ElementAssumption DEF Free, MailId
  <2>2. m \in Free(MailId)
    BY <1>2, <2>1, FirstOf
  <2> QED
    BY <2>2 DEF Free
<1>6. m \in SlotId /\ m # n /\ e \in Element \ Slot /\ At(e) = NoTape
  BY <1>1, <1>5, NumbersApart, AtRows, DrivesApart
<1>7. n \in Element /\ At(n) = t
  BY <1>1, AtRows
<1>8. Holding(t) = {n} /\ \A x \in Element : At(x) = t <=> x = n
  BY <1>1, <1>3, <1>7, AloneIn
<1>9. ASSUME NEW x \in Element
      PROVE  At(x)' = IF x = e THEN t ELSE IF x = n THEN NoTape ELSE At(x)
  BY <1>1, <1>2, <1>4, <1>5, <1>6, AtStep, NumbersApart, DrivesApart
<1>10. Hinted'
  BY <1>2, <1>3, <1>4, <1>5, <1>6, ElementAssumption DEF Hinted
<1>11. Sent(p)'
  <2>1. To(p)' = e /\ From(p)' = n
    BY <1>3 DEF To, From
  <2>2. Holding(t)' = {n}
    BY <1>1, <1>8 DEF Holding
  <2>3. job'[p].row /\ job'[p].slot = n /\ job'[p].elem = e /\ job'[p].tape = t
    BY <1>3
  <2>4. At(e)' = t
    BY <1>6, <1>9
  <2> HIDE DEF e
  <2> QED
    BY <1>1, <1>3, <1>6, <2>1, <2>2, <2>3, <2>4 DEF Sent
<1>12. \A x \in Element : At(x)' = IF x = e THEN t ELSE IF At(x) = t THEN NoTape ELSE At(x)
  BY <1>8, <1>9
<1>13. pc'[p] \in Sending /\ job'[p].tape = t /\ At(e) \in {NoTape, t}
  BY <1>3, <1>6 DEF Sending
<1> HIDE DEF e
<1> QED
  BY <1>1, <1>3, <1>6, <1>10, <1>11, <1>12, <1>13, Announced

\* A command begins that does not touch the tables.
LEMMA BeginsQuietly ==
    ASSUME TypeInv, ~disturbed => Together, NEW p \in Proc,
           NEW l \in {"shelve", "reconcile", "pass", "pull", "mirror"}, NEW j,
           pc[p] = "idle", Alone(p), Goto(p, l), ~disturbed, job' = [job EXCEPT ![p] = j],
           UNCHANGED <<tables, store>>, l = "shelve" => ~tape_in_drive(j.tape),
           l \in {"pull", "mirror"} => seen'[p] = Snapshot /\ \A e \in Misread : store[e] = NoTape
    PROVE  Together'
<1>1. /\ SnapshotOK /\ Hinted /\ OffShelf
      /\ \A q \in Proc : pc[q] = "idle"
      /\ \A u \in Tape : Same(u)
      /\ pc'[p] = l /\ \A q \in Proc \ {p} : pc'[q] = "idle"
      /\ job'[p] = j
  BY BeginsTogether
<1>2. SnapshotOK' /\ Hinted' /\ OffShelf' /\ Snapshot' = Snapshot
      /\ (\A u \in Tape : Same(u)') /\ tape_in_drive(j.tape)' = tape_in_drive(j.tape)
  BY <1>1, SameTables DEF tape_in_drive, tables
<1>3. Orderly(p)'
  <2>1. pc'[p] = "shelve" => ~tape_in_drive(j.tape)' /\ job'[p].tape = j.tape
    BY <1>1, <1>2
  <2>2. CASE l = "shelve"
    <3>1. ~(\E d \in DriveId : drives'[d] = job'[p].tape)
      BY <1>1, <2>2 DEF tape_in_drive, tables
    <3> QED
      BY <1>1, <2>2, <3>1 DEF Orderly, Sending, tape_in_drive
  <2>3. CASE l # "shelve"
    BY <1>1, <1>2, <2>3 DEF Orderly, Sending
  <2> QED
    BY <2>2, <2>3
<1> QED
  BY <1>1, <1>2, <1>3, TogetherStep

LEMMA CommandsTogether ==
    ASSUME TypeInv, TypeInv', ~disturbed => Together, ~disturbed', NEW p \in Proc,
           \/ CatalogCommand(p) \/ reconcile_library(p) \/ auto_align_library(p) \/ ReadInventory(p)
    PROVE  Together'
<1>1. slots \in [SlotId -> Content] /\ drives \in [DriveId -> Content]
  BY DEF TypeInv, TableTypes, RowInv, RowTypes
<1>2. CASE CatalogCommand(p)
  <2>1. ASSUME NEW t \in Tape, NEW n \in SlotNumber, assign_tape_to_slot(p, t, n) PROVE Together'
    BY <2>1, AssignTogether
  <2>2. ASSUME NEW n \in SlotId, NEW d \in DriveNumber, load_tape(p, n, d) PROVE Together'
    <3>1. PICK t \in Tape : t = slots[n]
      BY <1>1, <2>2 DEF load_tape, Content
    <3> QED
      BY <2>2, <3>1, LoadTogether
  <2>3. ASSUME NEW d \in DriveId, unload_tape(p, d) PROVE Together'
    <3>1. PICK t \in Tape : t = drives[d]
      BY <1>1, <2>3 DEF unload_tape, Content
    <3> QED
      BY <2>3, <3>1, UnloadTogether
  <2>4. ASSUME NEW n \in SlotId, eject_tape(p, n) PROVE Together'
    <3>1. PICK t \in Tape : t = slots[n]
      BY <1>1, <2>4 DEF eject_tape, Content
    <3> QED
      BY <2>4, <3>1, EjectTogether
  <2>5. ASSUME NEW t \in Tape, shelf_place_tape(p, t) PROVE Together'
    <3> DEFINE j == [tape |-> t, slot |-> NoSlot, elem |-> NoSlot, row |-> TRUE]
    <3>1. /\ pc[p] = "idle" /\ Alone(p) /\ Goto(p, "shelve") /\ ~disturbed
          /\ job' = [job EXCEPT ![p] = j] /\ UNCHANGED <<tables, store>>
          /\ ~tape_in_drive(j.tape)
      BY <2>5 DEF shelf_place_tape, Begin, Disturb, robot
    <3> HIDE DEF j
    <3> QED
      BY <3>1, BeginsQuietly
  <2> QED
    BY <1>2, <2>1, <2>2, <2>3, <2>4, <2>5 DEF CatalogCommand
<1> DEFINE j == [tape |-> NoTape, slot |-> NoSlot, elem |-> NoSlot, row |-> TRUE]
<1>3. CASE reconcile_library(p) \/ auto_align_library(p)
  <2>1. PICK l \in {"reconcile", "pass"} :
           /\ pc[p] = "idle" /\ Alone(p) /\ Goto(p, l) /\ ~disturbed
           /\ job' = [job EXCEPT ![p] = j] /\ UNCHANGED <<tables, store>>
    BY <1>3 DEF reconcile_library, auto_align_library, Begin, Disturb, robot
  <2> HIDE DEF j
  <2> QED
    BY <2>1, BeginsQuietly
<1>4. CASE ReadInventory(p)
  <2>1. PICK l \in {"pull", "mirror"} :
           /\ pc[p] = "idle" /\ Alone(p) /\ Goto(p, l) /\ ~disturbed
           /\ job' = [job EXCEPT ![p] = j] /\ UNCHANGED <<tables, store>>
           /\ seen' = [seen EXCEPT ![p] = Snapshot] /\ \A e \in Misread : store[e] = NoTape
    BY <1>4 DEF ReadInventory, Begin, Disturb, Answered
  <2>2. seen'[p] = Snapshot
    BY <2>1 DEF TypeInv, WorkInv
  <2> HIDE DEF j
  <2> QED
    BY <2>1, <2>2, BeginsQuietly
<1> QED
  BY <1>2, <1>3, <1>4

\* Shelving clears the rows of one tape, which is evacuated next.
LEMMA ShelveTogether ==
    ASSUME TypeInv, TypeInv', Together, NEW p \in Proc, NEW t \in Tape, t = job[p].tape, Shelve(p)
    PROVE  Together'
<1>1. /\ pc[p] = "shelve" /\ Goto(p, "look") /\ UNCHANGED <<drives, store>>
      /\ slots' = [n \in SlotId |-> IF n = slotOf[t] \/ slots[n] = t THEN NoTape ELSE slots[n]]
      /\ slotOf' = [slotOf EXCEPT ![t] = NoSlot] /\ shelf' = [shelf EXCEPT ![t] = TRUE]
      /\ plan' = [plan EXCEPT ![p] = <<"single">> \o AfterOp]
      /\ todo' = [todo EXCEPT ![p] = {t}]
  BY DEF Shelve, robot
<1>2. /\ SnapshotOK /\ Hinted /\ OffShelf /\ ~tape_in_drive(t)
      /\ \A q \in Proc \ {p} : pc[q] = "idle"
  BY <1>1, OthersIdle DEF Together, Orderly
<1>3. \A u \in Tape : Same(u)
  BY <1>1, <1>2, NotUnderway DEF Underway, Sending, Single
<1>4. /\ pc'[p] = "look" /\ \A q \in Proc \ {p} : pc'[q] = "idle"
      /\ plan'[p] = <<"single">> \o AfterOp /\ todo'[p] = {t}
  BY <1>1, <1>2, GotoOne DEF TypeInv, WorkInv
<1>5. slots \in [SlotId -> Content] /\ drives \in [DriveId -> Content] /\ slotOf \in [Tape -> Int]
      /\ shelf \in [Tape -> BOOLEAN] /\ NoTape \notin Tape
  BY ElementAssumption DEF TypeInv, TableTypes, RowInv, RowTypes
<1>6. \A n \in SlotId : slots'[n] = IF slots[n] = t THEN NoTape ELSE slots[n]
  BY <1>1, <1>2, NumbersApart DEF Hinted
<1>7. \A d \in DriveId : drives'[d] = drives[d] /\ drives[d] # t
  BY <1>1, <1>2 DEF tape_in_drive
<1>8. \A x \in Element : At(x)' = IF At(x) = t THEN NoTape ELSE At(x)
  BY <1>5, <1>6, <1>7, AtStep, NumbersApart
<1>9. SnapshotOK'
  BY <1>1, <1>2 DEF SnapshotOK, Holding
<1>10. Hinted'
  BY <1>1, <1>2, <1>5, <1>6 DEF Hinted
<1>11. OffShelf'
  <2>1. ASSUME NEW x \in Element, At(x)' # NoTape PROVE ~shelf'[At(x)']
    <3>1. At(x)' = At(x) /\ At(x) # NoTape /\ At(x) # t
      BY <1>8, <2>1
    <3>2. ~shelf[At(x)]
      BY <1>2, <3>1 DEF OffShelf
    <3> QED
      BY <1>1, <1>5, <3>1, <3>2
  <2> QED
    BY <2>1 DEF OffShelf
<1>12. \A x \in Element : At(x)' # t
  BY <1>5, <1>8
<1>13. Rows(t)' = {}
  <2>1. ASSUME NEW n \in SlotId PROVE slots'[n] # t
    BY <1>5, <1>6
  <2> QED
    BY <1>7, <2>1, NumbersApart DEF Rows
<1>14. Orderly(p)'
  BY <1>4, <1>13 DEF Orderly, Sending
<1>15. Head(plan'[p]) = "single"
  BY <1>4, SingleFirst
<1>16. ASSUME NEW u \in Tape, ~Underway(p, u)' PROVE Same(u)'
  <2>1. u # t
    BY <1>4, <1>15, <1>16 DEF Underway, Single
  <2> QED
    BY <1>1, <1>3, <1>5, <1>8, <2>1 DEF Same
<1> QED
  BY <1>4, <1>9, <1>10, <1>11, <1>14, <1>16, TogetherStep

\* The steps of a pass that do not touch the changer.
LEMMA PassTogether ==
    ASSUME TypeInv, Together, NEW p \in Proc,
           \/ RowGone(p) \/ ReadShelved(p) \/ ListShelved(p) \/ ReadKernel(p) \/ Compare(p)
           \/ Reconcile(p) \/ FindDrifts(p) \/ FreshInventory(p), ~disturbed'
    PROVE  Together'
<1>1. WorkInv /\ tapes \subseteq Tape
  BY DEF TypeInv, TableTypes, RowInv, RowTypes
<1>2. /\ pc[p] \in {"shelve", "load", "unload", "eject", "pass", "list", "compare", "reconcile", "fresh"}
      /\ UNCHANGED <<tables, store>> /\ pc[p] # "idle"
  BY DEF RowGone, ReadShelved, ListShelved, ReadKernel, Compare, Reconcile, FindDrifts,
     FreshInventory, Answered, robot
<1>3. pc[p] \notin Sending
  <2>1. CASE RowGone(p)
    <3>1. ~job[p].row
      BY <2>1 DEF RowGone
    <3>2. pc[p] \in Sending => job[p].row
      BY DEF Together, Orderly, Sent
    <3> QED
      BY <3>1, <3>2
  <2>2. CASE ~RowGone(p)
    BY <2>2 DEF ReadShelved, ListShelved, ReadKernel, Compare, Reconcile, FindDrifts,
       FreshInventory, Sending
  <2> QED
    BY <2>1, <2>2
<1>4. \A t \in Tape : ~Underway(p, t)
  BY <1>2, <1>3 DEF Underway, Single
<1>5. \A q \in Proc \ {p} : pc[q] = "idle"
  BY <1>2, OthersIdle
<1>6. SnapshotOK /\ Snapshot' = Snapshot /\ \A t : Rows(t)' = Rows(t)
  BY <1>2, SameTables DEF Together
<1>7. ASSUME NEW l, Goto(p, l), Orderly(p)' PROVE Together'
  BY <1>1, <1>2, <1>4, <1>5, <1>7, GotoOne, ControlStep
<1>8. ASSUME PassFails(p) \/ End(p) PROVE Together'
  <2>1. pc'[p] \in {"idle", "pass"} /\ \A q \in Proc \ {p} : pc'[q] = pc[q]
    BY <1>1, <1>8, NextPassGoes, EndsIdle
  <2>2. Orderly(p)'
    BY <2>1 DEF Orderly, Sending
  <2> QED
    BY <1>2, <1>4, <1>5, <2>1, <2>2, ControlStep
<1>9. CASE RowGone(p)
  BY <1>8, <1>9 DEF RowGone
<1>10. CASE ReadShelved(p)
  <2>1. Goto(p, "list") /\ pc'[p] = "list" /\ todo'[p] = {t \in tapes : shelf[t]}
    BY <1>1, <1>10, GotoOne DEF ReadShelved, WorkInv
  <2>2. ASSUME NEW t \in todo'[p] PROVE Rows(t)' = {}
    <3>1. t \in Tape /\ shelf[t]
      BY <1>1, <2>1, <2>2
    <3>2. \A e \in Element : At(e) # t
      BY <3>1, ElementAssumption DEF Together, OffShelf
    <3> QED
      BY <1>6, <3>1, <3>2, RowsAt
  <2>3. Orderly(p)'
    BY <2>1, <2>2 DEF Orderly, Sending
  <2> QED
    BY <1>7, <2>1, <2>3
<1>11. CASE ListShelved(p)
  <2>1. Goto(p, "look") /\ todo' = [todo EXCEPT ![p] = {t \in @ : Snapshot[t] # NoSlot}]
        /\ pc[p] = "list"
    BY <1>6, <1>11 DEF ListShelved
  <2>2. pc'[p] = "look" /\ todo'[p] \subseteq todo[p]
    BY <1>1, <2>1, GotoOne DEF WorkInv
  <2>3. \A t \in todo[p] : Rows(t) = {}
    BY <2>1 DEF Together, Orderly
  <2>4. Orderly(p)'
    BY <1>6, <2>2, <2>3 DEF Orderly, Sending
  <2> QED
    BY <1>7, <2>1, <2>4
<1>12. CASE ReadKernel(p)
  <2>1. Goto(p, "compare") /\ pc'[p] = "compare"
    BY <1>1, <1>6, <1>12, GotoOne DEF ReadKernel
  <2> QED
    BY <1>7, <2>1 DEF Orderly, Sending
<1>13. CASE Compare(p)
  <2>1. CASE ~DbInventoryOK
    BY <1>8, <1>13, <2>1 DEF Compare
  <2>2. CASE DbInventoryOK
    <3>1. Goto(p, "look") /\ pc'[p] = "look"
          /\ todo'[p] = {t \in Tape : seen[p][t] # NoSlot /\ Rows(t) = {}}
      BY <1>1, <1>13, <2>2, GotoOne DEF Compare, WorkInv
    <3>2. Orderly(p)'
      BY <1>6, <3>1 DEF Orderly, Sending
    <3> QED
      BY <1>7, <3>1, <3>2
  <2> QED
    BY <2>1, <2>2
<1>14. ASSUME StartPull(p) PROVE Together'
  <2>1. /\ Goto(p, "pull") /\ pc'[p] = "pull" /\ seen'[p] = Snapshot
        /\ \A e \in Misread : store[e] = NoTape
    BY <1>1, <1>14, GotoOne DEF StartPull, Disturb, WorkInv
  <2>2. seen'[p] = Snapshot' /\ \A e \in Misread : store'[e] = NoTape
    BY <1>2, <1>6, <2>1
  <2>3. Orderly(p)'
    BY <2>1, <2>2 DEF Orderly, Sending
  <2> QED
    BY <1>7, <2>1, <2>3
<1>15. CASE Reconcile(p)
  BY <1>8, <1>14, <1>15 DEF Reconcile
<1>16. CASE FindDrifts(p)
  <2>1. CASE Goto(p, "fresh")
    <3>1. pc'[p] = "fresh"
      BY <1>1, <2>1, GotoOne
    <3> QED
      BY <1>7, <2>1, <3>1 DEF Orderly, Sending
  <2>2. CASE End(p)
    BY <1>8, <2>2
  <2> QED
    BY <1>16, <2>1, <2>2 DEF FindDrifts
<1>17. CASE FreshInventory(p)
  BY <1>8, <1>14, <1>17 DEF FreshInventory
<1> QED
  BY <1>9, <1>10, <1>11, <1>12, <1>13, <1>15, <1>16, <1>17

\* One tape less to evacuate, or one tape found where it should not be.
LEMMA LookTogether ==
    ASSUME TypeInv, Together, NEW p \in Proc, Look(p)
    PROVE  Together'
<1>1. WorkInv /\ pc[p] = "look" /\ UNCHANGED <<tables, store>> /\ plan[p] # << >>
  BY DEF TypeInv, WorkInv, Passing, Look, Answered, robot
<1>2. /\ SnapshotOK /\ Snapshot' = Snapshot /\ SnapshotOK' /\ Hinted' /\ OffShelf'
      /\ \A u : Rows(u)' = Rows(u) /\ Same(u)' = Same(u)
  BY <1>1, SameTables DEF Together
<1>3. (\A q \in Proc \ {p} : pc[q] = "idle") /\ \A u \in todo[p] : Rows(u) = {}
  BY <1>1, OthersIdle DEF Together, Orderly
<1>4. CASE todo[p] = {} /\ NextPass(p)
  <2>1. \A u \in Tape : ~Underway(p, u)
    BY <1>1, <1>4 DEF Underway, Sending
  <2>2. pc'[p] \in {"idle", "pass"} /\ \A q \in Proc \ {p} : pc'[q] = pc[q]
    BY <1>1, <1>4, NextPassGoes
  <2>3. Orderly(p)'
    BY <2>2 DEF Orderly, Sending
  <2> QED
    BY <1>1, <1>3, <2>1, <2>2, <2>3, ControlStep
<1>5. ASSUME NEW t \in todo[p],
             IF SnapshotOK /\ Snapshot[t] # NoSlot
             THEN /\ Goto(p, "remove")
                  /\ job' = [job EXCEPT ![p].tape = t, ![p].elem = Snapshot[t]]
                  /\ UNCHANGED work
             ELSE /\ todo' = [todo EXCEPT ![p] = @ \ {t}]
                  /\ IF SnapshotOK THEN Count(p) ELSE UNCHANGED plan
                  /\ UNCHANGED <<pc, job, seen, known>>
      PROVE  Together'
  <2>1. t \in Tape /\ \A q \in Proc \ {p} : pc'[q] = "idle"
    BY <1>1, <1>3, <1>5, GotoOne DEF WorkInv
  <2>2. Rows(t) = {}
    BY <1>3
  <2>3. Same(t) <=> Holding(t) = {}
    <3>1. \A e \in Element : At(e) # t
      BY <2>1, <2>2, RowsAt
    <3> QED
      BY <3>1 DEF Same, Holding
  <2>4. CASE Snapshot[t] # NoSlot
    <3>1. pc'[p] = "remove" /\ UNCHANGED <<plan, todo>> /\ Goto(p, "remove")
      BY <1>1, <1>2, <1>5, <2>4, GotoOne DEF work
    <3>2. job'[p].tape = t /\ job'[p].elem = Snapshot[t]
      <4>1. job' = [job EXCEPT ![p].tape = t, ![p].elem = Snapshot[t]]
        BY <1>2, <1>5, <2>4
      <4>2. job \in [Proc -> Job]
        BY <1>1 DEF WorkInv
      <4> QED
        BY <4>1, <4>2 DEF Job
    <3>3. store[Snapshot[t]] = t
      BY <2>1, <2>4, SnapshotTyped
    <3>4. Head(plan[p]) = "single"
      <4>1. ~Same(t)
        BY <1>2, <2>1, <2>3, <2>4, Found
      <4>2. Underway(p, t)
        BY <1>3, <2>1, <4>1, NotUnderway
      <4> QED
        BY <1>1, <4>2 DEF Underway, Sending, Single
    <3>5. Orderly(p)'
      <4>1. store'[job'[p].elem] = t
        BY <1>1, <3>2, <3>3
      <4> QED
        BY <1>2, <1>3, <3>1, <3>2, <3>4, <4>1 DEF Orderly, Sending
    <3>6. ASSUME NEW u \in Tape, ~Underway(p, u)' PROVE Same(u)'
      <4>1. ~Underway(p, u)
        BY <1>1, <3>1, <3>6 DEF Underway, Sending, Single
      <4> QED
        BY <1>2, <1>3, <4>1, NotUnderway
    <3> QED
      BY <1>2, <2>1, <3>5, <3>6, TogetherStep
  <2>5. CASE Snapshot[t] = NoSlot
    <3>1. Count(p) /\ UNCHANGED <<pc, job>> /\ todo'[p] = todo[p] \ {t}
      BY <1>1, <1>2, <1>5, <2>5 DEF WorkInv
    <3>2. Same(t)
      BY <1>2, <2>1, <2>3, <2>5, Found
    <3>3. Single(p) => Single(p)'
      BY <1>1, <3>1, CountHead DEF Single
    <3>4. Orderly(p)'
      BY <1>1, <1>2, <1>3, <3>1 DEF Orderly, Sending
    <3>5. ASSUME NEW u \in Tape, ~Underway(p, u)' PROVE Same(u)'
      <4>1. CASE u = t
        BY <1>2, <3>2, <4>1
      <4>2. CASE u # t
        <5>1. ~Underway(p, u)
          BY <1>1, <3>1, <3>3, <3>5, <4>2 DEF Underway, Sending
        <5> QED
          BY <1>2, <1>3, <5>1, NotUnderway
      <4> QED
        BY <4>1, <4>2
    <3> QED
      BY <1>2, <2>1, <3>4, <3>5, TogetherStep
  <2> QED
    BY <2>4, <2>5
<1> QED
  BY <1>4, <1>5 DEF Look

\* The tape that was just put on a shelf leaves the changer.
LEMMA EvacuationTogether ==
    ASSUME TypeInv, Together, NEW p \in Proc, evacuate_element(p)
    PROVE  Together'
<1> DEFINE e == job[p].elem
<1>1. /\ WorkInv /\ Changer /\ pc[p] = "remove" /\ UNCHANGED tables /\ plan[p] # << >>
      /\ Robot!Remove(e) /\ Goto(p, "look") /\ Count(p)
      /\ todo' = [todo EXCEPT ![p] = @ \ {job[p].tape}]
  BY DEF TypeInv, WorkInv, Passing, evacuate_element
<1>2. PICK t \in Tape : t = job[p].tape
  BY <1>1 DEF WorkInv, OnTape
<1>3. /\ SnapshotOK /\ Hinted /\ OffShelf /\ e \in Element /\ store[e] = t /\ t \in todo[p]
      /\ Head(plan[p]) = "single"
      /\ \A q \in Proc \ {p} : pc[q] = "idle"
      /\ \A u \in todo[p] : Rows(u) = {}
  BY <1>1, <1>2, OthersIdle DEF Together, Orderly, WorkInv
<1>4. /\ SnapshotOK' /\ Holding(t)' = {}
      /\ \A u \in Tape \ {t} : Holding(u)' = Holding(u)
  <2> HIDE DEF e
  <2> QED
    BY <1>1, <1>2, <1>3, RemoveEmpties
<1>5. (\A x : At(x)' = At(x)) /\ \A u : Rows(u)' = Rows(u)
  BY <1>1, SameAt, SameRows DEF tables
<1>6. Hinted' /\ OffShelf'
  BY <1>1, <1>3, <1>5 DEF Hinted, OffShelf, tables
<1>7. /\ pc'[p] = "look" /\ todo'[p] = todo[p] \ {t} /\ Head(plan'[p]) = "single"
      /\ \A q \in Proc \ {p} : pc'[q] = "idle"
  BY <1>1, <1>2, <1>3, GotoOne, CountHead DEF WorkInv
<1>8. Orderly(p)'
  BY <1>3, <1>5, <1>7 DEF Orderly, Sending
<1>9. ASSUME NEW u \in Tape, ~Underway(p, u)' PROVE Same(u)'
  <2>1. CASE u = t
    <3>1. Rows(t) = {}
      BY <1>3
    <3>2. \A x \in Element : At(x) # t
      BY <3>1, RowsAt
    <3> QED
      BY <1>4, <1>5, <2>1, <3>2 DEF Same, Holding
  <2>2. CASE u # t
    <3>1. ~Underway(p, u)
      BY <1>1, <1>7, <1>9, <2>2 DEF Underway, Sending, Single
    <3>2. Same(u)
      BY <1>3, <3>1, NotUnderway
    <3>3. \A x \in Element : store'[x] = u <=> store[x] = u
      BY <1>4, <2>2 DEF Holding
    <3> QED
      BY <1>5, <3>2, <3>3 DEF Same
  <2> QED
    BY <2>1, <2>2
<1> QED
  BY <1>4, <1>6, <1>7, <1>8, <1>9, TogetherStep

-----------------------------------------------------------------------------
(* The catalogue read from the changer                                     *)

\* What a snapshot says of an element that is not misread.
LEMMA ElementsBack ==
    /\ \A n \in Slot : FromElement(n) = DataSlot(n) /\ FromElement(n)[2] = n
    /\ \A n \in MailId : /\ FromElement(MailElement(n)) = MailSlot(n)
                         /\ FromElement(MailElement(n))[2] = n
    /\ \A e \in Element \ Misread : e \in Slot \/ \E n \in MailId : e = MailElement(n)
<1>1. \A n \in Slot : n < IEBase
  BY ElementAssumption DEF Slot
<1>2. ASSUME NEW n \in MailId
      PROVE ~(MailElement(n) < IEBase) /\ MailOffset + (MailElement(n) - IEBase) = n
  BY ElementAssumption, CatalogAssumption DEF MailId, MailElement
<1>3. ASSUME NEW e \in Mailslot \ Rowless PROVE \E n \in MailId : e = MailElement(n)
  BY MailNumbers
<1>4. \A n : DataSlot(n)[2] = n /\ MailSlot(n)[2] = n
  BY DEF DataSlot, MailSlot
<1>5. \A n \in MailId : FromElement(MailElement(n)) = MailSlot(n)
  BY <1>2 DEF FromElement
<1>6. \A n \in Slot : FromElement(n) = DataSlot(n)
  BY <1>1 DEF FromElement
<1> QED
  BY <1>3, <1>4, <1>5, <1>6, MisreadIs DEF Element

LEMMA LocationsApart ==
    /\ \A n, m : DataSlot(n) = DataSlot(m) => n = m
    /\ \A n, m : MailSlot(n) = MailSlot(m) => n = m
    /\ \A n, m : DataSlot(n) # MailSlot(m) /\ DataSlot(n) # InDrive(m) /\ MailSlot(n) # InDrive(m)
BY DEF DataSlot, MailSlot, InDrive

\* A pull finds the tape of an element of which alone a location speaks.
LEMMA PulledIs ==
    ASSUME TypeInv, SnapshotOK, NEW p \in Proc, seen[p] = Snapshot,
           \A e \in Misread : store[e] = NoTape, \A t \in Tape \ tapes : Holding(t) = {},
           NEW locs, NEW e \in Element \ Misread, FromElement(e) \in locs,
           \A x \in Element \ Misread : FromElement(x) \in locs => x = e
    PROVE  Arrivals(p, locs) = {store[e]}
<1> DEFINE found == {t \in tapes : seen[p][t] # NoSlot /\ FromElement(seen[p][t]) \in locs}
<1>1. store \in [Element -> Content] /\ tapes \subseteq Tape /\ NoTape \notin Tape
  BY ElementAssumption DEF TypeInv, Changer, TableTypes, RowInv, RowTypes
<1>2. ASSUME NEW t \in found PROVE store[e] = t
  <2>1. t \in Tape /\ Snapshot[t] # NoSlot
    BY <1>1
  <2>2. Snapshot[t] \in Element /\ store[Snapshot[t]] = t
    BY <2>1, SnapshotTyped
  <2>3. Snapshot[t] \notin Misread
    BY <1>1, <2>1, <2>2
  <2> QED
    BY <2>2, <2>3
<1>3. CASE store[e] = NoTape
  <2>1. found = {}
    BY <1>1, <1>2, <1>3
  <2> QED
    BY <1>3, <2>1 DEF Arrivals
<1>4. CASE store[e] # NoTape
  <2>1. PICK t \in Tape : t = store[e]
    BY <1>1, <1>4 DEF Content
  <2>2. e \in Holding(t)
    BY <2>1 DEF Holding
  <2>3. Snapshot[t] = e /\ t \in tapes
    BY <2>2, Found
  <2>4. e # NoSlot
    BY <2>2, <2>3, Found
  <2>5. t \in found
    BY <2>3, <2>4
  <2>6. found = {store[e]}
    BY <1>2, <2>1, <2>5
  <2> QED
    BY <2>5, <2>6 DEF Arrivals
<1> QED
  BY <1>3, <1>4

\* After a pull the catalogue says what the changer holds, if it holds nothing
\* in a drive and nothing without a row.
LEMMA Restored ==
    ASSUME TypeInv, TypeInv', Hints, NEW p \in Proc, apply_kernel_to_db(p),
           SnapshotOK, seen[p] = Snapshot, \A e \in Misread : store[e] = NoTape,
           \A t \in Tape \ tapes : Holding(t) = {}, \A q \in Proc \ {p} : pc[q] = "idle"
    PROVE  Together'
<1> DEFINE found == {t \in tapes : seen[p][t] # NoSlot}
<1>1. /\ End(p) /\ UNCHANGED <<tapes, store>>
      /\ \A n \in SlotId : slots'[n] \in Arrivals(p, {DataSlot(n), MailSlot(n)})
      /\ \A d \in DriveId : drives'[d] \in Arrivals(p, {InDrive(d)})
      /\ shelf' = [t \in Tape |-> shelf[t] /\ t \notin found]
      /\ slotOf' = [t \in Tape |-> IF t \notin found /\ shelf[t] THEN slotOf[t]
                       ELSE IF \E n \in SlotId : slots'[n] = t THEN FromElement(seen[p][t])[2]
                       ELSE NoSlot]
  BY DEF apply_kernel_to_db, robot
<1>2. store \in [Element -> Content] /\ tapes \subseteq Tape /\ NoTape \notin Tape
  BY ElementAssumption DEF TypeInv, Changer, TableTypes, RowInv, RowTypes
<1>3. ASSUME NEW n \in Slot PROVE slots'[n] = store[n]
  <2>1. n \in Element \ Misread
    BY ElementAssumption, MisreadIs DEF Element, Slot, Drive, Rowless, Mailslot
  <2>2. ASSUME NEW x \in Element \ Misread, FromElement(x) \in {DataSlot(n), MailSlot(n)}
        PROVE  x = n
    BY <2>2, ElementsBack, LocationsApart, NumbersApart
  <2>3. FromElement(n) \in {DataSlot(n), MailSlot(n)}
    BY ElementsBack
  <2>4. Arrivals(p, {DataSlot(n), MailSlot(n)}) = {store[n]}
    BY <2>1, <2>2, <2>3, PulledIs
  <2> QED
    BY <1>1, <2>4, NumbersApart
<1>4. ASSUME NEW n \in MailId PROVE slots'[n] = store[MailElement(n)]
  <2>1. MailElement(n) \in Element \ Misread
    <3>1. MailElement(n) \in Mailslot /\ MailNumber(MailElement(n)) = n
      BY ElementAssumption, CatalogAssumption DEF MailElement, MailId, Mailslot, MailNumber
    <3> QED
      BY <3>1, MailNumbers, MisreadIs DEF Element, Rowless
  <2>2. ASSUME NEW x \in Element \ Misread, FromElement(x) \in {DataSlot(n), MailSlot(n)}
        PROVE  x = MailElement(n)
    BY <2>2, ElementsBack, LocationsApart, NumbersApart
  <2>3. FromElement(MailElement(n)) \in {DataSlot(n), MailSlot(n)}
    BY ElementsBack
  <2>4. Arrivals(p, {DataSlot(n), MailSlot(n)}) = {store[MailElement(n)]}
    BY <2>1, <2>2, <2>3, PulledIs
  <2> QED
    BY <1>1, <2>4, NumbersApart
<1>5. ASSUME NEW d \in DriveId PROVE drives'[d] = store[DriveBase + d]
  <2>1. \A e : FromElement(e) # InDrive(d)
    BY LocationsApart DEF FromElement
  <2>2. Arrivals(p, {InDrive(d)}) = {NoTape}
    BY <2>1 DEF Arrivals
  <2> QED
    BY <1>1, <2>2, AtRows, MisreadIs
<1>6. \A e \in Element : At(e)' = store'[e]
  BY <1>1, <1>3, <1>4, <1>5, AtStep, MisreadIs
<1>7. SnapshotOK' /\ \A t \in Tape : Same(t)'
  BY <1>1, <1>6 DEF SnapshotOK, Holding, Same
<1>8. OffShelf'
  <2>1. ASSUME NEW e \in Element, store[e] # NoTape PROVE ~shelf'[store[e]]
    <3>1. PICK t \in Tape : t = store[e]
      BY <1>2, <2>1 DEF Content
    <3>2. t \in tapes /\ Snapshot[t] # NoSlot
      BY <3>1, Found DEF Holding
    <3> QED
      BY <1>1, <3>1, <3>2
  <2> QED
    BY <1>1, <1>6, <2>1 DEF OffShelf
<1>9. Hinted'
  <2>1. ASSUME NEW t \in Tape, slotOf'[t] # NoSlot
        PROVE  slotOf'[t] \in SlotId /\ slots'[slotOf'[t]] = t
    <3>1. PICK n \in SlotId : slots'[n] = t
      BY <1>1, <2>1 DEF Hints
    <3>2. slotOf'[t] = FromElement(Snapshot[t])[2]
      BY <1>1, <2>1, <3>1 DEF Hints
    <3>3. CASE n \in Slot
      <4>1. n \in Holding(t)
        BY <1>3, <3>1, <3>3, AtRows DEF Holding
      <4>2. Snapshot[t] = n
        BY <4>1, Found
      <4> QED
        BY <3>1, <3>2, <3>3, <4>2, ElementsBack
    <3>4. CASE n \in MailId
      <4>1. MailElement(n) \in Holding(t)
        BY <1>4, <3>1, <3>4, DrivesApart DEF Holding
      <4>2. Snapshot[t] = MailElement(n)
        BY <4>1, Found
      <4> QED
        BY <3>1, <3>2, <3>4, <4>2, ElementsBack
    <3> QED
      BY <3>3, <3>4 DEF SlotId
  <2> QED
    BY <2>1 DEF Hinted
<1>10. pc'[p] = "idle" /\ \A q \in Proc \ {p} : pc'[q] = "idle"
  BY <1>1, EndsIdle DEF TypeInv
<1>11. Orderly(p)'
  BY <1>10 DEF Orderly, Sending
<1> QED
  BY <1>7, <1>8, <1>9, <1>10, <1>11, TogetherStep

\* A mirror of the hints alone agrees with rows that were right already.
LEMMA MirrorTogether ==
    ASSUME TypeInv, Together, NEW p \in Proc, mirror_kernel_catalog_hints_only(p)
    PROVE  Together'
<1> DEFINE found == {t \in tapes : seen[p][t] # NoSlot /\ FromElement(seen[p][t])[1] = "data"}
<1>1. /\ pc[p] = "mirror" /\ End(p) /\ UNCHANGED <<tapes, slots, drives, store>>
      /\ slotOf' = [t \in Tape |-> IF t \in found THEN FromElement(seen[p][t])[2] ELSE NoSlot]
      /\ shelf' = [t \in Tape |-> shelf[t] /\ t \notin found]
  BY DEF mirror_kernel_catalog_hints_only, robot
<1>2. /\ SnapshotOK /\ OffShelf /\ seen[p] = Snapshot /\ \A e \in Misread : store[e] = NoTape
      /\ \A q \in Proc \ {p} : pc[q] = "idle"
  BY <1>1, OthersIdle DEF Together, Orderly
<1>3. \A t \in Tape : Same(t)
  BY <1>1, <1>2, NotUnderway DEF Underway, Sending, Single
<1>4. \A e : At(e)' = At(e)
  BY <1>1, SameAt
<1>5. SnapshotOK' /\ \A t \in Tape : Same(t)'
  BY <1>1, <1>2, <1>3, <1>4 DEF SnapshotOK, Holding, Same
<1>6. tapes \subseteq Tape /\ NoTape \notin Tape /\ RowInv
  BY ElementAssumption DEF TypeInv, TableTypes, RowInv, RowTypes
<1>7. OffShelf'
  <2>1. ASSUME NEW e \in Element, At(e) # NoTape PROVE ~shelf'[At(e)]
    <3>1. At(e) \in Tape /\ ~shelf[At(e)]
      BY <1>2, <1>6, <2>1, AtTyped DEF OffShelf
    <3> QED
      BY <1>1, <3>1
  <2> QED
    BY <1>4, <2>1 DEF OffShelf
<1>8. Hinted'
  <2>1. ASSUME NEW t \in Tape, slotOf'[t] # NoSlot
        PROVE  slotOf'[t] \in SlotId /\ slots[slotOf'[t]] = t
    <3>1. /\ Snapshot[t] # NoSlot /\ FromElement(Snapshot[t])[1] = "data"
          /\ slotOf'[t] = FromElement(Snapshot[t])[2]
      BY <1>1, <1>2, <2>1
    <3>2. Snapshot[t] \in Element /\ store[Snapshot[t]] = t
      BY <3>1, SnapshotTyped
    <3>3. Snapshot[t] \in Slot
      <4>1. Snapshot[t] \in Element \ Misread
        BY <1>2, <1>6, <3>2
      <4>2. ASSUME NEW n \in MailId, Snapshot[t] = MailElement(n) PROVE FALSE
        <5>1. FromElement(Snapshot[t]) = MailSlot(n)
          BY <4>2, ElementsBack
        <5> QED
          BY <3>1, <5>1 DEF MailSlot
      <4> QED
        BY <4>1, <4>2, ElementsBack
    <3>4. slots[Snapshot[t]] = t
      BY <1>3, <3>2, <3>3, AtRows DEF Same
    <3> QED
      BY <3>1, <3>3, <3>4, ElementsBack, NumbersApart
  <2> QED
    BY <1>1, <2>1 DEF Hinted
<1>9. pc'[p] = "idle" /\ \A q \in Proc \ {p} : pc'[q] = "idle"
  BY <1>1, <1>2, EndsIdle DEF TypeInv
<1>10. Orderly(p)'
  BY <1>9 DEF Orderly, Sending
<1> QED
  BY <1>5, <1>7, <1>8, <1>9, <1>10, TogetherStep

-----------------------------------------------------------------------------
(* Commands keep step                                                      *)

LEMMA PullTogether ==
    ASSUME TypeInv, TypeInv', CalmInv, StepInv, NEW p \in Proc, apply_kernel_to_db(p), ~disturbed'
    PROVE  Together'
<1>1. pc[p] = "pull" /\ (disturbed => Restores) /\ Hints
  BY DEF apply_kernel_to_db, StepInv
<1>2. CASE disturbed
  <2>1. SnapshotOK /\ seen[p] = Snapshot /\ \A q \in Proc \ {p} : pc[q] = "idle"
    BY <1>1, <1>2, OneWorks DEF Restores, CalmInv, Read
  <2> QED
    BY <1>1, <1>2, <2>1, Restored DEF Restores
<1>3. CASE ~disturbed
  <2>1. /\ Together /\ SnapshotOK /\ seen[p] = Snapshot
        /\ \A e \in Misread : store[e] = NoTape
        /\ \A q \in Proc \ {p} : pc[q] = "idle"
    BY <1>1, <1>3, OthersIdle DEF StepInv, Together, Orderly
  <2>2. ASSUME NEW t \in Tape \ tapes PROVE Holding(t) = {}
    <3>1. Same(t)
      BY <1>1, <2>1, NotUnderway DEF Underway, Sending, Single
    <3>2. \A e \in Element : At(e) # t
      BY ElementAssumption, AtTyped DEF TypeInv, TableTypes
    <3> QED
      BY <3>1, <3>2 DEF Same, Holding
  <2> QED
    BY <1>1, <2>1, <2>2, Restored
<1> QED
  BY <1>2, <1>3

LEMMA CreateTogether ==
    ASSUME TypeInv, Together, NEW t \in Tape, create_tape(t)
    PROVE  Together'
<1>1. /\ t \notin tapes /\ shelf' = [shelf EXCEPT ![t] = TRUE]
      /\ UNCHANGED <<slotOf, slots, drives, store, pc, job, plan, todo, seen>>
  BY DEF create_tape, robot, work
<1>2. (\A x : At(x)' = At(x)) /\ \A u : Rows(u)' = Rows(u) /\ Holding(u)' = Holding(u)
  BY <1>1 DEF At, Rows, Holding
<1>3. SnapshotOK' /\ Hinted' /\ Snapshot' = Snapshot
  BY <1>1, <1>2 DEF SnapshotOK, Hinted, Snapshot, Together
<1>4. OffShelf'
  <2>1. ASSUME NEW e \in Element, At(e) # NoTape PROVE ~shelf'[At(e)]
    <3>1. At(e) \in tapes /\ ~shelf[At(e)]
      BY <2>1, AtTyped DEF Together, OffShelf, TypeInv, TableTypes
    <3> QED
      BY <1>1, <3>1 DEF TypeInv, TableTypes, RowInv, RowTypes
  <2> QED
    BY <1>2, <2>1 DEF OffShelf
<1>5. ASSUME NEW p \in Proc PROVE Orderly(p)'
  <2>1. Orderly(p) /\ From(p)' = From(p) /\ To(p)' = To(p)
    BY <1>1 DEF Together, From, To
  <2>2. Sent(p)' = Sent(p)
    BY <1>1, <1>2, <2>1 DEF Sent
  <2> QED
    BY <1>1, <1>2, <1>3, <2>1, <2>2 DEF Orderly, tape_in_drive
<1>6. ASSUME NEW u \in Tape, \A p \in Proc : ~Underway(p, u)' PROVE Same(u)'
  <2>1. \A p \in Proc : Underway(p, u)' = Underway(p, u)
    BY <1>1 DEF Underway, Single
  <2>2. Same(u)
    BY <1>6, <2>1 DEF Together
  <2> QED
    BY <1>1, <1>2, <2>2 DEF Same
<1>7. \A p, q \in Proc : pc'[p] # "idle" /\ pc'[q] # "idle" => p = q
  BY <1>1 DEF Together
<1> QED
  BY <1>3, <1>4, <1>5, <1>6, <1>7 DEF Together

\* A tape may be deleted that is nowhere: no command is under way with it.
LEMMA DeleteTogether ==
    ASSUME TypeInv, TypeInv', Together, NEW t \in Tape, delete_tape_in_library(t), ~disturbed'
    PROVE  Together'
<1>1. /\ Holding(t) = {} /\ Rows(t) = {}
      /\ shelf' = [shelf EXCEPT ![t] = FALSE] /\ slotOf' = [slotOf EXCEPT ![t] = NoSlot]
      /\ slots' = [n \in SlotId |-> IF slots[n] = t THEN NoTape ELSE slots[n]]
      /\ drives' = [d \in DriveId |-> IF drives[d] = t THEN NoTape ELSE drives[d]]
      /\ job' = [q \in Proc |-> [job[q] EXCEPT !.row = @ /\ job[q].tape # t]]
      /\ UNCHANGED <<store, pc, plan, todo, seen>>
  BY DEF delete_tape_in_library, Disturb, robot, work
<1>2. slots \in [SlotId -> Content] /\ drives \in [DriveId -> Content] /\ slotOf \in [Tape -> Int]
      /\ shelf \in [Tape -> BOOLEAN] /\ NoTape \notin Tape
  BY ElementAssumption DEF TypeInv, TableTypes, RowInv, RowTypes
<1>3. \A e \in Element : At(e) # t
  BY <1>1, RowsAt
<1>4. UNCHANGED <<slots, drives>>
  <2>1. \A n \in SlotId : slots[n] # t
    BY <1>3, AtRows DEF SlotId, Element
  <2>2. \A d \in DriveId : drives[d] # t
    BY <1>3, AtRows DEF Element
  <2> QED
    BY <1>1, <1>2, <2>1, <2>2
<1>5. (\A x : At(x)' = At(x)) /\ \A u : Rows(u)' = Rows(u) /\ Holding(u)' = Holding(u)
  BY <1>1, <1>4 DEF At, Rows, Holding
<1>6. SnapshotOK' /\ Snapshot' = Snapshot
  BY <1>1, <1>5 DEF SnapshotOK, Snapshot, Together
<1>7. Hinted'
  BY <1>1, <1>2, <1>4 DEF Hinted, Together
<1>8. OffShelf'
  <2>1. ASSUME NEW e \in Element, At(e) # NoTape PROVE ~shelf'[At(e)]
    <3>1. At(e) \in Tape /\ ~shelf[At(e)]
      BY <2>1, AtTyped DEF Together, OffShelf, TypeInv, TableTypes, RowInv, RowTypes
    <3> QED
      BY <1>1, <1>2, <3>1
  <2> QED
    BY <1>5, <2>1 DEF OffShelf
<1>9. ASSUME NEW p \in Proc
      PROVE  /\ job'[p].tape = job[p].tape /\ job'[p].slot = job[p].slot
             /\ job'[p].elem = job[p].elem /\ (job[p].tape # t => job'[p].row = job[p].row)
  <2>1. job[p] \in Job /\ job'[p] = [job[p] EXCEPT !.row = @ /\ job[p].tape # t]
    BY <1>1 DEF TypeInv, WorkInv
  <2>2. PICK a \in Content, b \in Int, c \in Int, r \in BOOLEAN :
           job[p] = [tape |-> a, slot |-> b, elem |-> c, row |-> r]
    BY <2>1, Zenon DEF Job
  <2>3. job'[p] = [tape |-> a, slot |-> b, elem |-> c, row |-> r /\ a # t]
    BY <2>1, <2>2
  <2>4. job'[p].tape = a /\ job'[p].slot = b /\ job'[p].elem = c
        /\ job[p].tape = a /\ job[p].slot = b /\ job[p].elem = c
    BY <2>2, <2>3
  <2>5. ASSUME a # t PROVE job'[p] = job[p]
    <3>1. (r /\ a # t) = r
      BY <2>5
    <3> QED
      BY <2>2, <2>3, <3>1, Zenon
  <2>6. a # t => job'[p].row = job[p].row
    BY <2>5, Zenon
  <2> QED
    BY <2>4, <2>6, Zenon
<1>10. ASSUME NEW p \in Proc PROVE Orderly(p)'
  <2>1. Orderly(p) /\ From(p)' = From(p) /\ To(p)' = To(p)
    BY <1>1, <1>9 DEF Together, From, To
  <2>2. ASSUME pc[p] \in Sending PROVE Sent(p)'
    <3>1. Sent(p) /\ To(p) \in Element
      BY <2>1, <2>2 DEF Orderly, Sent, To, Element, Sending
    <3>2. job[p].tape # t
      BY <1>3, <3>1 DEF Sent
    <3>3. job'[p].row
      BY <1>9, <3>1, <3>2 DEF Sent
    <3> QED
      BY <1>1, <1>5, <1>9, <2>1, <3>1, <3>3 DEF Sent
  <2>3. \A u : tape_in_drive(u)' = tape_in_drive(u)
    BY <1>4 DEF tape_in_drive
  <2> QED
    BY <1>1, <1>4, <1>5, <1>6, <1>9, <2>1, <2>2 DEF Orderly, tape_in_drive
<1>11. ASSUME NEW u \in Tape, \A p \in Proc : ~Underway(p, u)' PROVE Same(u)'
  <2>1. \A p \in Proc : Underway(p, u)' = Underway(p, u)
    BY <1>1, <1>9 DEF Underway, Single
  <2>2. Same(u)
    BY <1>11, <2>1 DEF Together
  <2> QED
    BY <1>1, <1>5, <2>2 DEF Same
<1>12. \A p, q \in Proc : pc'[p] # "idle" /\ pc'[q] # "idle" => p = q
  BY <1>1 DEF Together
<1> QED
  BY <1>6, <1>7, <1>8, <1>10, <1>11, <1>12 DEF Together

\* A failure that leaves the two together: the robot had been told.
LEMMA FailureTogether ==
    ASSUME TypeInv, Together, NEW p \in Proc, IoctlFails(p) \/ Crash(p), ~disturbed'
    PROVE  Together'
<1>1. /\ WorkInv /\ UNCHANGED <<tables, store>> /\ ~Unfinished(p) /\ pc[p] # "idle"
  BY DEF TypeInv, IoctlFails, Crash, Disturb, robot
<1>2. pc[p] \notin {"move", "place"}
  BY DEF IoctlFails, Crash
<1>3. \A t \in Tape : ~Underway(p, t)
  <2>1. pc[p] \notin Sending
    BY <1>1, <1>2 DEF Unfinished, Sending
  <2>2. ~Single(p)
    BY <1>1 DEF Single, Unfinished, WorkInv, Passing
  <2> QED
    BY <2>1, <2>2 DEF Underway
<1>4. \A q \in Proc \ {p} : pc[q] = "idle"
  BY <1>1, OthersIdle
<1>5. ASSUME End(p) \/ PassFails(p) PROVE Together'
  <2>1. pc'[p] \in {"idle", "pass"} /\ \A q \in Proc \ {p} : pc'[q] = pc[q]
    BY <1>1, <1>5, NextPassGoes, EndsIdle
  <2>2. Orderly(p)'
    BY <2>1 DEF Orderly, Sending
  <2> QED
    BY <1>1, <1>3, <1>4, <2>1, <2>2, ControlStep
<1>6. ASSUME pc[p] = "look", NEW t \in todo[p], UNCHANGED <<pc, job, plan, seen, known>>,
             todo' = [todo EXCEPT ![p] = @ \ {t}]
      PROVE  Together'
  <2>1. todo'[p] \subseteq todo[p]
    BY <1>1, <1>6 DEF WorkInv
  <2>2. \A u \in todo[p] : Rows(u)' = {}
    BY <1>1, <1>6, SameTables DEF Together, Orderly
  <2>3. Orderly(p)'
    BY <1>6, <2>1, <2>2 DEF Orderly, Sending
  <2> QED
    BY <1>1, <1>3, <1>4, <1>6, <2>3, ControlStep
<1>7. pc[p] # "remove"
  BY <1>1 DEF Together, Orderly, Unfinished, WorkInv, Passing
<1>8. CASE Crash(p)
  BY <1>5, <1>8 DEF Crash
<1>9. CASE IoctlFails(p)
  BY <1>1, <1>5, <1>6, <1>7, <1>9 DEF IoctlFails, Unfinished
<1> QED
  BY <1>8, <1>9

\* The numbers in tapes.slot follow the rows, whatever the robot does.
LEMMA HintsStep == ASSUME TypeInv, TypeInv', Hints, [Next]_vars PROVE Hints'
<1>1. slotOf \in [Tape -> Int] /\ shelf \in [Tape -> BOOLEAN] /\ tapes \subseteq Tape
      /\ slots \in [SlotId -> Content] /\ drives \in [DriveId -> Content]
      /\ SlotsKnown /\ DrivesKnown /\ NoTape \notin Tape
  BY ElementAssumption DEF TypeInv, TableTypes, RowInv, RowTypes
<1>2. ASSUME UNCHANGED <<tapes, shelf, slotOf>> PROVE Hints'
  BY <1>2 DEF Hints
<1>3. ASSUME NEW t \in Tape, create_tape(t) PROVE Hints'
  BY <1>1, <1>3 DEF create_tape, Hints
<1>4. ASSUME NEW t \in Tape, delete_tape_in_library(t) PROVE Hints'
  BY <1>1, <1>4 DEF delete_tape_in_library, Hints
<1>12. ASSUME NEW t \in Tape, NEW n \in ImportNumber, import_tape(t, n) PROVE Hints'
  BY <1>1, <1>12 DEF import_tape, Hints
<1>13. ASSUME NEW p \in Proc, NEW t \in Tape, NEW n \in ImportNumber,
              import_offline_tape_to_online_slot(p, t, n)
       PROVE  Hints'
  BY <1>1, <1>13 DEF import_offline_tape_to_online_slot, Hints
<1>5. ASSUME NEW p \in Proc, CatalogCommand(p) PROVE Hints'
  <2>1. ASSUME NEW t \in Tape, NEW n \in SlotNumber, assign_tape_to_slot(p, t, n) PROVE Hints'
    BY <1>1, <2>1 DEF assign_tape_to_slot, Hints
  <2>2. ASSUME NEW n \in SlotId, NEW d \in DriveNumber, load_tape(p, n, d) PROVE Hints'
    BY <1>1, <2>2 DEF load_tape, Hints, SlotsKnown, Content
  <2>3. ASSUME NEW d \in DriveId, unload_tape(p, d) PROVE Hints'
    BY <1>1, <2>3 DEF unload_tape, Hints, DrivesKnown, Content
  <2>4. ASSUME NEW n \in SlotId, eject_tape(p, n) PROVE Hints'
    BY <1>1, <2>4 DEF eject_tape, Hints, SlotsKnown, Content
  <2>5. ASSUME NEW t \in Tape, shelf_place_tape(p, t) PROVE Hints'
    BY <1>2, <2>5 DEF shelf_place_tape, tables
  <2> QED
    BY <1>5, <2>1, <2>2, <2>3, <2>4, <2>5 DEF CatalogCommand
<1>6. ASSUME NEW p \in Proc, Shelve(p) PROVE Hints'
  BY <1>1, <1>6 DEF Shelve, Hints
<1>7. ASSUME NEW p \in Proc, apply_kernel_to_db(p) PROVE Hints'
  <2>1. \A n \in SlotId : slots'[n] # NoTape => slots'[n] \in tapes'
    BY DEF TypeInv, TableTypes, RowInv, SlotsKnown
  <2>2. \A t \in Tape \ tapes, n \in SlotId : slots'[n] # t
    BY <1>1, <1>7, <2>1 DEF apply_kernel_to_db
  <2> QED
    BY <1>1, <1>7, <2>2 DEF apply_kernel_to_db, Hints
<1>8. ASSUME NEW p \in Proc, mirror_kernel_catalog_hints_only(p) PROVE Hints'
  BY <1>1, <1>8 DEF mirror_kernel_catalog_hints_only, Hints
<1>9. ASSUME NEW p \in Proc,
             \/ kernel_slot_place(p) \/ LoadCheck(p) \/ LoadPlace(p) \/ LoadMove(p)
             \/ kernel_unload(p) \/ kernel_move_medium(p) \/ RowGone(p)
             \/ ReadShelved(p) \/ ListShelved(p) \/ ReadKernel(p) \/ Compare(p)
             \/ Look(p) \/ evacuate_element(p)
             \/ reconcile_library(p) \/ Reconcile(p)
             \/ auto_align_library(p) \/ FindDrifts(p) \/ FreshInventory(p)
             \/ ReadInventory(p) \/ IoctlFails(p) \/ Crash(p)
      PROVE  Hints'
  BY <1>2, <1>9 DEF kernel_slot_place, LoadCheck, LoadPlace, LoadMove, kernel_unload,
     kernel_move_medium, RowGone, ReadShelved, ListShelved, ReadKernel, Compare, Look,
     evacuate_element, reconcile_library, Reconcile, auto_align_library, FindDrifts,
     FreshInventory, ReadInventory, IoctlFails, Crash, tables
<1>10. CASE UNCHANGED vars \/ Backup
  BY <1>2, <1>10 DEF vars, tables, Backup
<1>11. CASE Next
  BY <1>3, <1>4, <1>5, <1>6, <1>7, <1>8, <1>9, <1>10, <1>11, <1>12, <1>13
     DEF Next, CatalogCommand
<1> QED
  BY <1>10, <1>11

LEMMA StepTogether ==
    ASSUME TypeInv, TypeInv', CalmInv, StepInv, Next, ~disturbed'
    PROVE  Together'
<1>1. ~disturbed => Together
  BY DEF StepInv
<1>2. ASSUME NEW t \in Tape, create_tape(t) PROVE Together'
  BY <1>1, <1>2, CreateTogether DEF create_tape
<1>3. ASSUME NEW t \in Tape, delete_tape_in_library(t) PROVE Together'
  BY <1>1, <1>3, DeleteTogether DEF delete_tape_in_library, Disturb
<1>4. ASSUME NEW p \in Proc,
             \/ CatalogCommand(p) \/ reconcile_library(p) \/ auto_align_library(p) \/ ReadInventory(p)
      PROVE  Together'
  BY <1>1, <1>4, CommandsTogether
<1>5. ASSUME NEW p \in Proc,
             \/ kernel_slot_place(p) \/ LoadCheck(p) \/ LoadPlace(p) \/ LoadMove(p)
             \/ kernel_unload(p) \/ kernel_move_medium(p)
      PROVE  Together'
  <2>1. UNCHANGED disturbed /\ ~disturbed
    BY <1>5 DEF kernel_slot_place, LoadCheck, LoadPlace, LoadMove, kernel_unload,
       kernel_move_medium, history
  <2> QED
    BY <1>1, <1>5, <2>1, SendingKeeps
<1>6. ASSUME NEW p \in Proc, Shelve(p) PROVE Together'
  <2>1. UNCHANGED disturbed /\ job[p].tape \in Tape
    BY <1>6 DEF Shelve, history, TypeInv, WorkInv, OnTape
  <2> QED
    BY <1>1, <1>6, <2>1, ShelveTogether
<1>7. ASSUME NEW p \in Proc,
             \/ RowGone(p) \/ ReadShelved(p) \/ ListShelved(p) \/ ReadKernel(p) \/ Compare(p)
             \/ Reconcile(p) \/ FindDrifts(p) \/ FreshInventory(p)
      PROVE  Together'
  <2>1. ~disturbed
    BY <1>7 DEF RowGone, ReadShelved, ListShelved, ReadKernel, Compare, Reconcile, FindDrifts,
       FreshInventory, StartPull, Disturb, history
  <2> QED
    BY <1>1, <1>7, <2>1, PassTogether
<1>8. ASSUME NEW p \in Proc, Look(p) \/ evacuate_element(p) \/ mirror_kernel_catalog_hints_only(p)
      PROVE  Together'
  <2>1. UNCHANGED disturbed
    BY <1>8 DEF Look, evacuate_element, mirror_kernel_catalog_hints_only, history
  <2> QED
    BY <1>1, <1>8, <2>1, LookTogether, EvacuationTogether, MirrorTogether
<1>9. ASSUME NEW p \in Proc, apply_kernel_to_db(p) PROVE Together'
  BY <1>9, PullTogether
<1>10. ASSUME NEW p \in Proc, IoctlFails(p) \/ Crash(p) PROVE Together'
  <2>1. ~disturbed
    BY <1>10 DEF IoctlFails, Crash, Disturb
  <2> QED
    BY <1>1, <1>10, <2>1, FailureTogether
<1>11. ~Backup /\ ~Import /\ \A p \in Proc : ~OfflineImport(p)
  BY DEF Backup, Import, import_tape, OfflineImport, import_offline_tape_to_online_slot, Begin,
     Disturb
<1> QED
  BY <1>2, <1>3, <1>4, <1>5, <1>6, <1>7, <1>8, <1>9, <1>10, <1>11
     DEF Next, CatalogCommand, Import, OfflineImport

LEMMA StepStart == Init => StepInv
<1> SUFFICES ASSUME Init PROVE StepInv
  OBVIOUS
<1>1. /\ tapes = {} /\ slotOf = [t \in Tape |-> NoSlot]
      /\ slots = [n \in SlotId |-> NoTape] /\ drives = [d \in DriveId |-> NoTape]
      /\ pc = [p \in Proc |-> "idle"] /\ NoTape \notin Tape
      /\ \A e \in Element : store[e] = NoTape
  BY ElementAssumption DEF Init, Robot!Init, Element, Slot, Drive, Mailslot,
     Robot!Element, Robot!Slot, Robot!Drive, Robot!Mailslot
<1>2. \A e \in Element : At(e) = NoTape
  BY <1>1, AtElement, NumbersApart
<1>3. SnapshotOK /\ Hinted /\ OffShelf /\ Hints /\ \A t \in Tape : Same(t)
  BY <1>1, <1>2 DEF SnapshotOK, Holding, Hinted, OffShelf, Hints, Same
<1>4. \A p \in Proc : Orderly(p)
  BY <1>1 DEF Orderly, Sending
<1> QED
  BY <1>1, <1>3, <1>4 DEF StepInv, Together

LEMMA StepUnchanged == ASSUME StepInv, UNCHANGED vars PROVE StepInv'
<1>1. UNCHANGED <<tables, store>> /\ UNCHANGED <<pc, job, plan, todo, seen, disturbed>>
  BY DEF vars, robot, work, history
<1>2. Hints' = Hints /\ SnapshotOK' = SnapshotOK /\ Hinted' = Hinted /\ OffShelf' = OffShelf
      /\ (\A t : Same(t)' = Same(t) /\ Rows(t)' = Rows(t) /\ Holding(t)' = Holding(t))
      /\ Snapshot' = Snapshot /\ \A e : At(e)' = At(e)
  BY <1>1, SameTables
<1>3. UNCHANGED drives
  BY <1>1 DEF tables
<1>4. ASSUME NEW p \in Proc PROVE Orderly(p)' = Orderly(p)
  <2>1. From(p)' = From(p) /\ To(p)' = To(p)
    BY <1>1 DEF From, To
  <2>2. Sent(p)' = Sent(p)
    BY <1>1, <1>2, <2>1 DEF Sent
  <2> QED
    BY <1>1, <1>2, <1>3, <2>2 DEF Orderly, tape_in_drive
<1>5. \A p \in Proc, t \in Tape : Underway(p, t)' = Underway(p, t)
  BY <1>1 DEF Underway, Single
<1>6. Together => Together'
  BY <1>1, <1>2, <1>4, <1>5 DEF Together
<1> QED
  BY <1>1, <1>2, <1>6 DEF StepInv

LEMMA StepKept == ASSUME TypeInv, TypeInv', CalmInv, StepInv, [Next]_vars PROVE StepInv'
<1>1. Hints'
  BY HintsStep DEF StepInv
<1>2. CASE Next
  BY <1>1, <1>2, StepTogether DEF StepInv
<1> QED
  BY <1>2, StepUnchanged

\* Commands given one after the other keep the catalogue and the changer in step
\* (main.rs:4273-4538), and a pull brings them together again (reconcile.rs:74).
\* What parts them is counted in the comment of CommandsKeepStep: failing ioctls,
\* crashes, other hands, import_tape and batches from offline, numbers the robot
\* does not have, deletions in the changer, and misread elements.
THEOREM InStepBetweenCommands == Spec => []CommandsKeepStep
<1>1. TypeInv /\ CalmInv /\ StepInv /\ [Next]_vars => TypeInv' /\ CalmInv' /\ StepInv'
  BY TypesStep, CalmKept, StepKept
<1>2. StepInv => CommandsKeepStep
  <2> SUFFICES ASSUME StepInv, \A p \in Proc : pc[p] = "idle", ~disturbed, NEW t \in Tape
               PROVE  {ToElement(loc) : loc \in Rows(t)} = Holding(t)
    BY DEF CommandsKeepStep, InStep
  <2>1. Same(t)
    BY DEF StepInv, Together, Underway, Sending, Single
  <2> QED
    BY <2>1, RowsAt DEF Same, Holding
<1> QED
  BY <1>1, <1>2, TypesStart, CalmStart, StepStart, PTL DEF Spec

=============================================================================
