------------------------------- MODULE Catalog ------------------------------
(***************************************************************************)
(* The catalogue of one online library (SQLite, userspace/src/main.rs)     *)
(* next to the changer that holds its media.  A command of vtladm commits  *)
(* its change to the catalogue, then tells the robot by ioctl, whose       *)
(* failure is only a warning, then evacuates from the changer the media    *)
(* the catalogue does not have there (robot_sync.rs, reconcile.rs).        *)
(* Backup software moves media without vtladm.                             *)
(*                                                                         *)
(* The changer is the atomic store MediumStore at a fixed geometry, that   *)
(* of the tables slots and drives.  A tape stands for its row in tapes and *)
(* for its name, which is free again once the row is deleted.              *)
(***************************************************************************)
EXTENDS Elements, Sequences, SequencesExt

CONSTANTS
    Proc,         \* invocations of vtladm and threads of its web server
    MailOffset,   \* MAILSLOT_OFFSET: slots.slot_id of mail slot 0
    SlotNumber,   \* the slot numbers assign-slot may be given
    ImportNumber, \* those that imports may be given
    DriveNumber,  \* the drive numbers load may be given
    AutoPull,     \* vtl.conf auto_reconcile_pull
    NoSlot        \* SQL NULL in tapes.slot, and "not in the changer"

VARIABLES
    tapes,        \* the rows of the table tapes
    shelf,        \* tapes.shelf_id is not NULL
    slotOf,       \* tapes.slot
    slots,        \* slots.tape_id
    drives,       \* drives.tape_id
    store,        \* the changer: what every element holds
    numSlots, numDrives,   \* its geometry, which these commands do not change
    ret,          \* the errno of the last ioctl
    pc, job,      \* per process: progress and arguments
    plan,         \* the passes of the evacuation still to do
    todo,         \* tapes the running pass is going to evacuate
    seen,         \* the last kernel inventory: tape -> element
    known,        \* the inventory of the catalogue it is compared with
    calm,         \* history: nothing interfered with the running pass
    disturbed,    \* history: store and catalogue may differ
    doubled       \* history: import_tape gave a tape a second row

tables == <<tapes, shelf, slotOf, slots, drives>>
geometry == <<numSlots, numDrives>>
robot == <<store, geometry, ret>>
work == <<plan, todo, seen, known>>
history == <<calm, disturbed, doubled>>
vars == <<tables, robot, pc, job, work, history>>

\* create_named_library inserts the rows of the data slots first, and those of
\* the mail slots where no row has the number (INSERT OR IGNORE, main.rs:5143).
MailId == (MailOffset .. MailOffset + NumMailslots - 1) \ Slot
SlotId == Slot \cup MailId
DriveId == 0 .. MaxDrives - 1

ASSUME CatalogAssumption ==
    /\ MailOffset \in Nat /\ MailOffset + NumMailslots <= DriveBase
    /\ SlotNumber \cup ImportNumber \subseteq Nat /\ DriveNumber \subseteq Nat
    /\ NoSlot \in Int /\ NoSlot < 0
    /\ AutoPull \in BOOLEAN

Robot == INSTANCE MediumStore WITH InitSlots <- MaxSlots, InitDrives <- MaxDrives

Nowhere == << >>
NoJob == [tape |-> NoTape, slot |-> NoSlot, elem |-> NoSlot, row |-> FALSE]
NothingSeen == [t \in Tape |-> NoSlot]
NothingKnown == [t \in Tape |-> Nowhere]

Init ==
    /\ tapes = {}
    /\ shelf = [t \in Tape |-> FALSE]
    /\ slotOf = [t \in Tape |-> NoSlot]
    /\ slots = [n \in SlotId |-> NoTape]
    /\ drives = [d \in DriveId |-> NoTape]
    /\ Robot!Init
    /\ pc = [p \in Proc |-> "idle"] /\ job = [p \in Proc |-> NoJob]
    /\ plan = [p \in Proc |-> << >>] /\ todo = [p \in Proc |-> {}]
    /\ seen = [p \in Proc |-> NothingSeen] /\ known = [p \in Proc |-> NothingKnown]
    /\ calm = TRUE /\ disturbed = FALSE /\ doubled = FALSE

-----------------------------------------------------------------------------
(* Locations and inventories                                               *)

\* enum MediumLocation.
DataSlot(n) == <<"data", n>>
InDrive(d) == <<"drive", d>>
MailSlot(n) == <<"mail", n>>

\* MediumLocation::from_element: the first test is true of drives as well.
FromElement(e) ==
    IF e < IEBase THEN DataSlot(e) ELSE MailSlot(MailOffset + (e - IEBase))

\* db_mailslot_to_element, MediumLocation::to_element.
MailElement(n) == IEBase + (n - MailOffset)
ToElement(loc) ==
    CASE loc[1] = "data"  -> loc[2]
      [] loc[1] = "drive" -> DriveBase + loc[2]
      [] loc[1] = "mail"  -> MailElement(loc[2])

\* db_inventory: the rows that name a tape; it fails when a tape has two.
Rows(t) ==
    {DataSlot(n) : n \in {m \in Slot : slots[m] = t}}
        \cup {InDrive(d) : d \in {e \in DriveId : drives[e] = t}}
        \cup {MailSlot(n) : n \in {m \in MailId : slots[m] = t}}
DbInventoryOK == \A t \in Tape : \A a, b \in Rows(t) : a = b
DbInventory ==
    [t \in Tape |-> IF Rows(t) = {} THEN Nowhere ELSE CHOOSE loc \in Rows(t) : TRUE]

\* kernel_inventory_snapshot fails on a name found in two elements.  What it
\* converts with from_element, to_element converts back.
Holding(t) == {e \in Element : store[e] = t}
SnapshotOK == \A t \in Tape : \A a, b \in Holding(t) : a = b
Snapshot ==
    [t \in Tape |-> IF Holding(t) = {} THEN NoSlot ELSE CHOOSE e \in Holding(t) : TRUE]

\* find_drifts: where the two inventories differ.
Location(e) == IF e = NoSlot THEN Nowhere ELSE FromElement(e)
find_drifts(db, kernel) == {t \in Tape : db[t] # Location(kernel[t])}

tape_in_drive(t) == \E d \in DriveId : drives[d] = t
Free(ids) == {n \in ids : slots[n] = NoTape}
First(ids) == CHOOSE n \in ids : \A m \in ids : n <= m

-----------------------------------------------------------------------------
(* Control flow of a command                                               *)

Goto(p, l) == pc' = [pc EXCEPT ![p] = l]
Alone(p) == \A q \in Proc \ {p} : pc[q] = "idle"
Disturb(b) == disturbed' = (disturbed \/ b)

\* Commands that overlap may leave the two sides apart.
Begin(p, l, t, n, e, disturbs) ==
    /\ pc[p] = "idle" /\ Goto(p, l)
    /\ job' = [job EXCEPT ![p] = [tape |-> t, slot |-> n, elem |-> e, row |-> TRUE]]
    /\ calm' = Alone(p)
    /\ Disturb(disturbs \/ ~Alone(p))
    /\ UNCHANGED doubled

End(p) ==
    /\ Goto(p, "idle") /\ job' = [job EXCEPT ![p] = NoJob]
    /\ plan' = [plan EXCEPT ![p] = << >>] /\ todo' = [todo EXCEPT ![p] = {}]
    /\ seen' = [seen EXCEPT ![p] = NothingSeen]
    /\ known' = [known EXCEPT ![p] = NothingKnown]

\* try_post_op_auto_align: try_post_op_evacuate_only, and with
\* auto_reconcile_pull the evacuations of auto_align_library_inner as well,
\* which is called with allow_pull = false.
AfterOp ==
    <<"shelved", "strays">> \o IF AutoPull THEN <<"shelved again", "strays again">> ELSE << >>
Align(p) ==
    /\ Goto(p, "pass") /\ plan' = [plan EXCEPT ![p] = AfterOp]
    /\ job' = [job EXCEPT ![p] = NoJob]
    /\ UNCHANGED <<todo, seen, known>>

\* A command of another process, or backup software, in the middle of a pass.
Interfere == calm' = (calm /\ \A q \in Proc : pc[q] = "idle")

-----------------------------------------------------------------------------
(* Commands on the catalogue alone                                         *)

create_tape(t) ==
    /\ t \notin tapes
    /\ tapes' = tapes \cup {t}
    /\ shelf' = [shelf EXCEPT ![t] = TRUE]
    /\ Interfere
    /\ UNCHANGED <<slotOf, slots, drives, robot, pc, job, work, disturbed, doubled>>

\* Who has read the tape's id finds no row any more; the robot is not told.
delete_tape_in_library(t) ==
    /\ t \in tapes
    /\ tapes' = tapes \ {t}
    /\ shelf' = [shelf EXCEPT ![t] = FALSE]
    /\ slotOf' = [slotOf EXCEPT ![t] = NoSlot]
    /\ slots' = [n \in SlotId |-> IF slots[n] = t THEN NoTape ELSE slots[n]]
    /\ drives' = [d \in DriveId |-> IF drives[d] = t THEN NoTape ELSE drives[d]]
    /\ job' = [q \in Proc |-> [job[q] EXCEPT !.row = @ /\ job[q].tape # t]]
    /\ Interfere
    /\ Disturb(Holding(t) # {} \/ Rows(t) # {})
    /\ UNCHANGED <<robot, pc, work, doubled>>

\* The tape may be new or have a row already, and the slot hold another tape
\* or have no row: nothing is looked at, and the robot is not told.
import_tape(t, n) ==
    /\ tapes' = tapes \cup {t}
    /\ shelf' = [shelf EXCEPT ![t] = FALSE]
    /\ slotOf' = [slotOf EXCEPT ![t] = n]
    /\ slots' = [m \in SlotId |-> IF m = n THEN t ELSE slots[m]]
    /\ Interfere /\ Disturb(TRUE)
    /\ doubled' = (doubled \/ Rows(t) # {})
    /\ UNCHANGED <<drives, robot, pc, job, work>>

-----------------------------------------------------------------------------
(* Commands that move a medium: the transaction, then the ioctl            *)

\* Mutant: the slot may hold another tape.
AssignOver(p, t, n) ==
    /\ t \in tapes /\ ~tape_in_drive(t) /\ slotOf[t] = NoSlot /\ shelf[t]
    /\ slotOf' = [slotOf EXCEPT ![t] = n]
    /\ shelf' = [shelf EXCEPT ![t] = FALSE]
    /\ slots' = [m \in SlotId |-> IF m = n THEN t ELSE slots[m]]
    /\ Begin(p, "assign", t, n, NoSlot, n \notin Slot)
    /\ UNCHANGED <<tapes, drives, robot, work>>

\* assign-slot: a slot number without a row is accepted.
assign_tape_to_slot(p, t, n) ==
    /\ t \in tapes /\ ~tape_in_drive(t) /\ slotOf[t] = NoSlot /\ shelf[t]
    /\ n \in SlotId => slots[n] = NoTape
    /\ slotOf' = [slotOf EXCEPT ![t] = n]
    /\ shelf' = [shelf EXCEPT ![t] = FALSE]
    /\ slots' = [m \in SlotId |-> IF m = n THEN t ELSE slots[m]]
    /\ Begin(p, "assign", t, n, NoSlot, n \notin Slot)
    /\ UNCHANGED <<tapes, drives, robot, work>>

\* In a batch that goes on, or stops at a pair it refuses, no alignment follows.
kernel_slot_place(p) ==
    /\ pc[p] = "assign"
    /\ \/ job[p].slot \in Slot /\ Robot!Place(job[p].slot, job[p].tape)
       \/ job[p].slot \notin Slot /\ ret' = "EINVAL" /\ UNCHANGED <<store, geometry>>
    /\ Align(p) \/ End(p)
    /\ UNCHANGED <<tables, history>>

\* A pair of a batch whose tape comes from the library __offline__: the robot
\* is not told.  The alignment follows after the last pair.
import_offline_tape_to_online_slot(p, t, n) ==
    /\ t \notin tapes
    /\ n \in SlotId => slots[n] = NoTape
    /\ tapes' = tapes \cup {t}
    /\ slotOf' = [slotOf EXCEPT ![t] = n]
    /\ shelf' = [shelf EXCEPT ![t] = FALSE]
    /\ slots' = [m \in SlotId |-> IF m = n THEN t ELSE slots[m]]
    /\ Begin(p, "pass", NoTape, NoSlot, NoSlot, TRUE)
    /\ plan' = [plan EXCEPT ![p] = AfterOp]
    /\ UNCHANGED <<drives, robot, todo, seen, known>>

\* A drive number without a row is accepted: the tape loses its slot.
load_tape(p, n, d) ==
    LET t == slots[n] IN
    /\ t # NoTape
    /\ d \in DriveId => drives[d] = NoTape
    /\ drives' = [e \in DriveId |-> IF e = d THEN t ELSE drives[e]]
    /\ slotOf' = [slotOf EXCEPT ![t] = NoSlot]
    /\ shelf' = [shelf EXCEPT ![t] = FALSE]
    /\ slots' = [slots EXCEPT ![n] = NoTape]
    /\ Begin(p, "load", t, n, DriveBase + d, n \notin Slot \/ d \notin DriveId)
    /\ UNCHANGED <<tapes, robot, work>>

\* vtl_changer_load_slot_to_drive compares the names, fills an empty slot with
\* the tape named, and moves what the slot holds: three critical sections.
LoadCheck(p) ==
    LET n == job[p].slot
        t == job[p].tape
        inside == n \in Slot /\ job[p].elem \in Drive
    IN
    /\ pc[p] = "load"
    /\ \/ /\ ~inside /\ ret' = "EINVAL" /\ Align(p)
       \/ /\ inside /\ store[n] \notin {NoTape, t} /\ ret' = "EBUSY" /\ Align(p)
       \/ /\ inside /\ store[n] \in {NoTape, t}
          /\ Goto(p, IF store[n] = t THEN "move" ELSE "place")
          /\ UNCHANGED <<ret, job, work>>
    /\ UNCHANGED <<tables, store, geometry, history>>

LoadPlace(p) ==
    /\ pc[p] = "place"
    /\ Robot!Place(job[p].slot, job[p].tape)
    /\ IF ret' = "ok" THEN Goto(p, "move") /\ UNCHANGED <<job, work>> ELSE Align(p)
    /\ UNCHANGED <<tables, history>>

LoadMove(p) ==
    /\ pc[p] = "move"
    /\ Robot!Move(job[p].slot, job[p].elem)
    /\ Align(p)
    /\ UNCHANGED <<tables, history>>

\* The slot is tapes.slot if that is set, whatever it holds, or the first
\* free data slot.
unload_tape(p, d) ==
    LET t == drives[d]
        n == IF slotOf[t] # NoSlot THEN slotOf[t] ELSE First(Free(Slot))
    IN
    /\ t # NoTape
    /\ slotOf[t] # NoSlot \/ Free(Slot) # {}
    /\ slotOf' = [slotOf EXCEPT ![t] = n]
    /\ shelf' = [shelf EXCEPT ![t] = FALSE]
    /\ slots' = [m \in SlotId |-> IF m = n THEN t ELSE slots[m]]
    /\ drives' = [drives EXCEPT ![d] = NoTape]
    /\ Begin(p, "unload", t, n, DriveBase + d, FALSE)
    /\ UNCHANGED <<tapes, robot, work>>

kernel_unload(p) ==
    /\ pc[p] = "unload"
    /\ \/ job[p].slot \in Slot /\ Robot!Move(job[p].elem, job[p].slot)
       \/ job[p].slot \notin Slot /\ ret' = "EINVAL" /\ UNCHANGED <<store, geometry>>
    /\ Align(p)
    /\ UNCHANGED <<tables, history>>

eject_tape(p, n) ==
    LET t == slots[n]
        m == First(Free(MailId))
    IN
    /\ t # NoTape /\ Free(MailId) # {}
    /\ slotOf' = [slotOf EXCEPT ![t] = m]
    /\ shelf' = [shelf EXCEPT ![t] = FALSE]
    /\ slots' = [slots EXCEPT ![n] = NoTape, ![m] = t]
    /\ Begin(p, "eject", t, n, MailElement(m), n \notin Slot)
    /\ UNCHANGED <<tapes, drives, robot, work>>

kernel_move_medium(p) ==
    /\ pc[p] = "eject"
    /\ Robot!Move(job[p].slot, job[p].elem)
    /\ Align(p)
    /\ UNCHANGED <<tables, history>>

\* shelf place looks at the drives before its transaction.
shelf_place_tape(p, t) ==
    /\ t \in tapes /\ ~tape_in_drive(t)
    /\ Begin(p, "shelve", t, NoSlot, NoSlot, FALSE)
    /\ UNCHANGED <<tables, robot, work>>

\* Mutant: only the slot named in tapes.slot is cleared.
ShelveBySlotOnly(p) ==
    LET t == job[p].tape IN
    /\ pc[p] = "shelve" /\ job[p].row
    /\ slots' = [n \in SlotId |-> IF n = slotOf[t] THEN NoTape ELSE slots[n]]
    /\ slotOf' = [slotOf EXCEPT ![t] = NoSlot]
    /\ shelf' = [shelf EXCEPT ![t] = TRUE]
    /\ Goto(p, "look")
    /\ plan' = [plan EXCEPT ![p] = <<"single">> \o AfterOp]
    /\ todo' = [todo EXCEPT ![p] = {t}] /\ job' = [job EXCEPT ![p] = NoJob]
    /\ UNCHANGED <<tapes, drives, robot, seen, known, history>>

\* The slot in tapes.slot is cleared even if another tape has its row.  Then
\* the tape itself is evacuated, before the passes.
Shelve(p) ==
    LET t == job[p].tape IN
    /\ pc[p] = "shelve" /\ job[p].row
    /\ slots' = [n \in SlotId |-> IF n = slotOf[t] \/ slots[n] = t THEN NoTape ELSE slots[n]]
    /\ slotOf' = [slotOf EXCEPT ![t] = NoSlot]
    /\ shelf' = [shelf EXCEPT ![t] = TRUE]
    /\ Goto(p, "look")
    /\ plan' = [plan EXCEPT ![p] = <<"single">> \o AfterOp]
    /\ todo' = [todo EXCEPT ![p] = {t}] /\ job' = [job EXCEPT ![p] = NoJob]
    /\ UNCHANGED <<tapes, drives, robot, seen, known, history>>

\* The row was deleted since the command read its id: reading tapes.slot, or
\* the name after the transaction, fails.
RowGone(p) ==
    /\ pc[p] \in {"shelve", "load", "unload", "eject"} /\ ~job[p].row
    /\ End(p)
    /\ UNCHANGED <<tables, robot, history>>

-----------------------------------------------------------------------------
(* Evacuation                                                              *)

NextPass(p) ==
    /\ IF Len(plan[p]) = 1
       THEN End(p)
       ELSE /\ Goto(p, "pass")
            /\ plan' = [plan EXCEPT ![p] = Tail(@)]
            /\ todo' = [todo EXCEPT ![p] = {}]
            /\ UNCHANGED <<job, seen, known>>

\* try_post_op_evacuate_only ignores what fails; auto_align_library_inner
\* returns the error of an inventory.
PassFails(p) ==
    IF Head(plan[p]) \in {"shelved", "strays"} THEN NextPass(p) ELSE End(p)

\* VTL_IOCTL_GET_INVENTORY.
Answered == ret' = "ok" /\ UNCHANGED <<store, geometry>>

ForShelved(p) == Head(plan[p]) \in {"shelved", "shelved again"}
ForStrays(p) == Head(plan[p]) \in {"strays", "strays again"}

\* evacuate_shelved_tapes_from_kernel: the names, then a snapshot.
ReadShelved(p) ==
    /\ pc[p] = "pass" /\ ForShelved(p)
    /\ Goto(p, "list")
    /\ todo' = [todo EXCEPT ![p] = {t \in tapes : shelf[t]}]
    /\ calm' = Alone(p)
    /\ UNCHANGED <<tables, robot, job, plan, seen, known, disturbed, doubled>>

ListShelved(p) ==
    /\ pc[p] = "list"
    /\ IF SnapshotOK
       THEN /\ Goto(p, "look")
            /\ todo' = [todo EXCEPT ![p] = {t \in @ : Snapshot[t] # NoSlot}]
            /\ UNCHANGED <<job, plan, seen, known>>
       ELSE PassFails(p)
    /\ Answered
    /\ UNCHANGED <<tables, history>>

\* The other pass takes a snapshot, then the inventory of the catalogue, and
\* evacuates what only the snapshot has.
ReadKernel(p) ==
    /\ pc[p] = "pass" /\ ForStrays(p)
    /\ IF SnapshotOK
       THEN /\ Goto(p, "compare")
            /\ seen' = [seen EXCEPT ![p] = Snapshot]
            /\ UNCHANGED <<job, plan, todo, known>>
       ELSE PassFails(p)
    /\ calm' = Alone(p)
    /\ Answered
    /\ UNCHANGED <<tables, disturbed, doubled>>

\* Mutant: drives are left out of the inventory of the catalogue.
CompareSlotsOnly(p) ==
    /\ pc[p] = "compare"
    /\ Goto(p, "look")
    /\ todo' = [todo EXCEPT ![p] = {t \in Tape : seen[p][t] # NoSlot
                                                   /\ \A n \in SlotId : slots[n] # t}]
    /\ seen' = [seen EXCEPT ![p] = NothingSeen]
    /\ UNCHANGED <<tables, robot, job, plan, known, history>>

\* Both inventories are kept if a pull may follow.
Compare(p) ==
    /\ pc[p] = "compare"
    /\ IF DbInventoryOK
       THEN /\ Goto(p, "look")
            /\ todo' = [todo EXCEPT ![p] = {t \in Tape : seen[p][t] # NoSlot /\ Rows(t) = {}}]
            /\ IF Len(plan[p]) > 1 /\ Last(plan[p]) = "drifts"
               THEN known' = [known EXCEPT ![p] = DbInventory] /\ UNCHANGED seen
               ELSE seen' = [seen EXCEPT ![p] = NothingSeen] /\ UNCHANGED known
            /\ UNCHANGED <<job, plan>>
       ELSE PassFails(p)
    /\ UNCHANGED <<tables, robot, history>>

\* An evacuation without error, even of nothing, makes auto_align_library_inner
\* look again before it compares.
Count(p) ==
    plan' = [plan EXCEPT ![p] =
        [i \in DOMAIN @ |-> IF @[i] = "drifts" THEN "drifts again" ELSE @[i]]]

\* Mutant: a tape that is not in the snapshot is evacuated all the same.
LookBlind(p) ==
    /\ pc[p] = "look"
    /\ \/ todo[p] = {} /\ NextPass(p) /\ UNCHANGED robot
       \/ \E t \in todo[p] :
             /\ Answered /\ Goto(p, "remove")
             /\ job' = [job EXCEPT ![p].tape = t, ![p].elem = Snapshot[t]]
             /\ UNCHANGED work
    /\ UNCHANGED <<tables, history>>

\* evacuate_tape_from_changer: a snapshot of its own for every tape, then the
\* element it was in is emptied.
Look(p) ==
    /\ pc[p] = "look"
    /\ \/ todo[p] = {} /\ NextPass(p) /\ UNCHANGED robot
       \/ \E t \in todo[p] :
             /\ Answered
             /\ IF SnapshotOK /\ Snapshot[t] # NoSlot
                THEN /\ Goto(p, "remove")
                     /\ job' = [job EXCEPT ![p].tape = t, ![p].elem = Snapshot[t]]
                     /\ UNCHANGED work
                ELSE /\ todo' = [todo EXCEPT ![p] = @ \ {t}]
                     /\ IF SnapshotOK THEN Count(p) ELSE UNCHANGED plan
                     /\ UNCHANGED <<pc, job, seen, known>>
    /\ UNCHANGED <<tables, history>>

\* Mutant: the pass ends with the first tape.
EvacuateStops(p) ==
    /\ pc[p] = "remove"
    /\ Robot!Remove(job[p].elem)
    /\ Goto(p, "look")
    /\ todo' = [todo EXCEPT ![p] = {}]
    /\ job' = [job EXCEPT ![p] = NoJob]
    /\ UNCHANGED <<tables, plan, seen, known, history>>

\* Whatever the ioctl answers, the pass goes on.  (Modules without ELEM_REMOVE,
\* and addresses beyond the geometry, for which it parks the medium in a mail
\* slot, do not occur here.)
evacuate_element(p) ==
    /\ pc[p] = "remove"
    /\ Robot!Remove(job[p].elem)
    /\ Goto(p, "look")
    /\ todo' = [todo EXCEPT ![p] = @ \ {job[p].tape}]
    /\ Count(p)
    /\ job' = [job EXCEPT ![p] = NoJob]
    /\ UNCHANGED <<tables, seen, known, history>>

-----------------------------------------------------------------------------
(* The catalogue follows the robot                                         *)

\* What FromElement does not give back: drives, which it takes for data slots,
\* and mail slots whose number a data slot has.
Misread == Drive \cup {e \in Mailslot : FromElement(e)[2] \notin MailId}

\* pull_library_inventory_from_kernel after a change of geometry, and
\* mirror_kernel_catalog_hints_only (robot sync-db): a snapshot first.
ReadInventory(p) ==
    /\ SnapshotOK
    /\ \E l \in {"pull", "mirror"} :
          Begin(p, l, NoTape, NoSlot, NoSlot, \E e \in Misread : store[e] # NoTape)
    /\ seen' = [seen EXCEPT ![p] = Snapshot]
    /\ Answered
    /\ UNCHANGED <<tables, plan, todo, known>>

\* A pull forgets what is in an element that it misreads.
StartPull(p) ==
    /\ Goto(p, "pull") /\ seen' = [seen EXCEPT ![p] = Snapshot]
    /\ known' = [known EXCEPT ![p] = NothingKnown]
    /\ Disturb(\E e \in Misread : store[e] # NoTape)

\* robot reconcile --pull: the inventory of the catalogue, then a snapshot,
\* which is pulled if it differs.
reconcile_library(p) ==
    /\ DbInventoryOK
    /\ Begin(p, "reconcile", NoTape, NoSlot, NoSlot, FALSE)
    /\ known' = [known EXCEPT ![p] = DbInventory]
    /\ UNCHANGED <<tables, robot, plan, todo, seen>>

Reconcile(p) ==
    /\ pc[p] = "reconcile"
    /\ IF SnapshotOK /\ find_drifts(known[p], Snapshot) # {}
       THEN StartPull(p) /\ UNCHANGED <<job, plan, todo>>
       ELSE End(p) /\ UNCHANGED disturbed
    /\ Answered
    /\ UNCHANGED <<tables, calm, doubled>>

\* robot auto-align: both evacuations, which return their errors, then a pull
\* if every difference is a tape in two places (drifts_safe_for_pull).
auto_align_library(p) ==
    /\ Begin(p, "pass", NoTape, NoSlot, NoSlot, FALSE)
    /\ plan' = [plan EXCEPT ![p] = <<"shelved again", "strays again", "drifts">>]
    /\ UNCHANGED <<tables, robot, todo, seen, known>>

drifts_safe_for_pull(db, kernel, drifts) ==
    \A t \in drifts : db[t] # Nowhere /\ kernel[t] # NoSlot

\* The snapshot of the comparison serves again unless media were evacuated.
FindDrifts(p) ==
    LET kernel == IF Head(plan[p]) = "drifts" THEN seen[p] ELSE Snapshot
        drifts == find_drifts(known[p], kernel)
    IN
    /\ pc[p] = "pass" /\ Head(plan[p]) \in {"drifts", "drifts again"}
    /\ \/ /\ Head(plan[p]) = "drifts" \/ SnapshotOK
          /\ drifts # {} /\ AutoPull /\ drifts_safe_for_pull(known[p], kernel, drifts)
          /\ Goto(p, "fresh") /\ UNCHANGED <<job, work>>
       \/ /\ \/ Head(plan[p]) = "drifts again" /\ ~SnapshotOK
             \/ drifts = {} \/ ~AutoPull \/ ~drifts_safe_for_pull(known[p], kernel, drifts)
          /\ End(p)
    /\ IF Head(plan[p]) = "drifts" THEN UNCHANGED robot ELSE Answered
    /\ UNCHANGED <<tables, history>>

FreshInventory(p) ==
    /\ pc[p] = "fresh"
    /\ IF SnapshotOK
       THEN StartPull(p) /\ UNCHANGED <<job, plan, todo>>
       ELSE End(p) /\ UNCHANGED disturbed
    /\ calm' = Alone(p)
    /\ Answered
    /\ UNCHANGED <<tables, doubled>>

\* What the row of one of these locations may hold after a pull: of two tapes
\* that fall on one row, the later one in the order of a HashMap.
Arrivals(p, locs) ==
    LET found == {t \in tapes : seen[p][t] # NoSlot /\ FromElement(seen[p][t]) \in locs}
    IN IF found = {} THEN {NoTape} ELSE found

\* Nothing is in an element that is misread, or without a row in tapes, and
\* nobody has interfered.
Restores ==
    /\ calm
    /\ \A e \in Misread : store[e] = NoTape
    /\ \A t \in Tape \ tapes : Holding(t) = {}

apply_kernel_to_db(p) ==
    LET found == {t \in tapes : seen[p][t] # NoSlot} IN
    /\ pc[p] = "pull"
    /\ slots' \in [SlotId -> Content]
    /\ \A n \in SlotId : slots'[n] \in Arrivals(p, {DataSlot(n), MailSlot(n)})
    /\ drives' \in [DriveId -> Content]
    /\ \A d \in DriveId : drives'[d] \in Arrivals(p, {InDrive(d)})
    /\ shelf' = [t \in Tape |-> shelf[t] /\ t \notin found]
    /\ slotOf' = [t \in Tape |->
          IF t \notin found /\ shelf[t] THEN slotOf[t]
          ELSE IF \E n \in SlotId : slots'[n] = t THEN FromElement(seen[p][t])[2]
          ELSE NoSlot]
    /\ disturbed' = (disturbed /\ ~Restores)
    /\ doubled' = FALSE
    /\ End(p)
    /\ UNCHANGED <<tapes, robot, calm>>

mirror_kernel_catalog_hints_only(p) ==
    LET found == {t \in tapes : seen[p][t] # NoSlot /\ FromElement(seen[p][t])[1] = "data"} IN
    /\ pc[p] = "mirror"
    /\ slotOf' = [t \in Tape |-> IF t \in found THEN FromElement(seen[p][t])[2] ELSE NoSlot]
    /\ shelf' = [t \in Tape |-> shelf[t] /\ t \notin found]
    /\ End(p)
    /\ UNCHANGED <<tapes, slots, drives, robot, history>>

-----------------------------------------------------------------------------
(* The world outside vtladm                                                *)

\* Backup software moves a medium, or unloads a drive, by SCSI commands.
Backup ==
    /\ \/ \E src, dst \in Address : Robot!Move(src, dst)
       \/ \E e \in Drive : Robot!Remove(e)
    /\ store' # store
    /\ disturbed' = TRUE /\ Interfere
    /\ UNCHANGED <<tables, pc, job, work, doubled>>

\* The robot has not yet been told of the command.
Unfinished(p) ==
    \/ pc[p] \in {"assign", "load", "unload", "eject"}
    \/ plan[p] # << >> /\ Head(plan[p]) = "single"

\* The links of the tape directory cannot be made, or /dev/vtl not be opened.
IoctlFails(p) ==
    /\ \/ pc[p] \in {"assign", "load", "unload", "eject"} /\ Align(p)
       \/ pc[p] = "list" /\ PassFails(p)
       \/ pc[p] = "pass" /\ (ForStrays(p) \/ Head(plan[p]) = "drifts again") /\ PassFails(p)
       \/ pc[p] \in {"reconcile", "fresh"} /\ End(p)
       \/ /\ pc[p] = "look" /\ todo[p] # {}
          /\ \E t \in todo[p] : todo' = [todo EXCEPT ![p] = @ \ {t}]
          /\ UNCHANGED <<pc, job, plan, seen, known>>
       \/ /\ pc[p] = "remove" /\ Goto(p, "look")
          /\ todo' = [todo EXCEPT ![p] = @ \ {job[p].tape}]
          /\ job' = [job EXCEPT ![p] = NoJob]
          /\ UNCHANGED <<plan, seen, known>>
    /\ Disturb(Unfinished(p)) /\ calm' = FALSE
    /\ UNCHANGED <<tables, robot, doubled>>

\* The process dies, but not inside an ioctl.
Crash(p) ==
    /\ pc[p] \notin {"idle", "place", "move"}
    /\ End(p)
    /\ Disturb(Unfinished(p))
    /\ UNCHANGED <<tables, robot, calm, doubled>>

Next ==
    \/ \E t \in Tape : create_tape(t) \/ delete_tape_in_library(t)
    \/ \E t \in Tape, n \in ImportNumber : import_tape(t, n)
    \/ \E p \in Proc :
          \/ \E t \in Tape, n \in SlotNumber : assign_tape_to_slot(p, t, n)
          \/ \E t \in Tape, n \in ImportNumber : import_offline_tape_to_online_slot(p, t, n)
          \/ \E n \in SlotId, d \in DriveNumber : load_tape(p, n, d)
          \/ \E d \in DriveId : unload_tape(p, d)
          \/ \E n \in SlotId : eject_tape(p, n)
          \/ \E t \in Tape : shelf_place_tape(p, t)
          \/ kernel_slot_place(p)
          \/ LoadCheck(p) \/ LoadPlace(p) \/ LoadMove(p)
          \/ kernel_unload(p) \/ kernel_move_medium(p) \/ Shelve(p) \/ RowGone(p)
          \/ ReadShelved(p) \/ ListShelved(p) \/ ReadKernel(p) \/ Compare(p)
          \/ Look(p) \/ evacuate_element(p)
          \/ reconcile_library(p) \/ Reconcile(p)
          \/ auto_align_library(p) \/ FindDrifts(p) \/ FreshInventory(p)
          \/ ReadInventory(p) \/ apply_kernel_to_db(p) \/ mirror_kernel_catalog_hints_only(p)
          \/ IoctlFails(p) \/ Crash(p)
    \/ Backup

Spec == Init /\ [][Next]_vars
=============================================================================
