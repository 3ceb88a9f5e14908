------------------------- MODULE CatalogProperties --------------------------
(***************************************************************************)
(* What the catalogue of Catalog and the changer promise each other.       *)
(***************************************************************************)
EXTENDS Catalog

Label ==
    {"idle", "assign", "load", "place", "move", "unload", "eject", "shelve",
     "pass", "list", "compare", "look", "remove", "pull", "mirror", "reconcile", "fresh"}
PassName == {"single", "shelved", "strays", "shelved again", "strays again",
     "drifts", "drifts again"}

\* Well-typed tables, and an evacuation that names an element: the address it
\* gives to the ioctl was one of a snapshot (robot_sync.rs:570).
TypeOK ==
    /\ tapes \subseteq Tape
    /\ shelf \in [Tape -> BOOLEAN] /\ slotOf \in [Tape -> Int]
    /\ slots \in [SlotId -> Content] /\ drives \in [DriveId -> Content]
    /\ store \in [Element -> Content] /\ ret \in Code
    /\ numSlots = MaxSlots /\ numDrives = MaxDrives
    /\ pc \in [Proc -> Label] /\ plan \in [Proc -> Seq(PassName)]
    /\ todo \in [Proc -> SUBSET Tape] /\ \A p \in Proc : DOMAIN known[p] = Tape
    /\ seen \in [Proc -> [Tape -> Element \cup {NoSlot}]]
    /\ job \in [Proc -> [tape : Content, slot : Int, elem : Int, row : BOOLEAN]]
    /\ calm \in BOOLEAN /\ disturbed \in BOOLEAN /\ doubled \in BOOLEAN
    /\ \A p \in Proc : pc[p] = "remove" => job[p].elem \in Element

\* db_inventory refuses a catalogue in which two rows name one tape
\* (robot_sync.rs:448), and with it every repair but a pull.  Only an import_tape
\* of a tape that has a row already makes one, until the next pull: no sequence of
\* the other commands, of any number of processes, crashes or moves behind its
\* back does, and none at all leaves a shelved tape in a slot or a row of a tape
\* that is gone.
RowsAgree ==
    /\ ~doubled => DbInventoryOK
    /\ \A n \in SlotId : slots[n] # NoTape => slots[n] \in tapes /\ ~shelf[slots[n]]
    /\ \A d \in DriveId : drives[d] \in tapes \cup {NoTape}

\* The catalogue and the changer have every medium in the same place.
InStep ==
    \A t \in Tape : {ToElement(loc) : loc \in Rows(t)} = Holding(t)

\* Commands given one after the other keep the catalogue and the changer in
\* step, although each tells the robot only after it has committed
\* (main.rs:4273-4538).  What parts them, and nothing else does: an ioctl that
\* fails or a crash before it, other hands on the robot, import_tape and a batch
\* from offline (main.rs:4882, 855), which commit a slot and do not tell the
\* robot, a slot or drive number that the robot does not have, the deletion of
\* a tape in the changer, and a read of an inventory while media are in
\* elements that it misreads.  A pull without these brings them together
\* (reconcile.rs:74).
CommandsKeepStep ==
    (\A p \in Proc : pc[p] = "idle") /\ ~disturbed => InStep

\* A pass that nobody interferes with does its work whatever came before: at
\* its end no shelved tape is in the changer, or nothing that has no row
\* (reconcile.rs:465).  A name found twice stops every pass.
PassesClean ==
    \A p \in Proc :
        pc[p] = "look" /\ todo[p] = {} /\ Head(plan[p]) # "single" /\ calm =>
            IF ForShelved(p)
            THEN \A t \in tapes : shelf[t] => Holding(t) = {}
            ELSE \A t \in Tape : Holding(t) # {} => Rows(t) # {}

\* An evacuation that nobody interferes with takes only media out of the
\* changer that the catalogue has on a shelf or not at all (robot_sync.rs:563),
\* however far the two are apart.
EvacuatesOnlyOut ==
    [][\A p \in Proc : pc[p] = "remove" /\ pc'[p] = "look" /\ calm =>
           \A t \in Tape : Holding(t) # {} /\ Holding(t)' = {} => Rows(t) = {} \/ shelf[t]]_vars

\* A pull writes the inventory of the kernel into the catalogue
\* (reconcile.rs:61), drives included (robot_sync.rs:6).
PullKeepsDrives ==
    [][\A p \in Proc, t \in Tape, e \in Drive :
           pc[p] = "pull" /\ pc'[p] = "idle" /\ drives' # drives
               /\ t \in tapes /\ seen[p][t] = e =>
           drives'[e - DriveBase] = t]_vars
=============================================================================
