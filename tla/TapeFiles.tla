------------------------------ MODULE TapeFiles -----------------------------
(***************************************************************************)
(* The rows of the table tapes and the image files they name               *)
(* (userspace/src/main.rs).  Every command reads the catalogue, then moves *)
(* or writes files, then commits a transaction, and no lock spans the      *)
(* three.  The kernel opens an image by its name in the root of tape_dir,  *)
(* where link_kernel_tapes keeps a hard link to it.                        *)
(*                                                                         *)
(* A file is a name in a directory for an inode; what an inode holds is a  *)
(* number, a new one for every creation or copy of an image.  Tape names   *)
(* are the numbers of create_auto_named_tapes_batch.                       *)
(***************************************************************************)
EXTENDS Invocations, Naturals, FiniteSets, Sequences, SequencesExt

CONSTANTS
    Online,       \* online libraries
    Offline,      \* OFFLINE_LIBRARY_NAME
    Root,         \* tape_dir itself
    Orphans,      \* ORPHAN_ROOT, a directory of tape_dir
    MaxName,      \* tapes are named 1 .. MaxName
    UserShelf,    \* names of shelves that users create
    Unused,       \* DEFAULT_UNUSED_SHELF_NAME
    Slot,         \* the data slots of every online library
    MaxTapes,     \* quota_max_tapes of every library
    MaxBatch      \* bound: items of a batch

VARIABLES
    rows,         \* tapes: id -> row
    lastId,       \* AUTOINCREMENT of tapes.id
    shelves,      \* the shelves users created
    slots,        \* slots.tape_id, 0 for NULL
    file,         \* directory and name -> inode, 0 for none
    data,         \* inode -> what it holds
    scan,         \* per process: what its pass of link_kernel_tapes has found
    pc, job,      \* per process: progress and arguments
    disturbed     \* history: names for which nothing is promised

catalogue == <<rows, lastId, shelves, slots>>
files == <<file, data, scan>>
tapeVars == <<catalogue, files, pc, job, disturbed>>

Name == 1 .. MaxName
FileName == 1 .. MaxName + 1
Library == Online \cup {Offline}
Dir == Library \cup {Root, Orphans}

ASSUME TapeFilesAssumption ==
    /\ Offline \notin Online /\ Root # Orphans /\ Library \cap {Root, Orphans} = {}
    /\ MaxName \in Nat \ {0} /\ MaxTapes \in Nat /\ MaxBatch \in Nat \ {0}
    /\ 0 \notin Slot /\ Unused \notin UserShelf

OnShelf(s) == <<"shelf", s>>
InSlot(n) == <<"slot", n>>
Nowhere == <<"nowhere">>

\* tape_image_path
Image(l, n) == <<l, n>>

\* A row: where the tape is, whether table drives names it, and (history) what
\* was last put on it and whether that has the length of capacity_bytes.
Row(l, n, at, d) ==
    [lib |-> l, name |-> n, at |-> at, drive |-> FALSE, path |-> Image(l, n), data |-> d,
     fits |-> TRUE]

Id == DOMAIN rows
RowsOf(l, n) == {i \in Id : rows[i].lib = l /\ rows[i].name = n}
Known(l, n) == RowsOf(l, n) # {}
TheRow(l, n) == CHOOSE i \in RowsOf(l, n) : TRUE
Without(i) == [j \in Id \ {i} |-> rows[j]]
\* UPDATE slots SET tape_id = NULL, for the slot tapes.slot named.
Vacated(l, at) == IF at[1] = "slot" THEN [slots EXCEPT ![<<l, at[2]>>] = 0] ELSE slots
SlotsWithout(l, i) == [s \in DOMAIN slots |-> IF s[1] = l /\ slots[s] = i THEN 0 ELSE slots[s]]

\* What has never been in an image.
Fresh == 1 + Max({0} \cup {data[i] : i \in DOMAIN data}
                     \cup {rows[i].data : i \in Id} \cup {job[p].data : p \in Proc})

NoPath == <<Root, 0>>
NoJob == [lib |-> Offline, todo |-> << >>, names |-> {}, id |-> 0, path |-> NoPath,
          to |-> Nowhere, from |-> Nowhere, data |-> 0]
Item(n, s, off) == [name |-> n, slot |-> s, off |-> off]

-----------------------------------------------------------------------------
(* Control flow of a command                                               *)

Goto(p, l) == pc' = [pc EXCEPT ![p] = l]
End(p) == Goto(p, "idle") /\ job' = [job EXCEPT ![p] = NoJob]
Cur(p) == Head(job[p].todo)

\* The next item of a batch: an error ends it, what was done stays.
NextItem(p, l) ==
    IF Len(job[p].todo) = 1
    THEN End(p)
    ELSE Goto(p, l) /\ job' = [job EXCEPT ![p].todo = Tail(@)]

\* Nothing is promised for a tape once two commands on its name overlap.
Begin(p, l, j) ==
    /\ pc[p] = "idle" /\ Goto(p, l)
    /\ job' = [job EXCEPT ![p] = j]
    /\ disturbed' = disturbed \cup UNION {j.names \cap job[q].names : q \in Proc \ {p}}

Job(l, items) ==
    [NoJob EXCEPT !.lib = l, !.todo = items,
                  !.names = {items[k].name : k \in DOMAIN items}]

\* File::create and fs::copy: a file that exists keeps its inode.
Put(path, d) ==
    /\ IF file[path] = 0
       THEN file' = [file EXCEPT ![path] = Len(data) + 1] /\ data' = Append(data, d)
       ELSE data' = [data EXCEPT ![file[path]] = d] /\ UNCHANGED file
    /\ UNCHANGED scan

\* fs::rename, which fails if there is no file.
Rename(from, to) ==
    /\ file' = IF file[from] = 0 THEN file ELSE [file EXCEPT ![to] = file[from], ![from] = 0]
    /\ UNCHANGED scan

-----------------------------------------------------------------------------
(* Creation: create_tape and its batches                                   *)

\* The items of a batch are created one by one, each with its own checks.
create_tapes_batch(p, l, shelf, items) ==
    /\ Begin(p, "check", [Job(l, items) EXCEPT !.to = OnShelf(shelf)])
    /\ UNCHANGED <<catalogue, files>>

\* max_auto_tape_suffix_for_library reads the names before the first is made.
AutoNames(l, count) ==
    LET top == Max({0} \cup {rows[i].name : i \in {j \in Id : rows[j].lib = l}})
    IN  [k \in 1 .. count |-> top + k]

create_auto_named_tapes_batch(p, l, count) ==
    LET ns == AutoNames(l, count) IN
    /\ \A k \in DOMAIN ns : ns[k] \in Name
    /\ create_tapes_batch(p, l, Unused, [k \in DOMAIN ns |-> Item(ns[k], 0, FALSE)])

\* check_quota
QuotaLeft(l) == Cardinality({i \in Id : rows[i].lib = l}) < MaxTapes

OnAnyShelf(l, n) ==
    \E i \in RowsOf(l, n) : rows[i].at[1] = "shelf" /\ ~rows[i].drive
ShelfKnown(l, s) == s = Unused \/ <<l, s>> \in shelves

\* create_tape: the quota, assert_tape_name_globally_unique, the name in the
\* library itself, and the shelf.
create_tape(p) ==
    /\ pc[p] = "check"
    /\ IF /\ QuotaLeft(job[p].lib)
          /\ \A i \in Id : rows[i].name # Cur(p).name
          /\ ShelfKnown(job[p].lib, job[p].to[2])
       THEN Goto(p, "create") /\ UNCHANGED job
       ELSE End(p)
    /\ UNCHANGED <<catalogue, files, disturbed>>

CreateFile(p) ==
    /\ pc[p] = "create"
    /\ Put(Image(job[p].lib, Cur(p).name), Fresh)
    /\ Goto(p, "insert") /\ job' = [job EXCEPT ![p].data = Fresh]
    /\ UNCHANGED <<catalogue, disturbed>>

\* The unique index on library and name, the foreign key on the shelf or a
\* busy database refuses the row; the file stays.
InsertRow(p) ==
    LET l == job[p].lib
        n == Cur(p).name
    IN
    /\ pc[p] = "insert"
    /\ \/ /\ ~Known(l, n) /\ ShelfKnown(l, job[p].to[2])
          /\ lastId' = lastId + 1
          /\ rows' = [i \in Id \cup {lastId'} |->
                         IF i = lastId' THEN Row(l, n, job[p].to, job[p].data) ELSE rows[i]]
          /\ NextItem(p, "check")
       \/ End(p) /\ UNCHANGED <<rows, lastId>>
    /\ UNCHANGED <<shelves, slots, files, disturbed>>

-----------------------------------------------------------------------------
(* Deletion and initialisation                                             *)

delete_tape_in_library(p, l, n) ==
    /\ Known(l, n)
    /\ Begin(p, "delete", [Job(l, <<Item(n, 0, FALSE)>>) EXCEPT
                               !.id = TheRow(l, n), !.path = rows[TheRow(l, n)].path])
    /\ UNCHANGED <<catalogue, files>>

\* The transaction; that the row is gone already is no error.  The foreign key
\* of slots.tape_id refuses if another library has the tape in a slot.
DeleteRow(p) ==
    LET i == job[p].id IN
    /\ pc[p] = "delete"
    /\ \/ /\ slots' = SlotsWithout(job[p].lib, i) /\ \A s \in DOMAIN slots : slots'[s] # i
          /\ rows' = Without(i)
          /\ Goto(p, "unlink") /\ UNCHANGED job
       \/ End(p) /\ UNCHANGED <<rows, slots>>
    /\ UNCHANGED <<lastId, shelves, files, disturbed>>

\* remove_file, which fails if there is no file.
RemoveImage(p) ==
    /\ pc[p] = "unlink"
    /\ file' = [file EXCEPT ![job[p].path] = 0]
    /\ End(p)
    /\ UNCHANGED <<catalogue, data, scan, disturbed>>

init_tape_in_library(p, l, n) ==
    /\ Known(l, n) /\ OnAnyShelf(l, n)
    /\ Begin(p, "init", [Job(l, <<Item(n, 0, FALSE)>>) EXCEPT
                             !.id = TheRow(l, n), !.path = rows[TheRow(l, n)].path])
    /\ UNCHANGED <<catalogue, files>>

\* set_len to capacity_bytes, which an image has unless it was imported over
\* another: then it loses what it holds.  (used_bytes is abstracted.)
InitImage(p) ==
    LET i == job[p].id
        cut == file[job[p].path] # 0 /\ i \in Id /\ ~rows[i].fits
    IN
    /\ pc[p] = "init"
    /\ rows' = IF cut THEN [rows EXCEPT ![i].fits = TRUE, ![i].data = Fresh] ELSE rows
    /\ data' = IF cut THEN [data EXCEPT ![file[job[p].path]] = Fresh] ELSE data
    /\ End(p)
    /\ UNCHANGED <<lastId, shelves, slots, file, scan, disturbed>>

-----------------------------------------------------------------------------
(* Shelves                                                                 *)

\* create_shelf, and create_offline_shelf for the offline library.
create_shelf(l, s) ==
    /\ <<l, s>> \notin shelves
    /\ shelves' = shelves \cup {<<l, s>>}
    /\ UNCHANGED <<rows, lastId, slots, files, pc, job, disturbed>>

OnIt(l, s) == {i \in Id : rows[i].lib = l /\ rows[i].at = OnShelf(s)}

\* delete_shelf_in_library counts the tapes on the shelf, then deletes it.
delete_shelf_in_library(p, l, s) ==
    /\ <<l, s>> \in shelves /\ OnIt(l, s) = {}
    /\ Begin(p, "drop", [NoJob EXCEPT !.lib = l, !.to = OnShelf(s)])
    /\ UNCHANGED <<catalogue, files>>

\* The foreign key of tapes.shelf_id refuses to drop a shelf in use.
DropShelf(p) ==
    /\ pc[p] = "drop"
    /\ IF OnIt(job[p].lib, job[p].to[2]) = {}
       THEN shelves' = shelves \ {<<job[p].lib, job[p].to[2]>>}
       ELSE UNCHANGED shelves
    /\ End(p)
    /\ UNCHANGED <<rows, lastId, slots, files, disturbed>>

\* One transaction moves all tapes or none.
migrate_tapes_between_shelves(p, l, from, to, ns) ==
    LET ids == {i \in Id : rows[i].lib = l /\ rows[i].name \in ns} IN
    /\ pc[p] = "idle"
    /\ from # to /\ ShelfKnown(l, from) /\ ShelfKnown(l, to)
    /\ \A n \in ns : Known(l, n)
    /\ \A i \in ids : rows[i].at = OnShelf(from) /\ ~rows[i].drive
    /\ rows' = [i \in Id |-> IF i \in ids THEN [rows[i] EXCEPT !.at = OnShelf(to)] ELSE rows[i]]
    /\ UNCHANGED <<lastId, shelves, slots, files, pc, job, disturbed>>

\* shelf_place_tape, within a library: the lookups, then the transaction.
shelf_place_tape(p, l, n, s) ==
    /\ Known(l, n) /\ ~rows[TheRow(l, n)].drive /\ ShelfKnown(l, s)
    /\ Begin(p, "place", [Job(l, <<Item(n, 0, FALSE)>>) EXCEPT
                              !.id = TheRow(l, n), !.to = OnShelf(s)])
    /\ UNCHANGED <<catalogue, files>>

\* A row that has gone fails the transaction, and so does a shelf.
PlaceRow(p) ==
    LET i == job[p].id IN
    /\ pc[p] = "place"
    /\ IF i \in Id /\ ShelfKnown(job[p].lib, job[p].to[2])
       THEN /\ rows' = [rows EXCEPT ![i].at = job[p].to]
            /\ slots' = [s \in DOMAIN slots |->
                   IF s[1] = job[p].lib /\ rows[i].at = InSlot(s[2])
                   THEN 0 ELSE SlotsWithout(job[p].lib, i)[s]]
       ELSE UNCHANGED <<rows, slots>>
    /\ End(p)
    /\ UNCHANGED <<lastId, shelves, files, disturbed>>

-----------------------------------------------------------------------------
(* move_tapes_to_offline_shelf                                             *)

move_tapes_to_offline_shelf(p, l, items, s) ==
    /\ ShelfKnown(Offline, s)
    /\ Begin(p, "move", [Job(l, items) EXCEPT !.to = OnShelf(s)])
    /\ UNCHANGED <<catalogue, files>>

\* The lookups of one tape and the test that nothing is at the new path.
MoveCheck(p) ==
    LET l == job[p].lib
        n == Cur(p).name
    IN
    /\ pc[p] = "move"
    /\ IF /\ Known(l, n) /\ ~rows[TheRow(l, n)].drive /\ ~Known(Offline, n)
          /\ file[Image(Offline, n)] = 0
       THEN /\ Goto(p, "move file")
            /\ job' = [job EXCEPT ![p].id = TheRow(l, n), ![p].path = rows[TheRow(l, n)].path,
                                  ![p].from = rows[TheRow(l, n)].at]
       ELSE End(p)
    /\ UNCHANGED <<catalogue, files, disturbed>>

\* fs::rename fails if the image is not there, and replaces what is at its goal.
MoveFile(p) ==
    /\ pc[p] = "move file"
    /\ IF file[job[p].path] = 0
       THEN End(p) /\ UNCHANGED <<file, scan>>
       ELSE Rename(job[p].path, Image(Offline, Cur(p).name)) /\ Goto(p, "move row") /\ UNCHANGED job
    /\ UNCHANGED <<catalogue, data, disturbed>>

\* Where the tape is now: nothing if the row has gone.
Moved(i, l, at) ==
    rows' = [j \in Id |-> IF j = i THEN [rows[j] EXCEPT !.lib = l, !.at = at,
                                                       !.path = Image(l, rows[j].name)]
                                   ELSE rows[j]]

\* The transaction.  A failing UPDATE of tapes moves the file back; a failing
\* UPDATE of slots before it and a failing commit leave it.
MoveRow(p) ==
    LET n == Cur(p).name
        i == job[p].id
        at == job[p].to
    IN
    /\ pc[p] = "move row"
    /\ \/ /\ ~Known(Offline, n) /\ ShelfKnown(Offline, at[2])
          /\ Moved(i, Offline, at) /\ slots' = Vacated(job[p].lib, job[p].from)
          /\ NextItem(p, "move")
          /\ UNCHANGED <<files, disturbed>>
       \/ /\ Rename(Image(Offline, n), job[p].path)
          /\ End(p)
          /\ UNCHANGED <<rows, slots, data, disturbed>>
       \/ /\ disturbed' = disturbed \cup {n}
          /\ End(p)
          /\ UNCHANGED <<rows, slots, files>>
    /\ UNCHANGED <<lastId, shelves>>

-----------------------------------------------------------------------------
(* assign_tapes_to_slots_batch                                             *)

\* assert_data_slot_empty
SlotFree(l, s) == slots[<<l, s>>] = 0

\* validate_tape_ready_for_online_slot
Ready(l, it) ==
    /\ SlotFree(l, it.slot)
    /\ IF it.off
       THEN OnAnyShelf(Offline, it.name) /\ ~Known(l, it.name)
       ELSE OnAnyShelf(l, it.name)

\* All items are validated before the first is done.
assign_tapes_to_slots_batch(p, l, items) ==
    /\ \A k \in DOMAIN items : Ready(l, items[k])
    /\ \A a, b \in DOMAIN items :
           a # b => items[a].slot # items[b].slot /\ items[a].name # items[b].name
    /\ Begin(p, "assign", Job(l, items))
    /\ UNCHANGED <<catalogue, files>>

\* assign_tape_to_slot, for one tape of the library.
assign_tape_to_slot(p, l, n, s) ==
    /\ Begin(p, "assign", Job(l, <<Item(n, s, FALSE)>>))
    /\ UNCHANGED <<catalogue, files>>

\* assign_one_tape_to_slot, a transaction with its own checks; the robot next.
AssignRow(p) ==
    LET l == job[p].lib
        i == TheRow(l, Cur(p).name)
    IN
    /\ pc[p] = "assign" /\ ~Cur(p).off
    /\ IF Ready(l, Cur(p))
       THEN /\ rows' = [rows EXCEPT ![i].at = InSlot(Cur(p).slot)]
            /\ slots' = [slots EXCEPT ![<<l, Cur(p).slot>>] = i]
            /\ Goto(p, "link") /\ job' = [job EXCEPT ![p].id = i]
       ELSE End(p) /\ UNCHANGED <<rows, slots>>
    /\ UNCHANGED <<lastId, shelves, files, disturbed>>

\* import_offline_tape_to_online_slot: the lookups again, and the new path.
ImportCheck(p) ==
    LET l == job[p].lib
        n == Cur(p).name
    IN
    /\ pc[p] = "assign" /\ Cur(p).off
    /\ IF Ready(l, Cur(p)) /\ file[Image(l, n)] = 0
       THEN /\ Goto(p, "import file")
            /\ job' = [job EXCEPT ![p].id = TheRow(Offline, n),
                                  ![p].path = rows[TheRow(Offline, n)].path]
       ELSE End(p)
    /\ UNCHANGED <<catalogue, files, disturbed>>

ImportFile(p) ==
    /\ pc[p] = "import file"
    /\ IF file[job[p].path] = 0
       THEN End(p) /\ UNCHANGED <<file, scan>>
       ELSE /\ Rename(job[p].path, Image(job[p].lib, Cur(p).name))
            /\ Goto(p, "import row") /\ UNCHANGED job
    /\ UNCHANGED <<catalogue, data, disturbed>>

\* Mutant: the file stays where it is when the transaction fails.
ImportNoRollback(p) ==
    LET l == job[p].lib
        i == job[p].id
        s == Cur(p).slot
    IN
    /\ pc[p] = "import row"
    /\ \/ /\ ~Known(l, Cur(p).name)
          /\ Moved(i, l, InSlot(s)) /\ slots' = [slots EXCEPT ![<<l, s>>] = i]
          /\ NextItem(p, "assign")
       \/ End(p) /\ UNCHANGED <<rows, slots>>
    /\ UNCHANGED <<lastId, shelves, files, disturbed>>

\* The transaction: whatever fails, rollback_import_rename puts the file back.
\* A row that has gone fails on the foreign key of slots.tape_id.
ImportRow(p) ==
    LET l == job[p].lib
        i == job[p].id
        s == Cur(p).slot
    IN
    /\ pc[p] = "import row"
    /\ \/ /\ i \in Id /\ ~Known(l, Cur(p).name)
          /\ Moved(i, l, InSlot(s)) /\ slots' = [slots EXCEPT ![<<l, s>>] = i]
          /\ NextItem(p, "assign")
          /\ UNCHANGED <<file, scan>>
       \/ /\ Rename(Image(l, Cur(p).name), job[p].path)
          /\ End(p)
          /\ UNCHANGED <<rows, slots>>
    /\ UNCHANGED <<lastId, shelves, data, disturbed>>

-----------------------------------------------------------------------------
(* Copies                                                                  *)

\* snapshot_tape names its file <tape>_<snapshot>.vtltape, which may be the
\* name of another tape.
SnapshotName(n) == n + 1

snapshot_tape(p, l, n) ==
    /\ Known(l, n)
    /\ Begin(p, "snapshot", [Job(l, <<Item(n, 0, FALSE)>>) EXCEPT
                                 !.names = {n, SnapshotName(n)},
                                 !.path = rows[TheRow(l, n)].path])
    /\ UNCHANGED <<catalogue, files>>

\* fs::copy
CopySnapshot(p) ==
    LET m == SnapshotName(Cur(p).name) IN
    /\ pc[p] = "snapshot"
    /\ IF file[job[p].path] = 0
       THEN UNCHANGED files
       ELSE Put(Image(job[p].lib, m), data[file[job[p].path]])
    /\ disturbed' = IF Known(job[p].lib, m) THEN disturbed \cup {m} ELSE disturbed
    /\ End(p)
    /\ UNCHANGED catalogue

\* import_tape of a file from outside: the tape may exist, wherever it is.
import_tape(p, l, n, s) ==
    /\ Known(l, n) \/ \A i \in Id : rows[i].name # n
    /\ Begin(p, "copy", [Job(l, <<Item(n, s, FALSE)>>) EXCEPT
                             !.id = IF Known(l, n) THEN TheRow(l, n) ELSE 0])
    /\ UNCHANGED <<catalogue, files>>

\* The image is overwritten before the quota and the transaction.
CopyImport(p) ==
    LET i == job[p].id IN
    /\ pc[p] = "copy"
    /\ Put(Image(job[p].lib, Cur(p).name), Fresh)
    /\ rows' = IF i \in Id THEN [rows EXCEPT ![i].data = Fresh, ![i].fits = FALSE] ELSE rows
    /\ Goto(p, "copied") /\ job' = [job EXCEPT ![p].data = Fresh]
    /\ UNCHANGED <<lastId, shelves, slots, disturbed>>

\* The slot gets the tape, whatever it holds and wherever the tape was.
ImportedRow(p) ==
    LET l == job[p].lib
        n == Cur(p).name
        old == job[p].id
        i == IF old = 0 THEN lastId + 1 ELSE old
        at == InSlot(Cur(p).slot)
    IN
    /\ pc[p] = "copied"
    /\ \/ /\ IF old = 0 THEN QuotaLeft(l) /\ ~Known(l, n) ELSE old \in Id
          /\ lastId' = IF old = 0 THEN i ELSE lastId
          /\ rows' = [j \in Id \cup {i} |->
                         IF j # i THEN rows[j]
                         ELSE IF old = 0 THEN Row(l, n, at, job[p].data)
                         ELSE [rows[j] EXCEPT !.at = at, !.path = Image(l, n)]]
          /\ slots' = [slots EXCEPT ![<<l, Cur(p).slot>>] = i]
       \/ UNCHANGED <<rows, lastId, slots>>
    /\ End(p)
    /\ UNCHANGED <<shelves, files, disturbed>>

-----------------------------------------------------------------------------
(* Robot commands and the links in the root of tape_dir                    *)

\* load_tape
LoadRow(p, l, s) ==
    LET i == slots[<<l, s>>] IN
    /\ i # 0 /\ \A j \in Id : rows[j].lib = l => ~rows[j].drive
    /\ rows' = [rows EXCEPT ![i].at = Nowhere, ![i].drive = TRUE]
    /\ slots' = [slots EXCEPT ![<<l, s>>] = 0]
    /\ Begin(p, "link", [Job(l, <<Item(rows[i].name, s, FALSE)>>) EXCEPT !.id = i])
    /\ UNCHANGED <<lastId, shelves, files>>

\* unload_tape
UnloadRow(p, i, s) ==
    LET l == rows[i].lib IN
    /\ rows[i].drive /\ l \in Online
    /\ IF rows[i].at[1] = "slot" THEN rows[i].at = InSlot(s) ELSE SlotFree(l, s)
    /\ rows' = [rows EXCEPT ![i].at = InSlot(s), ![i].drive = FALSE]
    /\ slots' = [slots EXCEPT ![<<l, s>>] = i]
    /\ Begin(p, "link", [Job(l, <<Item(rows[i].name, s, FALSE)>>) EXCEPT !.id = i])
    /\ UNCHANGED <<lastId, shelves, files>>

\* The directories whose images link_kernel_tapes wants in the root: all but
\* the offline library, ORPHAN_ROOT included.
Scanned == Online \cup {Orphans}
Inodes(n) == {file[<<d, n>>] : d \in Scanned} \ {0}
Conflict == \E n \in FileName : Cardinality(Inodes(n)) > 1

\* What a pass has found: for each name the directory of the first image it
\* met, the root if there is none; whether two files have one name; and
\* (history) whether other passes may have spoilt its links.
Found(want, clash, crossed) == [want |-> want, clash |-> clash, crossed |-> crossed]
NoScan == Found([n \in FileName |-> Root], FALSE, FALSE)

\* link_kernel_tapes takes no lock: its three parts, and the ioctl after it, let
\* other commands in between.  First it reads the directories.
link_kernel_tapes(p) ==
    /\ pc[p] = "link"
    /\ \E want \in [FileName -> Scanned \cup {Root}] :
          /\ \A n \in FileName : IF Inodes(n) = {} THEN want[n] = Root
                                 ELSE want[n] # Root /\ file[<<want[n], n>>] # 0
          /\ scan' = [scan EXCEPT ![p] = Found(want, Conflict, FALSE)]
    /\ Goto(p, "relink")
    /\ UNCHANGED <<catalogue, file, data, job, disturbed>>

Source(p, n) == file[<<scan[p].want[n], n>>]
Missed(p) == {n \in FileName : scan[p].want[n] = Root}

\* What a scan says of a name is no longer so: an image has come or gone.
Outdated(p, n) == IF n \in Missed(p) THEN Inodes(n) # {} ELSE Source(p, n) = 0

\* Two passes replace the same old link at a time.
Contended(p, n) ==
    /\ file[<<Root, n>>] \notin {0, Source(p, n)}
    /\ \E q \in Proc \ {p} : pc[q] = "relink" /\ n \notin Missed(q)

\* The commands that rely on the links they have found or made.
Passing == {"relink", "orphan", "ioctl"}
ScanNext(p, s) ==
    scan' = [q \in Proc |->
        IF q = p THEN s
        ELSE IF pc[q] \in Passing /\ Outdated(p, Cur(q).name)
             THEN [scan[q] EXCEPT !.crossed = TRUE] ELSE scan[q]]

\* A pass that fails, or counts conflicts, means that the robot is not told,
\* which is a warning.
PassEnds(p) == ScanNext(p, NoScan) /\ NextItem(p, "assign")

\* link_tape_root_alias for each name that was found: a link to another inode
\* is removed first.  An image that has gone, or another error, ends the pass.
LinkRoots(p) ==
    LET found == {n \in FileName \ Missed(p) : Source(p, n) # 0}
        replaced == {n \in found : file[<<Root, n>>] \notin {0, Source(p, n)}}
    IN
    /\ pc[p] = "relink"
    /\ \E linked \in SUBSET found, lost \in {{}} \cup {{n} : n \in replaced} :
          /\ lost \cap linked = {}
          /\ file' = [f \in DOMAIN file |->
                         IF f[1] # Root \/ f[2] \notin linked \cup lost THEN file[f]
                         ELSE IF f[2] \in lost THEN 0 ELSE Source(p, f[2])]
          /\ IF linked = FileName \ Missed(p)
             THEN /\ Goto(p, "orphan") /\ UNCHANGED job
                  /\ ScanNext(p, [scan[p] EXCEPT !.crossed = @ \/ Contended(p, Cur(p).name)])
             ELSE PassEnds(p)
    /\ UNCHANGED <<catalogue, data, disturbed>>

\* Mutant: the conflicts that the scan has counted are forgotten.
ClashAfterScan(p) ==
    \/ \E n \in FileName \ Missed(p) : file[<<Root, n>>] \notin {0, Source(p, n)}
    \/ \E n \in Missed(p) : file[<<Root, n>>] # 0 /\ file[<<Orphans, n>>] # 0

\* Two files of one name: in the directories, in the root beside the image
\* that was found, or in ORPHAN_ROOT where one from the root is to go.
Clash(p) ==
    \/ scan[p].clash
    \/ \E n \in FileName \ Missed(p) : file[<<Root, n>>] \notin {0, Source(p, n)}
    \/ \E n \in Missed(p) : file[<<Root, n>>] # 0 /\ file[<<Orphans, n>>] # 0

\* Files of the root of which the scan has found no image go to ORPHAN_ROOT.
MoveOrphans(p) ==
    LET stray == {n \in Missed(p) : file[<<Root, n>>] # 0 /\ file[<<Orphans, n>>] = 0} IN
    /\ pc[p] = "orphan"
    /\ \E gone \in SUBSET stray :
          /\ file' = [f \in DOMAIN file |->
                         IF f[2] \notin gone \/ f[1] \notin {Root, Orphans} THEN file[f]
                         ELSE IF f[1] = Root THEN 0 ELSE file[<<Root, f[2]>>]]
          /\ IF gone = stray /\ ~Clash(p)
             THEN Goto(p, "ioctl") /\ ScanNext(p, scan[p]) /\ UNCHANGED job
             ELSE PassEnds(p)
    /\ UNCHANGED <<catalogue, data, disturbed>>

\* The kernel opens the image in the root.
Ioctl(p) ==
    /\ pc[p] = "ioctl"
    /\ NextItem(p, "assign")
    /\ scan' = [scan EXCEPT ![p] = NoScan]
    /\ UNCHANGED <<catalogue, file, data, disturbed>>

-----------------------------------------------------------------------------
(* Behaviours                                                              *)

\* A tape that exists: on a shelf of its library, where it came from outside,
\* on one of the offline library, or in a slot.  The root of tape_dir has under
\* its name nothing, its image, or that of a tape deleted before, which may be in
\* ORPHAN_ROOT too.
Populations ==
    {[Row(l, 1, OnShelf(Unused), 1) EXCEPT !.fits = FALSE] : l \in Online}
        \cup {Row(Offline, 1, OnShelf(Unused), 1)}
        \cup {Row(l, 1, InSlot(s), 1) : l \in Online, s \in Slot}

NoTape ==
    /\ rows = << >> /\ lastId = 0
    /\ slots = [s \in Online \X Slot |-> 0] /\ file = [f \in Dir \X FileName |-> 0]

OneTape ==
    /\ \E r \in Populations, link \in 0 .. 2, orphan \in {0, 2} :
          /\ orphan \in {0, link}
          /\ rows = <<r>>
          /\ slots = [s \in Online \X Slot |->
                         IF r.lib = s[1] /\ r.at = InSlot(s[2]) THEN 1 ELSE 0]
          /\ file = [f \in Dir \X FileName |->
                        CASE f = r.path -> 1
                          [] f = <<Root, 1>> -> link
                          [] f = <<Orphans, 1>> -> orphan
                          [] OTHER -> 0]
    /\ lastId = 1

TapeInit ==
    /\ NoTape \/ OneTape
    /\ data = <<1, 2>> /\ shelves = {}
    /\ pc = [p \in Proc |-> "idle"] /\ job = [p \in Proc |-> NoJob]
    /\ scan = [p \in Proc |-> NoScan]
    /\ disturbed = {}

Shelves == UserShelf \cup {Unused}

\* What the next step of a command in progress may be.
TapeStep(p) ==
    \/ create_tape(p) \/ CreateFile(p) \/ InsertRow(p)
    \/ DeleteRow(p) \/ RemoveImage(p) \/ InitImage(p) \/ DropShelf(p) \/ PlaceRow(p)
    \/ MoveCheck(p) \/ MoveFile(p) \/ MoveRow(p)
    \/ AssignRow(p) \/ ImportCheck(p) \/ ImportFile(p) \/ ImportRow(p)
    \/ CopySnapshot(p) \/ CopyImport(p) \/ ImportedRow(p)
    \/ link_kernel_tapes(p) \/ LinkRoots(p) \/ MoveOrphans(p) \/ Ioctl(p)

\* The process is killed.  A move offline, or an import from offline, between
\* its rename and its commit leaves the file where no row says.
TapeKilled(ps) ==
    /\ pc' = [p \in Proc |-> IF p \in ps THEN "idle" ELSE pc[p]]
    /\ job' = [p \in Proc |-> IF p \in ps THEN NoJob ELSE job[p]]
    /\ scan' = [p \in Proc |-> IF p \in ps THEN NoScan ELSE scan[p]]
    /\ disturbed' = disturbed \cup
           {Cur(p).name : p \in {q \in ps : pc[q] \in {"move row", "import row"}}}
    /\ UNCHANGED <<catalogue, file, data>>
=============================================================================
