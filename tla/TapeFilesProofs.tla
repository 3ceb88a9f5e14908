--------------------------- MODULE TapeFilesProofs ---------------------------
(***************************************************************************)
(* For any number of processes, libraries and tapes, each step of a command*)
(* on tapes preserves TapesInv: the image of a tape is where its row says, *)
(* with what was last put on it, but between the steps of a move of it.    *)
(***************************************************************************)
EXTENDS TapeFiles, SequenceTheorems, FiniteSetTheorems, TLAPS

-----------------------------------------------------------------------------
(* Rows, files and commands: what they are made of                         *)

RowRecord(r) ==
    r = [lib |-> r.lib, name |-> r.name, at |-> r.at, drive |-> r.drive,
         path |-> r.path, data |-> r.data, fits |-> r.fits]
JobRecord(j) ==
    j = [lib |-> j.lib, todo |-> j.todo, names |-> j.names, id |-> j.id, path |-> j.path,
         to |-> j.to, from |-> j.from, data |-> j.data]
Items1 == [name : Name, slot : Slot \cup {0}, off : BOOLEAN]

\* A row names an image of its own name in the directory of some library.
RowTyped(r) ==
    /\ RowRecord(r) /\ r.lib \in Library /\ r.name \in Name /\ r.drive \in BOOLEAN
    /\ \E l \in Library : r.path = Image(l, r.name)

RowsTyped ==
    /\ rows = [i \in Id |-> rows[i]] /\ lastId \in Nat /\ Id \subseteq 1 .. lastId
    /\ \A i \in Id : RowTyped(rows[i])
    /\ slots \in [Online \X Slot -> 0 .. lastId]
    /\ \A s \in Online \X Slot : slots[s] # 0 => slots[s] \in Id
    /\ shelves \subseteq Library \X UserShelf

\* An inode has names in several directories, but one name; the directories of
\* two libraries never share one.
FilesTyped ==
    /\ \E S : data \in Seq(S)
    /\ file \in [Dir \X FileName -> 0 .. Len(data)]
    /\ \A f, g \in Dir \X FileName : file[f] = file[g] /\ file[f] # 0 => f[2] = g[2]
    /\ \A l, k \in Library, n \in FileName :
           file[<<l, n>>] = file[<<k, n>>] /\ file[<<l, n>>] # 0 => l = k

\* Where a command has looked up a tape, and where it has the path of an image.
LookedUp == {"delete", "init", "place", "move file", "move row", "import file", "import row",
             "copy", "copied", "link", "relink", "orphan", "ioctl"}
HasPath == {"delete", "unlink", "init", "move file", "move row", "import file", "import row",
            "snapshot"}
Steps == {"idle", "drop", "check", "create", "insert", "move", "assign"} \cup LookedUp \cup HasPath

Todo(p) ==
    /\ job[p].todo \in Seq(Items1) /\ job[p].todo # << >>
    /\ \A k \in 1 .. Len(job[p].todo) : job[p].todo[k].name \in job[p].names

JobTyped(p) ==
    /\ pc[p] \in Steps /\ JobRecord(job[p])
    /\ job[p].lib \in Library /\ job[p].names \subseteq FileName /\ job[p].id \in 0 .. lastId
    /\ pc[p] \in {"idle", "drop"} => job[p].names = {}
    /\ pc[p] \notin {"idle", "drop"} => Todo(p)
    /\ pc[p] \in LookedUp /\ job[p].id \in Id => rows[job[p].id].name = Cur(p).name
    /\ pc[p] \in HasPath => \E l \in Library : job[p].path = Image(l, Cur(p).name)
    /\ pc[p] = "snapshot" => SnapshotName(Cur(p).name) \in job[p].names
    /\ pc[p] \in {"move", "move file", "move row", "assign", "import file", "import row",
                  "link", "relink", "orphan", "ioctl"} => job[p].lib \in Online

JobsTyped ==
    /\ pc = [p \in Proc |-> pc[p]] /\ job = [p \in Proc |-> job[p]]
    /\ \A p \in Proc : JobTyped(p)
    /\ disturbed \subseteq FileName

\* Two commands on one name: nothing is promised for it any more.
Sole == \A n \in FileName \ disturbed : \A p, q \in Proc :
            n \in job[p].names /\ n \in job[q].names => p = q

TapesTyped == RowsTyped /\ FilesTyped /\ JobsTyped /\ Sole

-----------------------------------------------------------------------------
(* What is true of a tape by the progress of the command on it             *)

Named(n) == {i \in Id : rows[i].name = n}

Holds(f, d) == file[f] # 0 /\ data[file[f]] = d
Kept(i) == rows[i].path = Image(rows[i].lib, rows[i].name) /\ Holds(rows[i].path, rows[i].data)

Moving(p, n) == pc[p] \in {"move row", "import row"} /\ Cur(p).name = n

\* Where the pass of p has come to, for tape i: unless other passes have spoilt
\* it or it has met a conflict, no directory has another image, it has found
\* that one, and linked it in the root.
Reached(p, i) ==
    LET n == rows[i].name
        own == file[rows[i].path]
    IN
    /\ pc[p] = "ioctl" => ~scan[p].clash
    /\ ~scan[p].crossed /\ ~scan[p].clash =>
          /\ \A d \in Scanned : file[<<d, n>>] \in {0, own}
          /\ pc[p] \in {"relink", "orphan"} => /\ scan[p].want[n] \in Scanned
                                              /\ file[<<scan[p].want[n], n>>] = own
          /\ pc[p] \in {"orphan", "ioctl"} => file[<<Root, n>>] = own

Between(p, n, l, at) ==
    /\ Named(n) = {job[p].id} /\ rows[job[p].id].lib = l
    /\ rows[job[p].id].path = Image(l, n) /\ job[p].path = Image(l, n)
    /\ Holds(Image(at, n), rows[job[p].id].data)

Working(p, n) ==
    LET j == job[p] IN
    /\ pc[p] \in {"create", "insert", "unlink"} => Named(n) = {}
    /\ pc[p] \in {"delete", "init", "copy", "copied"} => Named(n) \subseteq {j.id}
    /\ pc[p] = "insert" \/ (pc[p] = "copied" /\ j.id = 0) => Holds(Image(j.lib, n), j.data)
    /\ pc[p] = "init" /\ j.id \in Id => rows[j.id].path = j.path
    /\ pc[p] \in {"copy", "copied"} /\ j.id \in Id => rows[j.id].lib = j.lib
    /\ pc[p] = "move file" => Between(p, n, j.lib, j.lib)
    /\ pc[p] = "move row" => Between(p, n, j.lib, Offline)
    /\ pc[p] = "import file" => Between(p, n, Offline, Offline)
    /\ pc[p] = "import row" => Between(p, n, Offline, j.lib)
    /\ pc[p] \in Passing /\ j.id \in Id /\ rows[j.id].lib = j.lib => Reached(p, j.id)

Tape(n) ==
    /\ \A i, j \in Named(n) : i = j
    /\ (\A p \in Proc : ~Moving(p, n)) => \A i \in Named(n) : Kept(i)
    /\ \A p \in Proc : pc[p] \notin {"idle", "drop"} /\ Cur(p).name = n => Working(p, n)

TapesInv == TapesTyped /\ \A n \in FileName \ disturbed : Tape(n)

-----------------------------------------------------------------------------
(* Steps that concern other tapes                                          *)

\* The rows and the image of tape n stay as they are, but for the place of the
\* tape; the passes of others spoil nothing that they do not own up to.
Same(n) ==
    /\ Named(n)' = Named(n)
    /\ \A i \in Named(n) : /\ rows'[i].lib = rows[i].lib /\ rows'[i].path = rows[i].path
                           /\ rows'[i].data = rows[i].data /\ rows'[i].name = n
    /\ \A d \in Library : /\ file'[<<d, n>>] = file[<<d, n>>]
                          /\ file[<<d, n>>] # 0 => data'[file[<<d, n>>]] = data[file[<<d, n>>]]
    /\ \A p \in Proc, i \in Named(n) :
           /\ pc'[p] = pc[p] /\ job'[p] = job[p] /\ pc[p] \in Passing /\ Cur(p).name = n
           /\ rows[i].lib \in Online /\ Kept(i) /\ Reached(p, i)
           => Reached(p, i)'

\* A command is on tape n only if n is among its names.
LEMMA OnItsNames ==
    ASSUME NEW p \in Proc, JobTyped(p), pc[p] \notin {"idle", "drop"}
    PROVE  /\ Cur(p).name \in job[p].names /\ Cur(p) \in Items1
           /\ job[p].todo \in Seq(Items1) /\ job[p].todo # << >>
<1>1. Todo(p)
  BY DEF JobTyped
<1>2. job[p].todo \in Seq(Items1) /\ job[p].todo # << >>
  BY <1>1 DEF Todo
<1>3. 1 \in 1 .. Len(job[p].todo) /\ Cur(p) = job[p].todo[1] /\ Cur(p) \in Items1
  BY <1>2, EmptySeq, HeadTailProperties DEF Cur
<1> QED BY <1>1, <1>2, <1>3 DEF Todo

\* As long as somebody is on tape n, nobody else is.
LEMMA NobodyElse ==
    ASSUME TapesTyped, NEW n \in FileName \ disturbed, NEW p \in Proc, n \in job[p].names,
           NEW q \in Proc \ {p}
    PROVE  n \notin job[q].names /\ ~Moving(q, n)
           /\ (pc[q] \notin {"idle", "drop"} => Cur(q).name # n)
<1>1. n \notin job[q].names
  BY DEF TapesTyped, Sole
<1>2. JobTyped(q)
  BY DEF TapesTyped, JobsTyped
<1> QED BY <1>1, <1>2, OnItsNames DEF Moving

LEMMA SameKept ==
    ASSUME RowsTyped, NEW n \in FileName, Same(n), NEW i \in Named(n)
    PROVE  Kept(i)' <=> Kept(i)
<1>1. RowTyped(rows[i]) /\ rows[i].name = n
  BY DEF RowsTyped, Named
<1>2. PICK l \in Library : rows[i].path = <<l, n>>
  BY <1>1 DEF RowTyped, Image
<1>3. rows'[i].path = <<l, n>> /\ rows'[i].lib = rows[i].lib /\ rows'[i].name = n
      /\ rows'[i].data = rows[i].data
  BY <1>2 DEF Same
<1>4. file'[<<l, n>>] = file[<<l, n>>]
      /\ (file[<<l, n>>] # 0 => data'[file[<<l, n>>]] = data[file[<<l, n>>]])
  BY DEF Same
<1> QED BY <1>1, <1>2, <1>3, <1>4 DEF Kept, Holds, Image

\* A row of the tape, in the words of Holds.
LEMMA SameHolds ==
    ASSUME NEW n \in FileName, Same(n), NEW l \in Library, NEW d, Holds(Image(l, n), d)
    PROVE  Holds(Image(l, n), d)'
BY DEF Same, Holds, Image

LEMMA SameWorking ==
    ASSUME TapesTyped, NEW n \in FileName \ disturbed, Tape(n), Same(n),
           NEW p \in Proc, pc'[p] = pc[p], job'[p] = job[p],
           pc[p] \notin {"idle", "drop"}, Cur(p).name = n,
           \A i \in Id' : i <= lastId => i \in Id
    PROVE  Working(p, n)'
<1> DEFINE j == job[p]
<1>1. Working(p, n) /\ Cur(p)' = Cur(p)
  BY DEF Tape, Cur
<1>2. JobTyped(p) /\ RowsTyped /\ j.lib \in Library /\ Offline \in Library
  BY DEF TapesTyped, JobsTyped, JobTyped, Library
<1>3. Named(n)' = Named(n)
  BY DEF Same
<1>4. \A i : i \in Named(n) <=> i \in Id /\ rows[i].name = n
  BY DEF Named
<1>5. \A i : i \in Named(n)' <=> i \in Id' /\ rows'[i].name = n
  BY DEF Named
<1>6. \A i \in Named(n) : rows'[i].lib = rows[i].lib /\ rows'[i].path = rows[i].path
                          /\ rows'[i].data = rows[i].data
  BY DEF Same
<1>7. \A l \in Library : \A d : Holds(Image(l, n), d) => Holds(Image(l, n), d)'
  BY SameHolds
<1>8. pc[p] \in {"create", "insert", "unlink"} => Named(n)' = {}
  BY <1>1, <1>3 DEF Working
<1>9. pc[p] \in {"delete", "init", "copy", "copied"} => Named(n)' \subseteq {j.id}
  BY <1>1, <1>3 DEF Working
<1>10. pc[p] = "insert" \/ (pc[p] = "copied" /\ j.id = 0) => Holds(Image(j.lib, n), j.data)'
  BY <1>1, <1>2, <1>7 DEF Working
<1>11. ASSUME NEW l \in Library, NEW at \in Library, Between(p, n, l, at)
       PROVE  Between(p, n, l, at)'
  <2>1. j.id \in Named(n) /\ Named(n)' = {j.id} /\ rows[j.id].lib = l
        /\ rows[j.id].path = Image(l, n) /\ j.path = Image(l, n)
        /\ Holds(Image(at, n), rows[j.id].data)
    BY <1>3, <1>11 DEF Between
  <2>2. PICK x : x = rows[j.id].data
    OBVIOUS
  <2>3. Holds(Image(at, n), x)' /\ rows'[j.id].data = x
    BY <1>6, <1>7, <2>1, <2>2
  <2>4. Holds(Image(at, n), rows[j.id].data)'
    BY <2>3 DEF Holds
  <2>5. rows'[j.id].lib = l /\ rows'[j.id].path = Image(l, n)
    BY <1>6, <2>1
  <2> QED BY <2>1, <2>4, <2>5 DEF Between, Image
<1>12. pc[p] \in {"init", "copy", "copied"} \cup Passing /\ j.id \in Id' => j.id \in Named(n)
  <2>1. j.id <= lastId /\ (pc[p] \in LookedUp /\ j.id \in Id => rows[j.id].name = n)
    <3>1. j.id \in 0 .. lastId /\ (pc[p] \in LookedUp /\ j.id \in Id => rows[j.id].name = n)
      BY <1>2 DEF JobTyped
    <3>2. lastId \in Nat
      BY <1>2 DEF RowsTyped
    <3> QED BY <3>1, <3>2
  <2> QED BY <1>4, <2>1 DEF LookedUp, Passing
<1>13. pc[p] = "init" /\ j.id \in Id' => rows'[j.id].path = j.path
  BY <1>1, <1>6, <1>12, <1>4 DEF Working
<1>14. pc[p] \in {"copy", "copied"} /\ j.id \in Id' => rows'[j.id].lib = j.lib
  BY <1>1, <1>6, <1>12, <1>4 DEF Working
<1>15. ASSUME pc[p] \in Passing, j.id \in Id', rows'[j.id].lib = j.lib
       PROVE  Reached(p, j.id)'
  <2>1. j.id \in Named(n) /\ rows[j.id].lib = j.lib /\ j.lib \in Online
    BY <1>2, <1>6, <1>12, <1>15 DEF JobTyped, Passing
  <2>2. Reached(p, j.id)
    BY <1>1, <1>4, <1>15, <2>1 DEF Working
  <2>3. n \in job[p].names
    BY <1>2, OnItsNames
  <2>4. \A q \in Proc : ~Moving(q, n)
    BY <1>15, <2>3, NobodyElse DEF Moving, Passing
  <2>5. Kept(j.id)
    BY <2>1, <2>4 DEF Tape
  <2>6. PICK i \in Named(n) : i = j.id
    BY <2>1
  <2>7. Reached(p, i)'
    BY <1>15, <2>1, <2>2, <2>5, <2>6 DEF Same
  <2> QED BY <2>6, <2>7 DEF Reached
<1>16. pc'[p] = pc[p] /\ job'[p] = j
  OBVIOUS
<1>17. /\ pc[p] = "move file" => Between(p, n, j.lib, j.lib)'
       /\ pc[p] = "move row" => Between(p, n, j.lib, Offline)'
       /\ pc[p] = "import file" => Between(p, n, Offline, Offline)'
       /\ pc[p] = "import row" => Between(p, n, Offline, j.lib)'
  <2>1. /\ pc[p] = "move file" => Between(p, n, j.lib, j.lib)
        /\ pc[p] = "move row" => Between(p, n, j.lib, Offline)
        /\ pc[p] = "import file" => Between(p, n, Offline, Offline)
        /\ pc[p] = "import row" => Between(p, n, Offline, j.lib)
    BY <1>1 DEF Working
  <2>2. PICK l \in Library : l = j.lib
    BY <1>2
  <2>3. /\ pc[p] = "move file" => Between(p, n, l, l)'
        /\ pc[p] = "move row" => Between(p, n, l, Offline)'
        /\ pc[p] = "import file" => Between(p, n, Offline, Offline)'
        /\ pc[p] = "import row" => Between(p, n, Offline, l)'
    BY <1>2, <1>11, <2>1, <2>2
  <2> QED BY <1>16, <2>2, <2>3
<1> QED
  BY ZenonT(60), <1>8, <1>9, <1>10, <1>13, <1>14, <1>15, <1>16, <1>17 DEF Working

\* The same after a step.
LEMMA NamesNext ==
    ASSUME NEW p \in Proc, JobTyped(p)', pc'[p] \notin {"idle", "drop"}
    PROVE  /\ Cur(p)'.name \in job'[p].names /\ Cur(p)' \in Items1
           /\ job'[p].todo \in Seq(Items1) /\ job'[p].todo # << >>
<1>1. job'[p].todo \in Seq(Items1) /\ job'[p].todo # << >>
  BY DEF JobTyped, Todo
<1>2. /\ 1 \in 1 .. Len(job'[p].todo) /\ Head(job'[p].todo) = job'[p].todo[1]
      /\ Head(job'[p].todo) \in Items1
  BY <1>1, EmptySeq, HeadTailProperties
<1>3. \A k \in 1 .. Len(job'[p].todo) : job'[p].todo[k].name \in job'[p].names
  BY DEF JobTyped, Todo
<1> QED BY <1>1, <1>2, <1>3 DEF Cur

\* A process whose progress and names have nothing to do with tape n, before
\* and after, or that does not move.
Away(p, n) ==
    \/ pc'[p] = pc[p] /\ job'[p] = job[p]
    \/ n \notin job[p].names /\ n \notin job'[p].names

LEMMA SameTape ==
    ASSUME TapesTyped, NEW n \in FileName \ disturbed, Tape(n), Same(n),
           \A p \in Proc : Away(p, n), \A p \in Proc : JobTyped(p)',
           \A i \in Id' : i <= lastId => i \in Id
    PROVE  Tape(n)'
<1>1. \A i, j \in Named(n)' : i = j
  BY DEF Tape, Same
<1>2. ASSUME NEW p \in Proc, Moving(p, n)
      PROVE  Moving(p, n)'
  <2>1. n \in job[p].names
    BY <1>2, OnItsNames DEF TapesTyped, JobsTyped, Moving
  <2> QED BY <1>2, <2>1 DEF Away, Moving, Cur
<1>3. (\A p \in Proc : ~Moving(p, n)') => \A i \in Named(n)' : Kept(i)'
  BY <1>2, SameKept DEF Tape, Same, TapesTyped
<1>4. ASSUME NEW p \in Proc, pc'[p] \notin {"idle", "drop"}, Cur(p)'.name = n
      PROVE  Working(p, n)'
  <2>1. n \in job'[p].names
    BY <1>4, NamesNext
  <2>2. pc'[p] = pc[p] /\ job'[p] = job[p]
    BY <2>1 DEF Away
  <2>3. Cur(p).name = n
    BY <1>4, <2>2 DEF Cur
  <2> QED BY <1>4, <2>2, <2>3, SameWorking
<1> QED BY <1>1, <1>3, <1>4 DEF Tape

\* What a step has to do for a tape that process p is on, before or after.
Own(p, n) ==
    /\ \A i, j \in Named(n)' : i = j
    /\ ~Moving(p, n)' => \A i \in Named(n)' : Kept(i)'
    /\ pc'[p] \notin {"idle", "drop"} /\ Cur(p)'.name = n => Working(p, n)'

\* A step of process p, its rows and files well typed, that leaves the tapes of
\* others alone and does right by its own, preserves the invariant.
Others(p) == \A q \in Proc \ {p} : pc'[q] = pc[q] /\ job'[q] = job[q]

IdsGrow ==
    /\ lastId' >= lastId
    /\ \A i \in Id' : i <= lastId => i \in Id /\ rows'[i].name = rows[i].name

LEMMA OthersTyped ==
    ASSUME TapesTyped, NEW q \in Proc, pc'[q] = pc[q], job'[q] = job[q], IdsGrow, RowsTyped'
    PROVE  JobTyped(q)'
<1> DEFINE j == job[q]
<1>1. JobTyped(q) /\ lastId \in Nat /\ lastId' \in Nat
  BY DEF TapesTyped, JobsTyped, RowsTyped
<1>2. j.id \in 0 .. lastId /\ j.id \in 0 .. lastId'
  <2>1. j.id \in 0 .. lastId
    BY <1>1 DEF JobTyped
  <2>2. lastId' >= lastId
    BY DEF IdsGrow
  <2> QED BY <1>1, <2>1, <2>2
<1>3. j.id \in Id' => j.id \in Id /\ rows'[j.id].name = rows[j.id].name
  BY <1>1, <1>2 DEF IdsGrow
<1>4. Cur(q)' = Cur(q)
  BY DEF Cur
<1>5. Todo(q)' <=> Todo(q)
  BY DEF Todo
<1>6. (pc[q] \in LookedUp /\ j.id \in Id => rows[j.id].name = Cur(q).name)'
  BY <1>1, <1>3, <1>4 DEF JobTyped
<1> QED BY <1>1, <1>2, <1>4, <1>5, <1>6 DEF JobTyped

LEMMA StepTapes ==
    ASSUME TapesInv, NEW p \in Proc, Others(p), IdsGrow,
           RowsTyped', FilesTyped', JobTyped(p)',
           pc' = [q \in Proc |-> pc'[q]], job' = [q \in Proc |-> job'[q]],
           disturbed \subseteq disturbed', disturbed' \subseteq FileName,
           \A n \in job'[p].names \ disturbed' :
               n \in job[p].names \/ \A q \in Proc \ {p} : n \notin job[q].names,
           \A n \in FileName \ disturbed' :
               IF n \in job[p].names \/ n \in job'[p].names THEN Own(p, n) ELSE Same(n)
    PROVE  TapesInv'
<1>1. ASSUME NEW q \in Proc
      PROVE  JobTyped(q)'
  BY OthersTyped DEF TapesInv, Others
<1>2. JobsTyped'
  BY <1>1 DEF JobsTyped
<1>3. ASSUME NEW n \in FileName \ disturbed', n \in job[p].names \/ n \in job'[p].names,
             NEW q \in Proc \ {p}
      PROVE  n \notin job'[q].names
  BY <1>3 DEF TapesInv, TapesTyped, Sole, Others
<1>4. Sole'
  <2> SUFFICES ASSUME NEW n \in FileName \ disturbed', NEW q \in Proc, NEW r \in Proc,
                      n \in job'[q].names, n \in job'[r].names
               PROVE  q = r
    BY DEF Sole
  <2>1. CASE q # p /\ r # p
    BY <2>1 DEF TapesInv, TapesTyped, Sole, Others
  <2>2. CASE q = p \/ r = p
    BY <2>2, <1>3
  <2> QED BY <2>1, <2>2
<1>5. ASSUME NEW n \in FileName \ disturbed'
      PROVE  Tape(n)'
  <2>1. CASE n \in job[p].names \/ n \in job'[p].names
    <3>1. Own(p, n)
      BY <2>1
    <3>2. ASSUME NEW q \in Proc, pc'[q] \notin {"idle", "drop"}, Cur(q)'.name = n
          PROVE  q = p
      <4>1. n \in job'[q].names
        BY <3>2, <1>1, NamesNext
      <4> QED BY <2>1, <4>1, <1>3
    <3> QED BY <3>1, <3>2 DEF Own, Tape
  <2>2. CASE ~(n \in job[p].names \/ n \in job'[p].names)
    <3>1. Same(n)
      BY <2>2
    <3>2. \A q \in Proc : Away(q, n)
      BY <2>2 DEF Away, Others
    <3>3. Tape(n) /\ n \in FileName \ disturbed
      BY DEF TapesInv
    <3> QED BY <1>1, <3>1, <3>2, <3>3, SameTape DEF TapesInv, IdsGrow
  <2> QED BY <2>1, <2>2
<1> QED BY <1>2, <1>4, <1>5 DEF TapesInv, TapesTyped

-----------------------------------------------------------------------------
(* The progress of a command                                               *)

\* Where nothing is known of the tape but what is known of any.
Resting == {"idle", "drop", "check", "move", "assign", "place", "link", "snapshot"}

LEMMA RestingWorks ==
    ASSUME NEW p \in Proc, NEW n, pc'[p] \in Resting
    PROVE  Working(p, n)'
BY DEF Working, Resting, Passing

LEMMA OwnResting ==
    ASSUME NEW p \in Proc, NEW n, pc'[p] \in Resting,
           \A i, j \in Named(n)' : i = j, \A i \in Named(n)' : Kept(i)'
    PROVE  Own(p, n)
BY RestingWorks DEF Own

Moves(p) ==
    /\ Others(p) /\ pc' = [q \in Proc |-> pc'[q]] /\ job' = [q \in Proc |-> job'[q]]

LEMMA EndMoves ==
    ASSUME JobsTyped, NEW p \in Proc, End(p), lastId' \in Nat
    PROVE  /\ Moves(p) /\ JobTyped(p)'
           /\ pc'[p] = "idle" /\ job'[p].names = {}
<1>1. /\ pc' = [q \in Proc |-> IF q = p THEN "idle" ELSE pc[q]]
      /\ job' = [q \in Proc |-> IF q = p THEN NoJob ELSE job[q]]
  BY DEF JobsTyped, End, Goto
<1>2. pc'[p] = "idle" /\ job'[p] = NoJob
  BY <1>1
<1>3. /\ NoJob.lib = Offline /\ NoJob.names = {} /\ NoJob.id = 0
      /\ JobRecord(NoJob)
  BY DEF NoJob, JobRecord
<1>4. Moves(p)
  BY <1>1 DEF Moves, Others
<1>5. JobTyped(p)'
  BY <1>2, <1>3 DEF JobTyped, Steps, LookedUp, HasPath, Library, JobRecord
<1> QED BY <1>2, <1>3, <1>4, <1>5

LEMMA GotoMoves ==
    ASSUME JobsTyped, NEW p \in Proc, NEW l, Goto(p, l), UNCHANGED job
    PROVE  Moves(p) /\ pc'[p] = l /\ job'[p] = job[p] /\ Cur(p)' = Cur(p) /\ (Todo(p) => Todo(p)')
<1>1. pc' = [q \in Proc |-> IF q = p THEN l ELSE pc[q]]
  BY DEF JobsTyped, Goto
<1> QED BY <1>1 DEF Moves, Others, JobsTyped, Cur, Todo

\* An update of the fields of a job.
LEMMA JobMoves ==
    ASSUME JobsTyped, NEW p \in Proc, NEW l, NEW j, Goto(p, l), job' = [job EXCEPT ![p] = j]
    PROVE  Moves(p) /\ pc'[p] = l /\ job'[p] = j
<1>1. /\ pc' = [q \in Proc |-> IF q = p THEN l ELSE pc[q]]
      /\ job' = [q \in Proc |-> IF q = p THEN j ELSE job[q]]
  BY DEF JobsTyped, Goto
<1> QED BY <1>1 DEF Moves, Others

\* The rest of a batch.
LEMMA RestOf ==
    ASSUME NEW S, NEW s \in Seq(S), s # << >>, Len(s) # 1
    PROVE  /\ Tail(s) \in Seq(S) /\ Tail(s) # << >>
           /\ \A k \in 1 .. Len(Tail(s)) : k + 1 \in 1 .. Len(s) /\ Tail(s)[k] = s[k + 1]
<1>1. /\ Len(s) \in Nat \ {0} /\ Tail(s) \in Seq(S) /\ Len(Tail(s)) = Len(s) - 1
      /\ \A k \in 1 .. Len(Tail(s)) : Tail(s)[k] = s[k + 1]
  BY EmptySeq, HeadTailProperties
<1>2. Len(Tail(s)) # 0
  <2> PICK m \in Nat \ {0} : m = Len(s)
    BY <1>1
  <2>1. m # 1
    OBVIOUS
  <2>2. m - 1 # 0
    BY <2>1
  <2>3. Len(Tail(s)) = m - 1
    BY ZenonT(30), <1>1
  <2> QED BY ZenonT(30), <2>2, <2>3
<1>3. Tail(s) # << >>
  <2> SUFFICES ASSUME Tail(s) = << >> PROVE FALSE
    OBVIOUS
  <2>1. Len(Tail(s)) = 0
    BY EmptySeq
  <2> QED BY <1>2, <2>1
<1>4. \A k \in 1 .. Len(Tail(s)) : k + 1 \in 1 .. Len(s)
  <2> PICK m \in Nat : m = Len(s)
    BY <1>1
  <2>1. \A k \in 1 .. m - 1 : k + 1 \in 1 .. m
    OBVIOUS
  <2> QED BY <1>1, <2>1
<1> QED BY <1>1, <1>3, <1>4

LEMMA JobWith ==
    ASSUME NEW r, JobRecord(r), NEW t
    PROVE  LET j == [r EXCEPT !.todo = t] IN
           /\ JobRecord(j) /\ j.todo = t /\ j.lib = r.lib /\ j.names = r.names
           /\ j.id = r.id
BY DEF JobRecord

LEMMA NextMoves ==
    ASSUME JobsTyped, NEW p \in Proc, NEW l \in {"check", "move", "assign"}, NextItem(p, l),
           pc[p] \notin {"idle", "drop"},
           l \in {"move", "assign"} => job[p].lib \in Online,
           lastId \in Nat, lastId' \in Nat, lastId' >= lastId
    PROVE  /\ Moves(p) /\ JobTyped(p)'
           /\ pc'[p] \in {"idle", l} /\ job'[p].names \subseteq job[p].names
<1>1. CASE Len(job[p].todo) = 1
  BY <1>1, EndMoves DEF NextItem
<1>2. CASE Len(job[p].todo) # 1
  <2> DEFINE s == job[p].todo
             j == [job[p] EXCEPT !.todo = Tail(s)]
  <2>1. Goto(p, l) /\ job' = [job EXCEPT ![p] = j]
    BY <1>2 DEF NextItem, JobsTyped
  <2>2. Moves(p) /\ pc'[p] = l /\ job'[p] = j
    <3> HIDE DEF j
    <3> QED BY <2>1, JobMoves
  <2>3. JobTyped(p) /\ Todo(p)
    BY DEF JobsTyped, JobTyped
  <2>4. /\ JobRecord(j) /\ j.todo = Tail(s) /\ j.lib = job[p].lib
        /\ j.names = job[p].names /\ j.id = job[p].id
    <3>1. JobRecord(job[p])
      BY <2>3 DEF JobTyped
    <3> QED BY <3>1, JobWith
  <2>5. /\ s \in Seq(Items1) /\ s # << >>
        /\ \A k \in 1 .. Len(s) : s[k].name \in job[p].names
    BY <2>3 DEF Todo
  <2>6. /\ Tail(s) \in Seq(Items1) /\ Tail(s) # << >>
        /\ \A k \in 1 .. Len(Tail(s)) : k + 1 \in 1 .. Len(s) /\ Tail(s)[k] = s[k + 1]
    BY <1>2, <2>5, RestOf
  <2>8. j.todo \in Seq(Items1) /\ j.todo # << >>
        /\ \A k \in 1 .. Len(j.todo) : j.todo[k].name \in j.names
    <3> HIDE DEF j
    <3> QED BY <2>4, <2>5, <2>6
  <2>9. Todo(p)'
    BY <2>2, <2>8 DEF Todo
  <2>10. j.id \in 0 .. lastId' /\ j.lib \in Library /\ j.names \subseteq FileName
    <3>1. job[p].id \in 0 .. lastId /\ job[p].lib \in Library /\ job[p].names \subseteq FileName
      BY <2>3 DEF JobTyped
    <3> HIDE DEF j
    <3> QED BY <2>4, <3>1
  <2>11. JobTyped(p)'
    <3> HIDE DEF j
    <3>1. JobRecord(job'[p])
      BY <2>2, <2>4 DEF JobRecord
    <3>2. j.lib = job[p].lib /\ (l \in {"move", "assign"} => j.lib \in Online)
      BY <2>4
    <3> QED BY <2>2, <2>9, <2>10, <3>1, <3>2 DEF JobTyped, Steps, LookedUp, HasPath
  <2> QED BY <2>2, <2>4, <2>11
<1> QED BY <1>1, <1>2

-----------------------------------------------------------------------------
(* Steps that change no image, and of the rows only where the tapes are     *)

ScanKept == \A q \in Proc : pc'[q] = pc[q] /\ pc[q] \in Passing => scan'[q] = scan[q]

Placed ==
    /\ RowsTyped' /\ UNCHANGED <<lastId, file, data>> /\ Id' = Id /\ ScanKept
    /\ \A i \in Id : /\ rows'[i].lib = rows[i].lib /\ rows'[i].name = rows[i].name
                      /\ rows'[i].path = rows[i].path /\ rows'[i].data = rows[i].data

Still == UNCHANGED <<rows, lastId, slots, file, data, scan>>

LEMMA StillPlaced ==
    ASSUME RowsTyped, Still, shelves' \subseteq Library \X UserShelf
    PROVE  Placed
<1> USE DEF Still
<1>1. RowsTyped'
  BY DEF RowsTyped, Id
<1>2. Id' = Id
  BY DEF Id
<1>3. ScanKept
  BY DEF ScanKept
<1> QED BY <1>1, <1>2, <1>3 DEF Placed

LEMMA PlacedSame ==
    ASSUME RowsTyped, FilesTyped, Placed
    PROVE  /\ RowsTyped' /\ FilesTyped' /\ IdsGrow /\ lastId' \in Nat
           /\ \A n : Same(n) /\ Named(n)' = Named(n)
           /\ \A i \in Id : Kept(i)' <=> Kept(i)
<1>1. UNCHANGED <<lastId, file, data>> /\ Id' = Id /\ RowsTyped' /\ ScanKept
  BY DEF Placed
<1>2. \A i \in Id : /\ rows'[i].lib = rows[i].lib /\ rows'[i].name = rows[i].name
                    /\ rows'[i].path = rows[i].path /\ rows'[i].data = rows[i].data
  BY DEF Placed
<1>3. FilesTyped'
  BY <1>1 DEF FilesTyped
<1>4. IdsGrow /\ lastId' \in Nat
  <2>1. lastId \in Nat
    BY DEF RowsTyped
  <2> QED BY <1>1, <1>2, <2>1 DEF IdsGrow
<1>5. \A n : Named(n)' = Named(n)
  BY <1>1, <1>2 DEF Named
<1>6. ASSUME NEW i \in Id
      PROVE  Kept(i)' <=> Kept(i)
  <2>1. /\ rows'[i].lib = rows[i].lib /\ rows'[i].name = rows[i].name
        /\ rows'[i].path = rows[i].path /\ rows'[i].data = rows[i].data
    BY <1>2
  <2> QED BY <1>1, <2>1 DEF Kept, Holds
<1>7. ASSUME NEW p \in Proc, NEW i \in Id, pc'[p] = pc[p], pc[p] \in Passing, Reached(p, i)
      PROVE  Reached(p, i)'
  <2>1. rows'[i].name = rows[i].name /\ rows'[i].path = rows[i].path /\ file' = file
    BY <1>1, <1>2
  <2>2. scan'[p] = scan[p]
    BY <1>1, <1>7 DEF ScanKept
  <2> QED BY <1>7, <2>1, <2>2 DEF Reached
<1>8. \A n : Same(n)
  BY <1>1, <1>2, <1>5, <1>7 DEF Same, Named
<1> QED BY <1>1, <1>3, <1>4, <1>5, <1>6, <1>8

\* Nobody is between file and row of a tape that p alone may be on, but p.
LEMMA OnlyMover ==
    ASSUME TapesInv, NEW p \in Proc, NEW n \in FileName \ disturbed, ~Moving(p, n),
           n \in job[p].names \/ \A q \in Proc \ {p} : n \notin job[q].names
    PROVE  \A i \in Named(n) : Kept(i)
<1>1. ASSUME NEW q \in Proc PROVE ~Moving(q, n)
  <2>1. JobTyped(q)
    BY DEF TapesInv, TapesTyped, JobsTyped
  <2>2. CASE n \in job[p].names
    BY <2>2, NobodyElse DEF TapesInv
  <2>3. CASE \A r \in Proc \ {p} : n \notin job[r].names
    BY <2>1, <2>3, OnItsNames DEF Moving
  <2> QED BY <2>2, <2>3
<1> QED BY <1>1 DEF TapesInv, Tape

LEMMA QuietTapes ==
    ASSUME TapesInv, NEW p \in Proc, Moves(p), Placed,
           JobTyped(p)', disturbed \subseteq disturbed', disturbed' \subseteq FileName,
           \A n \in job'[p].names \ disturbed' :
               n \in job[p].names \/ \A q \in Proc \ {p} : n \notin job[q].names,
           \A n \in (job[p].names \cup job'[p].names) \ disturbed' :
               /\ pc'[p] \notin {"idle", "drop"} /\ Cur(p)'.name = n => Working(p, n)'
               /\ Moving(p, n) => Moving(p, n)'
    PROVE  TapesInv'
<1>1. RowsTyped' /\ FilesTyped' /\ IdsGrow
      /\ (\A n : Same(n) /\ Named(n)' = Named(n)) /\ \A i \in Id : Kept(i)' <=> Kept(i)
  BY PlacedSame DEF TapesInv, TapesTyped
<1>2. ASSUME NEW n \in FileName \ disturbed', n \in job[p].names \/ n \in job'[p].names
      PROVE  Own(p, n)
  <2>1. n \in FileName \ disturbed /\ Tape(n)
    BY DEF TapesInv
  <2>2. \A i, j \in Named(n)' : i = j
    BY <1>1, <2>1 DEF Tape
  <2>3. ASSUME ~Moving(p, n)' PROVE \A i \in Named(n)' : Kept(i)'
    <3>1. ~Moving(p, n)
      BY <1>2, <2>3
    <3>2. n \in job[p].names \/ \A q \in Proc \ {p} : n \notin job[q].names
      BY <1>2
    <3>3. \A i \in Named(n) : Kept(i)
      BY <2>1, <3>1, <3>2, OnlyMover
    <3> QED BY <1>1, <3>3 DEF Named
  <2>4. pc'[p] \notin {"idle", "drop"} /\ Cur(p)'.name = n => Working(p, n)'
    BY <1>2
  <2> QED BY <2>2, <2>3, <2>4 DEF Own
<1> QED BY <1>1, <1>2, StepTapes DEF Moves

\* A command that goes on to, or ends in, a state of rest.
LEMMA QuietRests ==
    ASSUME TapesInv, NEW p \in Proc, Moves(p), Placed,
           JobTyped(p)', disturbed \subseteq disturbed', disturbed' \subseteq FileName,
           job'[p].names \subseteq job[p].names, pc'[p] \in Resting,
           pc[p] \notin {"move row", "import row"} \/ Cur(p).name \in disturbed'
    PROVE  TapesInv'
<1>1. \A n : Working(p, n)'
  BY RestingWorks
<1>2. \A n \in (job[p].names \cup job'[p].names) \ disturbed' : ~Moving(p, n)
  BY DEF Moving
<1> QED BY <1>1, <1>2, QuietTapes

\* What is known of a command in progress.
LEMMA Command0 ==
    ASSUME TapesInv, NEW p \in Proc
    PROVE  /\ RowsTyped /\ FilesTyped /\ JobsTyped /\ Sole /\ JobTyped(p) /\ JobRecord(job[p])
           /\ lastId \in Nat /\ disturbed \subseteq FileName
           /\ shelves \subseteq Library \X UserShelf
           /\ pc[p] \notin {"idle", "drop"} =>
                 /\ Todo(p) /\ Cur(p) \in Items1 /\ Cur(p).name \in Name
                 /\ Cur(p).name \in job[p].names /\ Cur(p).name \in FileName
<1>1. RowsTyped /\ FilesTyped /\ JobsTyped /\ Sole
  BY DEF TapesInv, TapesTyped
<1>2. JobTyped(p) /\ disturbed \subseteq FileName
  BY <1>1 DEF JobsTyped
<1>3. JobRecord(job[p]) /\ (pc[p] \notin {"idle", "drop"} => Todo(p))
  BY <1>2 DEF JobTyped
<1>4. lastId \in Nat /\ shelves \subseteq Library \X UserShelf
  BY <1>1 DEF RowsTyped
<1>5. ASSUME pc[p] \notin {"idle", "drop"}
      PROVE  /\ Cur(p) \in Items1 /\ Cur(p).name \in Name
             /\ Cur(p).name \in job[p].names /\ Cur(p).name \in FileName
  <2>1. Cur(p) \in Items1 /\ Cur(p).name \in job[p].names
    BY <1>2, <1>5, OnItsNames
  <2>2. Cur(p).name \in Name
    BY <2>1 DEF Items1
  <2>3. job[p].names \subseteq FileName
    BY <1>2 DEF JobTyped
  <2> QED BY <2>1, <2>2, <2>3
<1> QED BY <1>1, <1>2, <1>3, <1>4, <1>5

\* A command that ends.
LEMMA EndsQuietly ==
    ASSUME TapesInv, NEW p \in Proc, End(p), Placed,
           disturbed \subseteq disturbed', disturbed' \subseteq FileName,
           pc[p] \notin {"move row", "import row"} \/ Cur(p).name \in disturbed'
    PROVE  TapesInv'
<1>1. JobsTyped /\ lastId' \in Nat
  BY Command0 DEF Placed
<1>2. Moves(p) /\ JobTyped(p)' /\ pc'[p] = "idle" /\ job'[p].names = {}
  BY <1>1, EndMoves
<1> QED BY <1>2, QuietRests DEF Resting

\* A command that ends without having changed anything in this step.
LEMMA EndsStill ==
    ASSUME TapesInv, NEW p \in Proc, End(p), UNCHANGED <<catalogue, files, disturbed>>,
           pc[p] \notin {"move row", "import row"}
    PROVE  TapesInv'
<1>1. Placed
  BY Command0, StillPlaced DEF catalogue, files, Still
<1>2. disturbed \subseteq FileName
  BY Command0
<1> QED BY <1>1, <1>2, EndsQuietly

LEMMA Between0 ==
    ASSUME NEW a, NEW b \in Nat, NEW c \in Nat, a \in 0 .. b, c >= b
    PROVE  a \in 0 .. c /\ a <= b
OBVIOUS

\* A command goes on with the same arguments.
LEMMA GoesOn ==
    ASSUME TapesInv, NEW p \in Proc, NEW l \in Steps \ {"idle", "drop"}, Goto(p, l), UNCHANGED job,
           pc[p] \notin {"idle", "drop"}, IdsGrow, lastId' \in Nat,
           l \in LookedUp => pc[p] \in LookedUp,
           l \in HasPath => pc[p] \in HasPath,
           l # "snapshot",
           l \in {"move", "move file", "move row", "assign", "import file", "import row",
                  "link", "relink", "orphan", "ioctl"} => job[p].lib \in Online
    PROVE  Moves(p) /\ JobTyped(p)' /\ job'[p] = job[p] /\ pc'[p] = l /\ Cur(p)' = Cur(p)
<1>1. /\ Moves(p) /\ pc'[p] = l /\ job'[p] = job[p] /\ Cur(p)' = Cur(p) /\ Todo(p)'
      /\ JobTyped(p) /\ lastId \in Nat
  BY Command0, GotoMoves
<1>2. job[p].id \in 0 .. lastId' /\ job[p].id <= lastId
  <2>1. job[p].id \in 0 .. lastId
    BY <1>1 DEF JobTyped
  <2>2. lastId' >= lastId /\ lastId \in Nat
    BY <1>1 DEF IdsGrow
  <2> QED BY <2>1, <2>2, Between0
<1>3. job[p].id \in Id' => job[p].id \in Id /\ rows'[job[p].id].name = rows[job[p].id].name
  BY <1>2 DEF IdsGrow
<1>4. JobRecord(job'[p])
  BY <1>1, Command0
<1>5. l \in LookedUp /\ job[p].id \in Id' => rows'[job[p].id].name = Cur(p).name
  BY <1>1, <1>3 DEF JobTyped
<1>6. l \in HasPath => \E k \in Library : job[p].path = Image(k, Cur(p).name)
  BY <1>1 DEF JobTyped
<1>7. job[p].lib \in Library /\ job[p].names \subseteq FileName
  BY <1>1 DEF JobTyped
<1>8. JobTyped(p)'
  BY <1>1, <1>2, <1>4, <1>5, <1>6, <1>7 DEF JobTyped, JobRecord
<1> QED BY <1>1, <1>8

-----------------------------------------------------------------------------
(* A command begins                                                        *)

\* Nothing is promised for the names that another command has.
LEMMA BeginMoves ==
    ASSUME TapesInv, NEW p \in Proc, NEW l, NEW j, Begin(p, l, j), j.names \subseteq FileName
    PROVE  /\ Moves(p) /\ pc'[p] = l /\ job'[p] = j /\ pc[p] = "idle" /\ job[p].names = {}
           /\ disturbed \subseteq disturbed' /\ disturbed' \subseteq FileName
           /\ \A n \in j.names \ disturbed' : \A q \in Proc \ {p} : n \notin job[q].names
<1>1. Moves(p) /\ pc'[p] = l /\ job'[p] = j
  BY Command0, JobMoves DEF Begin
<1>2. pc[p] = "idle" /\ job[p].names = {} /\ disturbed \subseteq FileName
  BY Command0 DEF Begin, JobTyped
<1>3. disturbed' = disturbed \cup UNION {j.names \cap job[q].names : q \in Proc \ {p}}
  BY DEF Begin
<1> QED BY <1>1, <1>2, <1>3

\* What a command is given when it begins.
StartsWell(l, j) ==
    /\ l \in Steps \ {"idle"} /\ JobRecord(j)
    /\ j.lib \in Library /\ j.names \subseteq FileName /\ j.id \in 0 .. lastId
    /\ IF l = "drop" THEN j.names = {}
       ELSE /\ j.todo \in Seq(Items1) /\ j.todo # << >>
            /\ \A k \in 1 .. Len(j.todo) : j.todo[k].name \in j.names
    /\ l \in LookedUp /\ j.id \in Id => rows[j.id].name = Head(j.todo).name
    /\ l \in HasPath => \E k \in Library : j.path = Image(k, Head(j.todo).name)
    /\ l = "snapshot" => SnapshotName(Head(j.todo).name) \in j.names
    /\ l \in {"move", "move file", "move row", "assign", "import file", "import row",
              "link", "relink", "orphan", "ioctl"} => j.lib \in Online

LEMMA BeginTyped ==
    ASSUME TapesInv, NEW p \in Proc, NEW l, NEW j, Begin(p, l, j), StartsWell(l, j),
           IdsGrow, lastId' \in Nat
    PROVE  JobTyped(p)'
<1>1. pc'[p] = l /\ job'[p] = j
  <2>1. j.names \subseteq FileName
    BY DEF StartsWell
  <2> QED BY <2>1, BeginMoves
<1>2. lastId \in Nat /\ lastId' >= lastId
  BY Command0 DEF IdsGrow
<1>3. j.id \in 0 .. lastId /\ j.id \in 0 .. lastId' /\ j.id <= lastId
  <2>1. j.id \in 0 .. lastId
    BY DEF StartsWell
  <2> QED BY <1>2, <2>1
<1>4. j.id \in Id' => j.id \in Id /\ rows'[j.id].name = rows[j.id].name
  BY <1>3 DEF IdsGrow
<1>5. Cur(p)' = Head(j.todo)
  BY <1>1 DEF Cur
<1>6. l # "drop" => Todo(p)'
  BY <1>1 DEF Todo, StartsWell
<1>7. l \in LookedUp /\ j.id \in Id' => rows'[j.id].name = Cur(p)'.name
  BY <1>4, <1>5 DEF StartsWell
<1> QED
  BY <1>1, <1>3, <1>5, <1>6, <1>7 DEF JobTyped, StartsWell, JobRecord

\* A command begins, at most with a transaction that moves tapes.
LEMMA BeginPlaces ==
    ASSUME TapesInv, NEW p \in Proc, NEW l, NEW j, Begin(p, l, j), StartsWell(l, j), Placed,
           \A n \in j.names \ disturbed' :
               Tape(n) /\ l # "drop" /\ Head(j.todo).name = n => Working(p, n)'
    PROVE  TapesInv'
<1>1. j.names \subseteq FileName
  BY DEF StartsWell
<1>2. /\ Moves(p) /\ pc'[p] = l /\ job'[p] = j /\ pc[p] = "idle" /\ job[p].names = {}
      /\ disturbed \subseteq disturbed' /\ disturbed' \subseteq FileName
      /\ \A n \in j.names \ disturbed' : \A q \in Proc \ {p} : n \notin job[q].names
  BY <1>1, BeginMoves
<1>5. IdsGrow /\ lastId' \in Nat
  BY Command0, PlacedSame
<1>6. JobTyped(p)'
  BY <1>5, BeginTyped
<1>7. ASSUME NEW n \in (job[p].names \cup job'[p].names) \ disturbed'
      PROVE  /\ pc'[p] \notin {"idle", "drop"} /\ Cur(p)'.name = n => Working(p, n)'
             /\ Moving(p, n) => Moving(p, n)'
  <2>1. n \in j.names \ disturbed' /\ Tape(n)
    BY <1>1, <1>2 DEF TapesInv
  <2>2. ~Moving(p, n)
    BY <1>2 DEF Moving
  <2>3. Cur(p)' = Head(j.todo)
    BY <1>2 DEF Cur
  <2> QED BY <1>2, <2>1, <2>2, <2>3
<1> QED BY <1>2, <1>6, <1>7, QuietTapes

\* A command that only reads begins.
LEMMA BeginReads ==
    ASSUME TapesInv, NEW p \in Proc, NEW l, NEW j, Begin(p, l, j), StartsWell(l, j),
           UNCHANGED <<catalogue, files>>,
           \A n \in j.names \ disturbed' :
               Tape(n) /\ l # "drop" /\ Head(j.todo).name = n => Working(p, n)'
    PROVE  TapesInv'
<1>1. Placed
  BY Command0, StillPlaced DEF catalogue, files, Still
<1> QED BY <1>1, BeginPlaces

-----------------------------------------------------------------------------
(* The commands that begin with their lookups                              *)

LEMMA TheRowIs ==
    ASSUME NEW l, NEW n, Known(l, n)
    PROVE  TheRow(l, n) \in Id /\ rows[TheRow(l, n)].lib = l /\ rows[TheRow(l, n)].name = n
BY DEF Known, TheRow, RowsOf

LEMMA Alone ==
    ASSUME NEW n, Tape(n), NEW i \in Id, rows[i].name = n
    PROVE  Named(n) = {i}
BY DEF Tape, Named

LEMMA OneItem ==
    ASSUME NEW n \in Name, NEW s \in Slot \cup {0}, NEW off \in BOOLEAN
    PROVE  LET items == <<Item(n, s, off)>> IN
           /\ items \in Seq(Items1) /\ items # << >> /\ Len(items) = 1
           /\ items[1].name = n /\ Head(items).name = n
<1>1. Item(n, s, off) \in Items1 /\ Item(n, s, off).name = n
  BY DEF Item, Items1
<1>2. PICK x \in Items1 : x = Item(n, s, off)
  BY <1>1
<1>3. <<x>> \in Seq(Items1) /\ <<x>> # << >> /\ Len(<<x>>) = 1 /\ <<x>>[1] = x /\ Head(<<x>>) = x
  OBVIOUS
<1> QED BY <1>1, <1>2, <1>3

\* Each field of a job by itself.
LEMMA JobLib ==
    ASSUME NEW r, JobRecord(r), NEW x
    PROVE  LET j == [r EXCEPT !.lib = x] IN
           /\ JobRecord(j) /\ j.lib = x /\ j.todo = r.todo /\ j.names = r.names /\ j.id = r.id
           /\ j.path = r.path /\ j.to = r.to /\ j.from = r.from /\ j.data = r.data
BY DEF JobRecord

LEMMA JobTodo ==
    ASSUME NEW r, JobRecord(r), NEW x
    PROVE  LET j == [r EXCEPT !.todo = x] IN
           /\ JobRecord(j) /\ j.lib = r.lib /\ j.todo = x /\ j.names = r.names /\ j.id = r.id
           /\ j.path = r.path /\ j.to = r.to /\ j.from = r.from /\ j.data = r.data
BY DEF JobRecord

LEMMA JobNamed ==
    ASSUME NEW r, JobRecord(r), NEW x
    PROVE  LET j == [r EXCEPT !.names = x] IN
           /\ JobRecord(j) /\ j.lib = r.lib /\ j.todo = r.todo /\ j.names = x /\ j.id = r.id
           /\ j.path = r.path /\ j.to = r.to /\ j.from = r.from /\ j.data = r.data
BY DEF JobRecord

LEMMA JobId ==
    ASSUME NEW r, JobRecord(r), NEW x
    PROVE  LET j == [r EXCEPT !.id = x] IN
           /\ JobRecord(j) /\ j.lib = r.lib /\ j.todo = r.todo /\ j.names = r.names /\ j.id = x
           /\ j.path = r.path /\ j.to = r.to /\ j.from = r.from /\ j.data = r.data
BY DEF JobRecord

WithId(r, x) == [r EXCEPT !.id = x]

LEMMA JobWithId ==
    ASSUME NEW r, JobRecord(r), NEW x
    PROVE  LET j == WithId(r, x) IN
           JobRecord(j) /\ j.lib = r.lib /\ j.todo = r.todo /\ j.names = r.names /\ j.id = x
BY JobId DEF WithId

LEMMA JobAt ==
    ASSUME NEW r, JobRecord(r), NEW x
    PROVE  LET j == [r EXCEPT !.path = x] IN
           /\ JobRecord(j) /\ j.lib = r.lib /\ j.todo = r.todo /\ j.names = r.names /\ j.id = r.id
           /\ j.path = x /\ j.to = r.to /\ j.from = r.from /\ j.data = r.data
BY DEF JobRecord

LEMMA JobTo ==
    ASSUME NEW r, JobRecord(r), NEW x
    PROVE  LET j == [r EXCEPT !.to = x] IN
           /\ JobRecord(j) /\ j.lib = r.lib /\ j.todo = r.todo /\ j.names = r.names /\ j.id = r.id
           /\ j.path = r.path /\ j.to = x /\ j.from = r.from /\ j.data = r.data
BY DEF JobRecord

LEMMA JobOrigin ==
    ASSUME NEW r, JobRecord(r), NEW x
    PROVE  LET j == [r EXCEPT !.from = x] IN
           /\ JobRecord(j) /\ j.lib = r.lib /\ j.todo = r.todo /\ j.names = r.names /\ j.id = r.id
           /\ j.path = r.path /\ j.to = r.to /\ j.from = x /\ j.data = r.data
BY DEF JobRecord

LEMMA JobData ==
    ASSUME NEW r, JobRecord(r), NEW x
    PROVE  LET j == [r EXCEPT !.data = x] IN
           /\ JobRecord(j) /\ j.lib = r.lib /\ j.todo = r.todo /\ j.names = r.names /\ j.id = r.id
           /\ j.path = r.path /\ j.to = r.to /\ j.from = r.from /\ j.data = x
BY DEF JobRecord

\* Several.
WithPath(r, x, y) == [r EXCEPT !.id = x, !.path = y]
WithFrom(r, x, y, z) == [r EXCEPT !.id = x, !.path = y, !.from = z]
WithPlace(r, x, y) == [r EXCEPT !.id = x, !.to = y]
WithNames(r, x, y) == [r EXCEPT !.names = x, !.path = y]
WithAll(r, x, y, z) == [r EXCEPT !.lib = x, !.todo = y, !.names = z]

LEMMA JobPath ==
    ASSUME NEW r, JobRecord(r), NEW x, NEW y
    PROVE  LET j == WithPath(r, x, y) IN
           /\ JobRecord(j) /\ j.lib = r.lib /\ j.todo = r.todo /\ j.names = r.names /\ j.id = x
           /\ j.path = y /\ j.to = r.to /\ j.from = r.from /\ j.data = r.data
<1> DEFINE r1 == [r EXCEPT !.id = x]
<1> DEFINE r2 == [r1 EXCEPT !.path = y]
<1>1. WithPath(r, x, y) = r2
  BY DEF WithPath
<1>2. /\ JobRecord(r1) /\ r1.lib = r.lib /\ r1.todo = r.todo /\ r1.names = r.names /\ r1.id = x
      /\ r1.path = r.path /\ r1.to = r.to /\ r1.from = r.from /\ r1.data = r.data
  BY JobId
<1>3. /\ JobRecord(r2) /\ r2.lib = r.lib /\ r2.todo = r.todo /\ r2.names = r.names /\ r2.id = x
      /\ r2.path = y /\ r2.to = r.to /\ r2.from = r.from /\ r2.data = r.data
  <2> HIDE DEF r1
  <2>1. PICK q : q = r1
    OBVIOUS
  <2>2. JobRecord(q)
    BY <1>2, <2>1
  <2> QED BY <1>2, <2>1, <2>2, JobAt
<1> HIDE DEF r2
<1> QED BY <1>1, <1>3

LEMMA JobFrom ==
    ASSUME NEW r, JobRecord(r), NEW x, NEW y, NEW z
    PROVE  LET j == WithFrom(r, x, y, z) IN
           /\ JobRecord(j) /\ j.lib = r.lib /\ j.todo = r.todo /\ j.names = r.names /\ j.id = x
           /\ j.path = y /\ j.to = r.to /\ j.from = z /\ j.data = r.data
<1> DEFINE r1 == [r EXCEPT !.id = x]
<1> DEFINE r2 == [r1 EXCEPT !.path = y]
<1> DEFINE r3 == [r2 EXCEPT !.from = z]
<1>1. WithFrom(r, x, y, z) = r3
  BY DEF WithFrom
<1>2. /\ JobRecord(r1) /\ r1.lib = r.lib /\ r1.todo = r.todo /\ r1.names = r.names /\ r1.id = x
      /\ r1.path = r.path /\ r1.to = r.to /\ r1.from = r.from /\ r1.data = r.data
  BY JobId
<1>3. /\ JobRecord(r2) /\ r2.lib = r.lib /\ r2.todo = r.todo /\ r2.names = r.names /\ r2.id = x
      /\ r2.path = y /\ r2.to = r.to /\ r2.from = r.from /\ r2.data = r.data
  <2> HIDE DEF r1
  <2>1. PICK q : q = r1
    OBVIOUS
  <2>2. JobRecord(q)
    BY <1>2, <2>1
  <2> QED BY <1>2, <2>1, <2>2, JobAt
<1>4. /\ JobRecord(r3) /\ r3.lib = r.lib /\ r3.todo = r.todo /\ r3.names = r.names /\ r3.id = x
      /\ r3.path = y /\ r3.to = r.to /\ r3.from = z /\ r3.data = r.data
  <2> HIDE DEF r2
  <2>1. PICK q : q = r2
    OBVIOUS
  <2>2. JobRecord(q)
    BY <1>3, <2>1
  <2> QED BY <1>3, <2>1, <2>2, JobOrigin
<1> HIDE DEF r3
<1> QED BY <1>1, <1>4

LEMMA JobPlace ==
    ASSUME NEW r, JobRecord(r), NEW x, NEW y
    PROVE  LET j == WithPlace(r, x, y) IN
           /\ JobRecord(j) /\ j.lib = r.lib /\ j.todo = r.todo /\ j.names = r.names /\ j.id = x
           /\ j.path = r.path /\ j.to = y /\ j.from = r.from /\ j.data = r.data
<1> DEFINE r1 == [r EXCEPT !.id = x]
<1> DEFINE r2 == [r1 EXCEPT !.to = y]
<1>1. WithPlace(r, x, y) = r2
  BY DEF WithPlace
<1>2. /\ JobRecord(r1) /\ r1.lib = r.lib /\ r1.todo = r.todo /\ r1.names = r.names /\ r1.id = x
      /\ r1.path = r.path /\ r1.to = r.to /\ r1.from = r.from /\ r1.data = r.data
  BY JobId
<1>3. /\ JobRecord(r2) /\ r2.lib = r.lib /\ r2.todo = r.todo /\ r2.names = r.names /\ r2.id = x
      /\ r2.path = r.path /\ r2.to = y /\ r2.from = r.from /\ r2.data = r.data
  <2> HIDE DEF r1
  <2>1. PICK q : q = r1
    OBVIOUS
  <2>2. JobRecord(q)
    BY <1>2, <2>1
  <2> QED BY <1>2, <2>1, <2>2, JobTo
<1> HIDE DEF r2
<1> QED BY <1>1, <1>3

LEMMA JobNames ==
    ASSUME NEW r, JobRecord(r), NEW x, NEW y
    PROVE  LET j == WithNames(r, x, y) IN
           /\ JobRecord(j) /\ j.lib = r.lib /\ j.todo = r.todo /\ j.names = x /\ j.id = r.id
           /\ j.path = y /\ j.to = r.to /\ j.from = r.from /\ j.data = r.data
<1> DEFINE r1 == [r EXCEPT !.names = x]
<1> DEFINE r2 == [r1 EXCEPT !.path = y]
<1>1. WithNames(r, x, y) = r2
  BY DEF WithNames
<1>2. /\ JobRecord(r1) /\ r1.lib = r.lib /\ r1.todo = r.todo /\ r1.names = x /\ r1.id = r.id
      /\ r1.path = r.path /\ r1.to = r.to /\ r1.from = r.from /\ r1.data = r.data
  BY JobNamed
<1>3. /\ JobRecord(r2) /\ r2.lib = r.lib /\ r2.todo = r.todo /\ r2.names = x /\ r2.id = r.id
      /\ r2.path = y /\ r2.to = r.to /\ r2.from = r.from /\ r2.data = r.data
  <2> HIDE DEF r1
  <2>1. PICK q : q = r1
    OBVIOUS
  <2>2. JobRecord(q)
    BY <1>2, <2>1
  <2> QED BY <1>2, <2>1, <2>2, JobAt
<1> HIDE DEF r2
<1> QED BY <1>1, <1>3

LEMMA JobNew ==
    ASSUME NEW r, JobRecord(r), NEW x, NEW y, NEW z
    PROVE  LET j == WithAll(r, x, y, z) IN
           /\ JobRecord(j) /\ j.lib = x /\ j.todo = y /\ j.names = z /\ j.id = r.id
           /\ j.path = r.path /\ j.to = r.to /\ j.from = r.from /\ j.data = r.data
<1> DEFINE r1 == [r EXCEPT !.lib = x]
<1> DEFINE r2 == [r1 EXCEPT !.todo = y]
<1> DEFINE r3 == [r2 EXCEPT !.names = z]
<1>1. WithAll(r, x, y, z) = r3
  BY DEF WithAll
<1>2. /\ JobRecord(r1) /\ r1.lib = x /\ r1.todo = r.todo /\ r1.names = r.names /\ r1.id = r.id
      /\ r1.path = r.path /\ r1.to = r.to /\ r1.from = r.from /\ r1.data = r.data
  BY JobLib
<1>3. /\ JobRecord(r2) /\ r2.lib = x /\ r2.todo = y /\ r2.names = r.names /\ r2.id = r.id
      /\ r2.path = r.path /\ r2.to = r.to /\ r2.from = r.from /\ r2.data = r.data
  <2> HIDE DEF r1
  <2>1. PICK q : q = r1
    OBVIOUS
  <2>2. JobRecord(q)
    BY <1>2, <2>1
  <2> QED BY <1>2, <2>1, <2>2, JobTodo
<1>4. /\ JobRecord(r3) /\ r3.lib = x /\ r3.todo = y /\ r3.names = z /\ r3.id = r.id
      /\ r3.path = r.path /\ r3.to = r.to /\ r3.from = r.from /\ r3.data = r.data
  <2> HIDE DEF r2
  <2>1. PICK q : q = r2
    OBVIOUS
  <2>2. JobRecord(q)
    BY <1>3, <2>1
  <2> QED BY <1>3, <2>1, <2>2, JobNamed
<1> HIDE DEF r3
<1> QED BY <1>1, <1>4

LEMMA JobOf ==
    ASSUME NEW l \in Library, NEW items \in Seq(Items1), items # << >>
    PROVE  LET j == Job(l, items) IN
           /\ JobRecord(j) /\ j.lib = l /\ j.todo = items /\ j.id = 0
           /\ j.names = {items[k].name : k \in 1 .. Len(items)} /\ j.names \subseteq FileName
<1> PICK j : j = Job(l, items)
  OBVIOUS
<1>1. JobRecord(j) /\ j.lib = l /\ j.todo = items /\ j.id = 0
      /\ j.names = {items[k].name : k \in DOMAIN items}
  <2>1. JobRecord(NoJob) /\ NoJob.id = 0
    BY DEF NoJob, JobRecord
  <2> PICK ns : ns = {items[k].name : k \in DOMAIN items}
    OBVIOUS
  <2>2. j = [NoJob EXCEPT !.lib = l, !.todo = items, !.names = ns]
    BY DEF Job
  <2>3. j = WithAll(NoJob, l, items, ns)
    BY <2>2 DEF WithAll
  <2> QED BY <2>1, <2>3, JobNew
<1>2. DOMAIN items = 1 .. Len(items) /\ \A k \in 1 .. Len(items) : items[k] \in Items1
  OBVIOUS
<1>3. \A k \in 1 .. Len(items) : items[k].name \in FileName
  <2>1. MaxName \in Nat
    BY TapeFilesAssumption DEF TapeFilesAssumption
  <2>2. Name \subseteq FileName
    BY <2>1 DEF Name, FileName
  <2> QED BY <1>2, <2>2 DEF Items1
<1> QED BY <1>1, <1>2, <1>3

\* A command that has not looked up anything yet, and has no path.
LEMMA BeginPlain ==
    ASSUME TapesInv, NEW p \in Proc, NEW l \in {"check", "move", "assign"}, NEW j,
           NEW k \in Library, NEW items \in Seq(Items1), items # << >>,
           JobRecord(j), j.lib = k, j.todo = items, j.id = 0, j.names = Job(k, items).names,
           l # "check" => k \in Online,
           Begin(p, l, j), UNCHANGED <<catalogue, files>>
    PROVE  TapesInv'
<1>1. j.names = {items[m].name : m \in 1 .. Len(items)} /\ j.names \subseteq FileName
  BY JobOf
<1>2. 0 \in 0 .. lastId
  BY Command0
<1>3. StartsWell(l, j)
  BY <1>1, <1>2 DEF StartsWell, Steps, LookedUp, HasPath
<1>4. pc'[p] = l
  BY <1>1, BeginMoves
<1>5. \A n : Working(p, n)'
  BY <1>4, RestingWorks DEF Resting
<1> QED BY <1>3, <1>5, BeginReads

WithTo(r, x) == [r EXCEPT !.to = x]

LEMMA JobWithTo ==
    ASSUME NEW r, JobRecord(r), NEW x
    PROVE  LET j == WithTo(r, x) IN
           JobRecord(j) /\ j.lib = r.lib /\ j.todo = r.todo /\ j.names = r.names /\ j.id = r.id
BY JobTo DEF WithTo

LEMMA CreateBatch ==
    ASSUME TapesInv, NEW p \in Proc, NEW l \in Library, NEW s,
           NEW items \in Seq(Items1), items # << >>, create_tapes_batch(p, l, s, items)
    PROVE  TapesInv'
<1> PICK r : r = Job(l, items)
  OBVIOUS
<1> PICK x : x = OnShelf(s)
  OBVIOUS
<1> PICK j : j = WithTo(r, x)
  OBVIOUS
<1>1. JobRecord(r) /\ r.lib = l /\ r.todo = items
      /\ r.id = 0
  BY JobOf
<1>2. /\ JobRecord(j) /\ j.lib = l /\ j.todo = items /\ j.id = 0
      /\ j.names = r.names
  BY <1>1, JobWithTo
<1>3. Begin(p, "check", j) /\ UNCHANGED <<catalogue, files>>
  BY DEF create_tapes_batch, WithTo
<1>4. j.names = Job(l, items).names
  BY <1>2
<1> QED BY <1>2, <1>3, <1>4, BeginPlain

LEMMA MoveBatch ==
    ASSUME TapesInv, NEW p \in Proc, NEW l \in Online, NEW s,
           NEW items \in Seq(Items1), items # << >>, move_tapes_to_offline_shelf(p, l, items, s)
    PROVE  TapesInv'
<1> PICK r : r = Job(l, items)
  OBVIOUS
<1> PICK x : x = OnShelf(s)
  OBVIOUS
<1> PICK j : j = WithTo(r, x)
  OBVIOUS
<1>1. JobRecord(r) /\ r.lib = l /\ r.todo = items
      /\ r.id = 0 /\ l \in Library
  BY JobOf DEF Library
<1>2. /\ JobRecord(j) /\ j.lib = l /\ j.todo = items /\ j.id = 0
      /\ j.names = r.names
  BY <1>1, JobWithTo
<1>3. Begin(p, "move", j) /\ UNCHANGED <<catalogue, files>>
  BY DEF move_tapes_to_offline_shelf, WithTo
<1>4. j.names = Job(l, items).names
  BY <1>2
<1> QED BY <1>1, <1>2, <1>3, <1>4, BeginPlain

LEMMA AssignBatch ==
    ASSUME TapesInv, NEW p \in Proc, NEW l \in Online,
           NEW items \in Seq(Items1), items # << >>,
           Begin(p, "assign", Job(l, items)), UNCHANGED <<catalogue, files>>
    PROVE  TapesInv'
<1>1. JobRecord(Job(l, items)) /\ Job(l, items).lib = l /\ Job(l, items).todo = items
      /\ Job(l, items).id = 0 /\ l \in Library
  BY JobOf DEF Library
<1> QED BY <1>1, BeginPlain

\* A command on one tape.
OneOf(n, s) == <<Item(n, s, FALSE)>>
OneTodo(t, n) ==
    /\ t \in Seq(Items1) /\ t # << >> /\ Len(t) = 1
    /\ t[1].name = n /\ Head(t).name = n

LEMMA OneIndex ==
    ASSUME NEW t, Len(t) = 1
    PROVE  \A k \in 1 .. Len(t) : k = 1
OBVIOUS

LEMMA JobOne ==
    ASSUME NEW l \in Library, NEW n \in Name, NEW s \in Slot \cup {0}
    PROVE  LET j == Job(l, OneOf(n, s)) IN
           /\ JobRecord(j) /\ j.lib = l /\ j.id = 0 /\ j.names = {n} /\ OneTodo(j.todo, n)
           /\ n \in FileName
<1> PICK t : t = OneOf(n, s)
  OBVIOUS
<1>1. OneTodo(t, n)
  <2>1. \A off \in BOOLEAN : OneTodo(<<Item(n, s, off)>>, n)
    BY OneItem DEF OneTodo
  <2> QED BY <2>1 DEF OneOf
<1>2. t \in Seq(Items1) /\ t # << >> /\ Len(t) = 1 /\ t[1].name = n
  BY <1>1 DEF OneTodo
<1> PICK j : j = Job(l, t)
  OBVIOUS
<1>3. /\ JobRecord(j) /\ j.lib = l /\ j.todo = t /\ j.id = 0
      /\ j.names = {t[k].name : k \in 1 .. Len(t)} /\ j.names \subseteq FileName
  BY <1>2, JobOf
<1>4. j.names = {n}
  <2>1. \A k \in 1 .. Len(t) : k = 1
    BY <1>2
  <2>2. 1 \in 1 .. Len(t)
    BY <1>2
  <2> QED BY <1>2, <1>3, <2>1, <2>2
<1> QED BY <1>1, <1>3, <1>4

LEMMA StartsOne ==
    ASSUME NEW l \in Steps \ {"idle", "drop"}, NEW j, NEW n,
           JobRecord(j), j.lib \in Library, j.id \in 0 .. lastId, OneTodo(j.todo, n),
           n \in j.names, j.names \subseteq FileName,
           l \in LookedUp /\ j.id \in Id => rows[j.id].name = n,
           l \in HasPath => \E k \in Library : j.path = Image(k, n),
           l = "snapshot" => SnapshotName(n) \in j.names,
           l \in {"move", "move file", "move row", "assign", "import file", "import row",
                  "link", "relink", "orphan", "ioctl"} => j.lib \in Online
    PROVE  StartsWell(l, j)
<1>1. j.todo \in Seq(Items1) /\ j.todo # << >> /\ Len(j.todo) = 1 /\ j.todo[1].name = n
      /\ Head(j.todo).name = n
  BY DEF OneTodo
<1>2. \A k \in 1 .. Len(j.todo) : k = 1
  BY <1>1, OneIndex
<1>3. \A k \in 1 .. Len(j.todo) : j.todo[k].name \in j.names
  BY <1>1, <1>2
<1> QED BY <1>1, <1>3 DEF StartsWell

LEMMA StartsFile ==
    ASSUME NEW l \in {"delete", "init"}, NEW j, NEW n,
           JobRecord(j), j.lib \in Library, j.id \in 0 .. lastId, OneTodo(j.todo, n),
           j.names = {n}, n \in FileName, j.id \in Id => rows[j.id].name = n,
           \E k \in Library : j.path = Image(k, n)
    PROVE  StartsWell(l, j)
<1>1. /\ l \in Steps \ {"idle", "drop"} /\ l # "snapshot"
      /\ l \notin {"move", "move file", "move row", "assign", "import file", "import row",
                   "link", "relink", "orphan", "ioctl"}
  BY DEF Steps, LookedUp, HasPath
<1>2. n \in j.names /\ j.names \subseteq FileName
  OBVIOUS
<1> QED BY <1>1, <1>2, StartsOne

\* What the row of a tape says.
LEMMA RowSays ==
    ASSUME TapesInv, NEW i \in Id
    PROVE  /\ RowRecord(rows[i]) /\ rows[i].lib \in Library /\ rows[i].name \in Name
           /\ rows[i].drive \in BOOLEAN
           /\ (\E l \in Library : rows[i].path = Image(l, rows[i].name))
           /\ i \in Nat \ {0} /\ i \in 0 .. lastId /\ i <= lastId
<1>1. RowTyped(rows[i]) /\ i \in 1 .. lastId /\ lastId \in Nat
  BY DEF TapesInv, TapesTyped, RowsTyped
<1> QED BY <1>1 DEF RowTyped

LEMMA BeginDelete ==
    ASSUME TapesInv, NEW p \in Proc, NEW l \in Library, NEW n \in Name,
           delete_tape_in_library(p, l, n)
    PROVE  TapesInv'
<1> PICK i : i = TheRow(l, n)
  OBVIOUS
<1>1. i \in Id /\ rows[i].lib = l /\ rows[i].name = n
  BY TheRowIs DEF delete_tape_in_library
<1> PICK r : r = Job(l, OneOf(n, 0))
  OBVIOUS
<1>2. /\ JobRecord(r) /\ r.lib = l /\ r.names = {n} /\ OneTodo(r.todo, n) /\ n \in FileName
  BY JobOne
<1> PICK j : j = WithPath(r, i, rows[i].path)
  OBVIOUS
<1>3. /\ JobRecord(j) /\ j.lib = l /\ j.names = {n} /\ OneTodo(j.todo, n) /\ j.id = i
      /\ j.path = rows[i].path
  BY <1>2, JobPath
<1>4. Begin(p, "delete", j) /\ UNCHANGED <<catalogue, files>>
  BY DEF delete_tape_in_library, WithPath, OneOf
<1>5. i \in 0 .. lastId /\ \E k \in Library : rows[i].path = Image(k, n)
  BY <1>1, RowSays
<1>6. StartsWell("delete", j)
  <2>1. j.id \in 0 .. lastId /\ (j.id \in Id => rows[j.id].name = n)
    BY <1>1, <1>3, <1>5
  <2>2. \E k \in Library : j.path = Image(k, n)
    BY <1>3, <1>5
  <2>3. j.lib \in Library
    BY <1>3
  <2> QED BY <1>2, <1>3, <2>1, <2>2, <2>3, StartsFile
<1>7. pc'[p] = "delete" /\ job'[p] = j
  BY <1>2, <1>3, <1>4, BeginMoves
<1>8. Named(n)' = Named(n)
  BY <1>4 DEF Named, Id, catalogue
<1>9. Tape(n) => Working(p, n)'
  <2>1. Tape(n) => Named(n) = {i}
    BY <1>1, Alone
  <2> QED BY <1>3, <1>7, <1>8, <2>1 DEF Working, Passing
<1>10. \A m \in j.names : m = n
  BY <1>3
<1> QED BY <1>4, <1>6, <1>9, <1>10, BeginReads

LEMMA BeginInit ==
    ASSUME TapesInv, NEW p \in Proc, NEW l \in Library, NEW n \in Name,
           init_tape_in_library(p, l, n)
    PROVE  TapesInv'
<1> PICK i : i = TheRow(l, n)
  OBVIOUS
<1>1. i \in Id /\ rows[i].lib = l /\ rows[i].name = n
  BY TheRowIs DEF init_tape_in_library
<1> PICK r : r = Job(l, OneOf(n, 0))
  OBVIOUS
<1>2. /\ JobRecord(r) /\ r.lib = l /\ r.names = {n} /\ OneTodo(r.todo, n) /\ n \in FileName
  BY JobOne
<1> PICK j : j = WithPath(r, i, rows[i].path)
  OBVIOUS
<1>3. /\ JobRecord(j) /\ j.lib = l /\ j.names = {n} /\ OneTodo(j.todo, n) /\ j.id = i
      /\ j.path = rows[i].path
  BY <1>2, JobPath
<1>4. Begin(p, "init", j) /\ UNCHANGED <<catalogue, files>>
  BY DEF init_tape_in_library, WithPath, OneOf
<1>5. i \in 0 .. lastId /\ \E k \in Library : rows[i].path = Image(k, n)
  BY <1>1, RowSays
<1>6. StartsWell("init", j)
  <2>1. j.id \in 0 .. lastId /\ (j.id \in Id => rows[j.id].name = n)
    BY <1>1, <1>3, <1>5
  <2>2. \E k \in Library : j.path = Image(k, n)
    BY <1>3, <1>5
  <2>3. j.lib \in Library
    BY <1>3
  <2> QED BY <1>2, <1>3, <2>1, <2>2, <2>3, StartsFile
<1>7. pc'[p] = "init" /\ job'[p] = j
  BY <1>2, <1>3, <1>4, BeginMoves
<1>8. Named(n)' = Named(n) /\ rows' = rows
  BY <1>4 DEF Named, Id, catalogue
<1>9. Tape(n) => Working(p, n)'
  <2>1. Tape(n) => Named(n) = {i}
    BY <1>1, Alone
  <2>2. rows'[job'[p].id].path = job'[p].path
    BY <1>3, <1>7, <1>8
  <2> QED BY <1>3, <1>7, <1>8, <2>1, <2>2 DEF Working, Passing
<1>10. \A m \in j.names : m = n
  BY <1>3
<1> QED BY <1>4, <1>6, <1>9, <1>10, BeginReads

LEMMA BeginPlace ==
    ASSUME TapesInv, NEW p \in Proc, NEW l \in Library, NEW n \in Name, NEW s,
           shelf_place_tape(p, l, n, s)
    PROVE  TapesInv'
<1> PICK i : i = TheRow(l, n)
  OBVIOUS
<1>1. i \in Id /\ rows[i].lib = l /\ rows[i].name = n
  BY TheRowIs DEF shelf_place_tape
<1> PICK r : r = Job(l, OneOf(n, 0))
  OBVIOUS
<1>2. /\ JobRecord(r) /\ r.lib = l /\ r.names = {n} /\ OneTodo(r.todo, n) /\ n \in FileName
  BY JobOne
<1> PICK j : j = WithPlace(r, i, OnShelf(s))
  OBVIOUS
<1>3. /\ JobRecord(j) /\ j.lib = l /\ j.names = {n} /\ OneTodo(j.todo, n) /\ j.id = i
  BY <1>2, JobPlace
<1>4. Begin(p, "place", j) /\ UNCHANGED <<catalogue, files>>
  BY DEF shelf_place_tape, WithPlace, OneOf
<1>5. i \in 0 .. lastId
  BY <1>1, RowSays
<1>6. StartsWell("place", j)
  BY <1>1, <1>2, <1>3, <1>5, StartsOne DEF Steps, LookedUp, HasPath
<1>7. pc'[p] = "place"
  BY <1>2, <1>3, <1>4, BeginMoves
<1>8. \A m : Working(p, m)'
  BY <1>7, RestingWorks DEF Resting
<1> QED BY <1>4, <1>6, <1>8, BeginReads

LEMMA BeginSnapshot ==
    ASSUME TapesInv, NEW p \in Proc, NEW l \in Library, NEW n \in Name,
           snapshot_tape(p, l, n)
    PROVE  TapesInv'
<1> PICK i : i = TheRow(l, n)
  OBVIOUS
<1>1. i \in Id /\ rows[i].lib = l /\ rows[i].name = n
  BY TheRowIs DEF snapshot_tape
<1> PICK r : r = Job(l, OneOf(n, 0))
  OBVIOUS
<1>2. /\ JobRecord(r) /\ r.lib = l /\ r.id = 0 /\ OneTodo(r.todo, n) /\ n \in FileName
  BY JobOne
<1> PICK j : j = WithNames(r, {n, SnapshotName(n)}, rows[i].path)
  OBVIOUS
<1>3. /\ JobRecord(j) /\ j.lib = l /\ j.names = {n, SnapshotName(n)} /\ OneTodo(j.todo, n)
      /\ j.id = 0 /\ j.path = rows[i].path
  BY <1>2, JobNames
<1>4. Begin(p, "snapshot", j) /\ UNCHANGED <<catalogue, files>>
  BY DEF snapshot_tape, WithNames, OneOf
<1>5. 0 \in 0 .. lastId /\ \E k \in Library : rows[i].path = Image(k, n)
  BY <1>1, RowSays, Command0
<1>6. j.names \subseteq FileName
  <2>1. MaxName \in Nat
    BY TapeFilesAssumption DEF TapeFilesAssumption
  <2>2. n + 1 \in 1 .. MaxName + 1
    BY <2>1 DEF Name
  <2> QED BY <1>2, <1>3, <2>2 DEF SnapshotName, FileName
<1>7. StartsWell("snapshot", j)
  BY <1>1, <1>2, <1>3, <1>5, <1>6, StartsOne DEF Steps, LookedUp, HasPath
<1>8. pc'[p] = "snapshot"
  BY <1>4, <1>6, BeginMoves
<1>9. \A m : Working(p, m)'
  BY <1>8, RestingWorks DEF Resting
<1> QED BY <1>4, <1>7, <1>9, BeginReads

LEMMA BeginImport ==
    ASSUME TapesInv, NEW p \in Proc, NEW l \in Online, NEW n \in Name, NEW s \in Slot,
           import_tape(p, l, n, s)
    PROVE  TapesInv'
<1> PICK i : i = IF Known(l, n) THEN TheRow(l, n) ELSE 0
  OBVIOUS
<1>1. i # 0 => i \in Id /\ rows[i].lib = l /\ rows[i].name = n
  BY TheRowIs
<1>2. i = 0 => Named(n) = {}
  <2>1. 0 \notin Id
    BY RowSays
  <2> QED BY <2>1, TheRowIs DEF import_tape, Named
<1> PICK r : r = Job(l, OneOf(n, s))
  OBVIOUS
<1>3. /\ JobRecord(r) /\ r.lib = l /\ r.names = {n} /\ OneTodo(r.todo, n) /\ n \in FileName
      /\ l \in Library
  BY JobOne DEF Library
<1> PICK j : j = WithId(r, i)
  OBVIOUS
<1>4. /\ JobRecord(j) /\ j.lib = l /\ j.names = {n} /\ OneTodo(j.todo, n) /\ j.id = i
  BY <1>3, JobId DEF WithId
<1>5. Begin(p, "copy", j) /\ UNCHANGED <<catalogue, files>>
  BY DEF import_tape, OneOf, WithId
<1>6. i \in 0 .. lastId /\ 0 \notin Id
  <2>1. i # 0 => i \in 0 .. lastId
    BY <1>1, RowSays
  <2>2. 0 \in 0 .. lastId
    BY Command0
  <2> QED BY <2>1, <2>2, RowSays
<1>7. StartsWell("copy", j)
  BY ZenonT(60), <1>1, <1>3, <1>4, <1>6, StartsOne DEF Steps, LookedUp, HasPath
<1>8. pc'[p] = "copy" /\ job'[p] = j
  <2>1. j.names \subseteq FileName
    BY <1>3, <1>4
  <2> QED BY <1>5, <2>1, BeginMoves
<1>9. Named(n)' = Named(n) /\ rows' = rows /\ Id' = Id
  BY <1>5 DEF Named, Id, catalogue
<1>10. Tape(n) => Working(p, n)'
  <2>1. Tape(n) => Named(n) \subseteq {i}
    BY <1>1, <1>2, Alone
  <2>2. i \in Id => rows[i].lib = l
    BY <1>1, <1>6
  <2> QED BY <1>4, <1>8, <1>9, <2>1, <2>2 DEF Working, Passing
<1>11. \A m \in j.names : m = n
  BY <1>4
<1> QED BY <1>5, <1>7, <1>10, <1>11, BeginReads

LEMMA BeginDrop ==
    ASSUME TapesInv, NEW p \in Proc, NEW l \in Library, NEW s, delete_shelf_in_library(p, l, s)
    PROVE  TapesInv'
<1> DEFINE i == [NoJob EXCEPT !.lib = l]
           j == [i EXCEPT !.to = OnShelf(s)]
<1>1. JobRecord(j) /\ j.lib = l /\ j.names = {} /\ j.id = 0
  <2>1. JobRecord(NoJob) /\ NoJob.names = {} /\ NoJob.id = 0
    BY DEF NoJob, JobRecord
  <2>2. JobRecord(i) /\ i.lib = l /\ i.names = {} /\ i.id = 0
    BY <2>1, JobLib
  <2> HIDE DEF i
  <2> QED BY <2>2, JobTo
<1>2. Begin(p, "drop", j) /\ UNCHANGED <<catalogue, files>>
  BY DEF delete_shelf_in_library
<1> HIDE DEF j
<1>3. 0 \in 0 .. lastId
  BY Command0
<1>4. StartsWell("drop", j)
  BY <1>1, <1>3 DEF StartsWell, Steps, LookedUp, HasPath
<1> QED BY <1>1, <1>2, <1>4, BeginReads

-----------------------------------------------------------------------------
(* Transactions that move tapes                                            *)

LEMMA RowAt ==
    ASSUME NEW r, RowRecord(r), NEW x
    PROVE  LET s == [r EXCEPT !.at = x] IN
           /\ RowRecord(s) /\ s.lib = r.lib /\ s.name = r.name /\ s.drive = r.drive
           /\ s.path = r.path /\ s.data = r.data
BY DEF RowRecord

WithDrive(r, x) == [r EXCEPT !.drive = x]

LEMMA RowDrive ==
    ASSUME NEW r, RowRecord(r), NEW x \in BOOLEAN
    PROVE  LET s == WithDrive(r, x) IN
           /\ RowRecord(s) /\ s.lib = r.lib /\ s.name = r.name /\ s.drive = x
           /\ s.path = r.path /\ s.data = r.data
BY DEF RowRecord, WithDrive

Spotted(r, x, y) == WithDrive([r EXCEPT !.at = x], y)

LEMMA RowPlace ==
    ASSUME NEW r, RowRecord(r), NEW x, NEW y \in BOOLEAN
    PROVE  LET s == Spotted(r, x, y) IN
           /\ RowRecord(s) /\ s.lib = r.lib /\ s.name = r.name /\ s.drive \in BOOLEAN
           /\ s.path = r.path /\ s.data = r.data
<1> PICK s : s = [r EXCEPT !.at = x]
  OBVIOUS
<1>1. /\ RowRecord(s) /\ s.lib = r.lib /\ s.name = r.name /\ s.drive = r.drive
      /\ s.path = r.path /\ s.data = r.data
  BY RowAt
<1> QED BY <1>1, RowDrive DEF Spotted

\* The foreign key of the slots.
LEMMA SlotsStay ==
    ASSUME lastId' \in Nat, Id' \subseteq 1 .. lastId',
           slots' = [s \in Online \X Slot |-> slots'[s]],
           \A s \in Online \X Slot : slots'[s] \in Id' \cup {0}
    PROVE  /\ slots' \in [Online \X Slot -> 0 .. lastId']
           /\ \A s \in Online \X Slot : slots'[s] # 0 => slots'[s] \in Id'
<1>1. \A s \in Online \X Slot : slots'[s] \in 0 .. lastId'
  <2> SUFFICES ASSUME NEW s \in Online \X Slot PROVE slots'[s] \in 0 .. lastId'
    OBVIOUS
  <2> PICK x : x = slots'[s]
    OBVIOUS
  <2>1. x \in 1 .. lastId' \/ x = 0
    OBVIOUS
  <2> QED BY <2>1
<1> QED BY <1>1

LEMMA PlacedRows ==
    ASSUME TapesInv, UNCHANGED <<lastId, shelves, files>>, rows' = [k \in Id |-> rows'[k]],
           \A k \in Id : /\ RowRecord(rows'[k]) /\ rows'[k].drive \in BOOLEAN
                         /\ rows'[k].lib = rows[k].lib /\ rows'[k].name = rows[k].name
                         /\ rows'[k].path = rows[k].path /\ rows'[k].data = rows[k].data,
           slots' = [s \in Online \X Slot |-> slots'[s]],
           \A s \in Online \X Slot : slots'[s] \in Id \cup {0}
    PROVE  Placed
<1>1. Id' = Id
  BY DEF Id
<1>2. lastId' \in Nat /\ Id' \subseteq 1 .. lastId' /\ shelves' \subseteq Library \X UserShelf
  BY <1>1 DEF TapesInv, TapesTyped, RowsTyped
<1>3. /\ slots' \in [Online \X Slot -> 0 .. lastId']
      /\ \A s \in Online \X Slot : slots'[s] # 0 => slots'[s] \in Id'
  BY <1>1, <1>2, SlotsStay
<1>4. ASSUME NEW k \in Id PROVE RowTyped(rows'[k])
  BY RowSays DEF RowTyped
<1>5. RowsTyped'
  <2>1. \A k \in Id' : RowTyped(rows'[k])
    BY <1>1, <1>4
  <2>2. \A k \in Id' : RowTyped(rows[k])'
    BY <2>1 DEF RowTyped, RowRecord
  <2>3. rows' = [k \in Id' |-> rows'[k]]
    BY <1>1
  <2> QED BY <1>2, <1>3, <2>2, <2>3 DEF RowsTyped
<1> QED BY <1>1, <1>5 DEF Placed, ScanKept, files

\* What is in the slots, and what is there when one is set.
LEMMA SlotsSay ==
    ASSUME TapesInv
    PROVE  /\ slots = [s \in Online \X Slot |-> slots[s]] /\ DOMAIN slots = Online \X Slot
           /\ \A s \in Online \X Slot : slots[s] \in Id \cup {0}
           /\ rows = [i \in Id |-> rows[i]]
<1>1. RowsTyped
  BY DEF TapesInv, TapesTyped
<1>2. slots \in [Online \X Slot -> 0 .. lastId]
  BY <1>1 DEF RowsTyped
<1> QED BY <1>1, <1>2 DEF RowsTyped

LEMMA SlotSet ==
    ASSUME TapesInv, NEW s, NEW x, slots' = [slots EXCEPT ![s] = x]
    PROVE  /\ slots' = [t \in Online \X Slot |-> slots'[t]]
           /\ \A t \in Online \X Slot : slots'[t] \in {slots[t], x}
           /\ (x \in Id \cup {0} => \A t \in Online \X Slot : slots'[t] \in Id \cup {0})
<1>1. slots' = [t \in Online \X Slot |-> IF t = s THEN x ELSE slots[t]]
  BY SlotsSay
<1> QED BY <1>1, SlotsSay

LEMMA LoadBegins ==
    ASSUME TapesInv, NEW p \in Proc, NEW l \in Online, NEW s \in Slot, LoadRow(p, l, s)
    PROVE  TapesInv'
<1> PICK i : i = slots[<<l, s>>]
  OBVIOUS
<1>1. i \in Id /\ rows[i].name \in Name
  BY SlotsSay, RowSays DEF LoadRow
<1> PICK n \in Name : n = rows[i].name
  BY <1>1
<1> PICK r : r = Job(l, OneOf(n, s))
  OBVIOUS
<1>2. /\ JobRecord(r) /\ r.lib = l /\ r.names = {n} /\ OneTodo(r.todo, n) /\ n \in FileName
      /\ l \in Library
  BY JobOne DEF Library
<1> PICK j : j = WithId(r, i)
  OBVIOUS
<1>3. /\ JobRecord(j) /\ j.lib = l /\ j.names = {n} /\ OneTodo(j.todo, n) /\ j.id = i
  BY <1>2, JobId DEF WithId
<1>4. Begin(p, "link", j)
  BY SMTT(40) DEF LoadRow, OneOf, WithId
<1>5. StartsWell("link", j)
  <2>1. i \in 0 .. lastId
    BY <1>1, RowSays
  <2> QED BY <1>1, <1>2, <1>3, <2>1, StartsOne DEF Steps, LookedUp, HasPath
<1>6. Placed
  <2>1. /\ slots' = [slots EXCEPT ![<<l, s>>] = 0] /\ UNCHANGED <<lastId, shelves, files>>
        /\ rows' = [k \in Id |-> IF k = i THEN Spotted(rows[i], Nowhere, TRUE)
                                          ELSE rows[k]]
    BY <1>1, SlotsSay DEF LoadRow, Spotted, WithDrive, files
  <2>2. PICK y \in BOOLEAN : y = TRUE
    OBVIOUS
  <2>3. PICK row : row = Spotted(rows[i], Nowhere, y)
    OBVIOUS
  <2>4. rows' = [k \in Id |-> IF k = i THEN row ELSE rows[k]]
    BY <2>1, <2>2, <2>3
  <2>5. /\ RowRecord(row) /\ row.lib = rows[i].lib /\ row.name = rows[i].name
        /\ row.drive \in BOOLEAN /\ row.path = rows[i].path /\ row.data = rows[i].data
    <3>1. RowRecord(rows[i])
      BY <1>1, RowSays
    <3> QED BY <2>3, <3>1, RowPlace
  <2>6. \A k \in Id : /\ RowRecord(rows'[k]) /\ rows'[k].drive \in BOOLEAN
                      /\ rows'[k].lib = rows[k].lib /\ rows'[k].name = rows[k].name
                      /\ rows'[k].path = rows[k].path /\ rows'[k].data = rows[k].data
    BY <2>4, <2>5, RowSays
  <2>7. slots' = [t \in Online \X Slot |-> slots'[t]]
        /\ \A t \in Online \X Slot : slots'[t] \in Id \cup {0}
    BY <2>1, SlotSet
  <2> QED BY <2>1, <2>4, <2>6, <2>7, PlacedRows
<1>7. pc'[p] = "link"
  <2>1. j.names \subseteq FileName
    BY <1>2, <1>3
  <2> QED BY <1>4, <2>1, BeginMoves
<1>8. \A m : Working(p, m)'
  BY <1>7, RestingWorks DEF Resting
<1> QED BY <1>4, <1>5, <1>6, <1>8, BeginPlaces

LEMMA UnloadBegins ==
    ASSUME TapesInv, NEW p \in Proc, NEW i \in Id, NEW s \in Slot, UnloadRow(p, i, s)
    PROVE  TapesInv'
<1> PICK l \in Online : l = rows[i].lib
  BY DEF UnloadRow
<1>1. i \in Id /\ rows[i].name \in Name
  BY RowSays
<1> PICK n \in Name : n = rows[i].name
  BY <1>1
<1> PICK r : r = Job(l, OneOf(n, s))
  OBVIOUS
<1>2. /\ JobRecord(r) /\ r.lib = l /\ r.names = {n} /\ OneTodo(r.todo, n) /\ n \in FileName
      /\ l \in Library
  BY JobOne DEF Library
<1> PICK j : j = WithId(r, i)
  OBVIOUS
<1>3. /\ JobRecord(j) /\ j.lib = l /\ j.names = {n} /\ OneTodo(j.todo, n) /\ j.id = i
  BY <1>2, JobId DEF WithId
<1>4. Begin(p, "link", j)
  BY DEF UnloadRow, OneOf, WithId
<1>5. StartsWell("link", j)
  <2>1. i \in 0 .. lastId
    BY <1>1, RowSays
  <2> QED BY <1>1, <1>2, <1>3, <2>1, StartsOne DEF Steps, LookedUp, HasPath
<1>6. Placed
  <2>1. /\ slots' = [slots EXCEPT ![<<l, s>>] = i] /\ UNCHANGED <<lastId, shelves, files>>
        /\ rows' = [k \in Id |-> IF k = i THEN Spotted(rows[i], InSlot(s), FALSE)
                                          ELSE rows[k]]
    BY <1>1, SlotsSay DEF UnloadRow, Spotted, WithDrive, files
  <2>2. PICK y \in BOOLEAN : y = FALSE
    OBVIOUS
  <2>3. PICK row : row = Spotted(rows[i], InSlot(s), y)
    OBVIOUS
  <2>4. rows' = [k \in Id |-> IF k = i THEN row ELSE rows[k]]
    BY <2>1, <2>2, <2>3
  <2>5. /\ RowRecord(row) /\ row.lib = rows[i].lib /\ row.name = rows[i].name
        /\ row.drive \in BOOLEAN /\ row.path = rows[i].path /\ row.data = rows[i].data
    <3>1. RowRecord(rows[i])
      BY <1>1, RowSays
    <3> QED BY <2>3, <3>1, RowPlace
  <2>6. \A k \in Id : /\ RowRecord(rows'[k]) /\ rows'[k].drive \in BOOLEAN
                      /\ rows'[k].lib = rows[k].lib /\ rows'[k].name = rows[k].name
                      /\ rows'[k].path = rows[k].path /\ rows'[k].data = rows[k].data
    BY <2>4, <2>5, RowSays
  <2>7. slots' = [t \in Online \X Slot |-> slots'[t]]
        /\ \A t \in Online \X Slot : slots'[t] \in Id \cup {0}
    BY <1>1, <2>1, SlotSet
  <2> QED BY <2>1, <2>4, <2>6, <2>7, PlacedRows
<1>7. pc'[p] = "link"
  <2>1. j.names \subseteq FileName
    BY <1>2, <1>3
  <2> QED BY <1>4, <2>1, BeginMoves
<1>8. \A m : Working(p, m)'
  BY <1>7, RestingWorks DEF Resting
<1> QED BY <1>4, <1>5, <1>6, <1>8, BeginPlaces

\* A transaction of a process that has nothing in progress.
LEMMA IdlePlaced ==
    ASSUME TapesInv, NEW p \in Proc, pc[p] = "idle", UNCHANGED <<pc, job, disturbed>>, Placed
    PROVE  TapesInv'
<1>1. IdsGrow /\ RowsTyped' /\ lastId' \in Nat /\ JobsTyped /\ JobTyped(p)
      /\ disturbed \subseteq FileName
  BY PlacedSame, Command0
<1>2. JobTyped(p)'
  BY <1>1, OthersTyped DEF TapesInv
<1>3. Moves(p)
  BY <1>1 DEF Moves, Others, JobsTyped
<1>4. job[p].names = {} /\ job'[p].names = {}
  BY <1>1 DEF JobTyped
<1> QED BY <1>1, <1>2, <1>3, <1>4, QuietTapes

LEMMA ShelfMade ==
    ASSUME TapesInv, NEW p \in Proc, pc[p] = "idle", NEW l \in Library, NEW s \in UserShelf,
           create_shelf(l, s)
    PROVE  TapesInv'
<1>1. Still /\ shelves' \subseteq Library \X UserShelf
  BY Command0 DEF create_shelf, files, Still
<1>2. Placed
  BY <1>1, Command0, StillPlaced
<1> QED BY <1>2, IdlePlaced DEF create_shelf

LEMMA Migrates ==
    ASSUME TapesInv, NEW p \in Proc, NEW l, NEW from, NEW to, NEW ns,
           migrate_tapes_between_shelves(p, l, from, to, ns)
    PROVE  TapesInv'
<1> DEFINE ids == {i \in Id : rows[i].lib = l /\ rows[i].name \in ns}
<1>1. /\ rows' = [i \in Id |-> IF i \in ids THEN [rows[i] EXCEPT !.at = OnShelf(to)]
                                           ELSE rows[i]]
      /\ UNCHANGED <<lastId, shelves, slots, files, pc, job, disturbed>> /\ pc[p] = "idle"
  BY DEF migrate_tapes_between_shelves
<1> HIDE DEF ids
<1>2. ASSUME NEW k \in Id
      PROVE  /\ RowRecord(rows'[k]) /\ rows'[k].drive \in BOOLEAN
             /\ rows'[k].lib = rows[k].lib /\ rows'[k].name = rows[k].name
             /\ rows'[k].path = rows[k].path /\ rows'[k].data = rows[k].data
  <2> PICK row : row = [rows[k] EXCEPT !.at = OnShelf(to)]
    OBVIOUS
  <2>1. rows'[k] \in {row, rows[k]}
    BY <1>1
  <2>2. /\ RowRecord(row) /\ row.lib = rows[k].lib /\ row.name = rows[k].name
        /\ row.drive = rows[k].drive /\ row.path = rows[k].path /\ row.data = rows[k].data
    BY RowSays, RowAt
  <2> QED BY <2>1, <2>2, RowSays
<1>3. slots' = [t \in Online \X Slot |-> slots'[t]]
      /\ \A t \in Online \X Slot : slots'[t] \in Id \cup {0}
  BY <1>1, SlotsSay
<1>4. rows' = [k \in Id |-> rows'[k]]
  BY <1>1
<1>5. Placed
  BY <1>1, <1>2, <1>3, <1>4, PlacedRows
<1> QED BY <1>1, <1>5, IdlePlaced

\* One row whose tape gets another place.
LEMMA OnePlaced ==
    ASSUME TapesInv, NEW i \in Id, NEW x, rows' = [rows EXCEPT ![i].at = x],
           UNCHANGED <<lastId, shelves, files>>,
           slots' = [s \in Online \X Slot |-> slots'[s]],
           \A s \in Online \X Slot : slots'[s] \in Id \cup {0}
    PROVE  Placed
<1> PICK row : row = [rows[i] EXCEPT !.at = x]
  OBVIOUS
<1>1. rows' = [k \in Id |-> IF k = i THEN row ELSE rows[k]]
  BY SlotsSay
<1>2. /\ RowRecord(row) /\ row.lib = rows[i].lib /\ row.name = rows[i].name
      /\ row.drive = rows[i].drive /\ row.path = rows[i].path /\ row.data = rows[i].data
  BY RowSays, RowAt
<1>3. \A k \in Id : /\ RowRecord(rows'[k]) /\ rows'[k].drive \in BOOLEAN
                    /\ rows'[k].lib = rows[k].lib /\ rows'[k].name = rows[k].name
                    /\ rows'[k].path = rows[k].path /\ rows'[k].data = rows[k].data
  BY <1>1, <1>2, RowSays
<1> QED BY <1>1, <1>3, PlacedRows

LEMMA Places ==
    ASSUME TapesInv, NEW p \in Proc, PlaceRow(p)
    PROVE  TapesInv'
<1> PICK i : i = job[p].id
  OBVIOUS
<1>1. /\ End(p) /\ UNCHANGED <<lastId, shelves, files, disturbed>> /\ pc[p] = "place"
  BY DEF PlaceRow
<1>2. disturbed \subseteq FileName
  BY Command0
<1>3. CASE i \in Id /\ ShelfKnown(job[p].lib, job[p].to[2])
  <2>1. /\ rows' = [rows EXCEPT ![i].at = job[p].to]
        /\ slots' = [s \in DOMAIN slots |->
               IF s[1] = job[p].lib /\ rows[i].at = InSlot(s[2])
               THEN 0 ELSE SlotsWithout(job[p].lib, i)[s]]
    BY <1>3 DEF PlaceRow
  <2>2. \A s \in Online \X Slot : slots'[s] \in {0, slots[s]}
    BY <2>1, SlotsSay DEF SlotsWithout
  <2>3. slots' = [s \in Online \X Slot |-> slots'[s]]
        /\ \A s \in Online \X Slot : slots'[s] \in Id \cup {0}
    BY <2>1, <2>2, SlotsSay
  <2>4. Placed
    BY <1>1, <1>3, <2>1, <2>3, OnePlaced
  <2> QED BY <1>1, <1>2, <2>4, EndsQuietly
<1>4. CASE ~(i \in Id /\ ShelfKnown(job[p].lib, job[p].to[2]))
  <2>1. UNCHANGED <<rows, slots>>
    BY <1>4 DEF PlaceRow
  <2> QED BY <1>1, <2>1, EndsStill DEF catalogue
<1> QED BY <1>3, <1>4

LEMMA Assigns ==
    ASSUME TapesInv, NEW p \in Proc, AssignRow(p)
    PROVE  TapesInv'
<1> DEFINE l == job[p].lib
           n == Cur(p).name
           s == Cur(p).slot
<1> PICK i : i = TheRow(l, n)
  OBVIOUS
<1>1. UNCHANGED <<lastId, shelves, files, disturbed>> /\ pc[p] = "assign"
  BY DEF AssignRow
<1>2. CASE Ready(l, Cur(p))
  <2>1. /\ rows' = [rows EXCEPT ![i].at = InSlot(s)]
        /\ slots' = [slots EXCEPT ![<<l, s>>] = i]
        /\ Goto(p, "link") /\ job' = [job EXCEPT ![p].id = i] /\ ~Cur(p).off
    BY <1>2 DEF AssignRow
  <2>2. Known(l, n)
    BY <1>2, <2>1 DEF Ready, OnAnyShelf, Known
  <2>3. i \in Id /\ rows[i].name = n
    BY <2>2, TheRowIs
  <2>4. slots' = [t \in Online \X Slot |-> slots'[t]]
        /\ \A t \in Online \X Slot : slots'[t] \in Id \cup {0}
    BY <2>1, <2>3, SlotSet
  <2>5. Placed
    BY <1>1, <2>1, <2>3, <2>4, OnePlaced
  <2>6. /\ IdsGrow /\ lastId' \in Nat /\ RowsTyped'
    BY <2>5, Command0, PlacedSame
  <2> PICK j : j = WithId(job[p], i)
    OBVIOUS
  <2>7. job' = [job EXCEPT ![p] = j]
    BY <2>1 DEF WithId
  <2>8. Moves(p) /\ pc'[p] = "link" /\ job'[p] = j
    <3>1. JobsTyped /\ Goto(p, "link")
      BY <2>1, Command0
    <3> QED BY <2>7, <3>1, JobMoves
  <2>9. JobRecord(j) /\ j.lib = l /\ j.todo = job[p].todo /\ j.id = i /\ j.names = job[p].names
    <3>1. JobRecord(job[p])
      BY ZenonT(60), Command0
    <3> QED BY <3>1, JobWithId
  <2>10. Cur(p)' = Cur(p) /\ Todo(p)'
    BY <1>1, <2>8, <2>9, Command0 DEF Cur, Todo
  <2>11. i \in 0 .. lastId' /\ i \in Id' /\ rows'[i].name = n
    BY <2>3, <2>5, RowSays DEF Placed
  <2>12. l \in Online /\ l \in Library /\ job[p].names \subseteq FileName
    BY <1>1, Command0 DEF JobTyped
  <2>13. JobTyped(p)'
    <3>1. JobRecord(job[p])'
      BY <2>8, <2>9 DEF JobRecord
    <3> HIDE DEF l, n
    <3> QED BY <2>8, <2>9, <2>10, <2>11, <2>12, <3>1
            DEF JobTyped, Steps, LookedUp, HasPath, n
  <2>14. job'[p].names \subseteq job[p].names /\ disturbed \subseteq FileName
    BY <2>8, <2>9, Command0
  <2> QED BY <1>1, <2>5, <2>8, <2>13, <2>14, QuietRests DEF Resting
<1>3. CASE ~Ready(l, Cur(p))
  <2>1. End(p) /\ UNCHANGED <<rows, slots>>
    BY <1>3 DEF AssignRow
  <2> QED BY <1>1, <2>1, EndsStill DEF catalogue
<1> QED BY <1>2, <1>3

-----------------------------------------------------------------------------
(* Steps that only look                                                    *)

LEMMA NotLess ==
    ASSUME NEW a \in Nat
    PROVE  a >= a
OBVIOUS

LEMMA StillIs ==
    ASSUME TapesInv, UNCHANGED <<catalogue, files>>
    PROVE  Placed /\ IdsGrow /\ lastId' \in Nat /\ Id' = Id /\ \A n : Named(n)' = Named(n)
<1>1. RowsTyped /\ FilesTyped /\ shelves \subseteq Library \X UserShelf
  BY DEF TapesInv, TapesTyped, RowsTyped
<1>2. Placed
  BY <1>1, StillPlaced DEF catalogue, files, Still
<1> QED BY <1>1, <1>2, PlacedSame DEF Placed

LEMMA Drops ==
    ASSUME TapesInv, NEW p \in Proc, DropShelf(p)
    PROVE  TapesInv'
<1>1. /\ End(p) /\ Still /\ disturbed' = disturbed /\ pc[p] = "drop"
      /\ shelves' \subseteq shelves
  BY DEF DropShelf, Still, files
<1>2. Placed /\ disturbed \subseteq FileName
  BY <1>1, Command0, StillPlaced
<1> QED BY <1>1, <1>2, EndsQuietly

\* The next item of a batch, when the one before left things as they are.
LEMMA NextIsQuiet ==
    ASSUME TapesInv, NEW p \in Proc, NEW l \in {"check", "move", "assign"}, NextItem(p, l),
           pc[p] \notin {"idle", "drop", "move row", "import row"},
           l \in {"move", "assign"} => job[p].lib \in Online,
           UNCHANGED <<catalogue, files, disturbed>>
    PROVE  TapesInv'
<1>1. Placed /\ lastId' = lastId /\ lastId \in Nat /\ disturbed \subseteq FileName
  BY StillIs, Command0 DEF Placed
<1>2. lastId' \in Nat /\ lastId' >= lastId /\ JobsTyped
  <2>1. lastId >= lastId
    BY <1>1, NotLess
  <2> QED BY <1>1, <2>1, Command0
<1>3. Moves(p) /\ JobTyped(p)' /\ pc'[p] \in {"idle", l} /\ job'[p].names \subseteq job[p].names
  BY <1>1, <1>2, NextMoves
<1>4. pc'[p] \in Resting
  BY <1>3 DEF Resting
<1> QED BY <1>1, <1>3, <1>4, QuietRests

LEMMA AtTheRobot ==
    ASSUME TapesInv, NEW p \in Proc, pc[p] \in {"link", "relink", "orphan", "ioctl"}, NextItem(p, "assign"),
           UNCHANGED <<catalogue, files, disturbed>>
    PROVE  TapesInv'
<1>1. job[p].lib \in Online
  BY Command0 DEF JobTyped
<1> QED BY <1>1, NextIsQuiet

LEMMA Creates ==
    ASSUME TapesInv, NEW p \in Proc, create_tape(p)
    PROVE  TapesInv'
<1>1. pc[p] = "check" /\ UNCHANGED <<catalogue, files, disturbed>>
  BY DEF create_tape
<1>2. CASE End(p)
  BY <1>1, <1>2, EndsStill
<1>3. CASE Goto(p, "create") /\ UNCHANGED job /\ \A i \in Id : rows[i].name # Cur(p).name
  <2>1. Placed /\ IdsGrow /\ lastId' \in Nat /\ \A n : Named(n)' = Named(n)
    BY <1>1, StillIs
  <2>2. Moves(p) /\ JobTyped(p)' /\ job'[p] = job[p] /\ pc'[p] = "create" /\ Cur(p)' = Cur(p)
    BY <1>1, <1>3, <2>1, GoesOn DEF Steps, LookedUp, HasPath
  <2>3. ASSUME NEW n, Cur(p)'.name = n PROVE Working(p, n)'
    <3>1. Named(n)' = {}
      BY <1>3, <2>1, <2>2, <2>3 DEF Named
    <3> QED BY <2>2, <3>1 DEF Working, Passing
  <2>4. disturbed \subseteq FileName /\ ~\E n : Moving(p, n)
    BY <1>1, Command0 DEF Moving
  <2> QED BY <1>1, <2>1, <2>2, <2>3, <2>4, QuietTapes
<1> QED BY <1>2, <1>3 DEF create_tape

\* A tape that one command is on, not between its file and its row.
LEMMA OwnTape ==
    ASSUME TapesInv, NEW p \in Proc, pc[p] \notin {"idle", "drop", "move row", "import row"},
           Cur(p).name \notin disturbed
    PROVE  LET n == Cur(p).name IN
           /\ n \in FileName \ disturbed /\ Tape(n) /\ Working(p, n)
           /\ (\A i \in Named(n) : Kept(i)) /\ n \in job[p].names
<1> DEFINE n == Cur(p).name
<1>1. n \in FileName \ disturbed /\ n \in job[p].names
  BY Command0
<1>2. Tape(n)
  BY <1>1 DEF TapesInv
<1>3. ~Moving(p, n)
  BY DEF Moving
<1>4. \A i \in Named(n) : Kept(i)
  BY <1>1, <1>3, OnlyMover
<1>5. Working(p, n)
  BY <1>2 DEF Tape
<1> QED BY <1>1, <1>2, <1>4, <1>5

\* A command takes note of a tape.
LEMMA TakesNote ==
    ASSUME TapesInv, NEW p \in Proc, pc[p] \in {"move", "assign"},
           NEW l \in {"move file", "import file"}, NEW j, NEW k \in Library, NEW i \in Id,
           rows[i].lib = k, rows[i].name = Cur(p).name, j.id = i, j.path = rows[i].path,
           Goto(p, l), job' = [job EXCEPT ![p] = j], JobRecord(j), j.lib = job[p].lib,
           j.todo = job[p].todo, j.names = job[p].names, UNCHANGED <<catalogue, files, disturbed>>,
           l = "move file" => k = job[p].lib, l = "import file" => k = Offline
    PROVE  TapesInv'
<1> PICK n : n = Cur(p).name
  OBVIOUS
<1>1. i \in Id /\ rows[i].lib = k /\ rows[i].name = n
  OBVIOUS
<1>2. /\ Placed /\ IdsGrow /\ lastId' = lastId /\ Id' = Id /\ \A m : Named(m)' = Named(m)
      /\ rows' = rows /\ file' = file /\ data' = data
  <2>1. UNCHANGED <<catalogue, files>>
    OBVIOUS
  <2>2. rows' = rows /\ lastId' = lastId /\ file' = file /\ data' = data
    BY DEF catalogue, files
  <2> QED BY <2>1, <2>2, StillIs
<1>3. Moves(p) /\ pc'[p] = l /\ job'[p] = j
  <2>1. JobsTyped
    BY Command0
  <2> QED BY ZenonT(60), <2>1, JobMoves
<1>4. Cur(p)' = Cur(p) /\ Todo(p)'
  BY <1>3, Command0 DEF Cur, Todo
<1>5. JobTyped(p)'
  <2>1. JobRecord(job[p])' /\ i \in 0 .. lastId'
    BY <1>1, <1>2, <1>3, RowSays DEF JobRecord
  <2>2. job[p].lib \in Library /\ job[p].names \subseteq FileName /\ job[p].lib \in Online
    BY Command0 DEF JobTyped
  <2>3. \E m \in Library : j.path = Image(m, n)
    BY <1>1, RowSays
  <2>4. i \in Id' => rows'[i].name = Cur(p)'.name
    BY <1>1, <1>2, <1>4
  <2>5. \E m \in Library : job'[p].path = Image(m, Cur(p)'.name)
    BY <1>3, <1>4, <2>3
  <2>6. JobRecord(job'[p])
    BY <1>3
  <2> QED BY <1>3, <1>4, <2>1, <2>2, <2>4, <2>5, <2>6
          DEF JobTyped, Steps, LookedUp, HasPath, JobRecord
<1>6. ASSUME n \notin disturbed PROVE Working(p, n)'
  <2>1. Tape(n) /\ \A m \in Named(n) : Kept(m)
    BY <1>6, OwnTape
  <2>2. Named(n) = {i} /\ Kept(i)
    BY <1>1, <2>1, Alone
  <2>3. /\ rows[i].path = Image(k, n) /\ Holds(Image(k, n), rows[i].data)
    BY <1>1, <2>2 DEF Kept
  <2>4. Holds(Image(k, n), rows[i].data)'
    BY <1>2, <2>3 DEF Holds
  <2>5. Between(p, n, k, k)'
    <3>1. rows'[i].lib = k /\ rows'[i].path = Image(k, n) /\ job'[p].path = Image(k, n)
          /\ Named(n)' = {i} /\ job'[p].id = i
      BY <1>1, <1>2, <1>3, <2>2, <2>3
    <3> QED BY <2>4, <3>1 DEF Between, Image, Holds
  <2>6. (l = "move file" => k = job'[p].lib) /\ (l = "import file" => k = Offline)
    BY <1>3
  <2> QED BY <1>3, <2>5, <2>6 DEF Working, Passing, Between, Image, Holds
<1>7. disturbed \subseteq FileName /\ \A m : ~Moving(p, m)
  BY Command0 DEF Moving
<1> QED BY <1>2, <1>3, <1>4, <1>5, <1>6, <1>7, QuietTapes

LEMMA MoveChecks ==
    ASSUME TapesInv, NEW p \in Proc, MoveCheck(p)
    PROVE  TapesInv'
<1> DEFINE l == job[p].lib
           i == TheRow(job[p].lib, Cur(p).name)
<1>1. pc[p] = "move" /\ UNCHANGED <<catalogue, files, disturbed>>
  BY DEF MoveCheck
<1>2. CASE End(p)
  BY <1>1, <1>2, EndsStill
<1>3. CASE ~End(p)
  <2>1. /\ Known(l, Cur(p).name) /\ Goto(p, "move file")
        /\ job' = [job EXCEPT ![p].id = i, ![p].path = rows[i].path, ![p].from = rows[i].at]
    BY <1>3 DEF MoveCheck
  <2>2. i \in Id /\ rows[i].lib = l /\ rows[i].name = Cur(p).name
    <3> PICK m : m = l
      OBVIOUS
    <3> PICK n : n = Cur(p).name
      OBVIOUS
    <3>1. Known(m, n) /\ i = TheRow(m, n)
      BY <2>1
    <3>2. TheRow(m, n) \in Id /\ rows[TheRow(m, n)].lib = m /\ rows[TheRow(m, n)].name = n
      BY <3>1, TheRowIs
    <3> QED BY <3>1, <3>2
  <2> HIDE DEF i
  <2> PICK j : j = WithFrom(job[p], i, rows[i].path, rows[i].at)
    OBVIOUS
  <2>3. job' = [job EXCEPT ![p] = j]
    BY <2>1 DEF WithFrom
  <2>4. /\ JobRecord(j) /\ j.lib = l /\ j.todo = job[p].todo /\ j.names = job[p].names
        /\ j.id = i /\ j.path = rows[i].path
    BY Command0, JobFrom
  <2>5. l \in Library
    BY Command0 DEF JobTyped
  <2> QED BY <1>1, <2>1, <2>2, <2>3, <2>4, <2>5, TakesNote
<1> QED BY <1>2, <1>3

LEMMA ImportChecks ==
    ASSUME TapesInv, NEW p \in Proc, ImportCheck(p)
    PROVE  TapesInv'
<1> DEFINE i == TheRow(Offline, Cur(p).name)
<1>1. pc[p] = "assign" /\ UNCHANGED <<catalogue, files, disturbed>>
  BY DEF ImportCheck
<1>2. CASE End(p)
  BY <1>1, <1>2, EndsStill
<1>3. CASE ~End(p)
  <2>1. /\ Ready(job[p].lib, Cur(p)) /\ Cur(p).off /\ Goto(p, "import file")
        /\ job' = [job EXCEPT ![p].id = i, ![p].path = rows[i].path]
    BY <1>3 DEF ImportCheck
  <2>2. Known(Offline, Cur(p).name)
    BY <2>1 DEF Ready, OnAnyShelf, Known
  <2>3. i \in Id /\ rows[i].lib = Offline /\ rows[i].name = Cur(p).name
    BY <2>2, TheRowIs
  <2> HIDE DEF i
  <2> PICK j : j = WithPath(job[p], i, rows[i].path)
    OBVIOUS
  <2>4. job' = [job EXCEPT ![p] = j]
    BY <2>1 DEF WithPath
  <2>5. /\ JobRecord(j) /\ j.lib = job[p].lib /\ j.todo = job[p].todo /\ j.names = job[p].names
        /\ j.id = i /\ j.path = rows[i].path
    BY Command0, JobPath
  <2>6. Offline \in Library
    BY DEF Library
  <2> QED BY <1>1, <2>1, <2>3, <2>4, <2>5, <2>6, TakesNote
<1> QED BY <1>2, <1>3

-----------------------------------------------------------------------------
(* Steps that change rows and files, of the tape the command is on         *)

SameFiles(n) ==
    /\ ScanKept
    /\ \A d \in Dir : /\ file'[<<d, n>>] = file[<<d, n>>]
                      /\ file[<<d, n>>] # 0 => data'[file[<<d, n>>]] = data[file[<<d, n>>]]

SameRows(n) ==
    /\ Named(n)' = Named(n)
    /\ \A i \in Named(n) : /\ rows'[i].lib = rows[i].lib /\ rows'[i].path = rows[i].path
                           /\ rows'[i].data = rows[i].data /\ rows'[i].name = n

LEMMA SameAll ==
    ASSUME TapesInv, NEW n \in FileName, SameFiles(n), SameRows(n)
    PROVE  Same(n)
<1>1. \A d \in Dir : /\ file'[<<d, n>>] = file[<<d, n>>]
                     /\ file[<<d, n>>] # 0 => data'[file[<<d, n>>]] = data[file[<<d, n>>]]
  BY DEF SameFiles
<1>2. Library \subseteq Dir /\ Scanned \subseteq Dir /\ Root \in Dir
  BY DEF Library, Dir, Scanned
<1>3. ASSUME NEW p \in Proc, NEW i \in Named(n), pc'[p] = pc[p], pc[p] \in Passing, Reached(p, i)
      PROVE  Reached(p, i)'
  <2>1. i \in Id /\ rows[i].name = n /\ rows'[i].name = n /\ rows'[i].path = rows[i].path
    BY DEF Named, SameRows
  <2>2. PICK l \in Library : rows[i].path = <<l, n>>
    BY <2>1, RowSays DEF Image
  <2>3. file'[rows'[i].path] = file[rows[i].path]
    BY <1>1, <1>2, <2>1, <2>2
  <2>4. \A d \in Scanned \cup {Root} : file'[<<d, n>>] = file[<<d, n>>]
    BY <1>1, <1>2
  <2>5. scan'[p] = scan[p]
    BY <1>3 DEF SameFiles, ScanKept
  <2>6. \A d \in Scanned : d = scan[p].want[n] => file'[<<scan[p].want[n], n>>] = file[<<scan[p].want[n], n>>]
    BY <2>4
  <2> QED BY <1>3, <2>1, <2>3, <2>4, <2>5, <2>6 DEF Reached
<1> QED BY <1>1, <1>2, <1>3 DEF Same, SameRows

LEMMA RowsStay ==
    ASSUME UNCHANGED rows, NEW n
    PROVE  SameRows(n)
BY DEF SameRows, Named, Id

LEMMA FilesStay ==
    ASSUME UNCHANGED files, NEW n
    PROVE  SameFiles(n)
BY DEF SameFiles, ScanKept, files

\* One row changes, or comes, or goes, that of tape n.
LEMMA RowsOfOthers ==
    ASSUME NEW i, NEW n,
           \A k \in Id \ {i} : k \in Id' /\ rows'[k] = rows[k],
           \A k \in Id' \ {i} : k \in Id,
           i \in Id => rows[i].name = n, i \in Id' => rows'[i].name = n,
           NEW m, m # n
    PROVE  SameRows(m)
<1>1. \A k : k \in Named(m) <=> k \in Id /\ rows[k].name = m
  BY DEF Named
<1>2. \A k : k \in Named(m)' <=> k \in Id' /\ rows'[k].name = m
  BY DEF Named
<1>3. \A k : k \in Named(m) => k # i /\ k \in Id' /\ rows'[k] = rows[k]
  BY <1>1
<1>4. \A k : k \in Named(m)' => k # i /\ k \in Id /\ rows'[k] = rows[k]
  BY <1>2
<1>5. Named(m)' = Named(m)
  BY <1>1, <1>2, <1>3, <1>4
<1> QED BY <1>1, <1>3, <1>5 DEF SameRows

\* A step of a command leaves a tape among its names as it is.
LEMMA OwnSame ==
    ASSUME TapesInv, NEW p \in Proc, NEW n \in FileName \ disturbed, Same(n), ~Moving(p, n),
           n \in job[p].names,
           pc'[p] \notin {"idle", "drop"} /\ Cur(p)'.name = n => Working(p, n)'
    PROVE  Own(p, n)
<1>1. RowsTyped /\ Tape(n)
  BY Command0 DEF TapesInv
<1>2. \A i \in Named(n) : Kept(i)
  BY OnlyMover
<1>3. Named(n)' = Named(n)
  BY DEF Same
<1>4. \A i \in Named(n)' : Kept(i)'
  BY <1>1, <1>2, <1>3, SameKept
<1> QED BY <1>1, <1>3, <1>4 DEF Own, Tape

LEMMA StepOn ==
    ASSUME TapesInv, NEW p \in Proc, Moves(p), IdsGrow, RowsTyped', FilesTyped', JobTyped(p)',
           pc[p] \notin {"idle", "drop"}, job'[p].names \subseteq job[p].names,
           UNCHANGED disturbed,
           pc'[p] \in Resting \/ Cur(p)' = Cur(p),
           \A n \in FileName \ {Cur(p).name} : Same(n),
           Cur(p).name \notin disturbed => Own(p, Cur(p).name)
    PROVE  TapesInv'
<1>1. disturbed \subseteq FileName
  BY Command0
<1>2. ASSUME NEW n \in FileName \ disturbed',
             n \in job[p].names \/ n \in job'[p].names
      PROVE  Own(p, n)
  <2>1. n \in job[p].names /\ n \in FileName \ disturbed
    BY <1>2
  <2>2. CASE n = Cur(p).name
    BY <2>1, <2>2
  <2>3. CASE n # Cur(p).name
    <3>1. Same(n) /\ ~Moving(p, n)
      BY <2>1, <2>3 DEF Moving
    <3>2. pc'[p] \notin {"idle", "drop"} /\ Cur(p)'.name = n => Working(p, n)'
      BY <2>3, RestingWorks
    <3> QED BY <2>1, <3>1, <3>2, OwnSame
  <2> QED BY <2>2, <2>3
<1>3. ASSUME NEW n \in FileName \ disturbed',
             ~(n \in job[p].names \/ n \in job'[p].names)
      PROVE  Same(n)
  <2>1. Cur(p).name \in job[p].names
    BY Command0
  <2> QED BY <1>3, <2>1
<1>4. \A n \in job'[p].names \ disturbed' :
          n \in job[p].names \/ \A q \in Proc \ {p} : n \notin job[q].names
  OBVIOUS
<1> QED BY <1>1, <1>2, <1>3, <1>4, StepTapes DEF Moves

\* What is in the files.
LEMMA FilesSay ==
    ASSUME TapesInv
    PROVE  /\ file = [f \in Dir \X FileName |-> file[f]] /\ Len(data) \in Nat
           /\ (\E S : data \in Seq(S))
           /\ \A f \in Dir \X FileName : file[f] \in 0 .. Len(data)
           /\ \A d, e \in Dir, m, n \in FileName :
                  file[<<d, m>>] = file[<<e, n>>] /\ file[<<d, m>>] # 0 => m = n
           /\ \A l, k \in Library, n \in FileName :
                  file[<<l, n>>] = file[<<k, n>>] /\ file[<<l, n>>] # 0 => l = k
           /\ Library \subseteq Dir
<1>1. FilesTyped
  BY DEF TapesInv, TapesTyped
<1>2. file \in [Dir \X FileName -> 0 .. Len(data)] /\ \E S : data \in Seq(S)
  BY <1>1 DEF FilesTyped
<1>3. \A f, g \in Dir \X FileName : file[f] = file[g] /\ file[f] # 0 => f[2] = g[2]
  BY <1>1 DEF FilesTyped
<1>4. \A d, e \in Dir, m, n \in FileName :
          file[<<d, m>>] = file[<<e, n>>] /\ file[<<d, m>>] # 0 => m = n
  <2> TAKE d, e \in Dir, m, n \in FileName
  <2>1. <<d, m>> \in Dir \X FileName /\ <<e, n>> \in Dir \X FileName
        /\ <<d, m>>[2] = m /\ <<e, n>>[2] = n
    OBVIOUS
  <2> QED BY <1>3, <2>1
<1>5. Len(data) \in Nat
  BY <1>2
<1> QED BY <1>1, <1>2, <1>4, <1>5 DEF FilesTyped, Dir

\* What has to be shown of the files after a step.
LEMMA FilesNext ==
    ASSUME \E S : data' \in Seq(S), file' = [f \in Dir \X FileName |-> file'[f]],
           \A f \in Dir \X FileName : file'[f] \in 0 .. Len(data'),
           \A d, e \in Dir, m, n \in FileName :
               file'[<<d, m>>] = file'[<<e, n>>] /\ file'[<<d, m>>] # 0 => m = n,
           \A l, k \in Library, n \in FileName :
               file'[<<l, n>>] = file'[<<k, n>>] /\ file'[<<l, n>>] # 0 => l = k
    PROVE  FilesTyped'
<1>1. file' \in [Dir \X FileName -> 0 .. Len(data')]
  OBVIOUS
<1>2. \A f, g \in Dir \X FileName : file'[f] = file'[g] /\ file'[f] # 0 => f[2] = g[2]
  <2> TAKE f, g \in Dir \X FileName
  <2>1. PICK d \in Dir, m \in FileName : f = <<d, m>>
    OBVIOUS
  <2>2. PICK e \in Dir, n \in FileName : g = <<e, n>>
    OBVIOUS
  <2> QED BY <2>1, <2>2
<1> QED BY <1>1, <1>2 DEF FilesTyped

LEMMA FilesStill ==
    ASSUME TapesInv, UNCHANGED files
    PROVE  FilesTyped'
<1>1. FilesTyped /\ data' = data /\ file' = file
  BY DEF TapesInv, TapesTyped, files
<1> QED BY <1>1 DEF FilesTyped

LEMMA NewInode ==
    ASSUME NEW a \in Nat
    PROVE  /\ a + 1 \in 0 .. a + 1 /\ a + 1 # 0 /\ (\A x \in 0 .. a : x \in 0 .. a + 1 /\ x # a + 1)
           /\ \A x \in 0 .. a : x # 0 => x \in 1 .. a
OBVIOUS

LEMMA PutFiles ==
    ASSUME TapesInv, NEW l \in Library, NEW n \in FileName, NEW d, Put(Image(l, n), d)
    PROVE  /\ FilesTyped' /\ Holds(Image(l, n), d)'
           /\ \A m \in FileName \ {n} : SameFiles(m)
           /\ \A k \in Library \ {l} :
                  /\ file'[<<k, n>>] = file[<<k, n>>]
                  /\ file[<<k, n>>] # 0 => data'[file[<<k, n>>]] = data[file[<<k, n>>]]
<1> DEFINE f == <<l, n>>
<1> PICK len \in Nat : len = Len(data)
  BY FilesSay
<1>1. f \in Dir \X FileName /\ Image(l, n) = f
  BY FilesSay DEF Image
<1>2. PICK S : data \in Seq(S)
  BY FilesSay
<1>3. \A g \in Dir \X FileName : file[g] \in 0 .. len
  BY FilesSay
<1>4. CASE file[f] = 0
  <2>1. /\ file' = [g \in Dir \X FileName |-> IF g = f THEN len + 1 ELSE file[g]]
        /\ data' = Append(data, d)
    <3>1. /\ file' = [file EXCEPT ![f] = Len(data) + 1] /\ data' = Append(data, d)
      BY <1>1, <1>4 DEF Put
    <3>2. file = [g \in Dir \X FileName |-> file[g]]
      BY FilesSay
    <3> QED BY <3>1, <3>2
  <2>2. /\ data' \in Seq(S \cup {d}) /\ Len(data') = len + 1 /\ data'[len + 1] = d
        /\ \A x \in 1 .. len : data'[x] = data[x]
    <3>1. data \in Seq(S \cup {d}) /\ d \in S \cup {d}
      BY <1>2
    <3> QED BY <2>1, <3>1, AppendProperties
  <2>3. \A g \in Dir \X FileName : file'[g] \in 0 .. Len(data')
    BY <1>3, <2>1, <2>2, NewInode
  <2>4. \A g \in Dir \X FileName : g # f => file'[g] = file[g] /\ file[g] # len + 1
    BY <1>3, <2>1, NewInode
  <2>5. file'[f] = len + 1 /\ len + 1 # 0
    BY <1>1, <2>1, NewInode
  <2>6. \A e, c \in Dir, m, k \in FileName :
            file'[<<e, m>>] = file'[<<c, k>>] /\ file'[<<e, m>>] # 0 => m = k
    <3> TAKE e, c \in Dir, m, k \in FileName
    <3>1. <<e, m>> \in Dir \X FileName /\ <<c, k>> \in Dir \X FileName
      OBVIOUS
    <3>2. CASE <<e, m>> # f /\ <<c, k>> # f
      <4>1. file'[<<e, m>>] = file[<<e, m>>] /\ file'[<<c, k>>] = file[<<c, k>>]
        BY <2>4, <3>1, <3>2
      <4>2. file[<<e, m>>] = file[<<c, k>>] /\ file[<<e, m>>] # 0 => m = k
        BY FilesSay
      <4> QED BY <4>1, <4>2
    <3>3. CASE <<e, m>> = f /\ <<c, k>> = f
      BY <3>3
    <3>4. CASE (<<e, m>> = f) # (<<c, k>> = f)
      BY <2>4, <2>5, <3>1, <3>4
    <3> QED BY <3>2, <3>3, <3>4
  <2>7. \A e, k \in Library, m \in FileName :
            file'[<<e, m>>] = file'[<<k, m>>] /\ file'[<<e, m>>] # 0 => e = k
    <3> TAKE e, k \in Library, m \in FileName
    <3>1. <<e, m>> \in Dir \X FileName /\ <<k, m>> \in Dir \X FileName
      BY FilesSay
    <3>2. file[<<e, m>>] = file[<<k, m>>] /\ file[<<e, m>>] # 0 => e = k
      BY FilesSay
    <3>3. CASE <<e, m>> # f /\ <<k, m>> # f
      BY <2>4, <3>1, <3>2, <3>3
    <3>4. CASE (<<e, m>> = f) # (<<k, m>> = f)
      BY <2>4, <2>5, <3>1, <3>4
    <3> QED BY <3>3, <3>4
  <2>8. FilesTyped'
    BY <2>1, <2>2, <2>3, <2>6, <2>7, FilesNext
  <2>9. \A e \in Dir, m \in FileName : <<e, m>> # f =>
            /\ file'[<<e, m>>] = file[<<e, m>>]
            /\ file[<<e, m>>] # 0 => data'[file[<<e, m>>]] = data[file[<<e, m>>]]
    <3> TAKE e \in Dir, m \in FileName
    <3>1. <<e, m>> \in Dir \X FileName
      OBVIOUS
    <3> QED BY <1>3, <2>2, <2>4, <3>1, NewInode
  <2>10. ScanKept
    BY DEF Put, ScanKept
  <2> QED BY <1>1, <2>2, <2>5, <2>8, <2>9, <2>10, FilesSay DEF SameFiles, Holds, Image
<1>5. CASE file[f] # 0
  <2> PICK x \in 1 .. len : x = file[f]
    BY <1>1, <1>3, <1>5, NewInode
  <2>1. file' = file /\ data' = [data EXCEPT ![x] = d]
    BY <1>1, <1>5 DEF Put
  <2>2. /\ data' \in Seq(S \cup {d}) /\ Len(data') = len /\ data'[x] = d
        /\ \A y \in 1 .. len : y # x => data'[y] = data[y]
    <3>1. data \in Seq(S \cup {d}) /\ d \in S \cup {d}
      BY <1>2
    <3> QED BY <2>1, <3>1, ExceptSeq
  <2>3. FilesTyped'
    BY SMTT(40), <2>1, <2>2, FilesSay, FilesNext
  <2>4. \A e \in Dir, m \in FileName : file[<<e, m>>] # x =>
            /\ file'[<<e, m>>] = file[<<e, m>>]
            /\ file[<<e, m>>] # 0 => data'[file[<<e, m>>]] = data[file[<<e, m>>]]
    <3> TAKE e \in Dir, m \in FileName
    <3>1. <<e, m>> \in Dir \X FileName
      OBVIOUS
    <3> QED BY <1>3, <2>1, <2>2, <3>1, NewInode
  <2>5. \A e \in Dir, m \in FileName \ {n} : file[<<e, m>>] # x
    BY ZenonT(60), <1>5, FilesSay
  <2>6. \A k \in Library \ {l} : file[<<k, n>>] # x
    BY <1>5, FilesSay
  <2>7. ScanKept
    BY DEF Put, ScanKept
  <2> QED BY <1>1, <1>5, <2>1, <2>2, <2>3, <2>4, <2>5, <2>6, <2>7, FilesSay
          DEF SameFiles, Holds, Image
<1> QED BY <1>4, <1>5

LEMMA RenameFiles ==
    ASSUME TapesInv, NEW k \in Library, NEW l \in Library, NEW n \in FileName,
           Rename(Image(k, n), Image(l, n)), UNCHANGED data
    PROVE  /\ FilesTyped' /\ \A m \in FileName \ {n} : SameFiles(m)
           /\ \A d : k # l /\ Holds(Image(k, n), d) => Holds(Image(l, n), d)'
<1> DEFINE f == <<k, n>>
           g == <<l, n>>
<1>1. f \in Dir \X FileName /\ g \in Dir \X FileName /\ Image(k, n) = f /\ Image(l, n) = g
  BY FilesSay DEF Image
<1>2. ScanKept
  BY DEF Rename, ScanKept
<1>3. CASE file[f] = 0
  <2>1. file' = file
    BY <1>1, <1>3 DEF Rename
  <2>2. FilesTyped'
    BY <2>1, FilesSay, FilesNext
  <2> QED BY <1>1, <1>3, <1>2, <2>1, <2>2 DEF SameFiles, Holds
<1>4. CASE file[f] # 0
  <2>1. file' = [h \in Dir \X FileName |-> IF h = f THEN 0 ELSE IF h = g THEN file[f] ELSE file[h]]
    <3>1. file' = [file EXCEPT ![g] = file[f], ![f] = 0]
      BY <1>1, <1>4 DEF Rename
    <3> HIDE DEF f, g
    <3> QED BY <3>1, FilesSay
  <2>2. \A h \in Dir \X FileName : h # f /\ h # g => file'[h] = file[h]
    BY <2>1
  <2>3. file'[f] = 0 /\ (f # g => file'[g] = file[f])
    BY <1>1, <2>1
  <2>4. \A h \in Dir \X FileName : file'[h] \in 0 .. Len(data')
    <3>1. \A h \in Dir \X FileName : file[h] \in 0 .. Len(data)
      BY FilesSay
    <3>2. 0 \in 0 .. Len(data)
      BY FilesSay
    <3> QED BY <1>1, <2>2, <2>3, <3>1, <3>2
  <2>5. \A d, e \in Dir, m, j \in FileName :
            file'[<<d, m>>] = file'[<<e, j>>] /\ file'[<<d, m>>] # 0 => m = j
    <3> TAKE d, e \in Dir, m, j \in FileName
    <3>1. <<d, m>> \in Dir \X FileName /\ <<e, j>> \in Dir \X FileName
      OBVIOUS
    <3>2. file'[<<d, m>>] # 0 => \E c \in Dir : file'[<<d, m>>] = file[<<c, m>>]
      BY <1>1, <2>2, <2>3, <3>1, FilesSay
    <3>3. file'[<<e, j>>] # 0 => \E c \in Dir : file'[<<e, j>>] = file[<<c, j>>]
      BY <1>1, <2>2, <2>3, <3>1, FilesSay
    <3> SUFFICES ASSUME file'[<<d, m>>] = file'[<<e, j>>], file'[<<d, m>>] # 0 PROVE m = j
      OBVIOUS
    <3>4. PICK b \in Dir : file'[<<d, m>>] = file[<<b, m>>]
      BY <3>2
    <3>5. PICK c \in Dir : file'[<<e, j>>] = file[<<c, j>>]
      BY <3>3
    <3>6. file[<<b, m>>] = file[<<c, j>>] /\ file[<<b, m>>] # 0
      BY <3>4, <3>5
    <3>7. file[<<b, m>>] = file[<<c, j>>] /\ file[<<b, m>>] # 0 => m = j
      BY FilesSay
    <3> QED BY <3>6, <3>7
  <2>6. \A d, e \in Library, m \in FileName :
            file'[<<d, m>>] = file'[<<e, m>>] /\ file'[<<d, m>>] # 0 => d = e
    <3> TAKE d, e \in Library, m \in FileName
    <3>1. <<d, m>> \in Dir \X FileName /\ <<e, m>> \in Dir \X FileName
      BY FilesSay
    <3>2. file'[<<d, m>>] = IF <<d, m>> = f THEN 0
                            ELSE IF <<d, m>> = g THEN file[f] ELSE file[<<d, m>>]
      BY <2>1, <3>1
    <3>3. file'[<<e, m>>] = IF <<e, m>> = f THEN 0
                            ELSE IF <<e, m>> = g THEN file[f] ELSE file[<<e, m>>]
      BY <2>1, <3>1
    <3>4. \A c, b \in Library : file[<<c, m>>] = file[<<b, m>>] /\ file[<<c, m>>] # 0 => c = b
      BY FilesSay
    <3> QED BY <3>2, <3>3, <3>4
  <2>7. FilesTyped'
    BY <2>1, <2>4, <2>5, <2>6, FilesSay, FilesNext
  <2>8. ASSUME NEW m \in FileName \ {n}, NEW d \in Dir
        PROVE  file'[<<d, m>>] = file[<<d, m>>]
    <3>1. <<d, m>> \in Dir \X FileName /\ <<d, m>> # f /\ <<d, m>> # g
      OBVIOUS
    <3> QED BY <2>2, <3>1
  <2>9. \A d : k # l /\ Holds(Image(k, n), d) => Holds(Image(l, n), d)'
    BY <1>1, <1>4, <2>3 DEF Holds, Image
  <2> QED BY <1>2, <2>7, <2>8, <2>9 DEF SameFiles
<1> QED BY <1>3, <1>4

LEMMA RemoveFile ==
    ASSUME TapesInv, NEW l \in Library, NEW n \in FileName,
           file' = [file EXCEPT ![Image(l, n)] = 0], UNCHANGED <<data, scan>>
    PROVE  FilesTyped' /\ \A m \in FileName \ {n} : SameFiles(m)
<1> DEFINE f == <<l, n>>
<1>1. f \in Dir \X FileName /\ Image(l, n) = f
  BY FilesSay DEF Image
<1>2. file' = [h \in Dir \X FileName |-> IF h = f THEN 0 ELSE file[h]]
  BY <1>1, FilesSay
<1>3. \A h \in Dir \X FileName : file'[h] \in {0, file[h]} /\ (h # f => file'[h] = file[h])
  BY <1>2
<1>4. \A h \in Dir \X FileName : file'[h] \in 0 .. Len(data')
  <2>1. \A h \in Dir \X FileName : file[h] \in 0 .. Len(data)
    BY FilesSay
  <2>2. 0 \in 0 .. Len(data)
    BY FilesSay
  <2> QED BY <1>3, <2>1, <2>2
<1>5. \A d, e \in Dir, m, j \in FileName :
          file'[<<d, m>>] = file'[<<e, j>>] /\ file'[<<d, m>>] # 0 => m = j
  <2> TAKE d, e \in Dir, m, j \in FileName
  <2>1. <<d, m>> \in Dir \X FileName /\ <<e, j>> \in Dir \X FileName
    OBVIOUS
  <2> QED BY <1>3, <2>1, FilesSay
<1>6. \A d, e \in Library, m \in FileName :
          file'[<<d, m>>] = file'[<<e, m>>] /\ file'[<<d, m>>] # 0 => d = e
  <2> TAKE d, e \in Library, m \in FileName
  <2>1. <<d, m>> \in Dir \X FileName /\ <<e, m>> \in Dir \X FileName
    BY FilesSay
  <2> QED BY <1>3, <2>1, FilesSay
<1>7. FilesTyped'
  BY <1>2, <1>4, <1>5, <1>6, FilesSay, FilesNext
<1>8. ASSUME NEW m \in FileName \ {n}, NEW d \in Dir
      PROVE  file'[<<d, m>>] = file[<<d, m>>]
  <2>1. <<d, m>> \in Dir \X FileName /\ <<d, m>> # f
    OBVIOUS
  <2> QED BY <1>3, <2>1
<1> QED BY <1>7, <1>8 DEF SameFiles, ScanKept

\* The rows do not change.
LEMMA RowsStill ==
    ASSUME TapesInv, UNCHANGED catalogue
    PROVE  /\ RowsTyped' /\ IdsGrow /\ lastId' \in Nat /\ Id' = Id /\ rows' = rows
           /\ lastId' = lastId
           /\ \A n : SameRows(n) /\ Named(n)' = Named(n)
<1>1. RowsTyped
  BY DEF TapesInv, TapesTyped
<1>2. rows' = rows /\ lastId' = lastId /\ slots' = slots /\ shelves' = shelves /\ Id' = Id
  BY DEF catalogue, Id
<1>3. RowsTyped'
  BY <1>1, <1>2 DEF RowsTyped
<1>4. lastId' \in Nat /\ lastId' >= lastId
  <2>1. lastId \in Nat
    BY <1>1 DEF RowsTyped
  <2> QED BY <1>2, <2>1, NotLess
<1>5. IdsGrow
  BY <1>2, <1>4 DEF IdsGrow
<1>6. \A n : SameRows(n)
  BY <1>2, RowsStay
<1> QED BY <1>2, <1>3, <1>4, <1>5, <1>6 DEF SameRows

LEMMA RemovesImage ==
    ASSUME TapesInv, NEW p \in Proc, RemoveImage(p)
    PROVE  TapesInv'
<1> PICK n : n = Cur(p).name
  OBVIOUS
<1>1. /\ pc[p] = "unlink" /\ End(p) /\ UNCHANGED <<catalogue, data, scan, disturbed>>
      /\ file' = [file EXCEPT ![job[p].path] = 0] /\ n \in FileName
  BY Command0 DEF RemoveImage
<1>2. PICK l \in Library : job[p].path = Image(l, n)
  BY <1>1, Command0 DEF JobTyped, HasPath
<1>3. FilesTyped' /\ \A m \in FileName \ {n} : SameFiles(m)
  BY <1>1, <1>2, RemoveFile
<1>4. /\ RowsTyped' /\ IdsGrow /\ lastId' \in Nat /\ (\A m : SameRows(m))
      /\ Named(n)' = Named(n)
  BY <1>1, RowsStill
<1>5. Moves(p) /\ JobTyped(p)' /\ pc'[p] = "idle" /\ job'[p].names = {}
  BY <1>1, <1>4, Command0, EndMoves
<1>6. \A m \in FileName \ {n} : Same(m)
  BY <1>3, <1>4, SameAll
<1>7. ASSUME n \notin disturbed PROVE Own(p, n)
  <2>1. Working(p, n)
    BY <1>1, <1>7, OwnTape
  <2>2. Named(n)' = {}
    BY <1>1, <1>4, <2>1 DEF Working
  <2> QED BY <1>5, <2>2, OwnResting DEF Resting
<1>8. disturbed' = disturbed /\ pc'[p] \in Resting
  BY <1>1, <1>5 DEF Resting
<1> QED BY <1>1, <1>3, <1>4, <1>5, <1>6, <1>7, <1>8, StepOn

LEMMA CreatesFile ==
    ASSUME TapesInv, NEW p \in Proc, CreateFile(p)
    PROVE  TapesInv'
<1> PICK n : n = Cur(p).name
  OBVIOUS
<1> PICK l : l = job[p].lib
  OBVIOUS
<1> PICK d : d = Fresh
  OBVIOUS
<1>1. /\ pc[p] = "create" /\ Goto(p, "insert") /\ UNCHANGED <<catalogue, disturbed>>
      /\ Put(Image(l, n), d) /\ job' = [job EXCEPT ![p].data = d]
  BY DEF CreateFile
<1>2. n \in FileName /\ l \in Library /\ JobTyped(p) /\ Todo(p) /\ JobRecord(job[p]) /\ JobsTyped
  BY <1>1, Command0 DEF JobTyped
<1>3. /\ FilesTyped' /\ Holds(Image(l, n), d)' /\ \A m \in FileName \ {n} : SameFiles(m)
  BY <1>1, <1>2, PutFiles
<1>4. /\ RowsTyped' /\ IdsGrow /\ lastId' = lastId /\ (\A m : SameRows(m))
      /\ Named(n)' = Named(n)
  BY <1>1, RowsStill
<1> PICK j : j = [job[p] EXCEPT !.data = d]
  OBVIOUS
<1>5. /\ JobRecord(j) /\ j.lib = l /\ j.todo = job[p].todo /\ j.names = job[p].names
      /\ j.id = job[p].id /\ j.data = d
  BY <1>2, JobData
<1>6. Moves(p) /\ pc'[p] = "insert" /\ job'[p] = j
  <2>1. job' = [job EXCEPT ![p] = j]
    BY <1>1
  <2> QED BY <1>1, <1>2, <2>1, JobMoves
<1>7. Cur(p)' = Cur(p) /\ Todo(p)'
  BY <1>2, <1>5, <1>6 DEF Cur, Todo
<1>8. JobTyped(p)'
  <2>1. JobRecord(job'[p])
    BY <1>5, <1>6
  <2>2. job[p].names \subseteq FileName /\ job[p].id \in 0 .. lastId
    BY <1>2 DEF JobTyped
  <2> QED BY <1>2, <1>4, <1>5, <1>6, <1>7, <2>1, <2>2
          DEF JobTyped, JobRecord, Steps, LookedUp, HasPath
<1>9. \A m \in FileName \ {n} : Same(m)
  BY <1>3, <1>4, SameAll
<1>10. ASSUME n \notin disturbed PROVE Own(p, n)
  <2>1. Working(p, n)
    BY <1>1, <1>10, OwnTape
  <2>2. Named(n)' = {}
    BY <1>1, <1>4, <2>1 DEF Working
  <2>3. Holds(Image(job[p].lib, n), job[p].data)'
    <3>1. job'[p].lib = l /\ job'[p].data = d
      BY <1>5, <1>6
    <3> QED BY <1>3, <3>1 DEF Holds, Image
  <2>4. Working(p, n)'
    BY <1>6, <2>2, <2>3 DEF Working, Passing
  <2> QED BY <2>2, <2>4 DEF Own
<1>11. disturbed' = disturbed /\ job'[p].names \subseteq job[p].names
  BY <1>1, <1>5, <1>6
<1> QED BY <1>1, <1>3, <1>4, <1>6, <1>7, <1>8, <1>9, <1>10, <1>11, StepOn

\* A new row.
LEMMA RowMade ==
    ASSUME NEW l \in Library, NEW n \in Name, NEW at, NEW d
    PROVE  LET r == Row(l, n, at, d) IN
           /\ RowTyped(r) /\ r.lib = l /\ r.name = n /\ r.path = Image(l, n) /\ r.data = d
<1> PICK r : r = Row(l, n, at, d)
  OBVIOUS
<1>1. /\ RowRecord(r) /\ r.lib = l /\ r.name = n /\ r.path = Image(l, n) /\ r.data = d
      /\ r.drive \in BOOLEAN
  BY DEF Row, RowRecord
<1> QED BY <1>1 DEF RowTyped

LEMMA NextId ==
    ASSUME NEW a \in Nat
    PROVE  /\ a + 1 \in Nat /\ a + 1 >= a /\ a + 1 \notin 1 .. a /\ ~(a + 1 <= a)
           /\ a + 1 # 0 /\ 1 .. a \subseteq 1 .. a + 1 /\ a + 1 \in 1 .. a + 1
OBVIOUS

LEMMA RowAdded ==
    ASSUME TapesInv, NEW l \in Library, NEW n \in Name, NEW at, NEW d, NEW i, i = lastId + 1,
           lastId' = i, UNCHANGED shelves,
           rows' = [k \in Id \cup {i} |-> IF k = i THEN Row(l, n, at, d) ELSE rows[k]],
           slots' = [s \in Online \X Slot |-> slots'[s]],
           \A s \in Online \X Slot : slots'[s] \in Id \cup {0, i}
    PROVE  /\ RowsTyped' /\ IdsGrow /\ \A m : m # n => SameRows(m)
           /\ Named(n)' = Named(n) \cup {i}
           /\ rows'[i].lib = l /\ rows'[i].name = n /\ rows'[i].path = Image(l, n)
           /\ rows'[i].data = d
<1>1. /\ rows = [k \in Id |-> rows[k]] /\ lastId \in Nat /\ Id \subseteq 1 .. lastId
      /\ (\A k \in Id : RowTyped(rows[k])) /\ shelves \subseteq Library \X UserShelf
  BY DEF TapesInv, TapesTyped, RowsTyped
<1>2. i \notin Id /\ i \in Nat /\ i >= lastId /\ ~(i <= lastId) /\ Id \cup {i} \subseteq 1 .. i
  BY <1>1, NextId
<1> PICK r : r = Row(l, n, at, d)
  OBVIOUS
<1>3. RowTyped(r) /\ r.lib = l /\ r.name = n /\ r.path = Image(l, n) /\ r.data = d
  BY RowMade
<1>4. Id' = Id \cup {i}
  BY DEF Id
<1>5. rows'[i] = r /\ \A k \in Id : rows'[k] = rows[k]
  BY <1>2
<1>6. RowsTyped'
  <2>1. \A k \in Id' : RowTyped(rows'[k])
    BY <1>1, <1>3, <1>4, <1>5
  <2>2. \A k \in Id' : RowTyped(rows[k])'
    BY <2>1 DEF RowTyped, RowRecord
  <2>3. rows' = [k \in Id' |-> rows'[k]]
    BY <1>4
  <2>4. /\ slots' \in [Online \X Slot -> 0 .. lastId']
        /\ \A s \in Online \X Slot : slots'[s] # 0 => slots'[s] \in Id'
    <3>1. \A s \in Online \X Slot : slots'[s] \in Id' \cup {0}
      BY <1>4
    <3> QED BY <1>2, <1>4, <3>1, SlotsStay
  <2> QED BY <1>1, <1>2, <1>4, <2>2, <2>3, <2>4 DEF RowsTyped
<1>7. IdsGrow
  BY <1>2, <1>4, <1>5 DEF IdsGrow
<1>8. ASSUME NEW m, m # n PROVE SameRows(m)
  BY <1>2, <1>3, <1>4, <1>5, <1>8, RowsOfOthers
<1>9. Named(n)' = Named(n) \cup {i}
  BY <1>2, <1>3, <1>4, <1>5 DEF Named
<1> QED BY <1>3, <1>5, <1>6, <1>7, <1>8, <1>9

LEMMA InsertsRow ==
    ASSUME TapesInv, NEW p \in Proc, InsertRow(p)
    PROVE  TapesInv'
<1> PICK n : n = Cur(p).name
  OBVIOUS
<1> PICK l : l = job[p].lib
  OBVIOUS
<1>1. pc[p] = "insert" /\ UNCHANGED <<shelves, slots, files, disturbed>>
  BY DEF InsertRow
<1>2. n \in FileName /\ n \in Name /\ l \in Library /\ JobsTyped
  BY <1>1, Command0 DEF JobTyped
<1>3. CASE End(p) /\ UNCHANGED <<rows, lastId>>
  BY <1>1, <1>3, EndsStill DEF catalogue
<1>4. CASE /\ lastId' = lastId + 1
           /\ rows' = [i \in Id \cup {lastId'} |->
                         IF i = lastId' THEN Row(l, n, job[p].to, job[p].data) ELSE rows[i]]
           /\ NextItem(p, "check")
  <2> PICK i : i = lastId + 1
    OBVIOUS
  <2> PICK d : d = job[p].data
    OBVIOUS
  <2>1. /\ slots' = [s \in Online \X Slot |-> slots'[s]]
        /\ \A s \in Online \X Slot : slots'[s] \in Id \cup {0, i}
    BY <1>1, SlotsSay
  <2>2. /\ RowsTyped' /\ IdsGrow /\ (\A m : m # n => SameRows(m))
        /\ Named(n)' = Named(n) \cup {i}
        /\ rows'[i].lib = l /\ rows'[i].name = n /\ rows'[i].path = Image(l, n)
        /\ rows'[i].data = d
    BY <1>1, <1>2, <1>4, <2>1, RowAdded
  <2>3. lastId \in Nat /\ lastId' \in Nat /\ lastId' >= lastId
    <3>1. lastId \in Nat
      BY Command0
    <3> QED BY <1>4, <3>1, NextId
  <2>4. /\ Moves(p) /\ JobTyped(p)' /\ pc'[p] \in {"idle", "check"}
        /\ job'[p].names \subseteq job[p].names
    BY <1>1, <1>2, <1>4, <2>3, NextMoves
  <2>5. pc'[p] \in Resting
    BY <2>4 DEF Resting
  <2>6. \A m \in FileName \ {n} : Same(m)
    BY <1>1, <2>2, FilesStay, SameAll
  <2>7. FilesTyped'
    BY <1>1, FilesStill
  <2>8. ASSUME n \notin disturbed PROVE Own(p, n)
    <3>1. Working(p, n)
      BY <1>1, <2>8, OwnTape
    <3>2. Named(n) = {} /\ Holds(Image(job[p].lib, n), job[p].data)
      BY <1>1, <3>1 DEF Working
    <3>3. Holds(Image(l, n), d)'
      BY <1>1, <3>2 DEF Holds, Image, files
    <3>4. Named(n)' = {i} /\ Kept(i)'
      BY <2>2, <3>2, <3>3 DEF Kept, Holds, Image
    <3>5. \A k \in Named(n)' : Kept(k)'
      BY <3>4
    <3> QED BY <2>5, <3>4, <3>5, OwnResting
  <2> QED BY <1>1, <2>2, <2>4, <2>5, <2>6, <2>7, <2>8, StepOn
<1> QED BY <1>3, <1>4 DEF InsertRow

LEMMA DeletesRow ==
    ASSUME TapesInv, NEW p \in Proc, DeleteRow(p)
    PROVE  TapesInv'
<1> PICK n : n = Cur(p).name
  OBVIOUS
<1> PICK i : i = job[p].id
  OBVIOUS
<1>1. pc[p] = "delete" /\ UNCHANGED <<lastId, shelves, files, disturbed>>
  BY DEF DeleteRow
<1>2. n \in FileName /\ JobsTyped /\ (i \in Id => rows[i].name = n)
  <2>1. pc[p] \in LookedUp /\ job[p].id \in Id => rows[job[p].id].name = Cur(p).name
    BY Command0 DEF JobTyped
  <2> QED BY <1>1, <2>1, Command0 DEF LookedUp
<1>3. CASE End(p) /\ UNCHANGED <<rows, slots>>
  BY <1>1, <1>3, EndsStill DEF catalogue
<1>4. CASE /\ slots' = SlotsWithout(job[p].lib, i) /\ \A s \in DOMAIN slots : slots'[s] # i
           /\ rows' = Without(i)
           /\ Goto(p, "unlink") /\ UNCHANGED job
  <2>1. Id' = Id \ {i} /\ \A k \in Id' : rows'[k] = rows[k]
    BY <1>4 DEF Without, Id
  <2>2. /\ rows = [k \in Id |-> rows[k]] /\ lastId \in Nat /\ Id \subseteq 1 .. lastId
        /\ (\A k \in Id : RowTyped(rows[k])) /\ shelves \subseteq Library \X UserShelf
    BY DEF TapesInv, TapesTyped, RowsTyped
  <2>3. /\ slots' = [s \in Online \X Slot |-> slots'[s]]
        /\ \A s \in Online \X Slot : slots'[s] \in Id' \cup {0}
    <3>1. slots' = [s \in Online \X Slot |->
                        IF s[1] = job[p].lib /\ slots[s] = i THEN 0 ELSE slots[s]]
      BY <1>4, SlotsSay DEF SlotsWithout
    <3>2. \A s \in Online \X Slot : slots'[s] # i /\ slots[s] \in Id \cup {0}
      BY <1>4, SlotsSay
    <3> QED BY <2>1, <3>1, <3>2
  <2>4. RowsTyped'
    <3>1. \A k \in Id' : RowTyped(rows'[k])
      BY <2>1, <2>2
    <3>2. \A k \in Id' : RowTyped(rows[k])'
      BY <3>1 DEF RowTyped, RowRecord
    <3>3. rows' = [k \in Id' |-> rows'[k]]
      BY <1>4, <2>1 DEF Without
    <3>4. /\ slots' \in [Online \X Slot -> 0 .. lastId']
          /\ \A s \in Online \X Slot : slots'[s] # 0 => slots'[s] \in Id'
      BY <1>1, <2>1, <2>2, <2>3, SlotsStay
    <3> QED BY <1>1, <2>1, <2>2, <3>2, <3>3, <3>4 DEF RowsTyped
  <2>5. IdsGrow /\ lastId' \in Nat
    BY <1>1, <2>1, <2>2, NotLess DEF IdsGrow
  <2>6. /\ Moves(p) /\ JobTyped(p)' /\ job'[p] = job[p] /\ pc'[p] = "unlink"
        /\ Cur(p)' = Cur(p)
    BY <1>1, <1>4, <2>5, GoesOn DEF Steps, LookedUp, HasPath
  <2>7. ASSUME NEW m, m # n PROVE SameRows(m)
    BY ZenonT(60), <1>2, <2>1, <2>7, RowsOfOthers
  <2>8. \A m \in FileName \ {n} : Same(m)
    BY <1>1, <2>7, FilesStay, SameAll
  <2>9. FilesTyped'
    BY <1>1, FilesStill
  <2>10. ASSUME n \notin disturbed PROVE Own(p, n)
    <3>1. Working(p, n)
      BY <1>1, <2>10, OwnTape
    <3>2. Named(n) \subseteq {i}
      BY <1>1, <3>1 DEF Working
    <3>3. Named(n)' = {}
      BY <2>1, <3>2 DEF Named
    <3> QED BY <2>6, <3>3 DEF Own, Working, Passing
  <2>11. job'[p].names \subseteq job[p].names /\ disturbed' = disturbed
    BY <1>1, <2>6
  <2> QED BY <1>1, <2>4, <2>5, <2>6, <2>8, <2>9, <2>10, <2>11, StepOn
<1> QED BY <1>3, <1>4 DEF DeleteRow

\* One row is given other contents, but for its name.
LEMMA RowChanged ==
    ASSUME TapesInv, NEW i \in Id, NEW r, RowTyped(r), r.name = rows[i].name,
           rows' = [k \in Id |-> IF k = i THEN r ELSE rows[k]], UNCHANGED <<lastId, shelves>>,
           slots' = [s \in Online \X Slot |-> slots'[s]],
           \A s \in Online \X Slot : slots'[s] \in Id \cup {0}
    PROVE  /\ RowsTyped' /\ IdsGrow /\ (\A m : m # rows[i].name => SameRows(m))
           /\ (\A m : Named(m)' = Named(m)) /\ Id' = Id /\ rows'[i] = r /\ lastId' \in Nat
<1>1. /\ rows = [k \in Id |-> rows[k]] /\ lastId \in Nat /\ Id \subseteq 1 .. lastId
      /\ (\A k \in Id : RowTyped(rows[k])) /\ shelves \subseteq Library \X UserShelf
  BY DEF TapesInv, TapesTyped, RowsTyped
<1>2. Id' = Id
  BY DEF Id
<1>3. rows'[i] = r /\ \A k \in Id \ {i} : rows'[k] = rows[k]
  OBVIOUS
<1>4. RowsTyped'
  <2>1. \A k \in Id' : RowTyped(rows'[k])
    BY <1>1, <1>2, <1>3
  <2>2. \A k \in Id' : RowTyped(rows[k])'
    BY <2>1 DEF RowTyped, RowRecord
  <2>3. rows' = [k \in Id' |-> rows'[k]]
    BY <1>2
  <2>4. /\ slots' \in [Online \X Slot -> 0 .. lastId']
        /\ \A s \in Online \X Slot : slots'[s] # 0 => slots'[s] \in Id'
    <3>1. Id' \subseteq 1 .. lastId' /\ lastId' \in Nat
      BY <1>1, <1>2
    <3>2. \A s \in Online \X Slot : slots'[s] \in Id' \cup {0}
      BY <1>2
    <3> QED BY <3>1, <3>2, SlotsStay
  <2> QED BY <1>1, <1>2, <2>2, <2>3, <2>4 DEF RowsTyped
<1>5. \A k \in Id : rows'[k].name = rows[k].name
  BY <1>3
<1>6. IdsGrow
  <2>1. lastId' >= lastId
    BY <1>1, NotLess
  <2> QED BY <1>2, <1>5, <2>1 DEF IdsGrow
<1>7. \A m : Named(m)' = Named(m)
  BY <1>2, <1>5 DEF Named
<1>8. ASSUME NEW m, m # rows[i].name
      PROVE  SameRows(m)
  <2>1. \A k \in Named(m) : k \in Id \ {i} /\ rows[k].name = m
    BY <1>8 DEF Named
  <2> QED BY <1>3, <1>7, <2>1 DEF SameRows
<1> QED BY <1>1, <1>2, <1>3, <1>4, <1>6, <1>7, <1>8

WithData(r, x) == [r EXCEPT !.data = x]
WithFits(r, x) == [r EXCEPT !.fits = x]

LEMMA RowData ==
    ASSUME NEW r, RowTyped(r), NEW x
    PROVE  LET s == WithData(r, x) IN
           /\ RowTyped(s) /\ s.lib = r.lib /\ s.name = r.name /\ s.path = r.path /\ s.data = x
<1> PICK s : s = WithData(r, x)
  OBVIOUS
<1>1. /\ RowRecord(s) /\ s.lib = r.lib /\ s.name = r.name /\ s.path = r.path /\ s.data = x
      /\ s.drive = r.drive
  BY DEF RowTyped, RowRecord, WithData
<1> QED BY <1>1 DEF RowTyped

LEMMA RowFits ==
    ASSUME NEW r, RowTyped(r), NEW x
    PROVE  LET s == WithFits(r, x) IN
           /\ RowTyped(s) /\ s.lib = r.lib /\ s.name = r.name /\ s.path = r.path
           /\ s.data = r.data
<1> PICK s : s = WithFits(r, x)
  OBVIOUS
<1>1. /\ RowRecord(s) /\ s.lib = r.lib /\ s.name = r.name /\ s.path = r.path /\ s.data = r.data
      /\ s.drive = r.drive
  BY DEF RowTyped, RowRecord, WithFits
<1> QED BY <1>1 DEF RowTyped

Cut(r, y) == [r EXCEPT !.fits = TRUE, !.data = y]

LEMMA RowCut ==
    ASSUME NEW r, RowTyped(r), NEW y
    PROVE  LET s == Cut(r, y) IN
           /\ RowTyped(s) /\ s.lib = r.lib /\ s.name = r.name /\ s.path = r.path /\ s.data = y
<1>1. \A x : LET s == WithData(WithFits(r, x), y) IN
          /\ RowTyped(s) /\ s.lib = r.lib /\ s.name = r.name /\ s.path = r.path /\ s.data = y
  <2> TAKE x
  <2> PICK s : s = WithFits(r, x)
    OBVIOUS
  <2>1. RowTyped(s) /\ s.lib = r.lib /\ s.name = r.name /\ s.path = r.path
    BY RowFits
  <2>2. LET t == WithData(s, y) IN
        /\ RowTyped(t) /\ t.lib = s.lib /\ t.name = s.name /\ t.path = s.path /\ t.data = y
    BY <2>1, RowData
  <2> QED BY <2>1, <2>2
<1>2. Cut(r, y) = WithData(WithFits(r, TRUE), y)
  BY DEF Cut, WithData, WithFits
<1> QED BY <1>1, <1>2

LEMMA RowIs ==
    ASSUME TapesInv, NEW i \in Id
    PROVE  RowTyped(rows[i])
BY DEF TapesInv, TapesTyped, RowsTyped

LEMMA InitsImage ==
    ASSUME TapesInv, NEW p \in Proc, InitImage(p)
    PROVE  TapesInv'
<1> PICK n : n = Cur(p).name
  OBVIOUS
<1> PICK i : i = job[p].id
  OBVIOUS
<1> PICK d : d = Fresh
  OBVIOUS
<1>1. pc[p] = "init" /\ End(p) /\ UNCHANGED <<lastId, shelves, slots, file, scan, disturbed>>
  BY DEF InitImage
<1> DEFINE cut == file[job[p].path] # 0 /\ i \in Id /\ ~rows[i].fits
<1>2. CASE ~cut
  <2>1. UNCHANGED <<rows, data>>
    BY <1>2 DEF InitImage
  <2>2. UNCHANGED <<catalogue, files, disturbed>>
    BY <1>1, <2>1 DEF catalogue, files
  <2> QED BY <1>1, <2>2, EndsStill
<1>3. CASE cut
  <2>1. n \in FileName /\ JobsTyped /\ rows[i].name = n
    <3>1. pc[p] \in LookedUp /\ job[p].id \in Id => rows[job[p].id].name = Cur(p).name
      BY Command0 DEF JobTyped
    <3> QED BY <1>1, <1>3, <3>1, Command0 DEF LookedUp
  <2>2. PICK l \in Library : job[p].path = Image(l, n)
    BY <1>1, Command0 DEF JobTyped, HasPath
  <2>3. Put(Image(l, n), d)
    BY <1>1, <1>3, <2>2 DEF InitImage, Put
  <2>4. /\ FilesTyped' /\ Holds(Image(l, n), d)' /\ \A m \in FileName \ {n} : SameFiles(m)
    BY <2>1, <2>3, PutFiles
  <2> PICK r : r = Cut(rows[i], d)
    OBVIOUS
  <2>5. rows' = [k \in Id |-> IF k = i THEN r ELSE rows[k]]
    BY <1>3, SlotsSay DEF InitImage, Cut
  <2>6. RowTyped(r) /\ r.lib = rows[i].lib /\ r.name = n /\ r.path = rows[i].path /\ r.data = d
    BY <1>3, <2>1, RowIs, RowCut
  <2>7. /\ slots' = [s \in Online \X Slot |-> slots'[s]]
        /\ \A s \in Online \X Slot : slots'[s] \in Id \cup {0}
    BY <1>1, SlotsSay
  <2>8. /\ RowsTyped' /\ IdsGrow /\ (\A m : m # n => SameRows(m))
        /\ (\A m : Named(m)' = Named(m)) /\ rows'[i] = r /\ lastId' \in Nat
    BY <1>1, <1>3, <2>1, <2>5, <2>6, <2>7, RowChanged
  <2>9. Moves(p) /\ JobTyped(p)' /\ pc'[p] = "idle" /\ job'[p].names = {}
    BY <1>1, <2>1, <2>8, EndMoves
  <2>10. \A m \in FileName \ {n} : Same(m)
    BY <2>4, <2>8, SameAll
  <2>11. ASSUME n \notin disturbed PROVE Own(p, n)
    <3>1. Working(p, n) /\ Tape(n) /\ \A k \in Named(n) : Kept(k)
      BY <1>1, <2>11, OwnTape
    <3>2. Named(n) = {i} /\ Kept(i)
      BY <1>3, <2>1, <3>1, Alone
    <3>3. rows[i].path = job[p].path
      BY <1>1, <1>3, <3>1 DEF Working
    <3>4. rows[i].path = Image(rows[i].lib, n) /\ rows[i].path = Image(l, n)
      BY <2>1, <2>2, <3>2, <3>3 DEF Kept
    <3>5. rows'[i].path = Image(rows'[i].lib, n) /\ rows'[i].name = n /\ rows'[i].data = d
          /\ rows'[i].path = Image(l, n)
      BY <2>6, <2>8, <3>4
    <3>6. Kept(i)'
      BY <2>4, <3>5 DEF Kept, Holds, Image
    <3>7. Named(n)' = {i}
      BY <2>8, <3>2
    <3> QED BY <2>9, <3>6, <3>7, OwnResting DEF Resting
  <2>12. pc'[p] \in Resting /\ disturbed' = disturbed
    BY <1>1, <2>9 DEF Resting
  <2> QED BY <1>1, <2>4, <2>8, <2>9, <2>10, <2>11, <2>12, StepOn
<1> QED BY <1>2, <1>3

LEMMA CopiesImport ==
    ASSUME TapesInv, NEW p \in Proc, CopyImport(p)
    PROVE  TapesInv'
<1> PICK n : n = Cur(p).name
  OBVIOUS
<1> PICK i : i = job[p].id
  OBVIOUS
<1> PICK l : l = job[p].lib
  OBVIOUS
<1> PICK d : d = Fresh
  OBVIOUS
<1>1. /\ pc[p] = "copy" /\ UNCHANGED <<lastId, shelves, slots, disturbed>>
      /\ Put(Image(l, n), d) /\ Goto(p, "copied") /\ job' = [job EXCEPT ![p].data = d]
  BY DEF CopyImport
<1>2. n \in FileName /\ JobsTyped /\ l \in Library /\ (i \in Id => rows[i].name = n)
      /\ JobTyped(p) /\ Todo(p) /\ JobRecord(job[p]) /\ lastId \in Nat
  <2>1. pc[p] \in LookedUp /\ job[p].id \in Id => rows[job[p].id].name = Cur(p).name
    BY Command0 DEF JobTyped
  <2>2. job[p].lib \in Library
    BY Command0 DEF JobTyped
  <2> QED BY <1>1, <2>1, <2>2, Command0 DEF LookedUp
<1>3. /\ FilesTyped' /\ Holds(Image(l, n), d)' /\ \A m \in FileName \ {n} : SameFiles(m)
  BY <1>1, <1>2, PutFiles
<1> PICK j : j = [job[p] EXCEPT !.data = d]
  OBVIOUS
<1>4. /\ JobRecord(j) /\ j.lib = l /\ j.todo = job[p].todo /\ j.names = job[p].names
      /\ j.id = i /\ j.data = d
  BY <1>2, JobData
<1>5. Moves(p) /\ pc'[p] = "copied" /\ job'[p] = j
  <2>1. job' = [job EXCEPT ![p] = j]
    BY <1>1
  <2>2. JobsTyped /\ Goto(p, "copied")
    BY <1>1, <1>2
  <2> QED BY <2>1, <2>2, JobMoves
<1>6. Cur(p)' = Cur(p) /\ Todo(p)'
  BY <1>2, <1>4, <1>5 DEF Cur, Todo
<1>7. /\ slots' = [s \in Online \X Slot |-> slots'[s]]
      /\ \A s \in Online \X Slot : slots'[s] \in Id \cup {0}
  BY <1>1, SlotsSay
<1>8. /\ RowsTyped' /\ IdsGrow /\ (\A m : m # n => SameRows(m)) /\ Id' = Id
      /\ (\A m : Named(m)' = Named(m))
      /\ (i \in Id => /\ rows'[i].lib = rows[i].lib /\ rows'[i].name = n /\ rows'[i].data = d
                      /\ rows'[i].path = rows[i].path)
  <2>1. CASE i \notin Id
    <3>1. UNCHANGED catalogue
      BY <1>1, <2>1 DEF CopyImport, catalogue
    <3> QED BY <2>1, <3>1, RowsStill
  <2>2. CASE i \in Id
    <3> PICK no : no = FALSE
      OBVIOUS
    <3> PICK r : r = WithFits(WithData(rows[i], d), no)
      OBVIOUS
    <3>1. rows' = [k \in Id |-> IF k = i THEN r ELSE rows[k]]
      BY <2>2, SlotsSay DEF CopyImport, WithData, WithFits
    <3>2. /\ RowTyped(r) /\ r.lib = rows[i].lib /\ r.name = n /\ r.path = rows[i].path
          /\ r.data = d
      <4> PICK s : s = WithData(rows[i], d)
        OBVIOUS
      <4>1. RowTyped(s) /\ s.lib = rows[i].lib /\ s.name = n /\ s.path = rows[i].path
            /\ s.data = d
        BY SMTT(40), <1>2, <2>2, RowIs, RowData
      <4> QED BY <4>1, RowFits
    <3>3. /\ RowsTyped' /\ IdsGrow /\ (\A m : m # n => SameRows(m)) /\ Id' = Id
          /\ (\A m : Named(m)' = Named(m)) /\ rows'[i] = r
      BY <1>1, <1>2, <1>7, <2>2, <3>1, <3>2, RowChanged
    <3> QED BY <3>2, <3>3
  <2> QED BY <2>1, <2>2
<1>9. JobTyped(p)'
  <2>1. JobRecord(job'[p])
    BY <1>4, <1>5
  <2>2. job[p].names \subseteq FileName /\ job[p].id \in 0 .. lastId
    BY <1>2 DEF JobTyped
  <2>3. i \in Id' => rows'[i].name = Cur(p)'.name
    BY <1>6, <1>8
  <2> QED BY <1>1, <1>2, <1>4, <1>5, <1>6, <2>1, <2>2, <2>3
          DEF JobTyped, JobRecord, Steps, LookedUp, HasPath
<1>10. \A m \in FileName \ {n} : Same(m)
  BY <1>3, <1>8, SameAll
<1>11. ASSUME n \notin disturbed PROVE Own(p, n)
  <2>1. Working(p, n) /\ Tape(n) /\ \A k \in Named(n) : Kept(k)
    BY <1>1, <1>11, OwnTape
  <2>2. Named(n) \subseteq {i} /\ (i \in Id => rows[i].lib = l)
    BY <1>1, <2>1 DEF Working
  <2>3. Named(n)' \subseteq {i} /\ (i \in Id' => rows'[i].lib = l)
    BY <1>8, <2>2
  <2>4. ASSUME NEW k \in Named(n)' PROVE Kept(k)'
    <3>1. k = i /\ i \in Id /\ i \in Named(n)
      BY <1>8, <2>3 DEF Named
    <3>2. Kept(i) /\ rows[i].lib = l /\ rows[i].name = n
      BY <1>2, <2>1, <2>2, <3>1
    <3>3. rows[i].path = Image(l, n)
      BY <3>2 DEF Kept
    <3>4. rows'[i].path = Image(l, n) /\ rows'[i].lib = l /\ rows'[i].name = n
          /\ rows'[i].data = d
      BY <1>8, <3>1, <3>2, <3>3
    <3>5. Kept(i)'
      BY <1>3, <3>4 DEF Kept, Holds, Image
    <3> QED BY <3>1, <3>5 DEF Kept, Holds
  <2>5. Holds(Image(job[p].lib, n), job[p].data)'
    <3>1. job'[p].lib = l /\ job'[p].data = d
      BY <1>4, <1>5
    <3> QED BY <1>3, <3>1 DEF Holds, Image
  <2>6. Working(p, n)'
    <3>1. job'[p].id = i /\ job'[p].lib = l
      BY <1>4, <1>5
    <3> QED BY <1>5, <2>3, <2>5, <3>1 DEF Working, Passing
  <2> QED BY <2>3, <2>4, <2>6 DEF Own
<1>12. disturbed' = disturbed /\ job'[p].names \subseteq job[p].names
  BY <1>1, <1>4, <1>5
<1> QED BY <1>1, <1>3, <1>5, <1>6, <1>8, <1>9, <1>10, <1>11, <1>12, StepOn

LEMMA SameImage ==
    ASSUME NEW k, NEW l, NEW n, Image(k, n) = Image(l, n)
    PROVE  k = l
BY DEF Image

\* The file of a tape goes to or from the offline library.
LEMMA FileMoves ==
    ASSUME TapesInv, NEW p \in Proc, pc[p] \in {"move file", "import file"},
           NEW l \in {"move row", "import row"}, NEW goal \in Library,
           pc[p] = "move file" => l = "move row" /\ goal = Offline,
           pc[p] = "import file" => l = "import row" /\ goal = job[p].lib,
           Rename(job[p].path, Image(goal, Cur(p).name)), Goto(p, l),
           UNCHANGED <<job, catalogue, data, disturbed>>
    PROVE  TapesInv'
<1> PICK n : n = Cur(p).name
  OBVIOUS
<1> PICK i : i = job[p].id
  OBVIOUS
<1>1. n \in FileName /\ JobTyped(p) /\ Rename(job[p].path, Image(goal, n))
  BY Command0
<1>2. PICK k \in Library : job[p].path = Image(k, n)
  BY <1>1 DEF JobTyped, HasPath
<1>3. /\ FilesTyped' /\ (\A m \in FileName \ {n} : SameFiles(m))
      /\ \A d : k # goal /\ Holds(Image(k, n), d) => Holds(Image(goal, n), d)'
  BY <1>1, <1>2, RenameFiles
<1>4. /\ RowsTyped' /\ IdsGrow /\ lastId' \in Nat /\ (\A m : SameRows(m)) /\ rows' = rows
      /\ Named(n)' = Named(n)
  BY RowsStill
<1>5. Moves(p) /\ JobTyped(p)' /\ job'[p] = job[p] /\ pc'[p] = l /\ Cur(p)' = Cur(p)
  <2>1. job[p].lib \in Online
    BY <1>1 DEF JobTyped
  <2> QED BY <1>4, <2>1, GoesOn DEF Steps, LookedUp, HasPath
<1>6. \A m \in FileName \ {n} : Same(m)
  BY <1>3, <1>4, SameAll
<1>7. ASSUME n \notin disturbed PROVE Own(p, n)
  <2>1. Working(p, n)
    BY <1>7, OwnTape
  <2>2. PICK from \in Library : Between(p, n, from, from) /\ from # goal
    <3>1. job[p].lib \in Online /\ Offline \notin Online /\ Online \subseteq Library
          /\ Offline \in Library
      BY <1>1, TapeFilesAssumption DEF JobTyped, Library
    <3>2. CASE pc[p] = "move file"
      BY <2>1, <3>1, <3>2 DEF Working
    <3>3. CASE pc[p] = "import file"
      BY <2>1, <3>1, <3>3 DEF Working
    <3> QED BY <3>2, <3>3
  <2>3. /\ Named(n) = {i} /\ rows[i].lib = from /\ rows[i].path = Image(from, n)
        /\ job[p].path = Image(from, n) /\ Holds(Image(from, n), rows[i].data)
    BY <2>2 DEF Between
  <2>4. k = from
    <3>1. Image(k, n) = Image(from, n)
      BY <1>2, <2>3
    <3> QED BY <3>1, SameImage
  <2>5. Holds(Image(goal, n), rows[i].data)'
    <3> PICK d : d = rows[i].data
      OBVIOUS
    <3>1. Holds(Image(goal, n), d)'
      BY <1>3, <2>2, <2>3, <2>4
    <3> QED BY <1>4, <3>1 DEF Holds, Image
  <2>6. Between(p, n, from, goal)'
    <3>1. /\ Named(n)' = {i} /\ job'[p].id = i /\ rows'[i].lib = from
          /\ rows'[i].path = Image(from, n) /\ job'[p].path = Image(from, n)
      BY <1>4, <1>5, <2>3
    <3> QED BY <2>5, <3>1 DEF Between, Image, Holds
  <2>7. Working(p, n)'
    <3>1. job'[p].lib = job[p].lib
      BY <1>5
    <3>2. CASE pc[p] = "move file"
      <4>1. from = job[p].lib /\ goal = Offline
        BY <2>1, <2>3, <3>2 DEF Working, Between
      <4> QED BY <1>5, <2>6, <3>1, <3>2, <4>1 DEF Working, Passing, Between, Image, Holds
    <3>3. CASE pc[p] = "import file"
      <4>1. from = Offline /\ goal = job[p].lib
        BY <2>1, <2>3, <3>3 DEF Working, Between
      <4> QED BY <1>5, <2>6, <3>1, <3>3, <4>1 DEF Working, Passing, Between, Image, Holds
    <3> QED BY <3>2, <3>3
  <2>8. Moving(p, n)' /\ \A a, b \in Named(n)' : a = b
    <3>1. pc'[p] \in {"move row", "import row"} /\ Cur(p)'.name = n
      BY <1>5
    <3>2. Named(n)' = {i}
      BY <1>4, <2>3
    <3> QED BY <3>1, <3>2 DEF Moving
  <2> QED BY <2>7, <2>8 DEF Own
<1>8. disturbed' = disturbed /\ job'[p].names \subseteq job[p].names
  BY <1>5
<1> QED BY <1>1, <1>3, <1>4, <1>5, <1>6, <1>7, <1>8, StepOn

LEMMA MovesFile ==
    ASSUME TapesInv, NEW p \in Proc, MoveFile(p)
    PROVE  TapesInv'
<1>1. pc[p] = "move file" /\ UNCHANGED <<catalogue, data, disturbed>>
  BY DEF MoveFile
<1>2. CASE End(p) /\ UNCHANGED <<file, scan>>
  BY <1>1, <1>2, EndsStill DEF files
<1>3. CASE /\ Rename(job[p].path, Image(Offline, Cur(p).name)) /\ Goto(p, "move row")
           /\ UNCHANGED job
  BY <1>1, <1>3, FileMoves DEF Library
<1> QED BY <1>2, <1>3 DEF MoveFile

LEMMA ImportsFile ==
    ASSUME TapesInv, NEW p \in Proc, ImportFile(p)
    PROVE  TapesInv'
<1>1. pc[p] = "import file" /\ UNCHANGED <<catalogue, data, disturbed>>
  BY DEF ImportFile
<1>2. CASE End(p) /\ UNCHANGED <<file, scan>>
  BY <1>1, <1>2, EndsStill DEF files
<1>3. CASE /\ Rename(job[p].path, Image(job[p].lib, Cur(p).name)) /\ Goto(p, "import row")
           /\ UNCHANGED job
  <2>1. job[p].lib \in Library
    BY Command0 DEF JobTyped
  <2> QED BY <1>1, <1>3, <2>1, FileMoves
<1> QED BY <1>2, <1>3 DEF ImportFile

\* A row goes to another library.
WithLib(r, x) == [r EXCEPT !.lib = x]
WithFile(r, x) == [r EXCEPT !.path = x]
WithHome(r, x, y, z) == [r EXCEPT !.lib = x, !.at = y, !.path = z]

LEMMA RowLib ==
    ASSUME NEW r, RowRecord(r), NEW x
    PROVE  LET s == WithLib(r, x) IN
           /\ RowRecord(s) /\ s.lib = x /\ s.name = r.name /\ s.drive = r.drive
           /\ s.path = r.path /\ s.data = r.data
<1> PICK s : s = WithLib(r, x)
  OBVIOUS
<1>1. /\ RowRecord(s) /\ s.lib = x /\ s.name = r.name /\ s.drive = r.drive
      /\ s.path = r.path /\ s.data = r.data
  BY DEF RowRecord, WithLib
<1> QED BY <1>1

LEMMA RowFile ==
    ASSUME NEW r, RowRecord(r), NEW x
    PROVE  LET s == WithFile(r, x) IN
           /\ RowRecord(s) /\ s.lib = r.lib /\ s.name = r.name /\ s.drive = r.drive
           /\ s.path = x /\ s.data = r.data
<1> PICK s : s = WithFile(r, x)
  OBVIOUS
<1>1. /\ RowRecord(s) /\ s.lib = r.lib /\ s.name = r.name /\ s.drive = r.drive
      /\ s.path = x /\ s.data = r.data
  BY DEF RowRecord, WithFile
<1> QED BY <1>1

WithAt(r, x) == [r EXCEPT !.at = x]

LEMMA RowAt1 ==
    ASSUME NEW r, RowRecord(r), NEW x
    PROVE  LET s == WithAt(r, x) IN
           /\ RowRecord(s) /\ s.lib = r.lib /\ s.name = r.name /\ s.drive = r.drive
           /\ s.path = r.path /\ s.data = r.data
BY RowAt DEF WithAt

LEMMA RowHome ==
    ASSUME NEW r, RowTyped(r), NEW n, r.name = n, NEW l \in Library, NEW at
    PROVE  LET s == WithHome(r, l, at, Image(l, n)) IN
           /\ RowTyped(s) /\ s.lib = l /\ s.name = n /\ s.path = Image(l, n)
           /\ s.data = r.data
<1> PICK a : a = WithLib(r, l)
  OBVIOUS
<1> PICK b : b = WithAt(a, at)
  OBVIOUS
<1> PICK s : s = WithFile(b, Image(l, n))
  OBVIOUS
<1>1. RowRecord(r) /\ n \in Name /\ r.drive \in BOOLEAN
  BY DEF RowTyped
<1>2. /\ RowRecord(a) /\ a.lib = l /\ a.name = n /\ a.drive = r.drive /\ a.data = r.data
  BY <1>1, RowLib
<1>3. /\ RowRecord(b) /\ b.lib = l /\ b.name = n /\ b.drive = r.drive /\ b.data = r.data
  BY <1>2, RowAt1
<1>4. /\ RowRecord(s) /\ s.lib = l /\ s.name = n /\ s.drive = r.drive /\ s.data = r.data
      /\ s.path = Image(l, n)
  BY <1>3, RowFile
<1>5. s = WithHome(r, l, at, Image(l, n))
  BY <1>1 DEF WithHome, WithLib, WithAt, WithFile, RowRecord
<1>6. RowTyped(s)
  BY <1>1, <1>4 DEF RowTyped
<1> QED BY <1>4, <1>5, <1>6

LEMMA RowGoes ==
    ASSUME TapesInv, NEW i \in Id, NEW n, rows[i].name = n, NEW l \in Library, NEW at,
           Moved(i, l, at)
    PROVE  \E r : /\ rows' = [k \in Id |-> IF k = i THEN r ELSE rows[k]]
                  /\ RowTyped(r) /\ r.lib = l /\ r.name = n /\ r.path = Image(l, n)
                  /\ r.data = rows[i].data
<1>1. rows' = [k \in Id |-> IF k = i THEN WithHome(rows[i], l, at, Image(l, n)) ELSE rows[k]]
  BY DEF Moved, WithHome
<1>2. RowTyped(rows[i])
  BY RowIs
<1>3. LET r == WithHome(rows[i], l, at, Image(l, n)) IN
      RowTyped(r) /\ r.lib = l /\ r.name = n /\ r.path = Image(l, n) /\ r.data = rows[i].data
  BY <1>2, RowHome
<1> QED BY <1>1, <1>3

LEMMA RowsMove ==
    ASSUME TapesInv, NEW i, NEW n, i \in Id => rows[i].name = n, NEW l \in Library, NEW at,
           Moved(i, l, at), UNCHANGED <<lastId, shelves, files>>,
           slots' = [s \in Online \X Slot |-> slots'[s]],
           \A s \in Online \X Slot : slots'[s] \in Id \cup {0}
    PROVE  /\ RowsTyped' /\ IdsGrow /\ (\A m : m # n => SameRows(m))
           /\ Named(n)' = Named(n)
           /\ (i \in Id => /\ rows'[i].lib = l /\ rows'[i].name = n
                           /\ rows'[i].path = Image(l, n) /\ rows'[i].data = rows[i].data)
<1>1. CASE i \notin Id
  <2>1. rows' = [k \in Id |-> rows[k]]
    BY <1>1 DEF Moved
  <2>2. rows' = rows /\ Id' = Id
    BY <2>1, SlotsSay DEF Id
  <2>3. Placed
    <3>1. \A k \in Id : RowRecord(rows'[k]) /\ rows'[k].drive \in BOOLEAN
      BY <2>2, RowSays
    <3> QED BY <2>1, <2>2, <3>1, PlacedRows
  <2>4. RowsTyped' /\ IdsGrow /\ Named(n)' = Named(n)
    BY <2>3, Command0, PlacedSame DEF TapesInv, TapesTyped
  <2>5. \A m : SameRows(m)
    BY <2>2, RowsStay
  <2> QED BY <1>1, <2>4, <2>5
<1>2. CASE i \in Id
  <2>1. rows[i].name = n
    BY <1>2
  <2>2. PICK r : /\ rows' = [k \in Id |-> IF k = i THEN r ELSE rows[k]]
                 /\ RowTyped(r) /\ r.lib = l /\ r.name = n /\ r.path = Image(l, n)
                 /\ r.data = rows[i].data
    BY <1>2, <2>1, RowGoes
  <2>3. /\ RowsTyped' /\ IdsGrow /\ (\A m : m # n => SameRows(m))
        /\ (\A m : Named(m)' = Named(m)) /\ rows'[i] = r
    BY <1>2, <2>1, <2>2, RowChanged
  <2> QED BY <2>2, <2>3
<1> QED BY <1>1, <1>2

\* The transaction after the file has moved.
SlotsNext ==
    /\ slots' = [s \in Online \X Slot |-> slots'[s]]
    /\ \A s \in Online \X Slot : slots'[s] \in Id \cup {0}

LEMMA RowsMoveOn ==
    ASSUME TapesInv, NEW i, NEW n, i \in Id => rows[i].name = n, NEW l \in Library, NEW at,
           Moved(i, l, at), UNCHANGED <<lastId, shelves, files>>, SlotsNext
    PROVE  /\ RowsTyped' /\ IdsGrow /\ (\A m : m # n => SameRows(m))
           /\ Named(n)' = Named(n)
           /\ (i \in Id => /\ rows'[i].lib = l /\ rows'[i].name = n
                           /\ rows'[i].path = Image(l, n) /\ rows'[i].data = rows[i].data)
BY RowsMove DEF SlotsNext

LEMMA RowMoves ==
    ASSUME TapesInv, NEW p \in Proc, pc[p] \in {"move row", "import row"},
           NEW goal \in Library, NEW at, NEW l \in {"move", "assign"},
           pc[p] = "move row" => goal = Offline, pc[p] = "import row" => goal = job[p].lib,
           Moved(job[p].id, goal, at), NextItem(p, l),
           SlotsNext,
           UNCHANGED <<lastId, shelves, files, disturbed>>
    PROVE  TapesInv'
<1> PICK n : n = Cur(p).name
  OBVIOUS
<1> PICK i : i = job[p].id
  OBVIOUS
<1>1. /\ n \in FileName /\ n \in Name /\ JobsTyped /\ JobTyped(p) /\ lastId \in Nat
      /\ job[p].lib \in Online /\ (i \in Id => rows[i].name = n)
  <2>1. pc[p] \in LookedUp
    BY DEF LookedUp
  <2> QED BY <2>1, Command0 DEF JobTyped
<1>2. /\ RowsTyped' /\ IdsGrow /\ (\A m : m # n => SameRows(m))
      /\ Named(n)' = Named(n)
      /\ (i \in Id => /\ rows'[i].lib = goal /\ rows'[i].name = n
                      /\ rows'[i].path = Image(goal, n) /\ rows'[i].data = rows[i].data)
  <2>1. Moved(i, goal, at) /\ (i \in Id => rows[i].name = n)
    BY <1>1
  <2>2. UNCHANGED <<lastId, shelves, files>>
    OBVIOUS
  <2> QED BY ZenonT(60), <2>1, <2>2, RowsMoveOn
<1>3. lastId' \in Nat /\ lastId' >= lastId
  BY <1>1, NotLess
<1>4. Moves(p) /\ JobTyped(p)' /\ pc'[p] \in {"idle", l} /\ job'[p].names \subseteq job[p].names
  BY <1>1, <1>3, NextMoves
<1>5. pc'[p] \in Resting
  BY <1>4 DEF Resting
<1>6. \A m \in FileName \ {n} : Same(m)
  BY <1>2, FilesStay, SameAll
<1>7. FilesTyped'
  BY FilesStill
<1>8. ASSUME n \notin disturbed PROVE Own(p, n)
  <2>1. Tape(n)
    BY <1>1, <1>8 DEF TapesInv
  <2>2. Working(p, n)
    BY <2>1 DEF Tape
  <2>3. PICK from \in Library : Between(p, n, from, goal)
    <3>1. job[p].lib \in Library /\ Offline \in Library
      BY <1>1 DEF Library
    <3> QED BY <2>2, <3>1 DEF Working
  <2>4. Named(n) = {i} /\ Holds(Image(goal, n), rows[i].data)
    BY <2>3 DEF Between
  <2>5. i \in Id
    BY <2>4 DEF Named
  <2>6. Holds(Image(goal, n), rows[i].data)'
    <3> PICK d : d = rows[i].data
      OBVIOUS
    <3>1. Holds(Image(goal, n), d)'
      BY <2>4 DEF Holds, Image, files
    <3> QED BY <1>2, <2>5, <3>1 DEF Holds, Image
  <2>7. Kept(i)'
    BY <1>2, <2>5, <2>6 DEF Kept, Holds, Image
  <2>8. Named(n)' = {i}
    BY <1>2, <2>4
  <2> QED BY <1>5, <2>7, <2>8, OwnResting
<1> QED BY <1>1, <1>2, <1>4, <1>5, <1>6, <1>7, <1>8, StepOn

\* The file goes back.
LEMMA FileBack ==
    ASSUME TapesInv, NEW p \in Proc, pc[p] \in {"move row", "import row"}, NEW goal \in Library,
           pc[p] = "move row" => goal = Offline, pc[p] = "import row" => goal = job[p].lib,
           Rename(Image(goal, Cur(p).name), job[p].path), End(p),
           UNCHANGED <<catalogue, data, disturbed>>
    PROVE  TapesInv'
<1> PICK n : n = Cur(p).name
  OBVIOUS
<1> PICK i : i = job[p].id
  OBVIOUS
<1>1. /\ n \in FileName /\ JobTyped(p) /\ JobsTyped /\ Rename(Image(goal, n), job[p].path)
      /\ job[p].lib \in Online
  BY Command0 DEF JobTyped
<1>2. PICK k \in Library : job[p].path = Image(k, n)
  BY <1>1 DEF JobTyped, HasPath
<1>3. /\ FilesTyped' /\ (\A m \in FileName \ {n} : SameFiles(m))
      /\ \A d : k # goal /\ Holds(Image(goal, n), d) => Holds(Image(k, n), d)'
  BY <1>1, <1>2, RenameFiles
<1>4. /\ RowsTyped' /\ IdsGrow /\ lastId' \in Nat /\ (\A m : SameRows(m)) /\ rows' = rows
      /\ Named(n)' = Named(n)
  BY RowsStill
<1>5. Moves(p) /\ JobTyped(p)' /\ pc'[p] = "idle" /\ job'[p].names = {}
  BY <1>1, <1>4, EndMoves
<1>6. \A m \in FileName \ {n} : Same(m)
  BY <1>3, <1>4, SameAll
<1>7. ASSUME n \notin disturbed PROVE Own(p, n)
  <2>1. Tape(n)
    BY <1>1, <1>7 DEF TapesInv
  <2>2. Working(p, n)
    BY <2>1 DEF Tape
  <2>3. PICK from \in Library : Between(p, n, from, goal) /\ from # goal
    <3>1. job[p].lib \in Online /\ Offline \notin Online /\ Online \subseteq Library
          /\ Offline \in Library
      BY <1>1, TapeFilesAssumption DEF Library
    <3>2. CASE pc[p] = "move row"
      BY <2>2, <3>1, <3>2 DEF Working
    <3>3. CASE pc[p] = "import row"
      BY <2>2, <3>1, <3>3 DEF Working
    <3> QED BY <3>2, <3>3
  <2>4. /\ Named(n) = {i} /\ rows[i].lib = from /\ rows[i].path = Image(from, n)
        /\ job[p].path = Image(from, n) /\ Holds(Image(goal, n), rows[i].data)
    BY <2>3 DEF Between
  <2>5. k = from
    <3>1. Image(k, n) = Image(from, n)
      BY <1>2, <2>4
    <3> QED BY <3>1, SameImage
  <2>6. Holds(Image(from, n), rows[i].data)'
    <3> PICK d : d = rows[i].data
      OBVIOUS
    <3>1. Holds(Image(from, n), d)'
      BY <1>3, <2>3, <2>4, <2>5
    <3> QED BY <1>4, <3>1 DEF Holds, Image
  <2>7. rows'[i].lib = from /\ rows'[i].path = Image(from, n) /\ rows'[i].name = n
    <3>1. i \in Named(n)
      BY <2>4
    <3> QED BY <1>4, <2>4, <3>1 DEF Named
  <2>8. Kept(i)'
    BY <2>6, <2>7 DEF Kept, Holds, Image
  <2>9. Named(n)' = {i} /\ pc'[p] \in Resting
    BY <1>4, <1>5, <2>4 DEF Resting
  <2>10. (\A a, b \in Named(n)' : a = b) /\ \A a \in Named(n)' : Kept(a)'
    BY <2>8, <2>9
  <2> QED BY <2>9, <2>10, OwnResting
<1>8. disturbed' = disturbed /\ pc'[p] \in Resting
  BY <1>5 DEF Resting
<1> QED BY <1>1, <1>3, <1>4, <1>5, <1>6, <1>7, <1>8, StepOn

LEMMA MovesRow ==
    ASSUME TapesInv, NEW p \in Proc, MoveRow(p)
    PROVE  TapesInv'
<1> PICK n : n = Cur(p).name
  OBVIOUS
<1>1. pc[p] = "move row" /\ UNCHANGED <<lastId, shelves>> /\ Offline \in Library
  BY DEF MoveRow, Library
<1>2. n \in FileName /\ disturbed \subseteq FileName
  BY <1>1, Command0
<1>3. CASE /\ Moved(job[p].id, Offline, job[p].to) /\ slots' = Vacated(job[p].lib, job[p].from)
           /\ NextItem(p, "move") /\ UNCHANGED <<files, disturbed>>
  <2>1. slots' = slots \/ \E s : slots' = [slots EXCEPT ![s] = 0]
    BY <1>3 DEF Vacated
  <2>2. /\ slots' = [s \in Online \X Slot |-> slots'[s]]
        /\ \A s \in Online \X Slot : slots'[s] \in Id \cup {0}
    BY <2>1, SlotsSay, SlotSet
  <2>3. SlotsNext
    BY <2>2 DEF SlotsNext
  <2>4. UNCHANGED <<lastId, shelves, files, disturbed>>
    BY <1>1, <1>3
  <2> QED BY <1>1, <1>3, <2>3, <2>4, RowMoves
<1>4. CASE /\ Rename(Image(Offline, n), job[p].path) /\ End(p)
           /\ UNCHANGED <<rows, slots, data, disturbed>>
  BY <1>1, <1>4, FileBack DEF catalogue
<1>5. CASE disturbed' = disturbed \cup {n} /\ End(p) /\ UNCHANGED <<rows, slots, files>>
  <2>1. Placed
    BY <1>1, <1>5, StillIs DEF catalogue
  <2>2. disturbed \subseteq disturbed' /\ disturbed' \subseteq FileName /\ n \in disturbed'
    BY <1>2, <1>5
  <2> QED BY <1>5, <2>1, <2>2, EndsQuietly
<1> QED BY <1>3, <1>4, <1>5 DEF MoveRow

LEMMA ImportsRow ==
    ASSUME TapesInv, NEW p \in Proc, ImportRow(p)
    PROVE  TapesInv'
<1> PICK i : i = job[p].id
  OBVIOUS
<1>1. pc[p] = "import row" /\ UNCHANGED <<lastId, shelves, data, disturbed>>
      /\ job[p].lib \in Library
  BY Command0 DEF ImportRow, JobTyped
<1>2. CASE /\ i \in Id /\ Moved(i, job[p].lib, InSlot(Cur(p).slot))
           /\ slots' = [slots EXCEPT ![<<job[p].lib, Cur(p).slot>>] = i]
           /\ NextItem(p, "assign") /\ UNCHANGED <<file, scan>>
  <2>1. /\ slots' = [s \in Online \X Slot |-> slots'[s]]
        /\ \A s \in Online \X Slot : slots'[s] \in Id \cup {0}
    BY <1>2, SlotSet
  <2>2. SlotsNext
    BY <2>1 DEF SlotsNext
  <2>3. UNCHANGED <<lastId, shelves, files, disturbed>>
    BY <1>1, <1>2 DEF files
  <2>4. Moved(job[p].id, job[p].lib, InSlot(Cur(p).slot))
    BY <1>2
  <2> QED BY <1>1, <1>2, <2>2, <2>3, <2>4, RowMoves
<1>3. CASE /\ Rename(Image(job[p].lib, Cur(p).name), job[p].path) /\ End(p)
           /\ UNCHANGED <<rows, slots>>
  BY <1>1, <1>3, FileBack DEF catalogue
<1> QED BY <1>2, <1>3 DEF ImportRow

\* A row gets a place and the file of its name in library l.
WithSpot(r, x, y) == [r EXCEPT !.at = x, !.path = y]

LEMMA RowSpot ==
    ASSUME NEW r, RowTyped(r), NEW n, r.name = n, NEW l \in Library, NEW at
    PROVE  LET s == WithSpot(r, at, Image(l, n)) IN
           /\ RowTyped(s) /\ s.lib = r.lib /\ s.name = n /\ s.path = Image(l, n)
           /\ s.data = r.data
<1> PICK b : b = WithAt(r, at)
  OBVIOUS
<1> PICK s : s = WithFile(b, Image(l, n))
  OBVIOUS
<1>1. RowRecord(r) /\ n \in Name /\ r.drive \in BOOLEAN /\ r.lib \in Library
  BY DEF RowTyped
<1>2. /\ RowRecord(b) /\ b.lib = r.lib /\ b.name = n /\ b.drive = r.drive /\ b.data = r.data
  BY <1>1, RowAt1
<1>3. /\ RowRecord(s) /\ s.lib = r.lib /\ s.name = n /\ s.drive = r.drive /\ s.data = r.data
      /\ s.path = Image(l, n)
  BY <1>2, RowFile
<1>4. s = WithSpot(r, at, Image(l, n))
  BY <1>1 DEF WithSpot, WithAt, WithFile, RowRecord
<1>5. RowTyped(s)
  BY <1>1, <1>3 DEF RowTyped
<1> QED BY <1>3, <1>4, <1>5

Puts(i, l, n, at) ==
    rows' = [k \in Id |-> IF k = i THEN WithSpot(rows[i], at, Image(l, n)) ELSE rows[k]]
Adds(i, l, n, at, d) ==
    rows' = [k \in Id \cup {i} |-> IF k = i THEN Row(l, n, at, d) ELSE rows[k]]
FillsSlot(s, i) == slots' = [slots EXCEPT ![s] = i]

LEMMA RowPut ==
    ASSUME TapesInv, NEW i \in Id, NEW n, rows[i].name = n, NEW l \in Library, NEW at,
           Puts(i, l, n, at), NEW s, FillsSlot(s, i), UNCHANGED <<lastId, shelves>>
    PROVE  /\ RowsTyped' /\ IdsGrow /\ (\A m : m # n => SameRows(m))
           /\ Named(n)' = Named(n)
           /\ rows'[i].lib = rows[i].lib /\ rows'[i].name = n
           /\ rows'[i].path = Image(l, n) /\ rows'[i].data = rows[i].data
<1>1. RowTyped(rows[i])
  BY RowIs
<1>2. LET r == WithSpot(rows[i], at, Image(l, n)) IN
      /\ RowTyped(r) /\ r.lib = rows[i].lib /\ r.name = n /\ r.path = Image(l, n)
      /\ r.data = rows[i].data
  BY <1>1, RowSpot
<1>3. PICK r : /\ rows' = [k \in Id |-> IF k = i THEN r ELSE rows[k]]
               /\ RowTyped(r) /\ r.lib = rows[i].lib /\ r.name = n /\ r.path = Image(l, n)
               /\ r.data = rows[i].data
  BY <1>2 DEF Puts
<1>4. /\ slots' = [t \in Online \X Slot |-> slots'[t]]
      /\ \A t \in Online \X Slot : slots'[t] \in Id \cup {0}
  BY SlotSet DEF FillsSlot
<1>5. /\ RowsTyped' /\ IdsGrow /\ (\A m : m # n => SameRows(m))
      /\ (\A m : Named(m)' = Named(m)) /\ rows'[i] = r
  BY <1>3, <1>4, RowChanged
<1> QED BY <1>3, <1>5

LEMMA RowAdds ==
    ASSUME TapesInv, NEW l \in Library, NEW n \in Name, NEW at, NEW d, NEW i, i = lastId + 1,
           Adds(i, l, n, at, d), NEW s, FillsSlot(s, i), lastId' = i, UNCHANGED shelves
    PROVE  /\ RowsTyped' /\ IdsGrow /\ (\A m : m # n => SameRows(m))
           /\ Named(n)' = Named(n) \cup {i}
           /\ rows'[i].lib = l /\ rows'[i].name = n /\ rows'[i].path = Image(l, n)
           /\ rows'[i].data = d
<1>1. /\ slots' = [t \in Online \X Slot |-> slots'[t]]
      /\ \A t \in Online \X Slot : slots'[t] \in Id \cup {0, i}
  <2>1. \A t \in Online \X Slot : slots'[t] \in {slots[t], i}
    BY SlotSet DEF FillsSlot
  <2>2. \A t \in Online \X Slot : slots[t] \in Id \cup {0}
    BY SlotsSay
  <2>3. slots' = [t \in Online \X Slot |-> slots'[t]]
    BY SlotSet DEF FillsSlot
  <2> QED BY <2>1, <2>2, <2>3
<1>2. rows' = [k \in Id \cup {i} |-> IF k = i THEN Row(l, n, at, d) ELSE rows[k]]
  BY DEF Adds
<1> QED BY <1>1, <1>2, RowAdded

LEMMA ImportEnds ==
    ASSUME TapesInv, NEW p \in Proc, pc[p] = "copied", End(p), NEW n, n = Cur(p).name,
           UNCHANGED <<files, disturbed>>, lastId' \in Nat, RowsTyped', IdsGrow,
           \A m : m # n => SameRows(m),
           n \notin disturbed => \A i, j \in Named(n)' : i = j,
           n \notin disturbed => \A i \in Named(n)' : Kept(i)'
    PROVE  TapesInv'
<1>1. JobsTyped
  BY Command0
<1>2. Moves(p) /\ JobTyped(p)' /\ pc'[p] = "idle" /\ job'[p].names = {}
  BY <1>1, EndMoves
<1>3. pc'[p] \in Resting
  BY <1>2 DEF Resting
<1>4. n \notin disturbed => Own(p, n)
  BY <1>3, OwnResting
<1>5. \A m \in FileName \ {n} : Same(m)
  BY FilesStay, SameAll
<1>6. FilesTyped'
  BY FilesStill
<1>7. disturbed' = disturbed /\ job'[p].names \subseteq job[p].names
  BY <1>2
<1> QED BY <1>2, <1>3, <1>4, <1>5, <1>6, <1>7, StepOn

LEMMA ImportsNew ==
    ASSUME TapesInv, NEW p \in Proc, pc[p] = "copied", End(p), job[p].id = 0,
           NEW l, l = job[p].lib, NEW n, n = Cur(p).name, NEW at, NEW d, d = job[p].data,
           NEW s, NEW i, i = lastId + 1, lastId' = i,
           Adds(i, l, n, at, d), FillsSlot(s, i), UNCHANGED <<shelves, files, disturbed>>
    PROVE  TapesInv'
<1>1. l \in Library /\ n \in Name /\ n \in FileName /\ lastId \in Nat
  BY Command0 DEF JobTyped
<1>3. /\ RowsTyped' /\ IdsGrow /\ (\A m : m # n => SameRows(m))
      /\ Named(n)' = Named(n) \cup {i}
      /\ rows'[i].lib = l /\ rows'[i].name = n /\ rows'[i].path = Image(l, n)
      /\ rows'[i].data = d
  BY <1>1, RowAdds
<1>4. ASSUME n \notin disturbed
      PROVE  (\A a, b \in Named(n)' : a = b) /\ \A a \in Named(n)' : Kept(a)'
  <2>1. Working(p, n)
    BY <1>4, OwnTape
  <2>2. Named(n) \subseteq {0} /\ Holds(Image(l, n), d)
    BY <2>1 DEF Working
  <2>3. \A k \in Named(n) : k \in Id /\ k # 0
    BY RowSays DEF Named
  <2>4. Named(n)' = {i}
    BY <1>3, <2>2, <2>3
  <2>5. Holds(Image(l, n), d)'
    BY <2>2 DEF Holds, Image, files
  <2>6. Kept(i)'
    BY <1>3, <2>5 DEF Kept, Holds, Image
  <2> QED BY <2>4, <2>6
<1>5. lastId' \in Nat
  BY <1>1, NextId
<1> QED BY <1>3, <1>4, <1>5, ImportEnds

LEMMA ImportsOver ==
    ASSUME TapesInv, NEW p \in Proc, pc[p] = "copied", End(p),
           NEW l, l = job[p].lib, NEW n, n = Cur(p).name, NEW at, NEW s,
           NEW i \in Id, i = job[p].id, lastId' = lastId,
           Puts(i, l, n, at), FillsSlot(s, i), UNCHANGED <<shelves, files, disturbed>>
    PROVE  TapesInv'
<1>1. l \in Library /\ n \in FileName /\ lastId \in Nat /\ rows[i].name = n
  <2>1. pc[p] \in LookedUp
    BY DEF LookedUp
  <2> QED BY <2>1, Command0 DEF JobTyped
<1>3. /\ RowsTyped' /\ IdsGrow /\ (\A m : m # n => SameRows(m)) /\ Named(n)' = Named(n)
      /\ rows'[i].lib = rows[i].lib /\ rows'[i].name = n
      /\ rows'[i].path = Image(l, n) /\ rows'[i].data = rows[i].data
  BY <1>1, RowPut
<1>4. ASSUME n \notin disturbed
      PROVE  (\A a, b \in Named(n)' : a = b) /\ \A a \in Named(n)' : Kept(a)'
  <2>1. Working(p, n) /\ Tape(n) /\ \A k \in Named(n) : Kept(k)
    BY <1>4, OwnTape
  <2>2. Named(n) = {i} /\ Kept(i)
    BY <1>1, <2>1, Alone
  <2>3. rows[i].lib = l
    BY <2>1 DEF Working
  <2> PICK d : d = rows[i].data
    OBVIOUS
  <2>4. Holds(Image(l, n), d)
    BY <1>1, <2>2, <2>3 DEF Kept
  <2>5. Holds(Image(l, n), d)'
    BY <2>4 DEF Holds, Image, files
  <2>6. Kept(i)'
    BY <1>3, <2>3, <2>5 DEF Kept, Holds, Image
  <2> QED BY <1>3, <2>2, <2>6
<1>5. lastId' \in Nat
  BY SMTT(40), <1>1
<1> QED BY <1>3, <1>4, <1>5, ImportEnds

LEMMA ImportsTape ==
    ASSUME TapesInv, NEW p \in Proc, ImportedRow(p)
    PROVE  TapesInv'
<1> PICK n : n = Cur(p).name
  OBVIOUS
<1> PICK l : l = job[p].lib
  OBVIOUS
<1> PICK old : old = job[p].id
  OBVIOUS
<1> PICK i : i = IF old = 0 THEN lastId + 1 ELSE old
  OBVIOUS
<1> PICK at : at = InSlot(Cur(p).slot)
  OBVIOUS
<1> PICK s : s = <<l, Cur(p).slot>>
  OBVIOUS
<1>1. pc[p] = "copied" /\ End(p) /\ UNCHANGED <<shelves, files, disturbed>>
  BY DEF ImportedRow
<1>2. CASE UNCHANGED <<rows, lastId, slots>>
  BY <1>1, <1>2, EndsStill DEF catalogue
<1>3. CASE /\ IF old = 0 THEN QuotaLeft(l) /\ ~Known(l, n) ELSE old \in Id
           /\ lastId' = IF old = 0 THEN i ELSE lastId
           /\ rows' = [j \in Id \cup {i} |->
                          IF j # i THEN rows[j]
                          ELSE IF old = 0 THEN Row(l, n, at, job[p].data)
                          ELSE [rows[j] EXCEPT !.at = at, !.path = Image(l, n)]]
           /\ slots' = [slots EXCEPT ![s] = i]
  <2>1. CASE old = 0
    <3> PICK d : d = job[p].data
      OBVIOUS
    <3>1. Adds(i, l, n, at, d) /\ FillsSlot(s, i)
      BY <1>3, <2>1 DEF Adds, FillsSlot
    <3>2. i = lastId + 1 /\ lastId' = i
      BY SMTT(40), <1>3, <2>1
    <3> QED BY <1>1, <1>3, <2>1, <3>1, <3>2, ImportsNew
  <2>2. CASE old # 0
    <3>1. i = old /\ i \in Id /\ lastId' = lastId /\ Id \cup {i} = Id
      BY <1>3, <2>2
    <3>2. Puts(i, l, n, at) /\ FillsSlot(s, i)
      BY <1>3, <2>2, <3>1 DEF WithSpot, Puts, FillsSlot
    <3> QED BY <1>1, <1>3, <3>1, <3>2, ImportsOver
  <2> QED BY <2>1, <2>2
<1> QED BY <1>2, <1>3 DEF ImportedRow

\* The copy of a snapshot changes one file, which is no other tape's unless
\* nothing is promised of that tape any more.
LEMMA SnapshotFiles ==
    ASSUME TapesInv, NEW p \in Proc, CopySnapshot(p), NEW m, m = SnapshotName(Cur(p).name)
    PROVE  /\ m \in FileName /\ m \in job[p].names /\ job[p].lib \in Library
           /\ FilesTyped' /\ (\A x \in FileName \ {m} : SameFiles(x))
           /\ \A k \in Library \ {job[p].lib} :
                  /\ file'[<<k, m>>] = file[<<k, m>>]
                  /\ file[<<k, m>>] # 0 => data'[file[<<k, m>>]] = data[file[<<k, m>>]]
<1>1. /\ pc[p] = "snapshot"
      /\ UNCHANGED files \/ \E d : Put(Image(job[p].lib, m), d)
  BY DEF CopySnapshot
<1>2. /\ m \in FileName /\ m \in job[p].names /\ job[p].lib \in Library
  BY <1>1, Command0 DEF JobTyped
<1>3. CASE UNCHANGED files
  <2>1. FilesTyped'
    BY <1>3, FilesStill
  <2>2. \A x : SameFiles(x)
    BY <1>3, FilesStay
  <2> QED BY <1>2, <1>3, <2>1, <2>2 DEF files
<1>4. CASE \E d : Put(Image(job[p].lib, m), d)
  BY <1>2, <1>4, PutFiles
<1> QED BY <1>1, <1>3, <1>4

LEMMA CopiesSnapshot ==
    ASSUME TapesInv, NEW p \in Proc, CopySnapshot(p)
    PROVE  TapesInv'
<1> PICK m : m = SnapshotName(Cur(p).name)
  OBVIOUS
<1>1. /\ pc[p] = "snapshot" /\ End(p) /\ UNCHANGED catalogue
      /\ disturbed' = IF Known(job[p].lib, m) THEN disturbed \cup {m} ELSE disturbed
  BY DEF CopySnapshot
<1>2. /\ m \in FileName /\ m \in job[p].names /\ job[p].lib \in Library
      /\ FilesTyped' /\ (\A x \in FileName \ {m} : SameFiles(x))
      /\ \A k \in Library \ {job[p].lib} :
             /\ file'[<<k, m>>] = file[<<k, m>>]
             /\ file[<<k, m>>] # 0 => data'[file[<<k, m>>]] = data[file[<<k, m>>]]
  BY SnapshotFiles
<1>3. /\ RowsTyped' /\ IdsGrow /\ lastId' \in Nat /\ (\A n : SameRows(n)) /\ rows' = rows
      /\ (\A n : Named(n)' = Named(n))
  BY <1>1, RowsStill
<1>4. Moves(p) /\ JobTyped(p)' /\ pc'[p] = "idle" /\ job'[p].names = {}
  BY <1>1, <1>3, Command0, EndMoves
<1>5. pc'[p] \in Resting
  BY <1>4 DEF Resting
<1>6. disturbed \subseteq disturbed' /\ disturbed' \subseteq FileName
  BY <1>1, <1>2, Command0
<1>7. \A x : ~Moving(p, x)
  BY <1>1 DEF Moving
<1>8. \A x \in FileName \ {m} : Same(x)
  BY <1>2, <1>3, SameAll
<1>9. ASSUME m \notin disturbed' PROVE Own(p, m)
  <2>1. ~Known(job[p].lib, m) /\ m \in FileName \ disturbed
    BY <1>1, <1>2, <1>6, <1>9
  <2>2. Tape(m)
    BY <2>1 DEF TapesInv
  <2>3. \A i \in Named(m) : Kept(i)
    BY <1>2, <1>7, <2>1, OnlyMover
  <2>4. ASSUME NEW i \in Named(m)' PROVE Kept(i)'
    <3>1. i \in Id /\ rows[i].name = m /\ i \in Named(m) /\ Kept(i)
      BY <1>3, <2>3 DEF Named
    <3>2. rows[i].lib \in Library
      BY <3>1, RowSays
    <3>3. rows[i].lib # job[p].lib
      BY <2>1, <3>1 DEF Known, RowsOf
    <3> PICK k \in Library : k = rows[i].lib
      BY <3>2
    <3> PICK d : d = rows[i].data
      OBVIOUS
    <3>4. rows[i].path = <<k, m>> /\ file[<<k, m>>] # 0 /\ data[file[<<k, m>>]] = d
      BY <3>1 DEF Kept, Holds, Image
    <3>5. file'[<<k, m>>] # 0 /\ data'[file'[<<k, m>>]] = d
      BY <1>2, <3>3, <3>4
    <3>6. rows'[i].path = <<k, m>> /\ rows'[i].lib = k /\ rows'[i].name = m /\ rows'[i].data = d
      BY <1>3, <3>1, <3>4
    <3> QED BY <3>5, <3>6 DEF Kept, Holds, Image
  <2>5. \A i, j \in Named(m)' : i = j
    BY <1>3, <2>2 DEF Tape
  <2> QED BY <1>5, <2>4, <2>5, OwnResting
<1>10. ASSUME NEW x \in FileName \ disturbed', x \in job[p].names \/ x \in job'[p].names
       PROVE  Own(p, x)
  <2>1. x \in job[p].names /\ x \in FileName \ disturbed
    BY <1>4, <1>6, <1>10
  <2>2. CASE x = m
    BY <1>9, <2>2
  <2>3. CASE x # m
    BY <1>4, <1>7, <1>8, <2>1, <2>3, OwnSame
  <2> QED BY <2>2, <2>3
<1>11. ASSUME NEW x \in FileName \ disturbed', ~(x \in job[p].names \/ x \in job'[p].names)
       PROVE  Same(x)
  BY <1>2, <1>8, <1>11
<1> QED BY <1>2, <1>3, <1>4, <1>6, <1>10, <1>11, StepTapes DEF Moves

-----------------------------------------------------------------------------
(* The scan of the directories                                             *)

LEMMA OneOnly ==
    ASSUME NEW S, NEW k \in Nat, S \subseteq 1 .. k, ~(Cardinality(S) > 1), NEW a \in S, NEW x \in S
    PROVE  x = a
<1>1. IsFiniteSet(S) /\ Cardinality(S) \in Nat
  <2>1. IsFiniteSet(1 .. k)
    BY FS_Interval
  <2>2. S \in SUBSET (1 .. k)
    OBVIOUS
  <2>3. IsFiniteSet(S)
    BY <2>1, <2>2, FS_Subset
  <2> QED BY <2>3, FS_CardinalityType
<1>2. SUFFICES ASSUME x # a PROVE FALSE
  OBVIOUS
<1>3. IsFiniteSet({a}) /\ Cardinality({a}) = 1
  BY FS_Singleton
<1>4. Cardinality({a} \cup {x}) = 2
  BY <1>2, <1>3, FS_AddElement
<1>5. Cardinality({a} \cup {x}) <= Cardinality(S)
  BY <1>1, FS_Subset
<1> QED BY <1>1, <1>4, <1>5

LEMMA Directories ==
           /\ Library \subseteq Dir /\ Scanned \subseteq Dir /\ Online \subseteq Scanned
           /\ Online \subseteq Library /\ Root \in Dir /\ Orphans \in Dir /\ Orphans \in Scanned
           /\ Root # Orphans /\ Root \notin Library /\ Orphans \notin Library
BY TapeFilesAssumption DEF Library, Dir, Scanned

\* What a scan has found is typed, beside the rows and files.
Scan == [want : [FileName -> Scanned \cup {Root}], clash : BOOLEAN, crossed : BOOLEAN]
ScanTyped == scan \in [Proc -> Scan]

LEMMA FoundIs ==
    ASSUME NEW w \in [FileName -> Scanned \cup {Root}], NEW c \in BOOLEAN, NEW x \in BOOLEAN
    PROVE  /\ Found(w, c, x) \in Scan /\ Found(w, c, x).want = w /\ Found(w, c, x).clash = c
           /\ Found(w, c, x).crossed = x
BY DEF Found, Scan

LEMMA NoScanIs == NoScan \in Scan
BY FoundIs DEF NoScan

LEMMA CrossedIs ==
    ASSUME NEW r \in Scan, NEW x \in BOOLEAN
    PROVE  LET s == [r EXCEPT !.crossed = x] IN
           s \in Scan /\ s.want = r.want /\ s.clash = r.clash /\ s.crossed = x
BY DEF Scan

\* Of another process a step of a pass of p leaves what it has found, and what
\* is not spoilt after it was not outdated.
LEMMA NextScan ==
    ASSUME ScanTyped, NEW p \in Proc, NEW s \in Scan, ScanNext(p, s)
    PROVE  /\ ScanTyped' /\ scan'[p] = s
           /\ \A q \in Proc \ {p} :
                 /\ scan'[q].want = scan[q].want /\ scan'[q].clash = scan[q].clash
                 /\ ~scan'[q].crossed => /\ ~scan[q].crossed
                                         /\ pc[q] \in Passing => ~Outdated(p, Cur(q).name)
<1>1. scan' = [q \in Proc |->
                  IF q = p THEN s
                  ELSE IF pc[q] \in Passing /\ Outdated(p, Cur(q).name)
                       THEN [scan[q] EXCEPT !.crossed = TRUE] ELSE scan[q]]
  BY DEF ScanNext
<1>2. ASSUME NEW q \in Proc
      PROVE  LET r == [scan[q] EXCEPT !.crossed = TRUE] IN
             /\ scan[q] \in Scan /\ r \in Scan /\ r.want = scan[q].want /\ r.clash = scan[q].clash
             /\ r.crossed
  <2>1. scan[q] \in Scan
    BY DEF ScanTyped
  <2> QED BY <2>1, CrossedIs
<1>3. ASSUME NEW q \in Proc PROVE scan'[q] \in Scan
  BY <1>1, <1>2
<1>4. ScanTyped'
  BY <1>1, <1>3 DEF ScanTyped
<1>5. ASSUME NEW q \in Proc \ {p}
      PROVE  /\ scan'[q].want = scan[q].want /\ scan'[q].clash = scan[q].clash
             /\ ~scan'[q].crossed => /\ ~scan[q].crossed
                                     /\ pc[q] \in Passing => ~Outdated(p, Cur(q).name)
  <2>1. CASE pc[q] \in Passing /\ Outdated(p, Cur(q).name)
    <3>1. scan'[q] = [scan[q] EXCEPT !.crossed = TRUE]
      BY <1>1, <2>1
    <3> QED BY <1>2, <3>1
  <2>2. CASE ~(pc[q] \in Passing /\ Outdated(p, Cur(q).name))
    <3>1. scan'[q] = scan[q]
      BY <1>1, <2>2
    <3> QED BY <2>2, <3>1
  <2> QED BY <2>1, <2>2
<1> QED BY <1>1, <1>4, <1>5

\* A tape of an online library, with its image, is one that a scan finds.
LEMMA OwnImage ==
    ASSUME TapesInv, NEW i \in Id, rows[i].lib \in Online, Kept(i)
    PROVE  LET n == rows[i].name
               l == rows[i].lib
           IN  /\ n \in FileName /\ rows[i].path = <<l, n>> /\ l \in Library /\ l \in Scanned
               /\ file[rows[i].path] # 0 /\ file[rows[i].path] \in Inodes(n)
<1> PICK n : n = rows[i].name
  OBVIOUS
<1> PICK l \in Online : l = rows[i].lib
  OBVIOUS
<1>1. rows[i].name \in Name /\ Name \subseteq FileName
  BY RowSays, TapeFilesAssumption DEF Name, FileName
<1>2. rows[i].path = Image(rows[i].lib, rows[i].name)
  BY DEF Kept
<1>3. n \in FileName /\ rows[i].path = <<l, n>> /\ l \in Library /\ l \in Scanned
  BY <1>1, <1>2, Directories DEF Image
<1>4. file[rows[i].path] # 0
  BY DEF Kept, Holds
<1>5. file[<<l, n>>] \in Inodes(n)
  BY <1>3, <1>4 DEF Inodes
<1> QED BY <1>3, <1>4, <1>5

LEMMA NoConflict ==
    ASSUME TapesInv, ~Conflict, NEW i \in Id, rows[i].lib \in Online, Kept(i),
           NEW x \in Inodes(rows[i].name)
    PROVE  x = file[rows[i].path]
<1> PICK n : n = rows[i].name
  OBVIOUS
<1> PICK l \in Online : l = rows[i].lib
  OBVIOUS
<1> PICK len \in Nat : len = Len(data)
  BY FilesSay
<1>1. n \in FileName /\ rows[i].path = <<l, n>> /\ l \in Scanned
  <2>1. rows[i].name \in Name /\ Name \subseteq FileName
    BY RowSays, TapeFilesAssumption DEF Name, FileName
  <2>2. rows[i].path = Image(rows[i].lib, rows[i].name)
    BY DEF Kept
  <2> QED BY <2>1, <2>2, Directories DEF Image
<1>2. Inodes(n) \subseteq 1 .. len
  <2> SUFFICES ASSUME NEW y \in Inodes(n) PROVE y \in 1 .. len
    OBVIOUS
  <2>1. PICK d \in Scanned : y = file[<<d, n>>] /\ y # 0
    BY DEF Inodes
  <2>2. <<d, n>> \in Dir \X FileName
    BY <1>1, Directories
  <2>3. y \in 0 .. len
    BY <2>1, <2>2, FilesSay
  <2> QED BY <2>1, <2>3, NewInode
<1>3. ~(Cardinality(Inodes(n)) > 1)
  BY <1>1 DEF Conflict
<1>4. file[rows[i].path] \in Inodes(n)
  BY <1>1 DEF Inodes, Kept, Holds
<1> QED BY <1>2, <1>3, <1>4, OneOnly

\* A pass links, moves or removes what is there under the same name, and leaves
\* the directories of the libraries.
LEMMA PassFiles ==
    ASSUME TapesInv, UNCHANGED data, file' = [f \in Dir \X FileName |-> file'[f]],
           \A l \in Library, n \in FileName : file'[<<l, n>>] = file[<<l, n>>],
           \A d \in Dir, n \in FileName :
               file'[<<d, n>>] = 0 \/ \E c \in Dir : file'[<<d, n>>] = file[<<c, n>>]
    PROVE  FilesTyped'
<1>1. \A f \in Dir \X FileName : file'[f] \in 0 .. Len(data')
  <2> TAKE f \in Dir \X FileName
  <2>1. PICK d \in Dir, n \in FileName : f = <<d, n>>
    OBVIOUS
  <2>2. CASE file'[<<d, n>>] = 0
    <3>1. 0 \in 0 .. Len(data)
      BY FilesSay
    <3> QED BY <2>1, <2>2, <3>1
  <2>3. CASE file'[<<d, n>>] # 0
    <3>1. PICK c \in Dir : file'[<<d, n>>] = file[<<c, n>>]
      BY <2>3
    <3>2. <<c, n>> \in Dir \X FileName
      OBVIOUS
    <3>3. file[<<c, n>>] \in 0 .. Len(data)
      BY <3>2, FilesSay
    <3> QED BY <2>1, <3>1, <3>3
  <2> QED BY <2>2, <2>3
<1>2. \A d, e \in Dir, m, n \in FileName :
          file'[<<d, m>>] = file'[<<e, n>>] /\ file'[<<d, m>>] # 0 => m = n
  <2> TAKE d, e \in Dir, m, n \in FileName
  <2> SUFFICES ASSUME file'[<<d, m>>] = file'[<<e, n>>], file'[<<d, m>>] # 0 PROVE m = n
    OBVIOUS
  <2>1. PICK b \in Dir : file'[<<d, m>>] = file[<<b, m>>]
    OBVIOUS
  <2>2. PICK c \in Dir : file'[<<e, n>>] = file[<<c, n>>]
    OBVIOUS
  <2>3. file[<<b, m>>] = file[<<c, n>>] /\ file[<<b, m>>] # 0
    BY <2>1, <2>2
  <2> QED BY <2>3, FilesSay
<1>3. \A l, k \in Library, n \in FileName :
          file'[<<l, n>>] = file'[<<k, n>>] /\ file'[<<l, n>>] # 0 => l = k
  <2> TAKE l, k \in Library, n \in FileName
  <2>1. file'[<<l, n>>] = file[<<l, n>>] /\ file'[<<k, n>>] = file[<<k, n>>]
    OBVIOUS
  <2>2. file[<<l, n>>] = file[<<k, n>>] /\ file[<<l, n>>] # 0 => l = k
    BY FilesSay
  <2> QED BY <2>1, <2>2
<1>4. \E S : data' \in Seq(S)
  BY FilesSay
<1> QED BY <1>1, <1>2, <1>3, <1>4, FilesNext

\* What a step of a pass of p has to do for tape n, and for its own tape.
LEMMA PassSame ==
    ASSUME TapesInv, UNCHANGED <<catalogue, data>>, NEW n \in FileName,
           \A l \in Library : file'[<<l, n>>] = file[<<l, n>>],
           \A q \in Proc, i \in Named(n) :
               /\ pc'[q] = pc[q] /\ pc[q] \in Passing /\ Cur(q).name = n
               /\ rows[i].lib \in Online /\ Kept(i) /\ Reached(q, i)
               => Reached(q, i)'
    PROVE  Same(n)
<1>1. SameRows(n)
  BY RowsStill
<1> QED BY <1>1 DEF Same, SameRows

LEMMA PassOn ==
    ASSUME TapesInv, NEW p \in Proc, pc[p] \in {"link", "relink", "orphan"},
           NEW l \in Passing, Goto(p, l), UNCHANGED <<catalogue, data, job, disturbed>>,
           FilesTyped', \A n \in FileName : Same(n),
           \A i \in Id : rows[i].lib \in Online /\ Kept(i) /\ rows[i].name = Cur(p).name
                         /\ (pc[p] \in Passing => Reached(p, i)) => Reached(p, i)'
    PROVE  TapesInv'
<1> PICK n : n = Cur(p).name
  OBVIOUS
<1>1. n \in FileName /\ n \in job[p].names /\ JobTyped(p) /\ JobsTyped /\ job[p].lib \in Online
      /\ lastId \in Nat
  BY Command0 DEF JobTyped
<1>2. /\ RowsTyped' /\ IdsGrow /\ lastId' \in Nat /\ rows' = rows /\ Id' = Id
      /\ lastId' = lastId /\ (\A m : Named(m)' = Named(m))
  BY RowsStill
<1>3. ~Moving(p, n)
  BY DEF Moving
<1>4. Moves(p) /\ JobTyped(p)' /\ job'[p] = job[p] /\ pc'[p] = l /\ Cur(p)' = Cur(p)
  BY <1>1, <1>2, GoesOn DEF Steps, LookedUp, HasPath, Passing
<1>5. ASSUME n \notin disturbed PROVE Own(p, n)
  <2>1. (\A i \in Named(n) : Kept(i)) /\ Working(p, n)
    BY <1>5, OwnTape
  <2>2. ASSUME job'[p].id \in Id', rows'[job'[p].id].lib = job'[p].lib
        PROVE  Reached(p, job[p].id)'
    <3> PICK i : i = job[p].id
      OBVIOUS
    <3>1. i \in Id /\ rows[i].lib \in Online /\ rows[i].lib = job[p].lib
      BY <1>1, <1>2, <1>4, <2>2
    <3>2. rows[i].name = n
      <4>1. pc[p] \in LookedUp
        BY DEF LookedUp
      <4> QED BY <1>1, <3>1, <4>1 DEF JobTyped
    <3>3. Kept(i)
      BY <2>1, <3>1, <3>2 DEF Named
    <3>4. pc[p] \in Passing => Reached(p, i)
      BY <2>1, <3>1 DEF Working
    <3>5. Reached(p, i)'
      BY <3>1, <3>2, <3>3, <3>4
    <3> QED BY <3>5 DEF Reached
  <2>3. Working(p, n)'
    BY <1>4, <2>2 DEF Working, Passing
  <2> QED BY <1>1, <1>3, <1>5, <2>3, OwnSame
<1>6. job'[p].names \subseteq job[p].names
  BY <1>4
<1> QED BY <1>1, <1>2, <1>4, <1>5, <1>6, StepOn

LEMMA PassOver ==
    ASSUME TapesInv, NEW p \in Proc, pc[p] \in Passing, NextItem(p, "assign"),
           UNCHANGED <<catalogue, data, disturbed>>, FilesTyped', \A n \in FileName : Same(n)
    PROVE  TapesInv'
<1> PICK n : n = Cur(p).name
  OBVIOUS
<1>1. n \in FileName /\ n \in job[p].names /\ JobTyped(p) /\ JobsTyped /\ job[p].lib \in Online
      /\ lastId \in Nat /\ pc[p] \notin {"idle", "drop"}
  BY Command0 DEF JobTyped, Passing
<1>2. /\ RowsTyped' /\ IdsGrow /\ lastId' \in Nat /\ rows' = rows /\ Id' = Id
      /\ lastId' = lastId /\ (\A m : Named(m)' = Named(m))
  BY RowsStill
<1>3. lastId' >= lastId
  BY <1>1, <1>2, NotLess
<1>4. /\ Moves(p) /\ JobTyped(p)' /\ pc'[p] \in {"idle", "assign"}
      /\ job'[p].names \subseteq job[p].names
  BY <1>1, <1>2, <1>3, NextMoves
<1>5. pc'[p] \in Resting /\ ~Moving(p, n)
  BY <1>4 DEF Resting, Moving, Passing
<1>6. n \notin disturbed => Own(p, n)
  BY <1>1, <1>5, RestingWorks, OwnSame
<1> QED BY <1>1, <1>2, <1>4, <1>5, <1>6, StepOn

\* The scan: of a tape with no conflict it finds the image.
LEMMA ScansTapes ==
    ASSUME TapesInv, ScanTyped, NEW p \in Proc, link_kernel_tapes(p)
    PROVE  TapesInv' /\ ScanTyped'
<1>1. /\ pc[p] = "link" /\ Goto(p, "relink")
      /\ UNCHANGED <<catalogue, file, data, job, disturbed>>
  BY DEF link_kernel_tapes
<1>2. PICK want \in [FileName -> Scanned \cup {Root}] :
          /\ \A n \in FileName : IF Inodes(n) = {} THEN want[n] = Root
                                 ELSE want[n] # Root /\ file[<<want[n], n>>] # 0
          /\ scan' = [scan EXCEPT ![p] = Found(want, Conflict, FALSE)]
  BY DEF link_kernel_tapes
<1> DEFINE s == Found(want, Conflict, FALSE)
<1>3. s \in Scan /\ s.want = want /\ s.clash = Conflict
  BY FoundIs DEF Conflict
<1>4. /\ scan'[p] = s /\ ScanTyped' /\ \A q \in Proc \ {p} : scan'[q] = scan[q]
  <2>1. PICK t \in Scan : t = s
    BY <1>3
  <2>2. scan = [q \in Proc |-> scan[q]] /\ scan' = [scan EXCEPT ![p] = t]
    BY <1>2, <2>1 DEF ScanTyped
  <2>3. scan' = [q \in Proc |-> IF q = p THEN t ELSE scan[q]]
    BY <2>2
  <2> HIDE DEF s
  <2> QED BY <2>1, <2>3 DEF ScanTyped
<1>5. pc'[p] = "relink" /\ \A q \in Proc \ {p} : pc'[q] = pc[q]
  BY <1>1, Command0 DEF JobsTyped, Goto
<1>6. rows' = rows
  BY <1>1 DEF catalogue
<1>7. ASSUME NEW n \in FileName PROVE Same(n)
  <2>1. ASSUME NEW q \in Proc, NEW i \in Named(n), pc'[q] = pc[q], Reached(q, i)
        PROVE  Reached(q, i)'
    <3>1. q # p /\ scan'[q] = scan[q]
      BY <1>1, <1>4, <1>5, <2>1
    <3> QED BY <1>1, <1>6, <2>1, <3>1 DEF Reached
  <2> QED BY <1>1, <2>1, PassSame
<1>8. ASSUME NEW i \in Id, rows[i].lib \in Online, Kept(i)
      PROVE  Reached(p, i)'
  <2> PICK n : n = rows[i].name
    OBVIOUS
  <2>1. n \in FileName /\ file[rows[i].path] \in Inodes(n)
    BY <1>8, OwnImage
  <2>2. ASSUME ~Conflict PROVE \A x \in Inodes(n) : x = file[rows[i].path]
    BY <1>8, <2>2, NoConflict
  <2>3. want[n] \in Scanned /\ file[<<want[n], n>>] # 0
    BY <1>2, <2>1
  <2>4. file[<<want[n], n>>] \in Inodes(n)
    BY <2>3 DEF Inodes
  <2>5. \A d \in Scanned : file[<<d, n>>] = 0 \/ file[<<d, n>>] \in Inodes(n)
    BY DEF Inodes
  <2> HIDE DEF s
  <2> QED BY <1>1, <1>3, <1>4, <1>5, <1>6, <2>2, <2>3, <2>4, <2>5 DEF Reached
<1>9. FilesTyped'
  BY <1>1, Command0 DEF FilesTyped
<1> QED BY <1>1, <1>4, <1>7, <1>8, <1>9, PassOn DEF Passing

\* The links: an image that was found, and is still there, is linked.
LEMMA RelinksTapes ==
    ASSUME TapesInv, ScanTyped, NEW p \in Proc, LinkRoots(p)
    PROVE  TapesInv' /\ ScanTyped'
<1> DEFINE found == {n \in FileName \ Missed(p) : Source(p, n) # 0}
           replaced == {n \in found : file[<<Root, n>>] \notin {0, Source(p, n)}}
           contended == scan[p].crossed \/ Contended(p, Cur(p).name)
<1>1. pc[p] = "relink" /\ UNCHANGED <<catalogue, data, disturbed>> /\ rows' = rows
  BY DEF LinkRoots, catalogue
<1>2. PICK linked \in SUBSET found, lost \in {{}} \cup {{n} : n \in replaced} :
          /\ lost \cap linked = {}
          /\ file' = [f \in DOMAIN file |->
                         IF f[1] # Root \/ f[2] \notin linked \cup lost THEN file[f]
                         ELSE IF f[2] \in lost THEN 0 ELSE Source(p, f[2])]
          /\ IF linked = FileName \ Missed(p)
             THEN /\ Goto(p, "orphan") /\ UNCHANGED job
                  /\ ScanNext(p, [scan[p] EXCEPT !.crossed = contended])
             ELSE PassEnds(p)
  BY DEF LinkRoots
<1>3. lost \subseteq replaced
  OBVIOUS
<1>4. DOMAIN file = Dir \X FileName
  BY FilesSay
<1>5. ASSUME NEW d \in Dir, NEW n \in FileName
      PROVE  file'[<<d, n>>] = IF d # Root \/ n \notin linked \cup lost THEN file[<<d, n>>]
                               ELSE IF n \in lost THEN 0 ELSE Source(p, n)
  <2>1. <<d, n>> \in Dir \X FileName /\ <<d, n>>[1] = d /\ <<d, n>>[2] = n
    OBVIOUS
  <2> HIDE DEF found, replaced
  <2> QED BY <1>2, <1>4, <2>1
<1>6. scan[p] \in Scan /\ [scan[p] EXCEPT !.crossed = contended] \in Scan
      /\ [scan[p] EXCEPT !.crossed = contended].want = scan[p].want
      /\ [scan[p] EXCEPT !.crossed = contended].clash = scan[p].clash
      /\ [scan[p] EXCEPT !.crossed = contended].crossed = contended
  <2>1. scan[p] \in Scan /\ scan[p].crossed \in BOOLEAN
    BY DEF ScanTyped, Scan
  <2>2. contended \in BOOLEAN
    BY <2>1 DEF Contended
  <2> HIDE DEF contended
  <2> QED BY <2>1, <2>2, CrossedIs
<1>7. PICK s \in Scan : ScanNext(p, s)
                        /\ (linked = FileName \ Missed(p) => s = [scan[p] EXCEPT !.crossed = contended])
  <2> HIDE DEF found, replaced, contended
  <2> QED BY <1>2, <1>6, NoScanIs DEF PassEnds
<1>8. /\ ScanTyped' /\ scan'[p] = s
      /\ \A q \in Proc \ {p} :
            /\ scan'[q].want = scan[q].want /\ scan'[q].clash = scan[q].clash
            /\ ~scan'[q].crossed => /\ ~scan[q].crossed
                                    /\ pc[q] \in Passing => ~Outdated(p, Cur(q).name)
  BY <1>7, NextScan
<1>9. \A n \in FileName \ Missed(p) : scan[p].want[n] \in Scanned
  BY <1>6 DEF Scan, Missed
<1>10. FilesTyped'
  <2>1. \A l \in Library, n \in FileName : file'[<<l, n>>] = file[<<l, n>>]
    BY <1>5, Directories
  <2>2. ASSUME NEW d \in Dir, NEW n \in FileName
        PROVE  file'[<<d, n>>] = 0 \/ \E c \in Dir : file'[<<d, n>>] = file[<<c, n>>]
    <3>1. n \in linked => scan[p].want[n] \in Dir
      BY <1>9, Directories
    <3> HIDE DEF found, replaced
    <3> QED BY <1>5, <3>1 DEF Source
  <2>3. file' = [f \in Dir \X FileName |-> file'[f]]
    BY <1>2, <1>4
  <2> QED BY <1>1, <2>1, <2>2, <2>3, PassFiles
<1>11. pc'[p] # pc[p]
  <2>1. CASE linked = FileName \ Missed(p)
    <3>1. Goto(p, "orphan") /\ UNCHANGED job
      BY <1>2, <2>1
    <3> QED BY <1>1, <3>1, Command0, GotoMoves
  <2>2. CASE linked # FileName \ Missed(p)
    <3>1. NextItem(p, "assign")
      BY <1>2, <2>2 DEF PassEnds
    <3> QED BY <1>1, <3>1, Command0 DEF NextItem, End, Goto, JobsTyped
  <2> QED BY <2>1, <2>2
\* The image that the scan of p has found is that of the tape.
<1>12. ASSUME NEW i \in Id, NEW n \in FileName, n = rows[i].name, NEW own, own = file[rows[i].path],
              \A d \in Scanned : file[<<d, n>>] \in {0, own}, rows[i].lib \in Online, Kept(i)
       PROVE  /\ file'[rows[i].path] = own /\ \A d \in Scanned : file'[<<d, n>>] = file[<<d, n>>]
              /\ n \notin Missed(p) /\ Source(p, n) # 0 => Source(p, n) = own
              /\ ~Outdated(p, n) => n \notin Missed(p) /\ Source(p, n) # 0
              /\ ~Outdated(p, n) /\ file[<<Root, n>>] = own => file'[<<Root, n>>] = own
  <2>1. /\ rows[i].path = <<rows[i].lib, n>> /\ rows[i].lib \in Library
        /\ file[rows[i].path] \in Inodes(n)
    BY <1>12, OwnImage
  <2>2. file'[rows[i].path] = own
    BY <1>5, <1>12, <2>1, Directories
  <2>3. \A d \in Scanned : file'[<<d, n>>] = file[<<d, n>>]
    <3>1. \A d \in Scanned : d \in Dir /\ d # Root
      BY Directories DEF Scanned
    <3> QED BY <1>5, <3>1
  <2>4. n \notin Missed(p) /\ Source(p, n) # 0 => Source(p, n) = own
    BY <1>9, <1>12 DEF Source
  <2>5. ~Outdated(p, n) => n \notin Missed(p) /\ Source(p, n) # 0
    BY <2>1 DEF Outdated
  <2>6. ~Outdated(p, n) /\ file[<<Root, n>>] = own => file'[<<Root, n>>] = own
    <3>1. n \in lost => file[<<Root, n>>] # Source(p, n)
      BY <1>3
    <3> HIDE DEF found, replaced
    <3> QED BY <1>5, <2>4, <2>5, <3>1, Directories
  <2> QED BY <2>2, <2>3, <2>4, <2>5, <2>6
<1>13. ASSUME NEW n \in FileName PROVE Same(n)
  <2>1. ASSUME NEW q \in Proc, NEW i \in Named(n), pc'[q] = pc[q], pc[q] \in Passing,
               Cur(q).name = n, rows[i].lib \in Online, Kept(i), Reached(q, i)
        PROVE  Reached(q, i)'
    <3>1. q # p /\ i \in Id /\ n = rows[i].name
      BY <1>11, <2>1 DEF Named
    <3> PICK own : own = file[rows[i].path]
      OBVIOUS
    <3> PICK t : t = scan'[q]
      OBVIOUS
    <3>2. t.want = scan[q].want /\ t.clash = scan[q].clash
          /\ (~t.crossed => ~scan[q].crossed /\ ~Outdated(p, n))
      BY <1>8, <2>1, <3>1
    <3>3. CASE t.crossed \/ t.clash
      BY <1>1, <2>1, <3>1, <3>2, <3>3 DEF Reached
    <3>4. CASE ~t.crossed /\ ~t.clash
      <4>1. /\ \A d \in Scanned : file[<<d, n>>] \in {0, own}
            /\ pc[q] \in {"relink", "orphan"} => /\ scan[q].want[n] \in Scanned
                                                 /\ file[<<scan[q].want[n], n>>] = own
            /\ pc[q] \in {"orphan", "ioctl"} => file[<<Root, n>>] = own
        BY <2>1, <3>1, <3>2, <3>4 DEF Reached
      <4>2. /\ file'[rows[i].path] = own /\ \A d \in Scanned : file'[<<d, n>>] = file[<<d, n>>]
            /\ (file[<<Root, n>>] = own => file'[<<Root, n>>] = own)
        BY <1>12, <2>1, <3>1, <3>2, <3>4, <4>1
      <4> QED BY <1>1, <2>1, <3>1, <3>2, <3>4, <4>1, <4>2 DEF Reached
    <3> QED BY <3>3, <3>4
  <2>2. \A l \in Library : file'[<<l, n>>] = file[<<l, n>>]
    BY <1>5, Directories
  <2> QED BY <1>1, <2>1, <2>2, PassSame
<1>14. CASE linked = FileName \ Missed(p)
  <2>1. Goto(p, "orphan") /\ UNCHANGED job /\ s = [scan[p] EXCEPT !.crossed = contended]
    BY <1>2, <1>7, <1>14
  <2>2. pc'[p] = "orphan"
    BY <2>1, Command0, GotoMoves
  <2>3. scan'[p].want = scan[p].want /\ scan'[p].clash = scan[p].clash
        /\ (~scan'[p].crossed => ~scan[p].crossed)
    <3> HIDE DEF contended
    <3>1. contended \/ ~scan[p].crossed
      BY DEF contended
    <3> QED BY <1>6, <1>8, <2>1, <3>1
  <2>4. ASSUME NEW i \in Id, rows[i].lib \in Online, Kept(i), Reached(p, i)
        PROVE  Reached(p, i)'
    <3> PICK n : n = rows[i].name
      OBVIOUS
    <3> PICK own : own = file[rows[i].path]
      OBVIOUS
    <3>1. n \in FileName
      BY <2>4, OwnImage
    <3>2. CASE scan'[p].crossed \/ scan'[p].clash
      BY <1>1, <2>2, <3>2 DEF Reached
    <3>3. CASE ~scan'[p].crossed /\ ~scan'[p].clash
      <4>1. /\ \A d \in Scanned : file[<<d, n>>] \in {0, own}
            /\ scan[p].want[n] \in Scanned /\ file[<<scan[p].want[n], n>>] = own
        BY <1>1, <2>3, <2>4, <3>3 DEF Reached
      <4>2. file'[rows[i].path] = own /\ \A d \in Scanned : file'[<<d, n>>] = file[<<d, n>>]
        BY <1>12, <2>4, <3>1, <4>1
      <4>3. n \in linked
        <5>1. n \notin Missed(p)
          BY <4>1, Directories DEF Missed, Scanned
        <5> QED BY <1>14, <3>1, <5>1
      <4>4. file'[<<Root, n>>] = own
        <5>1. n \notin lost /\ Source(p, n) = own
          BY <1>2, <4>1, <4>3 DEF Source
        <5> HIDE DEF found, replaced
        <5> QED BY <1>5, <3>1, <4>3, <5>1, Directories
      <4> QED BY <1>1, <2>2, <2>3, <4>1, <4>2, <4>4 DEF Reached
    <3> QED BY <3>2, <3>3
  <2> QED BY <1>1, <1>8, <1>10, <1>13, <2>1, <2>4, PassOn DEF Passing
<1>15. CASE linked # FileName \ Missed(p)
  <2>1. NextItem(p, "assign")
    BY <1>2, <1>15 DEF PassEnds
  <2> QED BY <1>1, <1>8, <1>10, <1>13, <2>1, PassOver DEF Passing
<1> QED BY <1>14, <1>15

\* The orphans: what the scan has found stays in the root.
LEMMA OrphansTapes ==
    ASSUME TapesInv, ScanTyped, NEW p \in Proc, MoveOrphans(p)
    PROVE  TapesInv' /\ ScanTyped'
<1> DEFINE stray == {n \in Missed(p) : file[<<Root, n>>] # 0 /\ file[<<Orphans, n>>] = 0}
<1>1. pc[p] = "orphan" /\ UNCHANGED <<catalogue, data, disturbed>> /\ rows' = rows
  BY DEF MoveOrphans, catalogue
<1>2. PICK gone \in SUBSET stray :
          /\ file' = [f \in DOMAIN file |->
                         IF f[2] \notin gone \/ f[1] \notin {Root, Orphans} THEN file[f]
                         ELSE IF f[1] = Root THEN 0 ELSE file[<<Root, f[2]>>]]
          /\ IF gone = stray /\ ~Clash(p)
             THEN Goto(p, "ioctl") /\ ScanNext(p, scan[p]) /\ UNCHANGED job
             ELSE PassEnds(p)
  BY DEF MoveOrphans
<1>3. DOMAIN file = Dir \X FileName
  BY FilesSay
<1>4. ASSUME NEW d \in Dir, NEW n \in FileName
      PROVE  file'[<<d, n>>] = IF n \notin gone \/ d \notin {Root, Orphans} THEN file[<<d, n>>]
                               ELSE IF d = Root THEN 0 ELSE file[<<Root, n>>]
  <2>1. <<d, n>> \in Dir \X FileName /\ <<d, n>>[1] = d /\ <<d, n>>[2] = n
    OBVIOUS
  <2> HIDE DEF stray
  <2> QED BY <1>2, <1>3, <2>1
<1>5. scan[p] \in Scan
  BY DEF ScanTyped
<1>6. PICK s \in Scan : ScanNext(p, s) /\ (gone = stray /\ ~Clash(p) => s = scan[p])
  <2> HIDE DEF stray
  <2> QED BY <1>2, <1>5, NoScanIs DEF PassEnds
<1>7. /\ ScanTyped' /\ scan'[p] = s
      /\ \A q \in Proc \ {p} :
            /\ scan'[q].want = scan[q].want /\ scan'[q].clash = scan[q].clash
            /\ ~scan'[q].crossed => /\ ~scan[q].crossed
                                    /\ pc[q] \in Passing => ~Outdated(p, Cur(q).name)
  BY <1>6, NextScan
<1>8. FilesTyped'
  <2>1. \A l \in Library, n \in FileName : file'[<<l, n>>] = file[<<l, n>>]
    BY <1>4, Directories
  <2>2. \A d \in Dir, n \in FileName :
            file'[<<d, n>>] = 0 \/ \E c \in Dir : file'[<<d, n>>] = file[<<c, n>>]
    <3> HIDE DEF stray
    <3> QED BY <1>4, Directories
  <2>3. file' = [f \in Dir \X FileName |-> file'[f]]
    BY <1>2, <1>3
  <2> QED BY <1>1, <2>1, <2>2, <2>3, PassFiles
<1>9. pc'[p] # pc[p]
  <2>1. CASE gone = stray /\ ~Clash(p)
    <3>1. Goto(p, "ioctl") /\ UNCHANGED job
      BY <1>2, <2>1
    <3> QED BY <1>1, <3>1, Command0, GotoMoves
  <2>2. CASE ~(gone = stray /\ ~Clash(p))
    <3>1. NextItem(p, "assign")
      BY <1>2, <2>2 DEF PassEnds
    <3> QED BY <1>1, <3>1, Command0 DEF NextItem, End, Goto, JobsTyped
  <2> QED BY <2>1, <2>2
<1>10. ASSUME NEW n \in FileName, n \notin gone, NEW d \in Dir
       PROVE  file'[<<d, n>>] = file[<<d, n>>]
  BY <1>4, <1>10
<1>11. ASSUME NEW q \in Proc, NEW i \in Id, NEW n \in FileName \ gone, n = rows[i].name,
              rows[i].lib \in Online, Kept(i), Reached(q, i),
              pc'[q] = pc[q] \/ (pc[q] = "orphan" /\ pc'[q] = "ioctl" /\ ~scan'[q].clash),
              scan'[q].want = scan[q].want, scan'[q].clash = scan[q].clash,
              ~scan'[q].crossed => ~scan[q].crossed
       PROVE  Reached(q, i)'
  <2> PICK l \in Library : rows[i].path = <<l, n>>
    BY <1>11, OwnImage
  <2>1. \A d \in Scanned \cup {Root} : file'[<<d, n>>] = file[<<d, n>>]
    BY <1>10, Directories
  <2>2. file'[rows[i].path] = file[rows[i].path]
    BY <1>10, Directories
  <2>3. \A d \in Scanned : d = scan[q].want[n] =>
            file'[<<scan[q].want[n], n>>] = file[<<scan[q].want[n], n>>]
    BY <2>1
  <2> QED BY <1>1, <1>11, <2>1, <2>2, <2>3 DEF Reached
<1>12. ASSUME NEW n \in FileName PROVE Same(n)
  <2>1. ASSUME NEW q \in Proc, NEW i \in Named(n), pc'[q] = pc[q], pc[q] \in Passing,
               Cur(q).name = n, rows[i].lib \in Online, Kept(i), Reached(q, i)
        PROVE  Reached(q, i)'
    <3>1. q # p /\ i \in Id /\ n = rows[i].name
      BY <1>9, <2>1 DEF Named
    <3> PICK t : t = scan'[q]
      OBVIOUS
    <3>2. t.want = scan[q].want /\ t.clash = scan[q].clash
          /\ (~t.crossed => ~scan[q].crossed /\ ~Outdated(p, n))
      BY <1>7, <2>1, <3>1
    <3>3. CASE t.crossed
      BY <1>1, <2>1, <3>1, <3>2, <3>3 DEF Reached
    <3>4. CASE ~t.crossed
      <4>1. Inodes(n) # {}
        BY <2>1, <3>1, OwnImage
      <4>2. n \notin gone
        BY <3>2, <3>4, <4>1 DEF Outdated
      <4> QED BY <1>11, <2>1, <3>1, <3>2, <3>4, <4>2
    <3> QED BY <3>3, <3>4
  <2>2. \A l \in Library : file'[<<l, n>>] = file[<<l, n>>]
    BY <1>4, Directories
  <2> QED BY <1>1, <2>1, <2>2, PassSame
<1>13. CASE gone = stray /\ ~Clash(p)
  <2>1. Goto(p, "ioctl") /\ UNCHANGED job /\ scan'[p] = scan[p] /\ ~scan[p].clash
    BY <1>2, <1>6, <1>7, <1>13 DEF Clash
  <2>2. pc'[p] = "ioctl"
    BY <2>1, Command0, GotoMoves
  <2>3. ASSUME NEW i \in Id, rows[i].lib \in Online, Kept(i), Reached(p, i)
        PROVE  Reached(p, i)'
    <3> PICK n \in FileName : n = rows[i].name
      BY <2>3, OwnImage
    <3>1. CASE scan[p].crossed
      BY <1>1, <2>1, <2>2, <3>1 DEF Reached
    <3>2. CASE ~scan[p].crossed
      <4>1. scan[p].want[n] \in Scanned
        BY <1>1, <2>1, <2>3, <3>2 DEF Reached
      <4>2. n \notin gone
        BY <4>1, Directories DEF Missed, Scanned
      <4> QED BY <1>1, <1>11, <2>1, <2>2, <2>3, <4>2
    <3> QED BY <3>1, <3>2
  <2> QED BY <1>1, <1>7, <1>8, <1>12, <2>1, <2>3, PassOn DEF Passing
<1>14. CASE ~(gone = stray /\ ~Clash(p))
  <2>1. NextItem(p, "assign")
    BY <1>2, <1>14 DEF PassEnds
  <2> QED BY <1>1, <1>7, <1>8, <1>12, <2>1, PassOver DEF Passing
<1> QED BY <1>13, <1>14

\* The robot is told, and the pass forgotten.
LEMMA TellsTheRobot ==
    ASSUME TapesInv, ScanTyped, NEW p \in Proc, Ioctl(p)
    PROVE  TapesInv' /\ ScanTyped'
<1>1. /\ pc[p] = "ioctl" /\ NextItem(p, "assign") /\ scan' = [scan EXCEPT ![p] = NoScan]
      /\ UNCHANGED <<catalogue, file, data, disturbed>>
  BY DEF Ioctl
<1>2. ScanTyped' /\ \A q \in Proc \ {p} : scan'[q] = scan[q]
  BY <1>1, NoScanIs DEF ScanTyped
<1>3. pc'[p] # pc[p]
  BY <1>1, Command0 DEF NextItem, End, Goto, JobsTyped
<1>4. ASSUME NEW n \in FileName PROVE Same(n)
  <2>1. rows' = rows
    BY <1>1 DEF catalogue
  <2>2. ASSUME NEW q \in Proc, NEW i \in Named(n), pc'[q] = pc[q], Reached(q, i)
        PROVE  Reached(q, i)'
    BY <1>1, <1>2, <1>3, <2>1, <2>2 DEF Reached
  <2> QED BY <1>1, <2>2, PassSame
<1>5. FilesTyped'
  BY <1>1, Command0 DEF FilesTyped
<1> QED BY <1>1, <1>2, <1>4, <1>5, PassOver DEF Passing

\* A command that is killed, between file and row or elsewhere.
LEMMA KillsTapes ==
    ASSUME TapesInv, NEW ps \in SUBSET Proc, TapeKilled(ps)
    PROVE  TapesInv'
<1>1. /\ pc' = [p \in Proc |-> IF p \in ps THEN "idle" ELSE pc[p]]
      /\ job' = [p \in Proc |-> IF p \in ps THEN NoJob ELSE job[p]]
      /\ scan' = [p \in Proc |-> IF p \in ps THEN NoScan ELSE scan[p]]
      /\ disturbed' = disturbed \cup
             {Cur(p).name : p \in {q \in ps : pc[q] \in {"move row", "import row"}}}
      /\ UNCHANGED <<catalogue, file, data>>
  BY DEF TapeKilled
<1>2. Placed /\ IdsGrow /\ lastId' \in Nat /\ Id' = Id /\ (\A n : Named(n)' = Named(n))
  <2>1. RowsTyped /\ FilesTyped
    BY DEF TapesInv, TapesTyped
  <2>2. ScanKept
    BY <1>1 DEF ScanKept, Passing
  <2>3. Placed
    BY <1>1, <2>2, RowsStill DEF Placed
  <2> QED BY <2>1, <2>3, PlacedSame DEF Placed
<1>3. TapesTyped /\ RowsTyped /\ FilesTyped /\ JobsTyped /\ Sole
  BY DEF TapesInv, TapesTyped
<1>4. /\ RowsTyped' /\ FilesTyped' /\ (\A n : Same(n)) /\ \A i \in Id : Kept(i)' <=> Kept(i)
  BY <1>2, <1>3, PlacedSame
<1>5. /\ \A p \in ps : pc'[p] = "idle" /\ job'[p] = NoJob
      /\ \A p \in Proc \ ps : pc'[p] = pc[p] /\ job'[p] = job[p]
  BY <1>1
<1>6. disturbed \subseteq disturbed' /\ disturbed' \subseteq FileName
  <2>1. disturbed \subseteq FileName
    BY <1>3 DEF JobsTyped
  <2>2. \A p \in ps : pc[p] \in {"move row", "import row"} => Cur(p).name \in FileName
    BY Command0
  <2> QED BY <1>1, <2>1, <2>2
<1>7. /\ NoJob.lib = Offline /\ NoJob.names = {} /\ NoJob.id = 0 /\ JobRecord(NoJob)
  BY DEF NoJob, JobRecord
<1>8. JobsTyped'
  <2>1. ASSUME NEW p \in Proc PROVE JobTyped(p)'
    <3>1. CASE p \in ps
      <4>1. pc'[p] = "idle" /\ job'[p] = NoJob
        BY <1>5, <3>1
      <4> QED BY <1>2, <1>7, <4>1 DEF JobTyped, Steps, LookedUp, HasPath, Library, JobRecord
    <3>2. CASE p \notin ps
      BY <1>2, <1>3, <1>4, <1>5, <3>2, OthersTyped
    <3> QED BY <3>1, <3>2
  <2>2. pc' = [p \in Proc |-> pc'[p]] /\ job' = [p \in Proc |-> job'[p]]
    BY <1>1
  <2> QED BY <1>6, <2>1, <2>2 DEF JobsTyped
<1>9. Sole'
  <2> SUFFICES ASSUME NEW n \in FileName \ disturbed', NEW p \in Proc, NEW q \in Proc,
                      n \in job'[p].names, n \in job'[q].names
               PROVE  p = q
    BY DEF Sole
  <2>1. p \notin ps /\ q \notin ps
    BY <1>5, <1>7
  <2>2. n \in job[p].names /\ n \in job[q].names /\ n \in FileName \ disturbed
    BY <1>5, <1>6, <2>1
  <2> QED BY <1>3, <2>2 DEF Sole
<1>10. ASSUME NEW n \in FileName \ disturbed' PROVE Tape(n)'
  <2>1. n \in FileName \ disturbed /\ Tape(n)
    BY <1>6 DEF TapesInv
  <2>2. \A i, j \in Named(n)' : i = j
    BY <1>2, <2>1 DEF Tape
  <2>3. ASSUME \A p \in Proc : ~Moving(p, n)' PROVE \A i \in Named(n)' : Kept(i)'
    <3>1. ASSUME NEW p \in Proc PROVE ~Moving(p, n)
      <4>1. CASE p \in ps
        BY <1>1, <4>1 DEF Moving
      <4>2. CASE p \notin ps
        <5>1. pc'[p] = pc[p] /\ Cur(p)' = Cur(p) /\ ~Moving(p, n)'
          BY <1>5, <2>3, <4>2 DEF Cur
        <5> QED BY <5>1 DEF Moving
      <4> QED BY <4>1, <4>2
    <3>2. \A i \in Named(n) : Kept(i)
      BY <2>1, <3>1 DEF Tape
    <3> QED BY <1>2, <1>4, <3>2 DEF Named
  <2>4. ASSUME NEW p \in Proc, pc'[p] \notin {"idle", "drop"}, Cur(p)'.name = n
        PROVE  Working(p, n)'
    <3>1. p \notin ps
      BY <1>5, <2>4
    <3>2. pc'[p] = pc[p] /\ job'[p] = job[p] /\ Cur(p)' = Cur(p)
      BY <1>5, <3>1 DEF Cur
    <3> QED BY <1>2, <1>3, <1>4, <2>1, <2>4, <3>2, SameWorking
  <2> QED BY <2>2, <2>3, <2>4 DEF Tape
<1> QED BY <1>4, <1>8, <1>9, <1>10 DEF TapesInv, TapesTyped

\* Steps of others.
LEMMA TapesStill ==
    ASSUME TapesInv, ScanTyped, UNCHANGED tapeVars
    PROVE  TapesInv' /\ ScanTyped'
<1>1. UNCHANGED <<catalogue, file, data, scan, pc, job, disturbed>>
  BY DEF tapeVars, files
<1>2. TapeKilled({})
  <2>1. pc = [p \in Proc |-> pc[p]] /\ job = [p \in Proc |-> job[p]]
    BY Command0 DEF TapesInv, TapesTyped, JobsTyped
  <2>2. scan = [p \in Proc |-> scan[p]]
    BY DEF ScanTyped
  <2> QED BY <1>1, <2>1, <2>2 DEF TapeKilled
<1>3. ScanTyped'
  BY <1>1 DEF ScanTyped
<1> QED BY <1>2, <1>3, KillsTapes

\* What is no pass leaves what passes have found.
LEMMA ScanStays ==
    ASSUME ScanTyped, UNCHANGED scan
    PROVE  ScanTyped'
BY DEF ScanTyped

LEMMA KillsScans ==
    ASSUME ScanTyped, NEW ps \in SUBSET Proc, TapeKilled(ps)
    PROVE  ScanTyped'
BY NoScanIs DEF ScanTyped, TapeKilled

LEMMA StepsKeepTapes ==
    ASSUME TapesInv, ScanTyped, NEW p \in Proc, TapeStep(p)
    PROVE  TapesInv' /\ ScanTyped'
<1>1. CASE create_tape(p) \/ CreateFile(p) \/ InsertRow(p)
  <2>1. UNCHANGED scan
    BY <1>1 DEF create_tape, CreateFile, InsertRow, Put, files
  <2> QED BY <1>1, <2>1, ScanStays, Creates, CreatesFile, InsertsRow
<1>2. CASE DeleteRow(p) \/ RemoveImage(p) \/ InitImage(p) \/ DropShelf(p) \/ PlaceRow(p)
  <2>1. UNCHANGED scan
    BY <1>2 DEF DeleteRow, RemoveImage, InitImage, DropShelf, PlaceRow, files
  <2> QED BY <1>2, <2>1, ScanStays, DeletesRow, RemovesImage, InitsImage, Drops, Places
<1>3. CASE MoveCheck(p) \/ MoveFile(p) \/ MoveRow(p)
  <2>1. UNCHANGED scan
    BY <1>3 DEF MoveCheck, MoveFile, MoveRow, Rename, files
  <2> QED BY <1>3, <2>1, ScanStays, MoveChecks, MovesFile, MovesRow
<1>4. CASE AssignRow(p) \/ ImportCheck(p) \/ ImportFile(p) \/ ImportRow(p)
  <2>1. UNCHANGED scan
    BY <1>4 DEF AssignRow, ImportCheck, ImportFile, ImportRow, Rename, files
  <2> QED BY <1>4, <2>1, ScanStays, Assigns, ImportChecks, ImportsFile, ImportsRow
<1>5. CASE CopySnapshot(p) \/ CopyImport(p) \/ ImportedRow(p)
  <2>1. UNCHANGED scan
    <3>1. CASE CopySnapshot(p)
      BY <3>1 DEF CopySnapshot, Put, files
    <3>2. CASE CopyImport(p)
      BY <3>2 DEF CopyImport, Put
    <3>3. CASE ImportedRow(p)
      BY <3>3 DEF ImportedRow, files
    <3> QED BY <1>5, <3>1, <3>2, <3>3
  <2> QED BY <1>5, <2>1, ScanStays, CopiesSnapshot, CopiesImport, ImportsTape
<1>6. CASE link_kernel_tapes(p) \/ LinkRoots(p) \/ MoveOrphans(p) \/ Ioctl(p)
  BY <1>6, ScansTapes, RelinksTapes, OrphansTapes, TellsTheRobot
<1> QED BY <1>1, <1>2, <1>3, <1>4, <1>5, <1>6 DEF TapeStep
=============================================================================
