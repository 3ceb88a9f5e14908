------------------------ MODULE TapeDriveProperties -------------------------
(***************************************************************************)
(* What is checked and proved about module TapeDrive.                      *)
(***************************************************************************)
EXTENDS TapeDrive

\* The type invariant of a drive, its media and its commands.
TypeOK ==
    /\ loaded \in Tape \cup {NoTape}
    /\ atFilemark \in BOOLEAN
    /\ position \in [Tape -> Nat] /\ used \in [Tape -> Nat]
    /\ image \in [Tape -> [Block -> Content]]
    /\ drvLock \in Proc \cup {NoProc}
    /\ tapeLock \in [Tape -> Proc \cup {NoProc}]
    /\ pc \in [Proc -> PC]
    /\ cmd \in [Proc -> Command]
    /\ cur \in [Proc -> Tape \cup {NoTape}]

\* READ POSITION and the next transfer start on the medium: no command, in any
\* order, with any count, takes a position or the high-water mark past the
\* capacity (vtl_tape_write computes capacity - pos unsigned).
OnMedium ==
    \A t \in Tape : position[t] <= capacity[t] /\ used[t] <= capacity[t]

\* Everything recorded lies below the high-water mark: what meta.used says is
\* in use covers every block that was ever written.
UsedCoversData ==
    \A t \in Tape, b \in Block : image[t][b] # Blank => b < used[t]

\* tape->lock is held exactly by the transfer or unload that works on that
\* tape, so two commands never work on one tape at once, even when the robot
\* has taken it out of the drive or swapped it meanwhile.
OneAtATime ==
    \A p \in Proc, t \in Tape :
        tapeLock[t] = p <=> pc[p] = "io" /\ cur[p] = t

\* A recorded block changes only when a WRITE that picked up that very tape
\* passes over it, from the position where the tape stands: swapping tapes
\* under a running command never redirects its data to another tape.
OnlyWritesChangeData == [][
    \A t \in Tape, b \in Block : image'[t][b] # image[t][b] =>
        \E p \in Proc :
            /\ pc[p] = "io" /\ cmd[p].op = "write" /\ cur[p] = t
            /\ position[t] <= b /\ b < position'[t]
            /\ image'[t][b] = cmd[p].data
    ]_vars

\* Every SCSI command that arrived is answered, unless it dereferenced the
\* NULL pointer of a drive the robot had emptied meanwhile: no order of
\* drv->lock and tape->lock leaves a command waiting for ever.
CommandsReturn == \A p \in Proc : pc[p] # "idle" ~> pc[p] \in {"idle", "oops"}

-----------------------------------------------------------------------------
(* What the documents say and the code does not do                         *)

\* README.md ("using the tape device") writes files to /dev/st0 and reads them
\* back: a WRITE that answers GOOD has recorded what it was given.
GoodWriteRecords == [][
    \A p \in Proc : Write(p) =>
        position'[cur[p]] = position[cur[p]] + cmd[p].n
    ]_vars
=============================================================================
