------------------------------ MODULE Elements ------------------------------
(***************************************************************************)
(* The element address space of one virtual medium changer                 *)
(* (kernel/include/vtl.h): storage slots have addresses 0, 1, ...,     *)
(* drives DriveBase + i, import/export mail slots IEBase + i.  The arrays  *)
(* of struct vtl_changer have a fixed size; the geometry in force          *)
(* (num_slots, num_drives) says which part of them is in use.              *)
(***************************************************************************)
EXTENDS Integers

CONSTANTS
    Address,       \* the element addresses callers use, valid or not
    Tape,          \* the media (struct vtl_tape), identified by their names
    NoTape,        \* the NULL tape pointer, or an empty tape name
    MaxSlots,      \* VTL_MAX_SLOTS
    MaxDrives,     \* VTL_MAX_DRIVES
    NumMailslots,  \* num_mailslots: set when the host is built, never changed
    DriveBase,     \* VTL_ELEM_DRIVE_BASE (1000)
    IEBase         \* VTL_ELEM_IE_BASE (2000)

Slot     == 0 .. MaxSlots - 1
Drive    == DriveBase .. DriveBase + MaxDrives - 1
Mailslot == IEBase .. IEBase + NumMailslots - 1
Element  == Slot \cup Drive \cup Mailslot

Content  == Tape \cup {NoTape}

ASSUME ElementAssumption ==
    /\ Address \subseteq Int
    /\ NoTape \notin Tape
    /\ MaxSlots \in Nat /\ MaxDrives \in Nat /\ NumMailslots \in Nat
    /\ DriveBase \in Nat /\ IEBase \in Nat
    /\ MaxSlots >= 1 /\ MaxDrives >= 1
    /\ MaxSlots <= DriveBase
    /\ DriveBase + MaxDrives <= IEBase
    /\ Element \subseteq Address

\* How an address given by a caller is classified: only by the two bases.
NamesSlot(a)  == a < DriveBase
NamesDrive(a) == a >= DriveBase /\ a < IEBase

\* The address denotes an element of the geometry in force.
InGeometry(a, slots, drives) ==
    \/ NamesSlot(a) /\ a >= 0 /\ a < slots
    \/ NamesDrive(a) /\ a - DriveBase < drives
    \/ a >= IEBase /\ a < IEBase + NumMailslots

\* The errno values the operations of a changer return (0 is "ok").
Code == {"ok", "EINVAL", "ENODEV", "EBUSY", "ENOENT", "EIO"}
=============================================================================
