SPECIFICATION Spec
CONSTANTS
    Tape = {t1, t2}
    NoTape = NoTape
    MaxSlots = 1
    MaxDrives = 1
    NumMailslots = 1
    DriveBase = 20
    IEBase = 40
    Address = {0, 1, 20, 40}
    Proc = {p1}
    MailOffset = 10
    SlotNumber = {0, 1, 10}
    ImportNumber = {0}
    DriveNumber = {0, 1}
    AutoPull = TRUE
    NoSlot <- NullSlot
SYMMETRY Symmetric
INVARIANTS TypeOK RowsAgree CommandsKeepStep PassesClean
PROPERTY EvacuatesOnlyOut
