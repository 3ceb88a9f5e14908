SPECIFICATION LiveSpec
CONSTANTS
  Tape = {t1}
  NoTape = NoTape
  MaxSlots = 2
  MaxDrives = 1
  NumMailslots = 0
  DriveBase = 1000
  IEBase = 2000
  Address <- Element
  Proc = {p1, p2}
  NoProc = NoProc
  InitSlots = 2
  InitDrives = 1
PROPERTY AtomicStore
PROPERTY GeometryStable
PROPERTY CallsReturn
