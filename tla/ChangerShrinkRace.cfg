SPECIFICATION SpecNoEject
CONSTANTS
  Tape = {t1}
  NoTape = NoTape
  MaxSlots = 2
  MaxDrives = 1
  NumMailslots = 1
  DriveBase = 1000
  IEBase = 2000
  Address <- MCAddress
  Proc = {p1, p2}
  NoProc = NoProc
  InitSlots = 2
  InitDrives = 1
INVARIANT NoOrphan
SYMMETRY Sym
