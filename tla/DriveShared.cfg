SPECIFICATION LiveSpec
CONSTANTS
  Tape = {t1, t2}
  NoTape = NoTape
  Proc = {p1, p2}
  NoProc = NoProc
  Opened = {t2}
  Size = 1
  Data = {d1}
  Blank = Blank
  Wrap = 8
  Lengths = {1}
  Counts <- MCCounts
INVARIANT TypeOK
INVARIANT OnMedium
INVARIANT UsedCoversData
PROPERTIES OnlyWritesChangeData CommandsReturn
