SPECIFICATION Spec
CONSTANTS
  Tape = {t1}
  NoTape = NoTape
  Proc = {p1, p2}
  NoProc = NoProc
  Opened = {t1}
  Size = 2
  Data = {d1}
  Blank = Blank
  Wrap = 8
  Lengths = {1}
  Counts <- MCCounts
PROPERTY GoodWriteRecords
