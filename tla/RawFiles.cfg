\* Two uploads at a time of two bodies under names that meet, one fault.
SPECIFICATION Spec
CONSTANTS
  long = long  short = short
  None = None
  Conns = {c1, c2}
  Bodies = {long, short}
  Size <- MCSize
  Names <- MCNames
  MaxName = 3
  Timestamp <- MCTimestamp
  MaxSecond = 1
  MaxFaults = 1
SYMMETRY Symmetric
INVARIANTS TypeOK AnsweredKept PlainFiles
