CONSTANTS
  Proc = {p, q}
  FdMax = 2
  MaxPipes = 1
  BufSize = 3
  Byte = {x, y}
  NoByte = NoByte
  MaxCount = 3
SPECIFICATION Spec
INVARIANTS
  TypeOK
  PipeIsAStream
  RefsCountOpenEnds
SYMMETRY Symmetry
