CONSTANTS
  Path = {p1, p2}
  Blk = {0}
  Value = {u, v}
  Flusher = {f, g}
  NoFlusher = NoFlusher
  PoolSlots = 2
  MinSlots = 1
SPECIFICATION Spec
INVARIANTS
  Coherent
  DirtyCountExact
  DurableWhenCountIsZero
PROPERTY ConfigChangesOnlyWhenClean
SYMMETRY Symmetry
