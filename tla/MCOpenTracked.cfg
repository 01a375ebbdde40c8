CONSTANTS
  Procs = {p1, p2}
  Kinds = {"control", "video"}
  Blocks = {b1}
  MaxOpens = 2
  NoOne = NoOne
SPECIFICATION Spec
SYMMETRY Symmetry
CHECK_DEADLOCK FALSE
INVARIANTS
  MemoryTracked
