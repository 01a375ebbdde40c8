CONSTANTS
  Slots = 3
  Writers = {w1, w2}
  Syncers = {s1}
  Sizes = {0, 3}
  MaxCalls = 1
  Holes <- SecondChunks
  NoOne = NoOne
  Torn = Torn
SPECIFICATION Spec
SYMMETRY Symmetry
INVARIANTS
  TypeOK
  WindowWritten
  NoOverrun
  Exclusive
  PlayedIsFetched
  SyncDrains
PROPERTY ImplementsStream
