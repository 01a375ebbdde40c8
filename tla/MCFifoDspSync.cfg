CONSTANTS
  Slots = 3
  Writers = {w1, w2}
  Syncers = {s1}
  Sizes = {1, 3}
  MaxCalls = 1
  Holes <- SecondChunks
  NoOne = NoOne
  Torn = Torn
SPECIFICATION Spec
INVARIANT SyncWaitsForLastByte
