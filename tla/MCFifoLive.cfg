CONSTANTS
  Slots = 3
  Writers = {w1, w2}
  Syncers = {}
  Sizes = {3}
  MaxCalls = 1
  Holes <- SecondChunks
  NoOne = NoOne
  Torn = Torn
SPECIFICATION FairSpec
PROPERTIES
  WritesReturn
  TimedWritesReturn
