CONSTANTS
  Slots = 3
  Writers = {w1}
  Syncers = {}
  Sizes = {1, 3}
  MaxCalls = 1
  Holes <- SecondChunks
  NoOne = NoOne
  Torn = Torn
  Passes = {1}
  MaxFlushes = 1
  CardStopped = FALSE
SPECIFICATION FairFlushSpec
PROPERTY WritesReturn
