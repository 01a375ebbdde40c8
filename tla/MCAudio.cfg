CONSTANTS
  Speeds = {44100, 11025}
  Lengths = {1, 2}
  BlockFrames = 3
  MaxSettings = 4
  Block = 2
  HwSize = 4
  SwSize = 6
  Slots = 3
  MaxUnits = 8
  MaxStarts = 2
  MaxChanges = 3
  MaxLoads = 1
SPECIFICATION Spec
CHECK_DEADLOCK FALSE
INVARIANTS
  AudioAgrees
  SamplesKept
  QueuedInOrder
  NothingOverwritten
  MaskFits
  VbiAnswered
PROPERTY MaskCatchesUp
