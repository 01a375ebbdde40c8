CONSTANTS
  Streams = {"video", "spu"}
  Entries = 2
  Times = {12, 20}
  Sizes = {1}
  MaxWrites = 4
  MaxResets = 2
SPECIFICATION FairSpec
CHECK_DEADLOCK FALSE
INVARIANTS
  TypeOK
  NoOverwrite
  TimeExact
  OffsetExact
  InOrder
PROPERTY SleepersWake
