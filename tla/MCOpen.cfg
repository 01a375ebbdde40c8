CONSTANTS
  Procs = {p1, p2, p3}
  Kinds = {"control", "audio", "dsp", "alsa"}
  Blocks = {b1}
  MaxOpens = 2
  NoOne = NoOne
SPECIFICATION Spec
SYMMETRY Symmetry
CHECK_DEADLOCK FALSE
INVARIANTS
  TypeOK
  AudioExclusive
  NoStaleSubstream
  FreedOnce
