CONSTANTS
  Encoders = {"ADV717X", "BT865"}
  VideoModes = {"PAL", "PAL60"}
  MaxIoctls = 2
  MaxOpens = 1
  Chips = {"ADV7170", "ADV7175A", "BT865"}
  Adjustments = {0, 2, 4}
  Counts = {163, 350, 60000}
  Zooms = {0, 37}
  MaxOps = 3
  Defaults = {1000, 1600}
  HitsY = {0, 8, 59}
  HitsX = {0, 219}
  Spins = {300}
  MaxRuns = 2
  HalfClock = 4
  IntHalf = 1048576
  Settings <- Asked
  Rates = {0, 100, 1000, 1021, 14000}
  Slots = {1, 2, 4, 6, 8}
  CardRing = 3
  MaxSteps = 4
  Width = 2
  Bytes = {1}
  MaxTransfers = 3
  MaxProbes = 2
  MaxLoads = 2
  MaxFailures = 1
SPECIFICATION Spec
CHECK_DEADLOCK FALSE
INVARIANTS
  OutputAgrees
  PlayingShows
  StaleBounded
  ParametersKept
  DarkOrConfigured
  PictureFits
  
  CalibrationKept
  ArithmeticFits
  
  LifeBalanced
