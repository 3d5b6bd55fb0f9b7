SPECIFICATION FairSpec
CONSTANTS
  World = 2
  Files = 2
  EpochSteps = 3
  TotalSteps = 3
  SaveFreq = 1
  MaxKeep = 1
  Modes = {"auto"}
  AtomicRename = TRUE
  MaxLaunches = 2
PROPERTY
  NeverStartsOver
