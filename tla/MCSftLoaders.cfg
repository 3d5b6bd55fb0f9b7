SPECIFICATION FairSpec
CONSTANTS
  World = 2
  Files = 2
  EpochSteps = 3
  TotalSteps = 3
  SaveFreq = 1
  MaxKeep = 0
  Modes = {"auto"}
  AtomicRename = FALSE
  MaxLaunches = 2
INVARIANT
  LoadersInStep
