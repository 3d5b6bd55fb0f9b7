SPECIFICATION FairSpec
CONSTANTS
  World = 2
  Files = 2
  EpochSteps = 5
  TotalSteps = 5
  SaveFreq = 2
  MaxKeep = 2
  Modes = {"auto"}
  AtomicRename = TRUE
  MaxLaunches = 3
INVARIANTS
  TypeOK
  TrackedIsWhole
  RankZeroInStep
  RotationBound
  BoundedLoss
  FinalCheckpoint
PROPERTIES
  JobEnds
  NeverStartsOver
  ResumesOneSave
  StoreSpec
