SPECIFICATION FairSpec
CONSTANTS
  Ranks = {r1, r2}
  r1 = r1
  r2 = r2
  Batches <- MCBatches
  Limits <- MCLimits
  Sizes <- MCSizes
INVARIANTS
  TypeOK
  RaisesForCause
  BalanceBound
  RowsAligned
PROPERTIES
  CallEnds
