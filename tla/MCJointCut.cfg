SPECIFICATION Spec
CONSTANTS
  MaxNew = 7
  Limits <- MCLimits
INVARIANTS
  LabelsAligned
