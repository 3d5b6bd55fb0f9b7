SPECIFICATION Spec
CONSTANTS
  MaxNew = 7
  Limits <- MCLimits
INVARIANTS
  SameAnswer
  BackgroundLast
  PartBound
  WholeLinesAligned
