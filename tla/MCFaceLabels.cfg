SPECIFICATION Spec
CONSTANTS
  Classes <- MCClasses
  Cases <- MCCases
  Uniform <- MCUniform
  VoteIterations = 16
  FillIterations = 10
  HighPoly = 6
  RelArea = 1
  Cumulative = 95
  MaxPartArea = 1
  BandRings = 2
  BandFallbacks = {1, 4, 8}
  MaxBandFaces = 5
  MaxProduct = 15
  MaxComponents = 1
  MaxSweeps = 4
INVARIANTS
  TypeOK
  ConvergedIsMinimum
PROPERTIES
  ShellKeepsALabel
  ExpansionOptimal
