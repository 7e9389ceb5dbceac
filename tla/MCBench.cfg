SPECIFICATION Spec
CONSTANTS
  MaxRuns = 3
INVARIANTS
  NoOrphans
  MeasuresItsVersion
  CleanDatabase
PROPERTY
  BenchReturns
