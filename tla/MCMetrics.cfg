SPECIFICATION Spec
CONSTANTS
  Commands <- MCCommands
  Attributed <- MCAttributed
  Arrivals <- MCArrivals
  MaxSamples <- MCMaxSamples
  MaxCompared <- MCMaxCompared
  MaxFailures = 1
INVARIANTS
  QuantilesHold
  ComparisonTellsAll
  ChangesAreReal
CHECK_DEADLOCK FALSE
