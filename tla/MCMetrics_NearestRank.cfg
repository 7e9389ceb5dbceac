SPECIFICATION Spec
CONSTANTS
  Commands <- MCCommands
  Attributed <- MCAttributed
  Arrivals <- MCArrivals
  MaxSamples <- MCMaxSamples
  MaxCompared <- MCMaxCompared
  MaxFailures = 1
INVARIANT
  NearestRank
CHECK_DEADLOCK FALSE
