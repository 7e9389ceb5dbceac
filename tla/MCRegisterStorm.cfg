SPECIFICATION RegisterSpec
CONSTANTS
  Conns = 3
  Register = TRUE
  SeedConcurrency = 1
  MaxAttempts = 1
  Commands <- MCCommands
  CounterNames <- MCCounterNames
INVARIANT
  RegisterAccounting
PROPERTIES
  MeasuredAreCreated
  FulfilsLoadRun
