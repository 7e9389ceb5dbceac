SPECIFICATION Spec
CONSTANTS
  Conns = 2
  Register = TRUE
  SeedConcurrency = 1
  MaxAttempts = 2
  Commands <- MCCommands
  CounterNames <- MCCounterNames
INVARIANTS
  TypeOK
  SeedBeforeLoad
  Books
PROPERTIES
  AtMostOneLate
  FulfilsLoadRun
