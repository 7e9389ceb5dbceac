SPECIFICATION SeedSpec
CONSTANTS
  Conns = 3
  Register = TRUE
  SeedConcurrency = 2
  Commands <- MCCommands
  CounterNames <- MCCounterNames
INVARIANTS
  SeedBounded
  SeedAccounting
  SeededAreConfirmed
PROPERTY
  SeedingReturns
