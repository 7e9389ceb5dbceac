SPECIFICATION ChatSpec
CONSTANTS
  Conns = 2
  Register = TRUE
  SeedConcurrency = 1
  MaxAttempts = 1
  MaxSays = 2
  Commands <- MCCommands
  CounterNames <- MCCounterNames
INVARIANTS
  ChatBooks
PROPERTIES
  NoSilentExit
  FulfilsLoadRun
