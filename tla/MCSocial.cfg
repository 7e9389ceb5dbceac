SPECIFICATION SocialSpec
CONSTANTS
  Conns = 2
  Register = FALSE
  SeedConcurrency = 1
  MaxAttempts = 1
  MaxSocialOps = 5
  Commands <- MCCommands
  CounterNames <- MCCounterNames
INVARIANTS
  CycleKnowsRow
  UnignoreNeverRejected
PROPERTIES
  FulfilsLoadRun
