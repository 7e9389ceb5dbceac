SPECIFICATION MCSpec
CONSTANTS
  Conns = 3
  Register = FALSE
  SeedConcurrency = 1
  MaxAttempts = 1
  BattleHosts = 2
  MaxBattleOps = 5
  Commands <- MCCommands
  CounterNames <- MCCounterNames
INVARIANTS
  BattleTypeOK
  HandshakeAlone
  HostsHold
  BattleBooks
  MembershipKnown
PROPERTY
  FulfilsLoadRun
