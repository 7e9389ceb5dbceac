SPECIFICATION Spec
CONSTANTS
  w1 = w1
  p1 = p1
  p2 = p2
  Workers <- MCWorkers
  Pingers <- MCPingers
  MaxOps = 1
  MaxPings = 1
  Commands <- MCCommands
  CounterNames <- MCCounterNames
INVARIANTS
  QuiescentExecute
  ErrorsReconcile
  PingersCoverLoad
PROPERTIES
  ReportIsFinal
  ReportWritten
