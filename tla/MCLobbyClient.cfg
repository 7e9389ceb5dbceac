SPECIFICATION Spec
CONSTANTS
  Calls <- MCCalls
  MaxCalls = 3
  MaxWire = 3
  Timeout = 2
INVARIANTS
  NothingOwed
  NothingStranded
PROPERTIES
  FulfilsRoundTrip
  RoundTripEnds
