SPECIFICATION Spec
CONSTANTS
  Sessions <- MCSessions
  Versions <- MCVersions
  Plans <- MCPlans
  MaxTroubles = 1
  ReplaySlots = 1
  LineRoom = 2
  SignedFrom = 2
  Tries = 2
INVARIANTS
  SignedOfferTakenOnce
  RefusedCancelIsLate
PROPERTIES
  ImplementsReport
CHECK_DEADLOCK FALSE
