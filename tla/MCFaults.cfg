SPECIFICATION FairSpec
CONSTANTS
  SPH_FAULT_COUNT = 3
  Registrations <- MCRegistrations
  WORD = 16
  Levels = 3
  MaySet <- MCMaySet
INVARIANTS
  TypeOK
  PoseCheckExact
  LatchedStops
  NoPhantom
PROPERTY
  TimedFaultClears
