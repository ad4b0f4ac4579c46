SPECIFICATION Spec
CONSTANTS
  SPH_FAULT_COUNT = 4
  Levels = 1
  AT24CXX_DYNAMIC_SCH_ARR_MAX = 4
  Disturbances = {}
INVARIANTS
  WellLinked
  SavedWhenDrained
PROPERTY
  Refines
