SPECIFICATION Spec
CONSTANTS
  SPH_FAULT_COUNT = 3
  Levels = 1
  AT24CXX_DYNAMIC_SCH_ARR_MAX = 4
  Disturbances = {"power_cut"}
INVARIANT
  NoInfiniteLoop
