SPECIFICATION FairSpec
CONSTANTS
  INIT_DELAY = 1
  ERSD_EXIT_AUTO_DELAY = 1
  ERSD_TURNING_OFF_DELAY = 4
  ERSD_LDIR_TEST_TIME = 1
  ERSD_LDIR_WAIT_TIME = 1
  ColdStart = FALSE
INVARIANTS ChargingHeld
PROPERTIES BatterySwitched ServiceResumes
