SPECIFICATION Spec
CONSTANTS
    f_max = 1
    collect = 1
    m_door_type = 3
    final_limits = TRUE
    m_ins_stopping_mode = 1
    PRE_SPD = 1
    STOP_DELAY = 1
    CAM_LOCK_WAIT = 1
    CAM_TRIALS = 2
    parking_floor = 0
    Modes <- AllModes
    Disturbances <- InMaintenance
    MaxDisturbances = 2
INVARIANTS DoorsShutInMotion
PROPERTIES HoldToRun FinalLimitStops
