SPECIFICATION FairSpec
CONSTANTS
    f_max = 2
    collect = 2
    m_door_type = 3
    final_limits = TRUE
    m_ins_stopping_mode = 1
    PRE_SPD = 0
    STOP_DELAY = 1
    CAM_LOCK_WAIT = 2
    CAM_TRIALS = 2
    parking_floor = 0
    Modes <- Normal
    Disturbances <- InService
    MaxDisturbances = 1
INVARIANTS PositionKnown   NoOverrun
PROPERTIES NoneMissed CallServed
