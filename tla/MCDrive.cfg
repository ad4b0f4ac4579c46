SPECIFICATION Spec
CONSTANTS
    SC_STEPS = 2
    HOLD = 1
    MOVE = 1
    RELEASE = 1
    DCBREAK = 1
    DECAY = 1
    CATCH_UP = 2
    VectorControl = TRUE
    Preemptive = FALSE
    MainFeedback = {FALSE}
    EnableLevels = {FALSE, TRUE}
    Tunable = {FALSE, TRUE}
INVARIANTS  BrakeOpenMotorHolds
PROPERTIES TripLatched
