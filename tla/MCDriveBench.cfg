SPECIFICATION FairSpec
CONSTANTS
    SC_STEPS = 3
    HOLD = 0
    MOVE = 0
    RELEASE = 1
    DCBREAK = 1
    DECAY = 0
    CATCH_UP = 1
    VectorControl = FALSE
    Preemptive = FALSE
    MainFeedback = {TRUE}
    EnableLevels = {TRUE}
    Tunable = {FALSE}
INVARIANTS BrakeOpenChecked
PROPERTIES StopClosesBrake
