SPECIFICATION Spec
CONSTANTS
    f_max = 2
    collect = 0
    SPAN = 6
    PLATE = 0
    DECEL = 1
    DECEL2 = 0
    ACCEL = 2
    MARGIN = 1
    LIMIT = 1
    FINAL = 1
    TRIGGER = 2
    ERROR = 2
    COAST = 1
    RELEVEL = 1
    MaxStops = 1
INVARIANTS StopsAtDestination
 
