\* The smallest instance with a pass that is overtaken.
SPECIFICATION Spec
CONSTANTS
    Requests = {r1}
    Timer = timer
    MaxPulls = 1
    MaxHead = 1
    MaxOutside = 0
    MaxFaults = 0
PROPERTIES
    LatePassChangesNothing
CHECK_DEADLOCK FALSE
