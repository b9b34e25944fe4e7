SPECIFICATION Spec
CONSTANTS
    Options <- StrictOptions
    MaxLoops = 1
INVARIANTS
    StrictStaysActive
CHECK_DEADLOCK FALSE
