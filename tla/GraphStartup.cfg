SPECIFICATION Spec
CONSTANTS
    Options <- MCOptions
    MaxLoops = 1
INVARIANTS TypeOK NeverDies GraphsExact GraphFits RanksAgree
CHECK_DEADLOCK FALSE
