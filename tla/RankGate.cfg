CONSTANTS
  Ranks = {a, b}
  FpMode = "enforce"
  GateMode = "enforce"
  CountEvent = TRUE
  Plans <- MCPlans
  Intents <- MCIntents
  Steps = 2
  Faults = 1
SPECIFICATION LiveSpec
INVARIANTS TypeOK Paired RanksAgree
PROPERTY StepsEnd
CHECK_DEADLOCK FALSE
