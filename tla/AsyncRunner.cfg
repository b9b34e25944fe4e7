CONSTANTS
  a = a
  b = b
  Reqs = {a, b}
  Prompt = 2
  MaxOut <- MCMaxOut
  NumSpec = 1
  Depth = 2
  Preempts = TRUE
  Forced = FALSE
SPECIFICATION LiveSpec
INVARIANTS TypeOK InputsTrue LengthsExact
PROPERTY StepsFinish
CHECK_DEADLOCK FALSE
