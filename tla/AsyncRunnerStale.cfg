CONSTANTS
  a = a
  b = b
  Reqs = {a, b}
  Prompt = 2
  MaxOut <- MCMaxOut
  NumSpec = 1
  Depth = 2
  Preempts = TRUE
  Forced = TRUE
SPECIFICATION ForcedSpec
INVARIANT InputsTrue
CHECK_DEADLOCK FALSE
