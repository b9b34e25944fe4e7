SPECIFICATION Spec
CONSTANTS
  MaxReqs = 2
  CaptureSizes <- MCCaptureSizes
  MaxCapture = 4
  Reqs <- MCReqs
  Class <- MCClass
  PromptLen <- MCPromptLen
  Blocks <- MCBlocks
  BS = 3
  ModelLen = 6
  K = 1
  FromAnchor = FALSE
  Chunk = 3
  Depth = 2
  Modes <- MCModes
  MaxAdds = 3
INVARIANTS TypeOK TextExact LengthsAgree CachesKept ReplayFits
CHECK_DEADLOCK FALSE
