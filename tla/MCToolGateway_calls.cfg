SPECIFICATION FairSpec
CONSTANTS
  Chunks = {c1, c2}
  Scopes = {"PRIVATE_USER", "SHARED"}
  TopK = {1, 2}
  MaxInputs = 1
  MaxCites = 1
  MaxSequence = 2
  MaxSteps = 3
  MaxRewrites = 1
  MaxRetries = 1
  NoChunk = NoChunk
INVARIANTS TypeOK BudgetsKept DenialIsFinal PausedFits
PROPERTIES BookRefined RunSettles
CHECK_DEADLOCK FALSE
