SPECIFICATION FairSpec
CONSTANTS
  Requests = {r1, r2}
  Documents <- MCDocuments
  Manifest <- TwoChats
  JudgeLimits = {1}
  MaxCitations = 1
  Nobody = Nobody
INVARIANTS TypeOK OneActive VerdictSound JudgeBounded
PROPERTIES EvaluationEnds
CHECK_DEADLOCK FALSE
