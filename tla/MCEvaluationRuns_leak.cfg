SPECIFICATION Spec
CONSTANTS
  Requests = {r1}
  Documents <- MCDocuments
  Manifest <- OneChat
  JudgeLimits = {0}
  MaxCitations = 2
  Nobody = Nobody
INVARIANTS LeakFailsRun

CHECK_DEADLOCK FALSE
