SPECIFICATION Spec
CONSTANTS
  a1 = a1  a2 = a2  a3 = a3  c1 = c1  s1 = s1  s2 = s2
  Runs = {r1}
  Requests = {q1}
  Actions = {a1, a2, a3}
  Searches = {a1}
  Risky = {a2}
  Finalizing = {a3}
  Calculators = {a3}
  Chunks = {c1}
  Scopes = {s1, s2}
  ScopeChunks <- MCScopeChunks
  Modes = {"guided", "balanced"}
  Shapes = {1, 2, 3}
  MaxSteps = 3
  MaxReplans = 1
  MaxFaults = 0
  NoRequest = NoRequest  NoRun = NoRun  NoAction = NoAction
INVARIANTS GatedCallsApproved ApproveRefusedForCause HistoryFaithful
