SPECIFICATION Spec
CONSTANTS
  a1 = a1  a2 = a2  a3 = a3  c1 = c1  s1 = s1  s2 = s2
  Runs = {r1, r2}
  Requests = {q1, q2}
  Actions = {a1, a2}
  Searches = {a1}
  Risky = {a2}
  Finalizing = {}
  Calculators = {}
  Chunks = {}
  Scopes = {s1}
  ScopeChunks <- MCScopeChunks
  Modes = {"balanced"}
  Shapes = {2}
  MaxSteps = 2
  MaxReplans = 0
  MaxFaults = 0
  NoRequest = NoRequest  NoRun = NoRun  NoAction = NoAction
SYMMETRY MCSymmetry
INVARIANTS ToolCallsOnce
PROPERTIES HistoryAppendOnly
