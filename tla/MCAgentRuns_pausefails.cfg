SPECIFICATION Spec
CONSTANTS
  a1 = a1  a2 = a2  a3 = a3  c1 = c1  s1 = s1  s2 = s2
  Runs = {r1}
  Requests = {q1}
  Actions = {a1, a2}
  Searches = {a1}
  Risky = {a2}
  Finalizing = {a2}
  Calculators = {}
  Chunks = {c1}
  Scopes = {s1}
  ScopeChunks <- MCScopeChunks
  Modes = {"balanced"}
  Shapes = {2}
  MaxSteps = 2
  MaxReplans = 1
  MaxFaults = 0
  NoRequest = NoRequest  NoRun = NoRun  NoAction = NoAction
INVARIANT UnfinishedRunIsDriven
