SPECIFICATION FairSpec
CONSTANTS
  Ids = {i1}
  Prints = {p1, p2}
  Fast = {p2}
  Tabs = {b1}
  Requests = {q1, q2}
  MaxAttempts = 3
  MaxFaults = 1
  Plain = {p1}
  NoId = NoId  NoPrint = NoPrint  NoTab = NoTab  NoRequest = NoRequest
INVARIANTS OncePerId TurnsWhole ShownIsStored ProgressFits
PROPERTIES LedgerRefined SendSettles
CHECK_DEADLOCK FALSE
