SPECIFICATION Spec
CONSTANTS
  c1 = c1  u1 = u1  u2 = u2  a1 = a1  b1 = b1  k1 = k1  k2 = k2  x = x  y = y  f1 = f1  s1 = s1
  Users = {u1, u2}
  Conversations = {c1}
  Owner <- MCOwner
  Companies = {a1, b1}
  Workspace <- MCWorkspace
  InitialGrants <- MCGrants
  Chunks = {f1, s1}
  Company <- MCCompany
  Department <- MCDepartment
  Candidates <- MCInferred
  EpisodeCites <- MCCites
  Summarises = TRUE
  Manual <- MCManual
  Earlier <- MCNone
  Turns = {t1, t2}
  Requests = {q1, q2}
  MaxRows = 2
  MaxTurns = 2
  MaxEvents = 1
  NoUser = NoUser  NoConversation = NoConversation  NoCompany = NoCompany
  NoTurn = NoTurn  NoKey = NoKey
SYMMETRY MCSymmetry
INVARIANTS ForgottenStays OneSummary AclFollowsSources
CHECK_DEADLOCK FALSE
