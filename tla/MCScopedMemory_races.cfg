SPECIFICATION FairSpec
CONSTANTS
  c1 = c1  u1 = u1  u2 = u2  a1 = a1  b1 = b1  k1 = k1  k2 = k2  x = x  y = y  f1 = f1  s1 = s1
  Users = {u1}
  Conversations = {c1, c2}
  Owner <- MCOwner
  Companies = {a1}
  Workspace <- MCWorkspace
  InitialGrants <- MCGrants
  Chunks = {}
  Company <- MCCompany
  Department <- MCDepartment
  Candidates <- MCTwoKeys
  EpisodeCites = {}
  Summarises = FALSE
  Manual = {}
  Earlier <- MCTwo
  Turns = {t1, t2}
  Requests = {q1}
  MaxRows = 4
  MaxTurns = 2
  MaxEvents = 0
  NoUser = NoUser  NoConversation = NoConversation  NoCompany = NoCompany
  NoTurn = NoTurn  NoKey = NoKey
INVARIANTS SupersededBySuccessor
PROPERTIES MemoryWorkFinishes
CHECK_DEADLOCK FALSE
