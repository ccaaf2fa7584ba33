SPECIFICATION FairSpec
CONSTANTS
  Docs = {d1, d2}
  MaxVersions = 3
  Keys = {k1, k2}
  Files = {f1}
  BadFiles = {}
  Legacy = {d1}
  Requests = {q1, q2}
  Offered = {"upload", "approve"}
  MaxUploads = 4
  MaxFaults = 0
  NoDoc = NoDoc  NoKey = NoKey  NoFile = NoFile  NoRequest = NoRequest
PROPERTIES RequestsFinish
