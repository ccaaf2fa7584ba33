SPECIFICATION Spec
CONSTANTS
  Docs = {d1}
  MaxVersions = 3
  Keys = {k1, k2}
  Files = {f1, f2}
  BadFiles = {f2}
  Legacy = {d1}
  Requests = {q1, q2, q3}
  Offered = {"upload", "approve", "reject", "delete", "reindex"}
  MaxUploads = 2
  MaxFaults = 1
  NoDoc = NoDoc  NoKey = NoKey  NoFile = NoFile  NoRequest = NoRequest
SYMMETRY MCSymmetry
INVARIANTS TypeOK IndexMatchesPointer FilesPresent NumbersReserved
PROPERTIES LifecycleForward IndexRefined
