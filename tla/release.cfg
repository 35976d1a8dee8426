SPECIFICATION Spec
CONSTANTS
  Payloads = {p1, p2}
  Inputs = {i1, i2}
  Tools = {t1}
  Suites = {u1, u2}
  None = None
  MayHappen = {"crash"}
SYMMETRY Interchangeable
INVARIANTS ReleaseWasAccepted VerifiedIsOneRelease
CONSTRAINT OneVaries
