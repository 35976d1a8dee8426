SPECIFICATION Spec
CONSTANTS
  Profiles = {debug, release}
  Images = {i1, i2}
  MaxSource = 2
  None = None
  Mixed = Mixed
  MayHappen = {"fail", "crash", "image"}
SYMMETRY Symmetry
INVARIANTS BuildIsAudited BuildIsOfGatedProfile BuildReportIsCurrent TestedIsBuilt
CONSTRAINT OneVaries
