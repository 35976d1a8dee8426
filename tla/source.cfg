SPECIFICATION Spec
CONSTANTS
  Revisions = {r1, r2}
  Reviewed = r1
  Series <- MCSeries
  None = None
  MayHappen = {"crash", "reject", "edit"}
  a = a
  b = b
  c = c
  d = d
INVARIANTS PreparedIsExact PartialIsUnpublished NoPatchTwice MarkerIsBehind
