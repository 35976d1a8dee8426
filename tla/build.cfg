SPECIFICATION Spec
CONSTANTS
  MaxOverlay = 2
  Settings = {s1, s2}
  None = None
  Mixed = Mixed
  MayHappen = {"crash", "fail", "shrink"}
INVARIANTS PhasesAreExact CandidateWasCompleted CandidateHasOverlay
