SPECIFICATION Spec
CONSTANTS
  Procs = {p1}
  Slots = {s1, s2, s3}
  None = None
  Foreign = Foreign
  Script = Script
  ViaPrefix = ViaPrefix
  Aliased = FALSE
  MayHappen = {"crash", "relink"}
INVARIANTS LinksResolve OperationsAreAtomic AcceptsOwnLinks ActiveIsWhole
PROPERTIES SwitchesKeptVersions
CHECK_DEADLOCK FALSE
