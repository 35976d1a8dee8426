SPECIFICATION Spec
CONSTANTS
  Files <- MCFiles
  Patches <- MCPatches
  Lists <- MCLists
  Edits <- MCEdits
  Adds <- MCAdds
  MayHappen = {"refuse", "crash"}
  a = a
  b = b
  c = c
  f = f
  g = g
  h = h
  i = i
  n = n
INVARIANTS UpdateIsAllOrNothing
PROPERTIES KeepsRecordedPatches
