SPECIFICATION Spec
CONSTANTS
  Commands = {c1, c2}
  None = None
  MaxKills = 1
  Items = {"archive", "archive_again", "archive3", "core"}
  Names = {"a", "a3", "c"}
  NameOf <- MCNameOf
  Large = {"archive", "archive_again", "archive3"}
  Ranges = 3
  EntryWorkers = 2
  RangeWorkers = 2
  Locks = {"l1", "l2", "l3"}
  RevisionOf <- MCRevisionOf
  ToolsOf <- MCToolsOf
  ItemsOf <- MCItemsOf
  ArchiveOf <- MCArchiveOf
  Roots = {"v8", "icu"}
  DepsOf <- MCDepsOf
  MaxEdits = 1
SYMMETRY Processes
INVARIANTS NoStrayWrites RefusedForCause FetchedIsWhole ArchiveIsSpared
