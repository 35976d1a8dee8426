SPECIFICATION PrepareSpec
CONSTANTS
  Paths = {"binary", "file", "node", "script", "triples"}
  Manifest = "triples"
  Unbundler = "script"
  Links = {"node"}
  Products = {"chromium", "helium"}
  Locks = {"l1", "l2", "l3"}
  Items = {"archive", "core", "core2", "archive3", "core3"}
  Names = {"a", "c", "c2", "a3"}
  ItemsOf <- MCItemsOf
  NameOf <- MCNameOf
  Version <- MCVersion
  Recipes <- MCRecipes
  Workers = 2
  None = None
  MaxCrashes = 1
INVARIANTS FetchReportIsBacked PublishedIsPrepared ReportsDescribeSource AcceptedIsPrepared
