SPECIFICATION Spec
CONSTANTS
  Products = {"chromium", "helium"}
  Versions = {1, 2}
  Builds = {"b1", "b2"}
  Version <- MCVersion
  Files = {"resource"}
  Lists <- MCLists
  Required = {"browser"}
  None = None
  MaxBusy = 2
  MaxRuns = 2
  MaxCrashes = 1
INVARIANTS PackagedIsOneStage InstalledIsAccepted AcceptanceIsOfPassingTest
