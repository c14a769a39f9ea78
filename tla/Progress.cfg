SPECIFICATION FairSpec
CONSTANTS
  p1 = p1
  p2 = p2
  Project = {p1}
  ProjectOf <- OneProject
  MaxDeployments = 2
  Concurrency = 1
  KeepPerProject = 1
  SlowTick = TRUE
  MaxCrashes = 1
  MaxApiCrashes = 0
  Calls = {"deploy", "cancel", "deleteProject"}
  DeployTargets = {"preview"}
INVARIANT CancelsWereRequested
INVARIANT InProgressHasBuilder
PROPERTY EveryDeploymentSettles
