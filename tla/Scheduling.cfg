SPECIFICATION Spec
CONSTANTS
  p1 = p1
  p2 = p2
  Project = {p1, p2}
  ProjectOf <- TwoProjects
  MaxDeployments = 3
  Concurrency = 2
  KeepPerProject = 3
  SlowTick = TRUE
  MaxCrashes = 1
  MaxApiCrashes = 0
  Calls = {"deploy"}
  DeployTargets = {"preview"}
INVARIANT TypeOK
INVARIANT SerializedBuilds
INVARIANT PermitsConserved
INVARIANT RegistriesMatchTasks
PROPERTY ImplementsBuildQueue
