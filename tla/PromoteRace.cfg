SPECIFICATION Spec
CONSTANTS
  p1 = p1
  p2 = p2
  Project = {p1}
  ProjectOf <- OneProject
  MaxDeployments = 2
  Concurrency = 1
  KeepPerProject = 1
  SlowTick = FALSE
  MaxCrashes = 0
  MaxApiCrashes = 0
  Calls = {"deploy", "promote"}
  DeployTargets = {"preview"}
INVARIANT ProductionHasArtifacts
