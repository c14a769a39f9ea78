SPECIFICATION FairSpec
CONSTANTS
  d1 = d1
  d2 = d2
  None = None
  Absent = Absent
  Deployment = {d1, d2}
  Project <- Nothing
  Source <- Sources
  Presets <- PresetList
  Directory = {"dist", "out"}
  ServerFrameworks = {"sveltekit"}
  StartCommands = {"sveltekit"}
  Candidates <- CandidateList
  Site <- TheSite
  Path <- Paths
  CharLen <- Lengths
  LogKeep = 1
  PruneEvery = 1
  Proc = {1}
  KillsTree = TRUE
  Key <- Keys
  Startable <- Keys
  ScriptOf <- OneScript
  Port = {1}
  Request = {1}
  MaxTries = 1
INVARIANT TypeOK
INVARIANT ManifestMeansWhole
INVARIANT PublishesOwnOutput
INVARIANT HostAcceptsPath
PROPERTY EveryRequestLogged
