SPECIFICATION SupervisorSpec
CONSTANTS
  Service <- MCService
  MaxEdits = 2
INVARIANT SupervisorTypeOK
INVARIANT OneProcessPerService
INVARIANT NewestBuildRuns
INVARIANT CrashStopsAll
INVARIANT ShutdownReachesAll
PROPERTY EditsGetBuilt
