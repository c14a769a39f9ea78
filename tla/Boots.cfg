SPECIFICATION RuntimesFairSpec
CONSTANTS
  None = None
  Proc = {1, 2}
  KillsTree = FALSE
  Key = {"f1", "f2"}
  Startable = {"f1", "f2"}
  ScriptOf <- OneScript
  Port = {1, 2}
  Request = {1, 2}
  MaxTries = 2
INVARIANT RuntimesTypeOK
INVARIANT OneBootPerKey
INVARIANT NeverListsClosed
INVARIANT WaitersHaveABoot
PROPERTY RequestsSettle
