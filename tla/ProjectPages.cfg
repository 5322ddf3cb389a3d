SPECIFICATION Spec
CONSTANTS
  Pages = {"project", "deploy", "new", "secrets", "webhooks", "streams"}
  Composes = {"c0", "c1"}
  Filenames = {"a"}
  MaxForeign = 1
  MaxSockets = 3
  NewNames = {"p"}
  NewFiles = {"f"}
  Typed = {"x"}
  Vars = {"v"}
  MaxFiles = 2
  MaxSaves = 2
  SecretIds = {1, 2}
  MaxSets = 2
  Services = {"s", "r"}
  MaxHooks = 3
  Kinds = {"a", "b"}
  Windows = {"w1", "w2"}
  MaxEffects = 2
  MaxLines = 1
  Keep = 1
  Keys = {}
  Names = {}
  MaxEntries = 0
  MaxItems = 0
  MaxDeps = 0
  None = None
INVARIANTS PageInStep DeployFollowed   OneHookEach StreamFollowed
CHECK_DEADLOCK FALSE
