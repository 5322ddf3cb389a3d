SPECIFICATION Spec
CONSTANTS
  Pages = {"builder"}
  Keys = {"image", "command", "restart", "scale", "privileged", "expose", "ports", "environment", "volumes", "networks", "depends_on", "healthcheck", "deploy", "logging", "build", "ulimits", "network_mode"}
  Names = {web, db}
  MaxEntries = 3
  MaxItems = 1
  MaxDeps = 2
  Composes = {"c"}
  Filenames = {}
  MaxForeign = 0
  MaxSockets = 0
  NewNames = {}
  NewFiles = {}
  Typed = {}
  Vars = {}
  MaxFiles = 0
  MaxSaves = 0
  SecretIds = {}
  MaxSets = 0
  Services = {}
  MaxHooks = 0
  Kinds = {}
  Windows = {"w"}
  MaxEffects = 0
  MaxLines = 0
  Keep = 0
  None = None
  
PROPERTY ServicesFollow
SYMMETRY Symmetry
CHECK_DEADLOCK FALSE
