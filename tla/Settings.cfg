SPECIFICATION Spec
CONSTANTS
  Fields = {"authMode", "metrics", "listenAddr"}
  Values = {"both", "b"}
  Bad = Bad
  Unset = Unset
  Default = "both"
  EnvFields = {}
  EnvValue = "both"
  Reqs = {r1, r2}
  MaxGen = 3
  Garbled = Garbled
SYMMETRY MCSymmetry
INVARIANTS  RecorderAlive SettingsSound
 
CHECK_DEADLOCK FALSE
