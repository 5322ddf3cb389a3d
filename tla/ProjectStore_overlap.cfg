SPECIFICATION Spec
CONSTANTS
  c1 = c1
  c2 = c2
  Reqs = {r1, r2}
  Composes = {c1, c2}
  Envs = {e1, e2}
  FileNames = {f1}
  Contents = {x1}
  Secrets = {}
  Newer <- MCNewer
  Faults = {"up", "pull", "health", "crash"}
  ForeignKeys = TRUE
  NoRecord = NoRecord
  NoFile = NoFile
  Torn = Torn
  Down = Down
SYMMETRY MCSymmetry
 
PROPERTIES EnvChangesByEdit StaysDeleted
