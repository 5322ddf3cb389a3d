SPECIFICATION Spec
CONSTANTS
  c1 = c1
  c2 = c2
  Reqs = {r1}
  Composes = {c1, c2}
  Envs = {e1, e2}
  FileNames = {f1}
  Contents = {x1, x2}
  Secrets = {s1}
  Newer <- MCNewer
  Faults = {"db", "write", "decrypt", "up", "down", "pull", "health", "snapshot", "crash"}
  ForeignKeys = FALSE
  NoRecord = NoRecord
  NoFile = NoFile
  Torn = Torn
  Down = Down
INVARIANT StoreSound
PROPERTY RollbackRestores
