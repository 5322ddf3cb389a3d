SPECIFICATION Spec
CONSTANTS
  Projects = {p1, p2}
  Contents = {c1}
  Absent = Absent
  Partial = Partial
  None = None
SYMMETRY MCSymmetry
PROPERTIES ArchiveIsFaithful  
