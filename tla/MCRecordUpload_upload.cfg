SPECIFICATION Spec
CONSTANTS
  Workers = {w1, w2}
  Bytes = {a, b}
  Hole = Hole
  Dead = Dead
  None = None
  MaxChunk = 2
  MaxFile = 2
  MaxInodes = 1
  MaxCrashes = 1
SYMMETRY Symmetry
INVARIANTS OneWriter UploadsStay BusyMeansContended FileBounded NoHoles
