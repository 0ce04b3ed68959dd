SPECIFICATION Spec
CONSTANTS
  Users = {u, v, x}
  Controllers = {c, d}
  Keys = {k}
  Ids = {i, j}
  Types = {s, t}
  Workers = {w1, w2, w3}
  None = None
  MaxTime = 2
SYMMETRY Symmetry
INVARIANTS
  Reported
  GuidIsActors
  NoteIsActors
PROPERTIES
  ImplementsLog
