SPECIFICATION Spec
CONSTANTS
  Devices = {d}
  Groups = {g}
  Users = {u}
  Strategies = {s, t}
  Options = {x, y}
  None = None
  MaxTime = 2
INVARIANTS
  SilentIfCurrent
PROPERTIES
  Delivered
