SPECIFICATION Spec
CONSTANTS
  Users = {admin, u}
  Admins = {admin}
  Machines = {m, n}
  Links = {k, l}
  Workers = {w1, w2}
  None = None
  MaxShare = 2
  MaxActive = 1
  MaxPeers = 1
SYMMETRY Symmetry
INVARIANT AccountsDeletable
CHECK_DEADLOCK FALSE
