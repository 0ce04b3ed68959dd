SPECIFICATION Spec
CONSTANTS
  admin = admin
  owner = owner
  team = team
  Users = {admin, owner}
  Admins = {admin}
  Groups = {team}
  MemberOf <- GroupsOf
  Books = {b1}
  Names = {name, personal}
  Reserved = personal
  Everyone = everyone
  Ids = {i1, i2}
  Rules = {1, 3}
  Workers = {w1, w2}
  None = None
  MaxRequests = 2
SYMMETRY Symmetry
PROPERTY TransferSticks
CHECK_DEADLOCK FALSE
