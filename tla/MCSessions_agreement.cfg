SPECIFICATION Spec
CONSTANTS
  None = None
  Users = {alice, root}
  Admins = {root}
  Uuids = {d1}
  Rids = {r1, r2}
  Keys = {k1, k2}
  Workers = {w1, w2}
  MaxIssues = 2
  MaxRows = 2
SYMMETRY Symmetry
INVARIANTS OwnerAgreement ActiveAgreement IdentityAgreement KeysAreOwned
PROPERTY ImplementsTable
