SPECIFICATION Spec
CONSTANTS
  Flows = {f1, f2}
  Subjects = {s1, s2}
  Camellia = Camellia
  Names = {Camellia}
  Base <- SameBase
  Workers = {w1, w2}
  None = None
  Attempts = 2
  MaxPending = 2
  MaxUsers = 2
  MaxCrashes = 1
SYMMETRY Symmetry
INVARIANTS DoneMatchesIdentity OneAccountPerSubject
PROPERTIES EarnedOnce OutcomeSticks ImplementsOffer
CHECK_DEADLOCK FALSE
