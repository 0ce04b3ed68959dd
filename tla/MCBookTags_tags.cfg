SPECIFICATION Spec
CONSTANTS
  Peers = {p, q}
  Tags = {t1, t2, t3}
  Office = Office
  PaddedOffice = PaddedOffice
  Home = Home
  Lab = Lab
  Names <- FourNames
  Strip <- StripPadded
  Workers = {w1, w2}
  None = None
  MaxPeers = 1
  MaxTags = 2
  MaxAsked = 1
SYMMETRY Symmetry
INVARIANTS
  TypeOK
  TagsBounded
  
PROPERTIES
  PeersBounded
  MergeKeeps
  NoGhost
