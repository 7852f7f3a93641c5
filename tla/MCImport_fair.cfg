SPECIFICATION FairSpec
CONSTANTS
  r1 = r1
  r2 = r2
  r3 = r3
  c1 = c1
  c2 = c2
  Rels <- TwoRels
  Contents <- OneContent
  Partial = Partial
  Absent = Absent
  Foreign = Foreign
  FaultKinds = {"remove", "write", "symlink", "discard"}
  MaxFaults = 2
  MaxEdits = 3
PROPERTIES
  RunEnds
  RemovalsRedriven
