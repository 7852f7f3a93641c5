SPECIFICATION Spec
CONSTANTS
  r1 = r1
  r2 = r2
  r3 = r3
  c1 = c1
  c2 = c2
  Rels <- TwoRels
  Contents <- TwoContents
  Partial = Partial
  Absent = Absent
  Foreign = Foreign
  FaultKinds = {"symlink"}
  MaxFaults = 1
  MaxEdits = 0
SYMMETRY Symmetry
INVARIANTS
  NothingLost
