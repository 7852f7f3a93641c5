SPECIFICATION Spec
CONSTANTS
  r1 = r1
  r2 = r2
  r3 = r3
  c1 = c1
  c2 = c2
  Rels <- ThreeRels
  Contents <- TwoContents
  Partial = Partial
  Absent = Absent
  Foreign = Foreign
  FaultKinds = {"copy", "unlink", "symlink", "rename", "remove", "write", "torn", "restore", "crash"}
  MaxFaults = 2
  MaxEdits = 3
SYMMETRY Symmetry
INVARIANTS
  IInv
  TypeOK
  HomeFilesKept
  RepoFilesKept
  RollbackRestores
  ReconcileSettles
PROPERTIES
  ListedLast
