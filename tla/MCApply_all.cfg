SPECIFICATION FairSpec
CONSTANTS
  g1 = g1
  p1 = p1
  p2 = p2
  t1 = t1
  t2 = t2
  d1 = d1
  d2 = d2
  h1 = h1
  h2 = h2
  User = User
  Cut = Cut
  Absent = Absent
  Folder = Folder
  Hunks <- TwoHunks
  Gens <- OneGen
  Links <- TwoLinks
  Order <- LinksOrder
  Targets <- TwoTargets
  Real <- LinksReal
  Dir <- LinksDir
  Dirs <- TwoDirs
  FaultKinds = {"probe", "mkdir", "write", "torn", "unlink", "link", "crash"}
  MaxFaults = 1
  MaxEdits = 1
INVARIANTS
  AInv
  PrefixSettled
  RestUntouched
PROPERTIES
  Converges
  KeepsFiles
  KeepsRejected
  DryRunWritesNothing
