SPECIFICATION Spec
CONSTANTS
  m1 = m1
  m2 = m2
  other = other
  v1 = v1
  v2 = v2
  Toml = Toml
  Machines <- TwoMachines
  Files <- TomlOnly
  Values <- TwoValues
  Missing = Missing
  Marked = Marked
  None = None
  Inits = {"clone", "bootstrap"}
  Flags <- FourRuns
  FaultKinds = {"commit", "push", "materialise", "crash"}
  MaxFaults = 1
  MaxEvents = 2
SYMMETRY Alike
INVARIANTS
  TypeOK
  CommittedOnly
  RInv
PROPERTIES
  PublishedFirst
  EditsKept
