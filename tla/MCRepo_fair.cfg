SPECIFICATION FairSpec
CONSTANTS
  m1 = m1
  m2 = m2
  other = other
  v1 = v1
  v2 = v2
  Toml = Toml
  Machines <- TwoMachines
  Files <- TomlOnly
  Values <- TwoValues
  Missing = Missing
  Marked = Marked
  None = None
  Inits = {"clone"}
  Flags <- TwoRuns
  FaultKinds = {}
  MaxFaults = 0
  MaxEvents = 2
PROPERTIES
  Converges
