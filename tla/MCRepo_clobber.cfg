SPECIFICATION Spec
CONSTANTS
  m1 = m1
  m2 = m2
  other = other
  v1 = v1
  v2 = v2
  Toml = Toml
  Machines <- OneMachine
  Files <- TomlOnly
  Values <- TwoValues
  Missing = Missing
  Marked = Marked
  None = None
  Inits = {"bootstrap"}
  Flags <- TwoRuns
  FaultKinds = {}
  MaxFaults = 0
  MaxEvents = 2
PROPERTIES
  NeverClobbers
