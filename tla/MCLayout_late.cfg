SPECIFICATION Spec
CONSTANTS
  Order <- Files
  Keys = {"a", "b", "c", "d", "x"}
  Undotted <- NoDot
  Docs <- LateDocs
  Requests <- AllRequests
  Default <- NoSource
  MaxRuns = 1
  MaxEdits = 1
  MaxFaults = 0
CHECK_DEADLOCK FALSE
INVARIANTS
  BailsEarly
