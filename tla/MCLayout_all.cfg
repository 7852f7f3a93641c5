SPECIFICATION Spec
CONSTANTS
  Order <- Files
  Keys = {"a", "b", "c", "d", "x"}
  Undotted <- NoDot
  Docs <- AllDocs
  Requests <- AllRequests
  Default <- NoSource
  MaxRuns = 2
  MaxEdits = 1
  MaxFaults = 1
CHECK_DEADLOCK FALSE
INVARIANTS
  AdoptedStays
  StayInv
PROPERTIES
  OneRoot
  PreviewExact
  OthersKept
