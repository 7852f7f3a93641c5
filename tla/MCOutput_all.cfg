SPECIFICATION Spec
CONSTANTS
  Commands <- AllCommands
  Pkgs = 2
  Files = 2
  GitPaths = 2
  Moves <- Plans
CHECK_DEADLOCK FALSE
INVARIANTS
  Conserved
  InOrder
  UnderTheirSection
  ChangesReported
  DoctorReports
PROPERTIES
  DeliversAll
