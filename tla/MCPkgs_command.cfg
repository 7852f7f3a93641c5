SPECIFICATION FairSpec
CONSTANTS
  None = None
  Exprs <- MCExprs
  Node <- MCNode
  Names <- MCNames
  Orders <- MCOrders
  Vars <- MCVars
  Probes <- MCProbes
  Builtins <- MCBuiltins
  Commands <- MCCommands
  Configs <- MCConfigs
  Paths <- MCPaths
  Brew = "prefix"
  BrewVar = "brew"
  MaxEvents = 1
INVARIANTS
  CInv
  NoReentry
  AnswersSound
  Registered
  Reported
PROPERTIES
  CompileExact
  Ends
CHECK_DEADLOCK FALSE
