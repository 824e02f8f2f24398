\* Every mode, with and without fail_on_error, over three lines.
SPECIFICATION Spec
CONSTANTS
  ProcessHome <- MCHome
  Up = ".."
  Tilde = "~"
  Commands <- MCCommands
  ChildCodes <- MCChildCodes
  Trees <- MCTrees
  StartCwd <- Home
  StartEnv <- MCStartEnv
  Modes <- AllModes
  MaxLines = 3
CHECK_DEADLOCK FALSE
INVARIANTS
  TypeOK
  LogChains
  SummaryMatchesLog
  NothingRunsAfterTheEnd
  ExitCodeOfLastCommand
PROPERTY BadPathsDoNotPoison
