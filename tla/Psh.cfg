\* Three lines through a queue of one, and a worker that may fail.
SPECIFICATION Spec
CONSTANTS
  ProcessHome <- NoHome
  Up = ".."
  Tilde = "~"
  Commands <- MCCommands
  ChildCodes <- MCChildCodes
  Trees <- MCTrees
  StartCwd <- Start
  StartEnv <- MCStartEnv
  Modes <- MCModes
  MaxLines = 3
  QueueSize = 1
CHECK_DEADLOCK FALSE
INVARIANTS
  NothingLostSilently
  KilledLeavesPrefix
