\* One replay that may lose entries or stop at a failure.
SPECIFICATION Spec
CONSTANTS
  ProcessHome <- MCHome
  Up = ".."
  Tilde = "~"
  Replays = {r1}
  Unnamed = Unnamed
  LogFiles = {Unnamed}
  Recordings <- MCRecordings
  StartCwd <- Home
  StartEnvs <- MCStartEnvs
  Trees <- MCTrees
  ChildCodes <- MCCodes
  QueueSize = 1
  MaxAttempts = 2
CHECK_DEADLOCK FALSE
INVARIANT MatchCoversEveryCommand
