\* Replays that choose their own file or are given one.
SPECIFICATION Spec
CONSTANTS
  ProcessHome <- MCHome
  Up = ".."
  Tilde = "~"
  Replays = {r1, r2}
  Unnamed = Unnamed
  LogFiles = {Unnamed, 1}
  Recordings <- MCRecordings
  StartCwd <- Home
  StartEnvs <- MCStartEnvs
  Trees <- MCTrees
  ChildCodes <- MCCodes
  QueueSize = 1
  MaxAttempts = 2
CHECK_DEADLOCK FALSE
PROPERTY FreshLog
