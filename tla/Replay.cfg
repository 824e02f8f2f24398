\* Two replays at once that choose their own files.
SPECIFICATION Spec
CONSTANTS
  ProcessHome <- MCHome
  Up = ".."
  Tilde = "~"
  Replays = {r1, r2}
  Unnamed = Unnamed
  LogFiles = {Unnamed}
  Recordings <- MCRecordings
  StartCwd <- Home
  StartEnvs <- MCStartEnvs
  Trees <- MCTrees
  ChildCodes <- MCCodes
  QueueSize = 1
  MaxAttempts = 2
SYMMETRY Symmetry
CHECK_DEADLOCK FALSE
INVARIANTS
  TypeOK
  ReportIsTrue
  ReplayedAsRecorded
PROPERTY EarlierLogsKept
