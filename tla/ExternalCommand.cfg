\* One output stream, three bytes of input in chunks of at most two.
SPECIFICATION FairSpec
CONSTANTS
  Streams = {"stdout"}
  ChildCodes <- Codes
  PipeSize = 2
  ChunkSize = 2
  SourceSize = 3
  OutputSize = 2
CHECK_DEADLOCK FALSE
INVARIANTS
  TypeOK
  CapturesAreQuiet
  OutputIsComplete
  StdinIsNotInvented
  ExitCodeIsTheChilds
PROPERTY CommandIsLogged
