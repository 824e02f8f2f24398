\* The queue, the worker and Close against sinks that fail or block, and a main
\* goroutine that may be killed.
SPECIFICATION TimedSpec
CONSTANTS
  QueueSize = 2
  NumSinks = 2
  MaxEntries = 5
  Unencodable <- OneUnencodable
CHECK_DEADLOCK FALSE
INVARIANTS
  TypeOK
  InOrder
  SinksInStep
  FlushedMeansSettled
  DropsReported
  BoundedLoss
  SinksClosedLast
PROPERTIES
  DeliversLog
  CloseReturns
  AcceptedIsSettled
