\* Pages of two, and two changes at GitHub while psh reads.
SPECIFICATION Spec
CONSTANTS
  Second = 1000
  Names <- MCNames
  Lists <- MCLists
  PerPage = 2
  MaxChanges = 2
  Inputs <- MCInputs
CHECK_DEADLOCK FALSE
INVARIANTS
  PrecedenceHolds
  LoggerCanWork
  RulesNameTheSecrets
PROPERTY DiscoveryEnds
