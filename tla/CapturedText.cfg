\* Limits below, at and above a chunk; streams of up to six bytes.
SPECIFICATION TextSpec
CONSTANTS
  a = a
  b = b
  Byte = {a, b}
  Limits <- MCLimits
  Chunks <- MCChunks
  MaxTotal = 6
  Mask = Mask
  MinScrub = 2
  UpperCase <- MCUpperCase
  GithubToken <- MCGithubToken
  Markers <- MCMarkers
  Environments <- MCEnvironments
  Rules <- MCRules
  CommandLines <- MCCommandLines
  Programs <- MCPrograms
  Directories <- MCDirectories
CHECK_DEADLOCK FALSE
INVARIANTS
  TypeOK
  KeepsThePrefix
  TruncatedIffLost
  SecretsOnlyInCopiedFields
  OnlySecretsChange
