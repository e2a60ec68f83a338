SPECIFICATION Spec
CONSTANTS
  Half = 131072
  Second = 1
  Bare <- MCBare
  Spelled <- MCSpelled
  Settings <- MCSettings
  AwsVariables <- MCAwsVariables
  Worlds <- MCWorlds
  HostFiles <- MCHostFiles
  Environments <- MCEnvironments
  Tokens <- MCTokens
  Trimmed <- MCTrimmed
  Paths <- MCPaths
  Malformed <- MCMalformed
INVARIANTS
  TypeOK
  CheckPredictsFetch
  CheckReportsAll
  HostFileDecides
  DescribesRegistered
  SdkSeesOnlyConfig
  BuildsWhenNeeded
CHECK_DEADLOCK FALSE
