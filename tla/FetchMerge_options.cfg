SPECIFICATION Spec
CONSTANTS
  a1 = a1
  a2 = a2
  Clean <- MCClean
  Fold <- MCFold
  MaxFileBytes = 1
  Accounts = {a1}
  Source <- MCSource
  Contents <- MCContents
  Requests <- OptionRequests
INVARIANTS
  AnswersReference
CHECK_DEADLOCK FALSE
