SPECIFICATION Spec
CONSTANTS
  v1 = v1
  v2 = v2
  i1 = i1
  i2 = i2
  prod = prod
  PROD = PROD
  Gone = Gone
  VaultIds = {v1, v2}
  ItemIds = {i1, i2}
  Names = {prod, PROD, i1}
  IdShaped = {v1, v2, i1, i2}
  Fold <- MCFold
  Sizes = {1, 2}
  MaxFileBytes = 1
  Sources = {"connect", "sdk"}
  Refs <- MCRefs
  MaxEdits = 2
INVARIANTS
  FileWithinLimit
  AnswersWhatItNames
CHECK_DEADLOCK FALSE
