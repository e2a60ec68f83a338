SPECIFICATION Spec
CONSTANTS
  Half = 8
  Second = 2
  Bare <- MCBare
  Spelled <- MCSpelled
  Texts <- MCTexts
  DefaultTTL = 1
  DefaultMaxStale = 2
  MaxReal = 5
  MaxSet = 2
INVARIANTS
  TypeOK
  HitWithinTTL
  StaleWithinMaxAge
PROPERTIES
  OffMeansOff
CHECK_DEADLOCK FALSE
