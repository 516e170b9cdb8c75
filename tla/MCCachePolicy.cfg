SPECIFICATION GrowthSpec

CONSTANTS
  None = None
  Malformed = Malformed
  MaxDelta = 4
  ParseMax = 6
  Lines <- MCLines
  MaxLines = 3
  Times <- MCTimes
  ExpiresChoices <- MCExpiresChoices
  DefaultLifetime = 3
  Minimum = 2
  MaxWall = 4

INVARIANTS
  OrderIndependent
  FreshnessEndsWhenStated
  FloorKeepsStrictness

PROPERTIES
  ExtraLineNeverLengthens

CHECK_DEADLOCK FALSE
