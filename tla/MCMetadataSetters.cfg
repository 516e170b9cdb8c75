SPECIFICATION HSpec
CONSTANTS
  None = None
  Malformed = Malformed
  Failed = Failed
  uriA = uriA
  uriB = uriB
  Caller = {c1, c2}
  MaxDelta = 10
  ParseMax = 20
  MaxVersion = 1
  JwksUri <- MCJwksUri2
  Response <- MCResponse
  DefaultInterval = 2
  DefaultMinimum = 1
  DefaultRetain = 2
  RetryInterval = 2
  MaxInstant = 9
  SettableDurations = {0, 3, 9}
  MaxTime = 3
  MaxCalls = 1
SYMMETRY Symmetry
INVARIANTS
  DeadlinesOK

PROPERTIES
  SettingsSurviveRefresh
  StaleCheckReturnsUsable
  OutageMasked
  StaleChecksAreSpaced

CHECK_DEADLOCK FALSE
