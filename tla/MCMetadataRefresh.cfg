SPECIFICATION LiveSpec
CONSTANTS
  None = None
  Malformed = Malformed
  Failed = Failed
  uriA = uriA
  uriB = uriB
  Caller = {c1, c2}
  MaxDelta = 10
  ParseMax = 20
  MaxVersion = 2
  JwksUri <- MCJwksUri
  Response <- MCResponse
  DefaultInterval = 2
  DefaultMinimum = 1
  DefaultRetain = 2
  RetryInterval = 1
  MaxInstant = 9
  SettableDurations = {}
  MaxTime = 3
  MaxCalls = 2
INVARIANTS
  SnapshotStaysCurrent
  KeysMatchMetadata
PROPERTIES
  CallsReturn
  ImplementsSingleFlight
CHECK_DEADLOCK FALSE
