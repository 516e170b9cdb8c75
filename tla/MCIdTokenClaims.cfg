SPECIFICATION Spec
CONSTANTS
  None = None
  Malformed = Malformed
  Client = {me, other}
  Me = me
  Tx = {t1, t2}
  Access = {a1, a2}
  Alg = {"RS256", "Ed25519", "Ed448"}
  Second = 2
  Offsets <- MCOffsets
  Lifetime = 1
  MaxAges = {0, 3}
  Skews = {0, 3}
  OddTimes = {0}
  MaxInstant = 5
  StartTime = 1
  HasOptional = {TRUE, FALSE}
  MaxAud = 2
  Lacks = {"exp"}
  Overrides = {other}
  MaxTime = 4
SYMMETRY Symmetry
INVARIANTS
  AcceptedTokenIsOurs
  OwnTokenAccepted
PROPERTIES
  AuthenticationFresh
  TimesRefuseOnlyWhatIsWrong
CHECK_DEADLOCK FALSE
