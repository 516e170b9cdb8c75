SPECIFICATION LiveSpec

CONSTANTS
  None = None
  Instance = {i1, i2}
  Tx = {t1}
  Challenged = {t1}
  Code = {c1}
  Iss = {"expected", "other", "absent"}
  Call = {d1}
  Ttl = 2
  MaxSkew = 1
  MaxTime = 5
  MaxVersion = 1
  Document <- MCChanging

PROPERTIES
  CurrentWhenSent
  RefusalsAreJustified
  MissingIssuerRefused
  CompletionsReturn

CHECK_DEADLOCK FALSE
