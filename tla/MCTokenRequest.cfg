SPECIFICATION Spec
CONSTANTS
  None = None
  Tx = {t1, t2}
  Confidential = {t2}
  Redirect = {r1}
  ScopeLists <- MCScopes
  MaxAges = {3}
  Extras <- MCExtras
  Document <- MCDocument
  MaxVersion = 2
  Second = 2
  MaxDraws = 6
  MaxSettings = 1
INVARIANTS
  UrlMatchesPending
PROPERTIES
  ProviderAccepts
  SecretSentOnce
CHECK_DEADLOCK FALSE
