SPECIFICATION Spec
CONSTANTS
  None = None
  Instance = {i1}
  Tx = {t1, t2}
  Challenged = {t1}
  Code = {c1, c2}
  Iss = {"expected"}
  Call = {d1, d2}
  Ttl = 1
  MaxSkew = 0
  MaxTime = 1
  MaxVersion = 0
  Document <- MCDocument
SYMMETRY Symmetry
INVARIANTS
  BoundToTransaction
  ExchangedAtMostOnce
  ErrorEndsTransaction

PROPERTIES
  ImplementsOneLogin

CHECK_DEADLOCK FALSE
