SPECIFICATION Spec
CONSTANTS
  None = None
  Garbled = Garbled
  Issuer <- MCIssuer
  Document <- MCDocument
INVARIANTS
  IssuerIsTheOneAsked
  RequestsStayHome
  CanVerify
CHECK_DEADLOCK FALSE
