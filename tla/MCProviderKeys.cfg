SPECIFICATION Spec
CONSTANTS
  None = None
  k1 = k1
  k2 = k2
  u1 = u1
  u2 = u2
  s1 = s1
  s2 = s2
  Key = {k1, k2}
  KeyAlg <- MCKeyAlg
  Uri = {u1, u2}
  MaxVersion = 2
  Document <- MCDocument
  Call = {c1}
  Names = {{}, {"HS256", "none"}}
  Subject = {s1, s2}
  Expected <- MCExpected
INVARIANTS
  UnsignedNeverVerified
  OneSnapshot
  AnswerIsAboutTheSubject
PROPERTIES
  RefusedForAReason
CHECK_DEADLOCK FALSE
