SPECIFICATION Spec
CONSTANTS
  None = None
  Call = {p1, p2, p3, p4}
  Key = {k1, k2}
  Ttl = {0, 1, 2, 9}
  MaxInstant = 9
  MaxTime = 3
SYMMETRY Symmetry
INVARIANTS
  NothingLostEarly
PROPERTIES
  NeverLate
  RefusedForUsable
  ImplementsSingleUse
CHECK_DEADLOCK FALSE
