SPECIFICATION Spec
CONSTANTS
  None = None
  FieldChoices <- MCFieldChoices
  MaxFields = 5
INVARIANTS
  AcceptsByTheRules
CHECK_DEADLOCK FALSE
