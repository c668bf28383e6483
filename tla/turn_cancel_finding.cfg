CONSTANTS
  Roles = {"representative"}
  Last = 2
  Urgent = {1, 2}
  Idle = {}
  MaxRounds = 1
  MaxCalls = 1
SPECIFICATION Spec
INVARIANTS
  CancelUnderstood
CHECK_DEADLOCK FALSE
