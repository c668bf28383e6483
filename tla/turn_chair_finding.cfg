CONSTANTS
  Roles = {"chair"}
  Last = 2
  Urgent = {1, 2}
  Idle = {}
  MaxRounds = 1
  MaxCalls = 1
SPECIFICATION Spec
INVARIANTS
  InterruptionPasses
CHECK_DEADLOCK FALSE
