CONSTANTS
  Roles = {"representative", "chair", "dm"}
  Last = 4
  Urgent <- UrgentAroundTwo
  Idle <- OwnAction
  MaxRounds = 2
  MaxCalls = 2
SPECIFICATION FairSpec
INVARIANTS
  TypeOK
  LateWorkBounded
  NothingSwallowed
PROPERTIES
  MailSpec
  ReachesPrompt
  StopEndsAgent
CHECK_DEADLOCK FALSE
