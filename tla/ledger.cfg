CONSTANTS
  a = a
  b = b
  paper = paper
  vote = vote
  Event = {paper, vote}
  Rep = {a, b}
  KindsOf <- PaperAndVote
  Chairs = {a, Neutral}
  Neutral = Neutral
  Scope <- WithAndWithout
  Box <- OneVoter
  MaxValid = 1
  MaxDraftEdits = 1
  MaxCommands = 2
SPECIFICATION Spec
INVARIANTS
  TypeOK
  PendingListExact
  BallotsStayLegal
  RightOnesTold
  DMTaskedOnce
PROPERTIES
  RecordSpec
CHECK_DEADLOCK FALSE
