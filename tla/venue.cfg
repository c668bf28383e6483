CONSTANTS
  c1 = c1
  c2 = c2
  c3 = c3
  e1 = e1
  Command = {c1, c2, c3}
  Submission <- TwoClaimants
  Recording <- TwoClaimants
  EventOf <- ClaimedEvent
  Engine = Engine
  Stop = Stop
  None = None
SPECIFICATION FairSpec
INVARIANTS
  TypeOK
  CommandsHonest
  ShutdownComplete
PROPERTIES
  FailedInQueueStaysOut
  ServiceSpec
  EveryCallAnswered
  StopEndsEngine
CHECK_DEADLOCK FALSE
