CONSTANTS
  v1 = v1
  v2 = v2
  a1 = a1
  a2 = a2
  Venue = {v1, v2}
  Agent = {a1, a2}
  Starter = Starter
  Operator = Operator
  Supervisor = Supervisor
  Archiver = Archiver
  Monitor = Monitor
  None = None
  MaxFaults = 1
SPECIFICATION Spec
INVARIANTS
  TypeOK
  FinalStateHonest
  FinalStateArchived
SYMMETRY MCSymmetry
PROPERTIES
  ReportSpec
CHECK_DEADLOCK FALSE
