CONSTANTS
  a = a
  b = b
  c = c
  d = d
  motion = motion
  resolution = resolution
  core = core
  free = free
  ended = ended
  i1 = i1
  i2 = i2
  i3 = i3
  None = None
  Seat <- MCSeat
  Chair = a
  Motion = {motion}
  Resolution = {resolution}
  Target <- MCTarget
  Scope <- MCScope
  Phase <- MCPhase
  FirstPhase = core
  Ended = ended
  Poll <- MCPoll
  Opening <- MCOpening
  FirstItem = i1
  Extra = {i3}
  ActionLimit = 3
  MaxTurns = 1
  MaxFaults = 1
SPECIFICATION Spec
CHECK_DEADLOCK FALSE
INVARIANTS
  TypeOK
  DecisionsOnRecord
  PhaseChain
  AgendaOnRecord
PROPERTY
  DeliberationSpec
