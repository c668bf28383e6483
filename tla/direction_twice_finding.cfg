SPECIFICATION Spec
CONSTANTS
  u = u
  v = v
  i = i
  r = r
  s = s
  p = p
  q = q
  None = None
  Venues <- MCVenues
  Task = {i, r, s}
  Instruction = {i}
  VenueOf <- MCVenueOf
  Pool <- MCPool
  Due <- MCDue
  Minutes = {1}
  MaxUpdates = 1
  MaxFaults = 1
CHECK_DEADLOCK FALSE
INVARIANTS
  AdvancedOnce
