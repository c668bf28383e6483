CONSTANTS
  a = a
  b = b
  u = u
  v = v
  Rep = {a, b}
  Venue = {u, v}
  VenueOf <- MCVenueOf
  Name = {plan, plus}
  Plussed = {plus}
  Content = {x, y}
  About = {draft, final}
  InUse <- MCInUse
  MaxFiles = 1
  MaxCopies = 2
  MaxFaults = 2
  MaxCrashes = 1
  None = None
  plan = plan
  plus = plus
  x = x
  y = y
  draft = draft
  final = final
SYMMETRY MCSymmetry
SPECIFICATION Spec
CHECK_DEADLOCK FALSE
INVARIANTS
  TypeOK
  DiskCanBeTrusted
PROPERTIES
  SharedSpec
