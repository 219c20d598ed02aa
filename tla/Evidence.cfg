SPECIFICATION MCSpec
CONSTANTS
  home = home
  guest = guest
  f = f
  g = g
  Owners = {home, guest}
  Functions = {f, g}
  Listeners = {l1, l2}
  Callers = {home}
  Typed = {f}
  Listings <- HomeLists
  Wanted <- BothAtHome
  Sidecars <- HomeSidecars
  None = none
  Rows = {1, 2}
  Real = 2
  Scopes <- Uses
  Program <- Whole
  Codes = {"c1", "c3", "c4", "c5", "c6"}
  Units = {"u", "v"}
  Root = "root"
  CodeOf <- CodesOf
  UnitOf <- UnitsOf
  OwnerOf <- OwnersOf
  Listed <- Named
  Closures = {"closure"}
  Readable = {"main", "listed"}
  TableUnits = {"u"}
  MaxOwner = 3
  MaxContext = 2
  MaxGeneration = 2
INVARIANTS RecordedIsTrue  
PROPERTIES EvidenceGrows ServedIsStable
SYMMETRY Subscribers
CHECK_DEADLOCK FALSE
