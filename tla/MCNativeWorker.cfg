SPECIFICATION Spec
CONSTANTS
  p1 = p1
  p2 = p2
  Proc = {p1, p2}
  Sizes = {0, 3}
  BatchSize = 2
  MaxEdits = 2
  MaxFaults = 1
  MaxStarts = 3
  MaxGen = 4
SYMMETRY Processes
INVARIANTS
  ServedIsCurrent
  MarkerIsDeserved
  ListingExact
CHECK_DEADLOCK FALSE
