SPECIFICATION Spec
CONSTANTS
  o1 = o1
  o2 = o2
  v1 = v1
  Requests <- OwnersAndViewer
  Viewers <- TheViewer
  MaxLine = 2
  Ceiling = 2
  Sniffs = TRUE
  Leaves = TRUE
SYMMETRY OwnersAlike
INVARIANTS TypeOK CeilingKept RegistryHonest
CHECK_DEADLOCK FALSE
