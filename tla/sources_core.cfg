SPECIFICATION Spec
CONSTANTS
  None = None
  q1 = q1
  q2 = q2
  x1 = x1
  l1 = l1
  l2 = l2
  l3 = l3
  home = home
  line = line
SYMMETRY Alike
INVARIANTS TypeOK ListsHonest FeedsHonest
PROPERTIES ListingStays
CHECK_DEADLOCK FALSE
