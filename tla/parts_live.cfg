SPECIFICATION Spec
CONSTANTS
  None = None
  a1 = a1
  b1 = b1
  p1 = p1
  q1 = q1
  q2 = q2
  k1 = k1
  k2 = k2
INVARIANTS CacheSound
PROPERTIES JobsEnd StandingFollowersTold GoneGivesBack FetchesEnd PaidIsGranted
  PlaysLand
CHECK_DEADLOCK FALSE
