SPECIFICATION Spec
CONSTANTS
  None = None
  c1 = c1
  q1 = q1
  q2 = q2
  p1 = p1
  p2 = p2
  p3 = p3
  x1 = x1
  x2 = x2
  y1 = y1
  y2 = y2
  k1 = k1
  k2 = k2
  m1 = m1
  m2 = m2
  m3 = m3
  a1 = a1
  a2 = a2
  sub = sub
  owner = owner
  home = home
SYMMETRY Alike
INVARIANTS TypeOK SessionsEarned LimitsKept ReadersApart ChannelsHonest MatchesHonest
PROPERTIES NothingReversed
CHECK_DEADLOCK FALSE
