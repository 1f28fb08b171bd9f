SPECIFICATION Spec
CONSTANTS
  None = None
  q1 = q1
  q2 = q2
  o1 = o1
  c1 = c1
  tv = tv
  fm = fm
  a1 = a1
  b1 = b1
  b2 = b2
  k1 = k1
SYMMETRY Alike
INVARIANTS TypeOK HooksHonest RadioSound PageHonest CreditsHonest VaultKeeps
CHECK_DEADLOCK FALSE
