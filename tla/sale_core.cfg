SPECIFICATION Spec
CONSTANTS
  alice = alice
  bob = bob
  s1 = s1
  s2 = s2
  t1 = t1
  t2 = t2
  Users = {alice, bob}
  Payments = {s1, s2, t1, t2}
  BuyerOf <- Buyers
  KindOf <- Memberships
  Invited = {alice}
  Handlers = {h1, h2}
  Capacity = 1
  Term = 1
  None = None
  Started = {s2, t1, t2}
  Abandoned = {t1}
  Forwarded = {s2}
  MaxTime = 1
  MaxCrashes = 1
SYMMETRY HandlersAlike
INVARIANTS TypeOK SeatsRight TermsStack
PROPERTIES ImplementsPaidOnce
CHECK_DEADLOCK FALSE
