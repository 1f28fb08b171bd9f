SPECIFICATION Spec
CONSTANTS
  alice = alice
  bob = bob
  s1 = s1
  s2 = s2
  t1 = t1
  t2 = t2
  Users = {alice}
  Payments = {t1, t2}
  BuyerOf <- PassBuyer
  KindOf <- TwoPasses
  Invited = {alice}
  Handlers = {h1, h2}
  Capacity = 1
  Term = 2
  None = None
  Started = {}
  Abandoned = {}
  Forwarded = {t1, t2}
  MaxTime = 1
  MaxCrashes = 0
INVARIANTS TermsNeverOverlap
CHECK_DEADLOCK FALSE
