SPECIFICATION Spec
CONSTANTS
  alice = alice
  bob = bob
  s1 = s1
  s2 = s2
  t1 = t1
  t2 = t2
  Users = {alice}
  Payments = {s1, s2}
  BuyerOf <- OneBuyer
  KindOf <- TwoSeats
  Invited = {alice}
  Handlers = {h1, h2}
  Capacity = 3
  Term = 2
  None = None
  Started = {}
  Abandoned = {s1}
  Forwarded = {s1, s2}
  MaxTime = 0
  MaxCrashes = 0
INVARIANTS OneSeatPerPayment
CHECK_DEADLOCK FALSE
