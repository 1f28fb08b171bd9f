SPECIFICATION Spec
CONSTANTS
  alice = alice
  p1 = p1
  p2 = p2
  Users = {alice}
  Jobs = {p1, p2}
  Page <- SharedReader
  Slots = {s1, s2}
  MaxAttempts = 2
  MaxStalls = 1
  MaxAdds <- FirstAgain
  Crashes = TRUE
  Faults = TRUE
  AckLoss = FALSE
  None = None
INVARIANTS TypeOK AtMostOneSuccess ClaimInvariant SentMeansTold
PROPERTIES ImplementsPromise
SYMMETRY SlotsAlike
CHECK_DEADLOCK FALSE
