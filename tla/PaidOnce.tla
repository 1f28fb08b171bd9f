------------------------------- MODULE PaidOnce -------------------------------
(***************************************************************************)
(* What a checkout promises: money that arrived buys its thing at most     *)
(* once, and whoever introduced the buyer earns on it exactly when the     *)
(* thing is handed over, never before and never alone.                     *)
(***************************************************************************)
CONSTANTS
  Payments,   \* checkouts
  Introduced  \* the payments whose buyer was invited by somebody

VARIABLES
  paid,     \* payments on record as paid
  given,    \* payments that bought what they were for
  credited  \* payments that earned a commission

vars == <<paid, given, credited>>

Init == paid = {} /\ given = {} /\ credited = {}

\* The money is recorded and nothing is given (yet, or because it was sold out).
Take(p) ==
  /\ paid' = paid \cup {p}
  /\ UNCHANGED <<given, credited>>

\* The thing is given and the introduction paid, in one step.
Give(p) ==
  /\ p \notin given
  /\ paid' = paid \cup {p}
  /\ given' = given \cup {p}
  /\ credited' = credited \cup ({p} \cap Introduced)

Next == \E p \in Payments : Take(p) \/ Give(p)

Spec == Init /\ [][Next]_vars
=============================================================================
