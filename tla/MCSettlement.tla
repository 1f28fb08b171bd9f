----------------------------- MODULE MCSettlement -----------------------------
(* Small instances of Settlement.                                          *)
EXTENDS Settlement, TLC

CONSTANTS alice, bob, s1, s2, t1, t2

\* One seat for two readers, and a reader who pays for two terms.
Buyers == s1 :> alice @@ s2 :> bob @@ t1 :> alice @@ t2 :> alice
Memberships == s1 :> "seat" @@ s2 :> "seat" @@ t1 :> "membership" @@ t2 :> "membership"

\* A reader who pays for the same fixture twice.
OneBuyer == s1 :> alice @@ s2 :> alice
TwoSeats == s1 :> "seat" @@ s2 :> "seat"

\* A reader who pays for two passes.
TwoPasses == t1 :> "pass" @@ t2 :> "pass"
PassBuyer == t1 :> alice @@ t2 :> alice

HandlersAlike == Permutations(Handlers)
=============================================================================
