--------------------------- MODULE MCDeliveryClaims ---------------------------
(* Small instances of DeliveryClaims.                                      *)
EXTENDS DeliveryClaims, TLC

CONSTANTS alice, p1, p2

SharedReader == p1 :> {alice} @@ p2 :> {alice}

\* The id of the first page is evicted and added a second time.
FirstAgain == p1 :> 2 @@ p2 :> 1

SlotsAlike == Permutations(Slots)
=============================================================================
