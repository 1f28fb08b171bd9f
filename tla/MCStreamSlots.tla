----------------------------- MODULE MCStreamSlots -----------------------------
(* Small instances of StreamSlots.                                         *)
EXTENDS StreamSlots, TLC

CONSTANTS o1, o2, v1

OwnersAndViewer == {o1, o2, v1}
OneOwnerAndViewer == {o1, v1}
TheViewer == {v1}

\* The owner's requests are alike.
OwnersAlike == Permutations({o1, o2})
=============================================================================
