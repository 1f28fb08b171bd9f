--------------------------- MODULE OncePerReminder ---------------------------
(***************************************************************************)
(* What the delivery tier promises about each reminder, a (user, channel)  *)
(* of one fixture and offset, seen from the reader: it has one sender at a *)
(* time, a send that succeeded is the last one, a send that was refused    *)
(* may be taken up again, a claim whose sender died is never sent by       *)
(* another, and a fixture that disappears closes what was not told.        *)
(* DeliveryClaims implements this over Postgres rows and BullMQ jobs.      *)
(***************************************************************************)
EXTENDS Naturals

CONSTANT Key

VARIABLES
  phase,   \* how far each reminder has come
  copies   \* how many copies of it the reader got

Init ==
  /\ phase = [k \in Key |-> "open"]
  /\ copies = [k \in Key |-> 0]

Becomes(K, p) == phase' = [k \in Key |-> IF k \in K THEN p ELSE phase[k]]

\* A sender takes reminders nobody holds, of which none was told.
Claim(K) ==
  /\ \A k \in K : phase[k] \in {"open", "failed"}
  /\ Becomes(K, "claimed")
  /\ UNCHANGED copies

\* The holder gets the reminder out, and knows it.
Tell(k) ==
  /\ phase[k] = "claimed"
  /\ Becomes({k}, "told")
  /\ copies' = [copies EXCEPT ![k] = @ + 1]

\* The holder believes it did not get it out.
Refuse(k) ==
  /\ phase[k] = "claimed"
  /\ Becomes({k}, "rejected")
  /\ copies' \in {copies, [copies EXCEPT ![k] = @ + 1]}

\* The holder hands it back.
GiveUp(k) ==
  /\ phase[k] = "rejected"
  /\ Becomes({k}, "failed")
  /\ UNCHANGED copies

\* The sender is gone with its claim, which stays: dropped, never duplicated.
Drop(K) ==
  /\ \A k \in K : phase[k] \notin {"told", "closed"}
  /\ Becomes(K, "dropped")
  /\ UNCHANGED copies

\* The fixture is gone.
Close(K) ==
  /\ \A k \in K : phase[k] # "told"
  /\ Becomes(K, "closed")
  /\ UNCHANGED copies

Next ==
  \/ \E K \in SUBSET Key : Claim(K) \/ Drop(K) \/ Close(K)
  \/ \E k \in Key : Tell(k) \/ Refuse(k) \/ GiveUp(k)

Spec == Init /\ [][Next]_<<phase, copies>>
=============================================================================
