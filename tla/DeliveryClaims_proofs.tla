------------------------ MODULE DeliveryClaims_proofs ------------------------
(***************************************************************************)
(* Proofs about DeliveryClaims, for every set of users, jobs and slots,    *)
(* every paging, every limit, and with deaths, faults and lost responses;  *)
(* and, last, about what they are sent to, P: the notification toggle of a *)
(* browser, for any pages and accounts and any number of presses and       *)
(* faults.                                                                 *)
(***************************************************************************)
EXTENDS DeliveryClaims, TLAPS

CONSTANTS Pages, MaxPresses, MaxEndpoints, MaxSettings, MaxFaults

VARIABLES permission, sub, minted, who, stored, press, repaint, current, shown, holding, late,
          posted, excused, presses, settings, mishaps

\* The notification toggle of a browser, which makes the endpoints that reminders are sent to.
P == INSTANCE Push WITH row <- stored, pc <- press, faults <- mishaps

\* Every step keeps the variables in their types.
LEMMA TypeStep == ASSUME TypeOK, [Next]_vars PROVE TypeOK'
<1> USE DEF TypeOK, Channels, JobStates, Steps, jobVars, execVars, ghosts
<1>1. ASSUME NEW j \in Jobs, Enqueue(j) PROVE TypeOK'
  BY <1>1 DEF Enqueue
<1>2. ASSUME NEW j \in Jobs, Evict(j) PROVE TypeOK'
  BY <1>2 DEF Evict
<1>3. ASSUME NEW j \in Jobs, Backoff(j) PROVE TypeOK'
  BY <1>3 DEF Backoff
<1>4. ASSUME NEW j \in Jobs, Stalled(j) PROVE TypeOK'
  BY <1>4 DEF Stalled
<1>5. ASSUME NEW s \in Slots, NEW j \in Jobs, Take(s, j) PROVE TypeOK'
  BY <1>5 DEF Take
<1>6. ASSUME NEW s \in Slots, Finish(s) PROVE TypeOK'
  <2>1. PICK q \in Jobs \cup {None} : serving[s] = q
    OBVIOUS
  <2>2. job' \in [Jobs -> JobStates] /\ owner' \in [Jobs -> Slots \cup {None}]
    BY <1>6 DEF Finish
  <2> QED BY <1>6, <2>2 DEF Finish, Release
<1>7. ASSUME NEW s \in Slots, Throw(s), row' \in [Key -> {"none", "sent", "failed"}],
             UNCHANGED <<acked, received>>, dropped' \subseteq Key
      PROVE TypeOK'
  <2>1. /\ attempts' \in [Jobs -> Nat]
        /\ job' \in [Jobs -> JobStates]
        /\ owner' \in [Jobs -> Slots \cup {None}]
    <3>1. CASE HoldsLock(s) /\ serving[s] \in Jobs
      BY <1>7, <3>1 DEF Throw
    <3>2. CASE HoldsLock(s) /\ serving[s] \notin Jobs
      BY <1>7, <3>2 DEF Throw
    <3>3. CASE ~HoldsLock(s)
      BY <1>7, <3>3 DEF Throw
    <3> QED BY <3>1, <3>2, <3>3
  <2>2. Release(s) /\ UNCHANGED <<gone, stalls, adds>>
    BY <1>7 DEF Throw
  <2> QED BY <1>7, <2>1, <2>2 DEF Release
<1>8. ASSUME NEW s \in Slots, Crash(s) PROVE TypeOK'
  BY <1>8 DEF Crash, Release, Drops, Held
<1>9. ASSUME NEW s \in Slots, LoadEvent(s) PROVE TypeOK'
  BY <1>9 DEF LoadEvent
<1>10. ASSUME NEW s \in Slots, LoadTargets(s) PROVE TypeOK'
  BY <1>10 DEF LoadTargets
<1>11. ASSUME NEW s \in Slots, Claim(s) PROVE TypeOK'
  BY <1>11 DEF Claim, TakeRows, Claimable
<1>12. ASSUME NEW s \in Slots, ClaimOrphan(s) PROVE TypeOK'
  BY <1>12, <1>7 DEF ClaimOrphan
<1>13. ASSUME NEW s \in Slots, Fault(s) PROVE TypeOK'
  <2>1. Held(s) \subseteq Key /\ Claimable(s) \subseteq Key
    BY DEF Held, Claimable
  <2>2. UNCHANGED <<acked, received>> /\ dropped' \subseteq Key
    BY <1>13, <2>1 DEF Fault, Drops
  <2>3. row' \in [Key -> {"none", "sent", "failed"}]
    BY <1>13 DEF Fault, TakeRows
  <2> QED BY <1>7, <1>13, <2>2, <2>3 DEF Fault
<1>14. ASSUME NEW s \in Slots, NEW k \in Key, SendOk(s, k) PROVE TypeOK'
  BY <1>14 DEF SendOk
<1>15. ASSUME NEW s \in Slots, NEW k \in Key, SendRejected(s, k) PROVE TypeOK'
  BY <1>15 DEF SendRejected
<1>16. ASSUME NEW s \in Slots, AllSettled(s) PROVE TypeOK'
  BY <1>16 DEF AllSettled
<1>17. ASSUME NEW s \in Slots, NEW k \in Key, MarkFailed(s, k) PROVE TypeOK'
  BY <1>17 DEF MarkFailed
<1>18. ASSUME NEW s \in Slots, NextChannel(s) PROVE TypeOK'
  BY <1>18 DEF NextChannel
<1>19. CASE DeleteEvent
  BY <1>19 DEF DeleteEvent
<1>20. CASE UNCHANGED vars
  BY <1>20 DEF vars
<1> QED
  BY <1>1, <1>2, <1>3, <1>4, <1>5, <1>6, <1>8, <1>9, <1>10, <1>11, <1>12, <1>13,
     <1>14, <1>15, <1>16, <1>17, <1>18, <1>19, <1>20
  DEF Next, Execution, Queue

\* The part of ClaimInvariant that is not typing.
Consistent ==
  ListsDisjoint /\ OneHolder /\ HeldIsClaimed /\ ToldIsClosed /\ EmptyHanded /\ GoneTakesRows

Early == {"idle", "event", "targets", "claim"}

\* Steps that touch neither the rows nor what the executions hold.
LEMMA FrameStep ==
  ASSUME Consistent, UNCHANGED <<gone, row, pending, rejected, acked>>,
         \A s \in Slots : pc'[s] \in Early => pc[s] \in Early
  PROVE  Consistent'
  BY DEF Early, EmptyHanded, Consistent, ListsDisjoint, OneHolder, HeldIsClaimed, ToldIsClosed,
         GoneTakesRows, Held

\* An execution that ends, however it ends, only lets go of what it held.
LEMMA ReleaseStep ==
  ASSUME TypeOK, Consistent, NEW s \in Slots, Release(s), UNCHANGED <<gone, row, acked>>
  PROVE  Consistent'
<1>1. \A t \in Slots : /\ pending'[t] \subseteq pending[t]
                       /\ rejected'[t] \subseteq rejected[t]
  BY DEF Release, TypeOK
<1>2. \A t \in Slots : pc'[t] \in Early => t = s \/ pc[t] \in Early
  BY DEF Release, TypeOK
<1>3. pending'[s] = {} /\ rejected'[s] = {}
  BY DEF Release, TypeOK
<1>4. EmptyHanded'
  BY <1>1, <1>2, <1>3 DEF Consistent, EmptyHanded, Held, Early
<1> QED
  BY <1>1, <1>4 DEF Consistent, ListsDisjoint, OneHolder, HeldIsClaimed, ToldIsClosed,
              GoneTakesRows, Held

\* The upsert takes no row that says sent, and none of a fixture that is gone.
LEMMA ClaimStep ==
  ASSUME TypeOK, Consistent, NEW s \in Slots, Claim(s)
  PROVE  Consistent'
<1>1. /\ targets[s] = {} \/ ~gone
      /\ TakeRows(s)
      /\ UNCHANGED <<gone, rejected, acked>>
      /\ pending' = [pending EXCEPT ![s] = Claimable(s)]
  BY DEF Claim, ghosts
<1>2. \A k \in Claimable(s) :
        k \in Key /\ row[k] # "sent" /\ ~gone /\ acked[k] = 0
  BY <1>1 DEF Claimable, TypeOK, Consistent, ToldIsClosed
<1>3. \A k \in Claimable(s) : \A t \in Slots : k \notin Held(t)
  BY <1>2 DEF Consistent, HeldIsClaimed
<1>4. \A k \in Key : row'[k] = IF k \in Claimable(s) THEN "sent" ELSE row[k]
  BY <1>1 DEF TakeRows
<1>5. /\ pending'[s] = Claimable(s)
      /\ \A t \in Slots : t # s => pending'[t] = pending[t]
  BY <1>1 DEF TypeOK
<1>6. \A t \in Slots : Held(t) \subseteq Key
  BY DEF Held, TypeOK
<1>7. /\ Held(s)' \subseteq Claimable(s) \cup Held(s)
      /\ \A t \in Slots : t # s => Held(t)' = Held(t)
  BY <1>1, <1>5 DEF Held
<1>8. ListsDisjoint'
  BY <1>1, <1>3, <1>5 DEF Consistent, ListsDisjoint, Held
<1>9. OneHolder'
  BY <1>3, <1>7 DEF Consistent, OneHolder
<1>10. HeldIsClaimed'
  BY <1>1, <1>2, <1>4, <1>6, <1>7 DEF Consistent, HeldIsClaimed
<1>11. ToldIsClosed' /\ GoneTakesRows'
  BY <1>1, <1>2, <1>4 DEF Consistent, ToldIsClosed, GoneTakesRows
<1>12. EmptyHanded'
  BY <1>1, <1>5 DEF Consistent, EmptyHanded, Held, Claim, TypeOK
<1> QED BY <1>8, <1>9, <1>10, <1>11, <1>12 DEF Consistent

\* A send that was answered moves one key out of pending, to told or to rejected.
LEMMA SendStep ==
  ASSUME TypeOK, Consistent, NEW s \in Slots, NEW k \in Key,
         SendOk(s, k) \/ SendRejected(s, k)
  PROVE  Consistent'
<1>1. k \in pending[s] /\ k \in Held(s)
  BY DEF SendOk, SendRejected, Outstanding, Held
<1>2. /\ acked[k] = 0
      /\ gone \/ row[k] = "sent"
      /\ k \notin rejected[s]
      /\ \A t \in Slots : t # s => k \notin Held(t)
  BY <1>1 DEF Consistent, HeldIsClaimed, ListsDisjoint, OneHolder
<1>3. UNCHANGED <<gone, row>> /\ pending' = [pending EXCEPT ![s] = @ \ {k}]
  BY DEF SendOk, SendRejected
<1>6. EmptyHanded'
  BY DEF SendOk, SendRejected, Consistent, EmptyHanded, Held, TypeOK
<1>4. CASE SendOk(s, k)
  <2>1. rejected' = rejected /\ acked' = [acked EXCEPT ![k] = @ + 1]
    BY <1>4 DEF SendOk
  <2>2. acked'[k] = 1 /\ \A l \in Key : l # k => acked'[l] = acked[l]
    BY <2>1, <1>2 DEF TypeOK
  <2>3. /\ k \notin Held(s)'
        /\ \A t \in Slots : Held(t)' \subseteq Held(t) /\ Held(t) \subseteq Key
        /\ \A t \in Slots : pending'[t] \subseteq pending[t]
    BY <1>2, <1>3, <2>1 DEF Held, TypeOK
  <2>4. ListsDisjoint' /\ OneHolder'
    BY <2>1, <2>3 DEF Consistent, ListsDisjoint, OneHolder
  <2>5. HeldIsClaimed'
    BY <1>2, <1>3, <2>2, <2>3 DEF Consistent, HeldIsClaimed
  <2>6. ToldIsClosed' /\ GoneTakesRows'
    BY <1>2, <1>3, <2>2 DEF Consistent, ToldIsClosed, GoneTakesRows
  <2> QED BY <2>4, <2>5, <2>6, <1>6 DEF Consistent
<1>5. CASE SendRejected(s, k)
  <2>1. rejected' = [rejected EXCEPT ![s] = @ \cup {k}] /\ acked' = acked
    BY <1>5 DEF SendRejected
  <2>2. \A t \in Slots : Held(t)' = Held(t)
    BY <1>1, <1>3, <2>1 DEF Held, TypeOK
  <2>3. ListsDisjoint'
    BY <1>1, <1>3, <2>1 DEF Consistent, ListsDisjoint, TypeOK
  <2>4. OneHolder' /\ HeldIsClaimed' /\ ToldIsClosed' /\ GoneTakesRows'
    BY <1>3, <2>1, <2>2
    DEF Consistent, OneHolder, HeldIsClaimed, ToldIsClosed, GoneTakesRows
  <2> QED BY <2>3, <2>4, <1>6 DEF Consistent
<1> QED BY <1>4, <1>5

\* Marking a delivery failed reopens a row its marker alone held.
LEMMA MarkStep ==
  ASSUME TypeOK, Consistent, NEW s \in Slots, NEW k \in Key, MarkFailed(s, k)
  PROVE  Consistent'
<1>1. k \in rejected[s] /\ k \in Held(s) /\ k \notin pending[s]
  BY DEF MarkFailed, Held, Consistent, ListsDisjoint
<1>2. acked[k] = 0 /\ \A t \in Slots : t # s => k \notin Held(t)
  BY <1>1 DEF Consistent, HeldIsClaimed, OneHolder
<1>3. /\ UNCHANGED <<gone, pending, acked>>
      /\ rejected' = [rejected EXCEPT ![s] = @ \ {k}]
      /\ row' = IF row[k] = "none" THEN row ELSE [row EXCEPT ![k] = "failed"]
  BY DEF MarkFailed, ghosts
<1>4. /\ k \notin Held(s)'
      /\ \A t \in Slots : /\ Held(t)' \subseteq Held(t) /\ Held(t) \subseteq Key
                          /\ rejected'[t] \subseteq rejected[t]
  BY <1>1, <1>3 DEF Held, TypeOK
<1>5. \A l \in Key : /\ l # k => row'[l] = row[l]
                     /\ row[l] = "none" => row'[l] = "none"
  BY <1>3 DEF TypeOK
<1>6. ListsDisjoint' /\ OneHolder'
  BY <1>3, <1>4 DEF Consistent, ListsDisjoint, OneHolder
<1>7. HeldIsClaimed'
  BY <1>2, <1>3, <1>4, <1>5 DEF Consistent, HeldIsClaimed
<1>8. ToldIsClosed' /\ GoneTakesRows'
  BY <1>2, <1>3, <1>5 DEF Consistent, ToldIsClosed, GoneTakesRows
<1>9. EmptyHanded'
  BY DEF MarkFailed, Consistent, EmptyHanded, Held, TypeOK
<1> QED BY <1>6, <1>7, <1>8, <1>9 DEF Consistent

LEMMA DeleteStep ==
  ASSUME Consistent, DeleteEvent
  PROVE  Consistent'
  BY DEF DeleteEvent, Consistent, EmptyHanded, ListsDisjoint, OneHolder, HeldIsClaimed,
         ToldIsClosed, GoneTakesRows, Held, execVars, ghosts

\* A fault throws the execution away, after the upsert committed or before.
LEMMA FaultStep ==
  ASSUME TypeOK, Consistent, NEW s \in Slots, Fault(s)
  PROVE  Consistent'
<1>1. Release(s) /\ UNCHANGED <<gone, acked>>
  BY DEF Fault, Throw, Drops
<1>2. CASE UNCHANGED row
  BY <1>1, <1>2, ReleaseStep
<1>3. CASE pc[s] = "claim" /\ ~gone /\ TakeRows(s)
  <2>1. \A k \in Key : row'[k] = IF k \in Claimable(s) THEN "sent" ELSE row[k]
    BY <1>3 DEF TakeRows
  <2>2. \A t \in Slots : /\ pending'[t] \subseteq pending[t]
                         /\ rejected'[t] \subseteq rejected[t]
                         /\ Held(t)' \subseteq Held(t) /\ Held(t) \subseteq Key
    BY <1>1 DEF Release, TypeOK, Held
  <2>3. ListsDisjoint' /\ OneHolder'
    BY <2>2 DEF Consistent, ListsDisjoint, OneHolder
  <2>4. HeldIsClaimed' /\ ToldIsClosed' /\ GoneTakesRows'
    BY <1>1, <1>3, <2>1, <2>2 DEF Consistent, HeldIsClaimed, ToldIsClosed, GoneTakesRows
  <2>5. EmptyHanded'
    BY <1>1, <2>2 DEF Consistent, EmptyHanded, Release, Held, TypeOK
  <2> QED BY <2>3, <2>4, <2>5 DEF Consistent
<1> QED BY <1>2, <1>3 DEF Fault

LEMMA ConsistentStep == ASSUME TypeOK, Consistent, [Next]_vars PROVE Consistent'
<1>1. ASSUME NEW j \in Jobs,
             Enqueue(j) \/ Evict(j) \/ Backoff(j) \/ Stalled(j) \/ \E s \in Slots : Take(s, j)
      PROVE  Consistent'
  BY <1>1, FrameStep DEF Enqueue, Evict, Backoff, Stalled, Take, Early, TypeOK, execVars, ghosts
<1>2. ASSUME NEW s \in Slots,
             LoadEvent(s) \/ LoadTargets(s) \/ AllSettled(s) \/ NextChannel(s)
      PROVE  Consistent'
  BY <1>2, FrameStep DEF LoadEvent, LoadTargets, AllSettled, NextChannel, Early, TypeOK, ghosts
<1>3. ASSUME NEW s \in Slots, Finish(s) \/ ClaimOrphan(s) \/ Crash(s)
      PROVE  Consistent'
  BY <1>3, ReleaseStep DEF Finish, ClaimOrphan, Throw, Crash, Drops, ghosts
<1>4. CASE UNCHANGED vars
  BY <1>4, FrameStep DEF vars, execVars, ghosts
<1> QED
  BY <1>1, <1>2, <1>3, <1>4, ClaimStep, FaultStep, SendStep, MarkStep, DeleteStep
  DEF Next, Execution, Queue

-----------------------------------------------------------------------------
\* The variables keep their types, whatever dies, stalls or throws.
THEOREM TypeCorrect == Spec => []TypeOK
<1>1. Init => TypeOK
  <2> SUFFICES ASSUME Init PROVE TypeOK
    OBVIOUS
  <2>1. /\ gone \in BOOLEAN /\ row \in [Key -> {"none", "sent", "failed"}]
        /\ acked \in [Key -> Nat] /\ received \in [Key -> Nat] /\ dropped \subseteq Key
    BY DEF Init
  <2>2. /\ job \in [Jobs -> JobStates] /\ owner \in [Jobs -> Slots \cup {None}]
        /\ attempts \in [Jobs -> Nat] /\ stalls \in [Jobs -> Nat]
        /\ adds \in [Jobs -> Nat]
    BY DEF Init, JobStates
  <2>3. /\ serving \in [Slots -> Jobs \cup {None}] /\ pc \in [Slots -> Steps]
        /\ channel \in [Slots -> Channels]
    BY DEF Init, Steps, Channels
  <2>4. /\ targets \in [Slots -> SUBSET Key] /\ pending \in [Slots -> SUBSET Key]
        /\ rejected \in [Slots -> SUBSET Key]
    BY DEF Init
  <2> QED BY <2>1, <2>2, <2>3, <2>4 DEF TypeOK
<1> QED BY <1>1, TypeStep, PTL DEF Spec

\* The strengthening of the claim protocol is inductive: what an execution
\* holds is claimed in the table, by it alone, and was not sent.
THEOREM ClaimsConsistent == Spec => []ClaimInvariant
<1>1. Init => Consistent
  BY DEF Init, Consistent, EmptyHanded, ListsDisjoint, OneHolder, HeldIsClaimed, ToldIsClosed,
         GoneTakesRows, Held
<1>2. Spec => [](TypeOK /\ Consistent)
  BY <1>1, ConsistentStep, TypeCorrect, PTL DEF Spec
<1>3. TypeOK /\ Consistent => ClaimInvariant
  BY DEF Consistent, ClaimInvariant
<1> QED BY <1>2, <1>3, PTL

\* No reminder is sent with success twice (claimDeliveries and its callers).
THEOREM AtMostOnce == Spec => []AtMostOneSuccess
<1>1. ClaimInvariant => AtMostOneSuccess
  BY DEF ClaimInvariant, ToldIsClosed, AtMostOneSuccess, TypeOK
<1> QED BY <1>1, ClaimsConsistent, PTL

\* Two executions never hold the same claim.
THEOREM OneHolderAlways == Spec => []OneHolder
<1>1. ClaimInvariant => OneHolder
  BY DEF ClaimInvariant
<1> QED BY <1>1, ClaimsConsistent, PTL

\* After a success the reader is never sent that reminder again.
THEOREM NothingAfterSuccess == Spec => SuccessIsFinal
<1>1. ASSUME ClaimInvariant, [Next]_vars
      PROVE  [\A k \in Key : acked[k] > 0 => received'[k] = received[k]]_vars
  <2>1. ASSUME NEW k \in Key, acked[k] > 0
        PROVE  received'[k] = received[k]
    <3>1. \A s \in Slots : k \notin pending[s]
      BY <1>1, <2>1 DEF ClaimInvariant, HeldIsClaimed, Held
    <3>2. ASSUME NEW s \in Slots, NEW l \in Key, SendOk(s, l) \/ SendRejected(s, l)
          PROVE  received'[k] = received[k]
      BY <1>1, <3>1, <3>2 DEF SendOk, SendRejected, Outstanding, ClaimInvariant, TypeOK
    <3>3. ASSUME NEW j \in Jobs,
                 Enqueue(j) \/ Evict(j) \/ Backoff(j) \/ Stalled(j)
                   \/ \E s \in Slots : Take(s, j)
          PROVE  received'[k] = received[k]
      BY <3>3 DEF Enqueue, Evict, Backoff, Stalled, Take, ghosts
    <3>4. ASSUME NEW s \in Slots,
                 \/ LoadEvent(s) \/ LoadTargets(s) \/ Claim(s) \/ ClaimOrphan(s)
                 \/ AllSettled(s) \/ NextChannel(s) \/ Finish(s) \/ Fault(s) \/ Crash(s)
                 \/ \E l \in Key : MarkFailed(s, l)
          PROVE  received'[k] = received[k]
      BY <3>4 DEF LoadEvent, LoadTargets, Claim, ClaimOrphan, AllSettled, NextChannel,
                  Finish, Fault, Throw, Crash, Drops, MarkFailed, ghosts
    <3>5. DeleteEvent \/ UNCHANGED vars => received'[k] = received[k]
      BY DEF DeleteEvent, vars, ghosts
    <3> QED
      BY <1>1, <3>2, <3>3, <3>4, <3>5 DEF Next, Execution, Queue
  <2> QED BY <2>1
<1> QED BY <1>1, ClaimsConsistent, PTL DEF Spec, SuccessIsFinal

-----------------------------------------------------------------------------
(* The refinement: runBatch implements OncePerReminder.                    *)

phaseBar == [k \in Key |-> PhaseOf(k)]

PendingSome(k) == \E s \in Slots : k \in pending[s]
RejectedSome(k) == \E s \in Slots : k \in rejected[s]

\* What ClaimInvariant says of one key, as the phases need it.
LEMMA KeyFacts ==
  ASSUME ClaimInvariant, NEW k \in Key
  PROVE  /\ acked[k] \in Nat
         /\ received[k] \in Nat
         /\ row[k] \in {"none", "sent", "failed"}
         /\ gone \in BOOLEAN
         /\ PendingSome(k) \/ RejectedSome(k) => acked[k] = 0 /\ (gone \/ row[k] = "sent")
         /\ ~(PendingSome(k) /\ RejectedSome(k))
<1>1. PendingSome(k) \/ RejectedSome(k) => acked[k] = 0 /\ (gone \/ row[k] = "sent")
  BY DEF ClaimInvariant, HeldIsClaimed, Held, PendingSome, RejectedSome
<1>2. ~(PendingSome(k) /\ RejectedSome(k))
  <2>1. ASSUME NEW s \in Slots, NEW t \in Slots, k \in pending[s], k \in rejected[t]
        PROVE  FALSE
    BY <2>1 DEF ClaimInvariant, OneHolder, ListsDisjoint, Held
  <2> QED BY <2>1 DEF PendingSome, RejectedSome
<1> QED BY <1>1, <1>2 DEF ClaimInvariant, TypeOK

\* Steps that keep every phase and give the reader nothing are stutters.
LEMMA StutterPhase ==
  ASSUME \A k \in Key : PhaseOf(k)' = PhaseOf(k), UNCHANGED received
  PROVE  UNCHANGED <<phaseBar, received>>
  BY DEF phaseBar

LEMMA FramePhase ==
  ASSUME UNCHANGED <<gone, row, pending, rejected, acked, received>>
  PROVE  UNCHANGED <<phaseBar, received>>
  BY DEF phaseBar, PhaseOf

\* Steps that send one key to phase p, and leave the others.
LEMMA OnePhase ==
  ASSUME NEW k \in Key, NEW p, PhaseOf(k)' = p,
         \A l \in Key : l # k => PhaseOf(l)' = PhaseOf(l)
  PROVE  phaseBar' = [l \in Key |-> IF l \in {k} THEN p ELSE phaseBar[l]]
  BY DEF phaseBar

\* Steps that send a set of keys to phase p, and leave the others.
LEMMA SomePhases ==
  ASSUME NEW p, \A l \in Key : PhaseOf(l)' = PhaseOf(l) \/ PhaseOf(l)' = p
  PROVE  phaseBar' = [l \in Key |-> IF l \in {k \in Key : PhaseOf(k)' = p}
                                    THEN p ELSE phaseBar[l]]
  BY DEF phaseBar

\* The abstract step these steps make: claims dropped, or closed with the fixture.
LEMMA DropOrClose ==
  ASSUME NEW p \in {"dropped", "closed"}, UNCHANGED received,
         \A l \in Key : \/ PhaseOf(l)' = PhaseOf(l)
                        \/ PhaseOf(l)' = p /\ PhaseOf(l) # "told"
                                          /\ (p = "dropped" => PhaseOf(l) # "closed")
  PROVE  Promise!Next
<1> DEFINE K == {l \in Key : PhaseOf(l)' = p}
<1>1. phaseBar' = [l \in Key |-> IF l \in K THEN p ELSE phaseBar[l]]
  BY SomePhases
<1>2. \A l \in K : phaseBar[l] # "told" /\ (p = "dropped" => phaseBar[l] # "closed")
  BY DEF phaseBar
<1>3. CASE p = "dropped"
  <2>1. Promise!Drop(K)
    BY <1>1, <1>2, <1>3 DEF Promise!Drop, Promise!Becomes, phaseBar
  <2> QED BY <2>1 DEF Promise!Next
<1>4. CASE p = "closed"
  <2>1. Promise!Close(K)
    BY <1>1, <1>2, <1>4 DEF Promise!Close, Promise!Becomes, phaseBar
  <2> QED BY <2>1 DEF Promise!Next
<1> QED BY <1>3, <1>4

\* An execution that ends drops what it held, or closes it if the fixture is gone.
LEMMA LetGoPhase ==
  ASSUME ClaimInvariant, UNCHANGED <<gone, row, acked, received>>,
         \A k \in Key : /\ PendingSome(k)' => PendingSome(k)
                        /\ RejectedSome(k)' => RejectedSome(k)
  PROVE  Promise!Next
<1>1. ASSUME NEW k \in Key
      PROVE  \/ PhaseOf(k)' = PhaseOf(k)
             \/ /\ PhaseOf(k)' = IF gone THEN "closed" ELSE "dropped"
                /\ PhaseOf(k) \in {"claimed", "rejected"}
  BY KeyFacts DEF PhaseOf, PendingSome, RejectedSome
<1> QED BY <1>1, DropOrClose

LEMMA ReleasePhase ==
  ASSUME ClaimInvariant, NEW s \in Slots, Release(s),
         UNCHANGED <<gone, row, acked, received>>
  PROVE  Promise!Next
<1>1. \A t \in Slots : /\ pending'[t] \subseteq pending[t]
                       /\ rejected'[t] \subseteq rejected[t]
  BY DEF Release, ClaimInvariant, TypeOK
<1>2. \A k \in Key : /\ PendingSome(k)' => PendingSome(k)
                     /\ RejectedSome(k)' => RejectedSome(k)
  BY <1>1 DEF PendingSome, RejectedSome
<1> QED BY <1>2, LetGoPhase

\* What an upsert can take: rows open or failed, of a fixture that is there.
LEMMA ClaimableFacts ==
  ASSUME ClaimInvariant, NEW s \in Slots, TakeRows(s), targets[s] = {} \/ ~gone,
         UNCHANGED <<gone, acked>>
  PROVE  /\ \A k \in Claimable(s) : /\ k \in Key /\ ~gone
                                    /\ PhaseOf(k) \in {"open", "failed"}
                                    /\ acked'[k] = 0 /\ row'[k] = "sent"
                                    /\ ~PendingSome(k) /\ ~RejectedSome(k)
         /\ \A k \in Key : k \notin Claimable(s) => row'[k] = row[k] /\ acked'[k] = acked[k]
         /\ gone => row' = row
<1>1. \A k \in Claimable(s) :
        k \in Key /\ row[k] \in {"none", "failed"} /\ ~gone /\ row'[k] = "sent"
  BY DEF Claimable, TakeRows, ClaimInvariant, TypeOK
<1>2. ASSUME NEW k \in Claimable(s)
      PROVE  acked[k] = 0 /\ ~PendingSome(k) /\ ~RejectedSome(k)
  BY <1>1, KeyFacts DEF ClaimInvariant, ToldIsClosed
<1>3. \A k \in Claimable(s) : PhaseOf(k) \in {"open", "failed"}
  BY <1>1, <1>2 DEF PhaseOf, PendingSome, RejectedSome
<1>4. \A k \in Key : k \notin Claimable(s) => row'[k] = row[k] /\ acked'[k] = acked[k]
  BY DEF TakeRows
<1>5. gone => row' = row
  <2>1. gone => Claimable(s) = {}
    BY <1>1
  <2> QED BY <2>1 DEF TakeRows, ClaimInvariant, TypeOK
<1>6. \A k \in Claimable(s) : acked'[k] = 0 /\ ~PendingSome(k) /\ ~RejectedSome(k)
  BY <1>2
<1> QED BY <1>1, <1>3, <1>4, <1>5, <1>6

LEMMA ClaimPhase ==
  ASSUME ClaimInvariant, NEW s \in Slots, Claim(s)
  PROVE  Promise!Next
<1>1. /\ TakeRows(s)
      /\ targets[s] = {} \/ ~gone
      /\ UNCHANGED <<gone, acked, received, rejected>>
      /\ pending' = [pending EXCEPT ![s] = Claimable(s)]
  BY DEF Claim, ghosts
<1>2. pending[s] = {}
  BY DEF Claim, ClaimInvariant, EmptyHanded, Held
<1>3. \A k \in Key : /\ RejectedSome(k)' <=> RejectedSome(k)
                     /\ k \in Claimable(s) => PendingSome(k)'
                     /\ k \notin Claimable(s) => (PendingSome(k)' <=> PendingSome(k))
  BY <1>1, <1>2 DEF PendingSome, RejectedSome, ClaimInvariant, TypeOK
<1>4. /\ \A k \in Claimable(s) : /\ k \in Key /\ PhaseOf(k) \in {"open", "failed"}
                                 /\ acked'[k] = 0 /\ ~RejectedSome(k)
      /\ \A k \in Key : k \notin Claimable(s) => row'[k] = row[k] /\ acked'[k] = acked[k]
  BY <1>1, ClaimableFacts
<1>5. \A k \in Claimable(s) : PhaseOf(k)' = "claimed"
  BY <1>3, <1>4 DEF PhaseOf, PendingSome, RejectedSome
<1>6. \A k \in Key : k \notin Claimable(s) => PhaseOf(k)' = PhaseOf(k)
  BY <1>1, <1>3, <1>4 DEF PhaseOf, PendingSome, RejectedSome
<1>7. Promise!Claim(Claimable(s))
  BY <1>1, <1>4, <1>5, <1>6 DEF Promise!Claim, Promise!Becomes
<1> QED BY <1>4, <1>7 DEF Promise!Next

\* A claim lost with its execution: what was taken is dropped, never resent.
LEMMA FaultPhase ==
  ASSUME ClaimInvariant, NEW s \in Slots, Fault(s)
  PROVE  Promise!Next
<1>1. Release(s) /\ UNCHANGED <<gone, acked, received>>
  BY DEF Fault, Throw, Drops
<1>2. CASE UNCHANGED row
  BY <1>1, <1>2, ReleasePhase
<1>3. CASE pc[s] = "claim" /\ ~gone /\ TakeRows(s)
  <2>1. \A t \in Slots : pending'[t] = pending[t] /\ rejected'[t] = rejected[t]
    <3>1. pending[s] = {} /\ rejected[s] = {}
      BY <1>3 DEF ClaimInvariant, EmptyHanded, Held
    <3> QED BY <1>1, <3>1 DEF Release, ClaimInvariant, TypeOK
  <2>2. \A k \in Key : /\ PendingSome(k)' <=> PendingSome(k)
                       /\ RejectedSome(k)' <=> RejectedSome(k)
    BY <2>1 DEF PendingSome, RejectedSome
  <2>3. /\ \A k \in Claimable(s) : /\ k \in Key /\ PhaseOf(k) \in {"open", "failed"}
                                   /\ acked'[k] = 0 /\ row'[k] = "sent"
                                   /\ ~PendingSome(k) /\ ~RejectedSome(k)
        /\ \A k \in Key : k \notin Claimable(s) => row'[k] = row[k] /\ acked'[k] = acked[k]
    BY <1>1, <1>3, ClaimableFacts
  <2>4. \A k \in Claimable(s) : PhaseOf(k)' = "dropped"
    BY <1>1, <1>3, <2>2, <2>3 DEF PhaseOf, PendingSome, RejectedSome
  <2>5. \A k \in Key : k \notin Claimable(s) => PhaseOf(k)' = PhaseOf(k)
    BY <1>1, <2>2, <2>3 DEF PhaseOf, PendingSome, RejectedSome
  <2>6. \A k \in Claimable(s) : PhaseOf(k) # "told" /\ PhaseOf(k) # "closed"
    BY <2>3
  <2> QED BY <1>1, <2>4, <2>5, <2>6, DropOrClose
<1> QED BY <1>2, <1>3 DEF Fault

LEMMA SendPhase ==
  ASSUME ClaimInvariant, NEW s \in Slots, NEW k \in Key,
         SendOk(s, k) \/ SendRejected(s, k)
  PROVE  Promise!Next
<1>1. k \in pending[s] /\ PendingSome(k)
  BY DEF SendOk, SendRejected, Outstanding, PendingSome
<1>2. acked[k] = 0 /\ ~RejectedSome(k) /\ PhaseOf(k) = "claimed"
  BY <1>1, KeyFacts DEF PhaseOf, PendingSome, RejectedSome
<1>3. UNCHANGED <<gone, row>> /\ pending' = [pending EXCEPT ![s] = @ \ {k}]
  BY DEF SendOk, SendRejected
<1>4. \A l \in Key : l # k => (PendingSome(l)' <=> PendingSome(l))
  BY <1>3 DEF PendingSome, ClaimInvariant, TypeOK
<1>5. CASE SendOk(s, k)
  <2>1. /\ rejected' = rejected
        /\ acked' = [acked EXCEPT ![k] = @ + 1]
        /\ received' = [received EXCEPT ![k] = @ + 1]
    BY <1>5 DEF SendOk
  <2>2. PhaseOf(k)' = "told"
    BY <1>2, <2>1 DEF PhaseOf, ClaimInvariant, TypeOK
  <2>3. ASSUME NEW l \in Key, l # k PROVE PhaseOf(l)' = PhaseOf(l)
    BY <1>3, <1>4, <2>1, <2>3 DEF PhaseOf, PendingSome, ClaimInvariant, TypeOK
  <2>4. Promise!Tell(k)
    BY <1>2, <2>1, <2>2, <2>3 DEF Promise!Tell, Promise!Becomes
  <2> QED BY <2>4 DEF Promise!Next
<1>6. CASE SendRejected(s, k)
  <2>1. /\ rejected' = [rejected EXCEPT ![s] = @ \cup {k}]
        /\ acked' = acked
        /\ received' \in {received, [received EXCEPT ![k] = @ + 1]}
    BY <1>6 DEF SendRejected
  <2>2. RejectedSome(k)' /\ \A l \in Key : l # k => (RejectedSome(l)' <=> RejectedSome(l))
    BY <2>1 DEF RejectedSome, ClaimInvariant, TypeOK
  <2>3. PhaseOf(k)' = "rejected"
    BY <1>2, <2>1, <2>2 DEF PhaseOf, RejectedSome
  <2>4. ASSUME NEW l \in Key, l # k PROVE PhaseOf(l)' = PhaseOf(l)
    BY <1>3, <1>4, <2>1, <2>2, <2>4 DEF PhaseOf, PendingSome, RejectedSome
  <2>5. Promise!Refuse(k)
    BY <1>2, <2>1, <2>3, <2>4 DEF Promise!Refuse, Promise!Becomes
  <2> QED BY <2>5 DEF Promise!Next
<1> QED BY <1>5, <1>6

LEMMA MarkPhase ==
  ASSUME ClaimInvariant, NEW s \in Slots, NEW k \in Key, MarkFailed(s, k)
  PROVE  Promise!Next
<1>1. k \in rejected[s] /\ RejectedSome(k)
  BY DEF MarkFailed, RejectedSome
<1>2. /\ acked[k] = 0 /\ ~PendingSome(k)
      /\ gone \/ row[k] = "sent"
      /\ PhaseOf(k) = "rejected"
  BY <1>1, KeyFacts DEF PhaseOf, RejectedSome
<1>3. \A t \in Slots : t # s => k \notin rejected[t]
  BY <1>1 DEF ClaimInvariant, OneHolder, Held
<1>4. /\ UNCHANGED <<gone, pending, acked, received>>
      /\ rejected' = [rejected EXCEPT ![s] = @ \ {k}]
      /\ row' = IF row[k] = "none" THEN row ELSE [row EXCEPT ![k] = "failed"]
  BY DEF MarkFailed, ghosts
<1>5. /\ ~RejectedSome(k)' /\ ~PendingSome(k)'
      /\ \A l \in Key : l # k => (RejectedSome(l)' <=> RejectedSome(l))
  BY <1>2, <1>3, <1>4 DEF RejectedSome, PendingSome, ClaimInvariant, TypeOK
<1>6. ASSUME NEW l \in Key, l # k PROVE PhaseOf(l)' = PhaseOf(l)
  <2>1. row'[l] = row[l]
    BY <1>4, <1>6 DEF ClaimInvariant, TypeOK
  <2> QED BY <1>4, <1>5, <1>6, <2>1 DEF PhaseOf, RejectedSome
<1>7. CASE gone
  <2>1. PhaseOf(k)' = "closed"
    BY <1>2, <1>4, <1>5, <1>7 DEF PhaseOf, RejectedSome, PendingSome
  <2> QED BY <1>2, <1>4, <1>6, <2>1, DropOrClose
<1>8. CASE ~gone
  <2>1. PhaseOf(k)' = "failed"
    BY <1>2, <1>4, <1>5, <1>8 DEF PhaseOf, RejectedSome, PendingSome, ClaimInvariant, TypeOK
  <2>2. Promise!GiveUp(k)
    BY <1>2, <1>4, <1>6, <2>1 DEF Promise!GiveUp, Promise!Becomes
  <2> QED BY <2>2 DEF Promise!Next
<1> QED BY <1>7, <1>8

LEMMA DeletePhase ==
  ASSUME ClaimInvariant, DeleteEvent
  PROVE  Promise!Next
<1>1. UNCHANGED <<pending, rejected, acked, received>> /\ gone'
  BY DEF DeleteEvent, execVars, ghosts
<1>2. ASSUME NEW k \in Key
      PROVE  \/ PhaseOf(k)' = PhaseOf(k)
             \/ PhaseOf(k)' = "closed" /\ PhaseOf(k) # "told"
  BY <1>1, KeyFacts DEF PhaseOf
<1> QED BY <1>1, <1>2, DropOrClose

LEMMA PhaseStep ==
  ASSUME ClaimInvariant, [Next]_vars
  PROVE  Promise!Next \/ UNCHANGED <<phaseBar, received>>
<1>1. ASSUME NEW j \in Jobs,
             Enqueue(j) \/ Evict(j) \/ Backoff(j) \/ Stalled(j) \/ \E s \in Slots : Take(s, j)
      PROVE  UNCHANGED <<phaseBar, received>>
  BY <1>1, FramePhase DEF Enqueue, Evict, Backoff, Stalled, Take, execVars, ghosts
<1>2. ASSUME NEW s \in Slots,
             LoadEvent(s) \/ LoadTargets(s) \/ AllSettled(s) \/ NextChannel(s)
      PROVE  UNCHANGED <<phaseBar, received>>
  BY <1>2, FramePhase DEF LoadEvent, LoadTargets, AllSettled, NextChannel, ghosts
<1>3. ASSUME NEW s \in Slots, Finish(s) \/ ClaimOrphan(s) \/ Crash(s)
      PROVE  Promise!Next
  BY <1>3, ReleasePhase DEF Finish, ClaimOrphan, Throw, Crash, Drops, ghosts
<1>4. CASE UNCHANGED vars
  BY <1>4, FramePhase DEF vars, execVars, ghosts
<1> QED
  BY <1>1, <1>2, <1>3, <1>4, ClaimPhase, FaultPhase, SendPhase, MarkPhase, DeletePhase
  DEF Next, Execution, Queue

\* What runBatch does to the claims is what a reader is promised: every run of
\* the jobs, the executions and the rows is a run of OncePerReminder.
THEOREM Refinement == Spec => ImplementsPromise
<1>1. Init => Promise!Init
  <2>1. ASSUME Init, NEW k \in Key PROVE PhaseOf(k) = "open"
    BY <2>1 DEF Init, PhaseOf
  <2> QED BY <2>1 DEF Promise!Init, Init
<1>2. ClaimInvariant /\ [Next]_vars => [Promise!Next]_<<phaseBar, received>>
  BY PhaseStep
<1>3. Spec => Promise!Spec
  BY <1>1, <1>2, ClaimsConsistent, PTL DEF Spec, Promise!Spec, phaseBar
<1> QED BY <1>3 DEF ImplementsPromise

-----------------------------------------------------------------------------
(* An execution that ends of itself has settled what it claimed.           *)

\* The channels are settled one after the other, and an execution that is done holds nothing.
InTurn ==
  \A s \in Slots :
    /\ pc[s] \in Early => channel[s] = "webpush"
    /\ channel[s] = "email" => \A k \in pending[s] : k[2] # "webpush"
    /\ pc[s] = "mark" => Outstanding(s) = {}
    /\ pc[s] = "finish" => Held(s) = {}

\* A claim that was not answered with success is in somebody's hands, or fell from them.
Accounted ==
  \A k \in Key : row[k] = "sent" /\ acked[k] = 0 => InHand(k) \/ k \in dropped

LEMMA ReleasedSlot ==
  ASSUME TypeOK, NEW s \in Slots, Release(s)
  PROVE  /\ serving'[s] = None /\ pc'[s] = "idle" /\ channel'[s] = "webpush" /\ Held(s)' = {}
         /\ pending'[s] = {}
         /\ \A t \in Slots \ {s} :
              /\ serving'[t] = serving[t] /\ pc'[t] = pc[t] /\ channel'[t] = channel[t]
              /\ pending'[t] = pending[t] /\ rejected'[t] = rejected[t]
  BY DEF Release, TypeOK, Held

LEMMA InTurnStep == ASSUME TypeOK, Consistent, InTurn, [Next]_vars PROVE InTurn'
<1> USE DEF InTurn
<1>1. ASSUME NEW j \in Jobs, Enqueue(j) \/ Evict(j) \/ Backoff(j) \/ Stalled(j) PROVE InTurn'
  BY <1>1 DEF Enqueue, Evict, Backoff, Stalled, execVars, Outstanding, Held
<1>2. ASSUME NEW j \in Jobs, NEW s \in Slots, Take(s, j) PROVE InTurn'
  BY <1>2 DEF Take, TypeOK, Early, Outstanding, Held
<1>3. ASSUME NEW s \in Slots, Release(s) PROVE InTurn'
  BY <1>3, ReleasedSlot DEF Outstanding, Held
<1>4. ASSUME NEW s \in Slots, Finish(s) \/ ClaimOrphan(s) \/ Fault(s) \/ Crash(s) PROVE InTurn'
  <2>1. Release(s)
    BY <1>4 DEF Finish, ClaimOrphan, Fault, Throw, Crash
  <2> QED BY <1>3, <2>1
<1>5. ASSUME NEW s \in Slots, LoadEvent(s) \/ LoadTargets(s) PROVE InTurn'
  <2>1. /\ Held(s) = {} /\ UNCHANGED <<channel, pending, rejected>> /\ pc[s] \in Early
        /\ pc'[s] \in {"finish", "targets", "claim"} /\ \A t \in Slots \ {s} : pc'[t] = pc[t]
    BY <1>5 DEF LoadEvent, LoadTargets, TypeOK, Consistent, EmptyHanded, Early
  <2> QED BY <2>1 DEF Outstanding, Held, Early
<1>6. ASSUME NEW s \in Slots, Claim(s) PROVE InTurn'
  <2>1. /\ Held(s) = {} /\ channel[s] = "webpush" /\ UNCHANGED <<channel, rejected>>
        /\ pending'[s] = Claimable(s)
        /\ pc'[s] = IF Claimable(s) = {} THEN "finish" ELSE "send"
        /\ \A t \in Slots \ {s} : pc'[t] = pc[t] /\ pending'[t] = pending[t]
    BY <1>6 DEF Claim, TypeOK, Consistent, EmptyHanded, Early
  <2> QED BY <2>1 DEF Outstanding, Held, Early
<1>7. ASSUME NEW s \in Slots, NEW k \in Key, SendOk(s, k) \/ SendRejected(s, k) PROVE InTurn'
  <2>1. /\ pc[s] = "send" /\ UNCHANGED <<pc, channel>>
        /\ \A t \in Slots : pending'[t] \subseteq pending[t]
        /\ \A t \in Slots \ {s} : rejected'[t] = rejected[t]
    BY <1>7 DEF SendOk, SendRejected, TypeOK
  <2> QED BY <2>1 DEF Outstanding, Held, Early
<1>8. ASSUME NEW s \in Slots, AllSettled(s) PROVE InTurn'
  BY <1>8 DEF AllSettled, TypeOK, Outstanding, Held, Early
<1>9. ASSUME NEW s \in Slots, NEW k \in Key, MarkFailed(s, k) PROVE InTurn'
  <2>1. /\ pc[s] = "mark" /\ UNCHANGED <<pc, channel, pending>>
        /\ \A t \in Slots \ {s} : rejected'[t] = rejected[t]
    BY <1>9 DEF MarkFailed, TypeOK
  <2> QED BY <2>1 DEF Outstanding, Held, Early
<1>10. ASSUME NEW s \in Slots, NextChannel(s) PROVE InTurn'
  <2>1. /\ pc[s] = "mark" /\ rejected[s] = {} /\ UNCHANGED <<pending, rejected>>
        /\ \A t \in Slots \ {s} : pc'[t] = pc[t] /\ channel'[t] = channel[t]
    BY <1>10 DEF NextChannel, TypeOK
  <2>2. \A k \in pending[s] : k[2] # channel[s]
    BY <2>1 DEF Outstanding
  <2>3. CASE channel[s] = "webpush"
    <3>1. channel'[s] = "email" /\ pc'[s] = "send"
      BY <1>10, <2>3 DEF NextChannel, TypeOK
    <3> QED BY <2>1, <2>2, <2>3, <3>1 DEF Outstanding, Held, Early
  <2>4. CASE channel[s] = "email"
    <3>1. channel' = channel /\ pc'[s] = "finish"
      BY <1>10, <2>4 DEF NextChannel, TypeOK
    <3>2. \A k \in pending[s] : k[2] = "webpush" \/ k[2] = "email"
      BY DEF TypeOK, Key, Channels
    <3>3. pending[s] = {}
      BY <2>2, <2>4, <3>2
    <3> QED BY <2>1, <2>4, <3>1, <3>3 DEF Outstanding, Held, Early
  <2> QED BY <2>3, <2>4 DEF TypeOK, Channels
<1>11. CASE DeleteEvent \/ UNCHANGED vars
  BY <1>11 DEF DeleteEvent, vars, execVars, Outstanding, Held
<1> QED BY <1>1, <1>2, <1>4, <1>5, <1>6, <1>7, <1>8, <1>9, <1>10, <1>11
        DEF Next, Execution, Queue

LEMMA AccountedStep ==
  ASSUME TypeOK, Consistent, InTurn, Accounted, [Next]_vars PROVE Accounted'
<1>1. ASSUME UNCHANGED <<row, acked, dropped>>, \A s \in Slots : Held(s)' = Held(s)
      PROVE  Accounted'
  BY <1>1 DEF Accounted, InHand
<1>2. ASSUME NEW s \in Slots, Release(s), UNCHANGED <<row, acked>>,
             dropped \subseteq dropped', \A k \in Held(s) : row[k] = "sent" => k \in dropped'
      PROVE  Accounted'
  <2>1. \A t \in Slots \ {s} : Held(t)' = Held(t)
    BY <1>2, ReleasedSlot DEF Held
  <2>2. ASSUME NEW k \in Key, InHand(k), row[k] = "sent" PROVE InHand(k)' \/ k \in dropped'
    <3>1. PICK t \in Slots : k \in Held(t)
      BY <2>2 DEF InHand
    <3> QED BY <1>2, <2>1, <2>2, <3>1 DEF InHand
  <2> QED BY <1>2, <2>2 DEF Accounted
<1>3. ASSUME NEW j \in Jobs,
             Enqueue(j) \/ Evict(j) \/ Backoff(j) \/ Stalled(j) \/ \E s \in Slots : Take(s, j)
      PROVE  Accounted'
  <2>1. UNCHANGED <<row, pending, rejected, acked, dropped>>
    BY <1>3 DEF Enqueue, Evict, Backoff, Stalled, Take, execVars, ghosts
  <2> QED BY <1>1, <2>1 DEF Held
<1>4. ASSUME NEW s \in Slots, Finish(s) \/ ClaimOrphan(s) PROVE Accounted'
  <2>1. Release(s) /\ UNCHANGED <<row, acked, dropped>> /\ Held(s) = {}
    BY <1>4 DEF Finish, ClaimOrphan, Throw, ghosts, InTurn, Consistent, EmptyHanded
  <2> QED BY <1>2, <2>1
<1>5. ASSUME NEW s \in Slots, Crash(s) PROVE Accounted'
  BY <1>2, <1>5 DEF Crash, Drops
<1>6. ASSUME NEW s \in Slots, Fault(s) PROVE Accounted'
  <2>1. CASE row' = row /\ Drops(Held(s))
    BY <1>2, <1>6, <2>1 DEF Fault, Throw, Drops
  <2>2. CASE pc[s] = "claim" /\ TakeRows(s) /\ Drops(Claimable(s))
    <3>1. /\ Release(s) /\ Held(s) = {} /\ acked' = acked
          /\ dropped \subseteq dropped'
          /\ \A k \in Claimable(s) : row'[k] = "sent" => k \in dropped'
      BY <1>6, <2>2 DEF Fault, Throw, Drops, Consistent, EmptyHanded
    <3>2. \A t \in Slots : Held(t) \subseteq Held(t)'
      BY <3>1, ReleasedSlot DEF Held
    <3>3. ASSUME NEW k \in Key, row'[k] = "sent", acked'[k] = 0 PROVE InHand(k)' \/ k \in dropped'
      <4>1. k \in Claimable(s) \/ row[k] = "sent"
        BY <2>2, <3>3 DEF TakeRows
      <4> QED BY <3>1, <3>2, <3>3, <4>1 DEF Accounted, InHand
    <3> QED BY <3>3 DEF Accounted
  <2> QED BY <1>6, <2>1, <2>2 DEF Fault
<1>7. ASSUME NEW s \in Slots, LoadEvent(s) \/ LoadTargets(s) \/ AllSettled(s) \/ NextChannel(s)
      PROVE  Accounted'
  <2>1. UNCHANGED <<row, pending, rejected, acked, dropped>>
    BY <1>7 DEF LoadEvent, LoadTargets, AllSettled, NextChannel, ghosts
  <2> QED BY <1>1, <2>1 DEF Held
<1>8. ASSUME NEW s \in Slots, Claim(s) PROVE Accounted'
  <2>1. /\ UNCHANGED <<acked, dropped>> /\ TakeRows(s) /\ pending'[s] = Claimable(s)
        /\ Held(s) = {}
        /\ \A t \in Slots \ {s} : Held(t)' = Held(t)
    BY <1>8 DEF Claim, ghosts, TypeOK, Held, Consistent, EmptyHanded
  <2>2. ASSUME NEW k \in Key, row'[k] = "sent", acked'[k] = 0 PROVE InHand(k)' \/ k \in dropped'
    <3>1. CASE k \in Claimable(s)
      BY <2>1, <3>1 DEF InHand, Held
    <3>2. CASE k \notin Claimable(s)
      <4>1. row[k] = "sent" /\ acked[k] = 0
        BY <2>1, <2>2, <3>2 DEF TakeRows
      <4> QED BY <2>1, <4>1 DEF Accounted, InHand
    <3> QED BY <3>1, <3>2
  <2> QED BY <2>2 DEF Accounted
<1>9. ASSUME NEW s \in Slots, NEW k \in Key, SendOk(s, k) PROVE Accounted'
  <2>1. /\ UNCHANGED <<row, dropped>> /\ acked'[k] # 0
        /\ \A l \in Key \ {k} : acked'[l] = acked[l]
        /\ \A t \in Slots : Held(t) \ {k} \subseteq Held(t)'
    BY <1>9 DEF SendOk, TypeOK, Held
  <2> QED BY <2>1 DEF Accounted, InHand
<1>10. ASSUME NEW s \in Slots, NEW k \in Key, SendRejected(s, k) PROVE Accounted'
  <2>1. /\ UNCHANGED <<row, acked, dropped>> /\ k \in pending[s]
        /\ pending' = [pending EXCEPT ![s] = @ \ {k}]
        /\ rejected' = [rejected EXCEPT ![s] = @ \cup {k}]
    BY <1>10 DEF SendRejected, Outstanding
  <2>2. \A t \in Slots : Held(t)' = Held(t)
    BY <2>1 DEF Held, TypeOK
  <2> QED BY <1>1, <2>1, <2>2
<1>11. ASSUME NEW s \in Slots, NEW k \in Key, MarkFailed(s, k) PROVE Accounted'
  <2>1. /\ UNCHANGED <<acked, dropped>> /\ row'[k] # "sent"
        /\ \A l \in Key \ {k} : row'[l] = row[l]
        /\ \A t \in Slots : Held(t) \ {k} \subseteq Held(t)'
    BY <1>11 DEF MarkFailed, ghosts, TypeOK, Held
  <2> QED BY <2>1 DEF Accounted, InHand
<1>12. CASE DeleteEvent
  BY <1>12 DEF DeleteEvent, Accounted
<1>13. CASE UNCHANGED vars
  <2>1. UNCHANGED <<row, pending, rejected, acked, dropped>>
    BY <1>13 DEF vars, execVars, ghosts
  <2> QED BY <1>1, <2>1 DEF Held
<1> QED BY <1>3, <1>4, <1>5, <1>6, <1>7, <1>8, <1>9, <1>10, <1>11, <1>12, <1>13
        DEF Next, Execution, Queue

\* What is dropped is what an execution had won and not settled when it died or threw: no
\* order of claims, sends, marks, retries, stalls, lost locks and ids added again leaves any
\* other row at sent for a reader who was not told with success.
THEOREM NothingDropped == Spec => []SentMeansTold
<1>1. Init => InTurn /\ Accounted
  BY DEF Init, InTurn, Accounted, Early, Outstanding, Held, Key
<1>2. TypeOK /\ Consistent /\ [Next]_vars /\ InTurn /\ Accounted => (InTurn /\ Accounted)'
  BY InTurnStep, AccountedStep
<1>3. ClaimInvariant => TypeOK /\ Consistent
  BY DEF ClaimInvariant, Consistent
<1>4. ClaimInvariant /\ Accounted => SentMeansTold
  BY DEF ClaimInvariant, ToldIsClosed, Accounted, SentMeansTold
<1> QED BY <1>1, <1>2, <1>3, <1>4, ClaimsConsistent, PTL DEF Spec
-----------------------------------------------------------------------------
(* The endpoints that push goes to: Push.                                  *)

\* A page knows of no subscription that was not handed out; one that is to be saved is one, and
\* one that a page turned off is not the browser's any more, for it never comes back.
HandInv == \A p \in Pages :
  /\ current[p] # None => current[p] \in 1 .. minted
  /\ holding[p] # None => holding[p] \in 1 .. minted
  /\ press[p] \in {"saving", "undoing", "dropping", "forgetting"} => holding[p] # None
  /\ press[p] = "forgetting" => holding[p] # sub

PressInv == P!TypeOK /\ HandInv /\ P!SubscribedIsStored

PressSteps ==
  {"idle", "asking", "subscribing", "reading", "saving", "undoing", "dropping", "forgetting"}

\* Handing out a subscription: the one there is, or one that never was.
LEMMA HandedOut ==
  ASSUME P!ConstantsType, P!TypeOK, P!Subscribed
  PROVE  /\ sub' \in 1 .. minted' /\ sub' # None /\ minted' \in 0 .. MaxEndpoints
         /\ minted <= minted'
         /\ sub' = sub \/ (sub = None /\ sub' \notin 1 .. minted)
<1>1. CASE sub # None
  BY <1>1 DEF P!Subscribed, P!TypeOK
<1>2. CASE sub = None
  <2>1. minted < MaxEndpoints /\ minted' = minted + 1 /\ sub' = minted + 1
    BY <1>2 DEF P!Subscribed
  <2>2. sub' \in P!Endpoints
    BY <2>1 DEF P!TypeOK, P!Endpoints, P!ConstantsType
  <2> QED
    BY <1>2, <2>1, <2>2 DEF P!TypeOK, P!ConstantsType
<1> QED
  BY <1>1, <1>2

LEMMA PushBegins == ASSUME P!ConstantsType, P!Init PROVE PressInv
<1>1. P!TypeOK
  BY DEF P!Init, P!TypeOK, P!ConstantsType
<1>2. HandInv /\ P!SubscribedIsStored
  BY DEF P!Init, HandInv, P!SubscribedIsStored
<1> QED
  BY <1>1, <1>2 DEF PressInv

\* The reader's own settings, and what a page paints.
LEMMA SettingsKept ==
  ASSUME P!ConstantsType, PressInv,
         \/ \E answer \in {"granted", "denied"} : P!Permit(answer)
         \/ \E user \in Users \cup {None} : P!SignsIn(user)
         \/ \E p \in Pages : P!Paint(p) \/ P!PaintExpires(p) \/ P!ComesBack(p)
         \/ UNCHANGED P!vars
  PROVE  PressInv'
<1>0. P!TypeOK /\ HandInv /\ P!SubscribedIsStored
  BY DEF PressInv
<1>1. CASE \E answer \in {"granted", "denied"} : P!Permit(answer)
  <2>1. /\ sub' = sub \/ sub' = None
        /\ permission' \in {"granted", "denied"}
        /\ UNCHANGED <<minted, who, stored, press, current, holding, late, posted, excused>>
    BY <1>1 DEF P!Permit, P!page
  <2>2. P!TypeOK'
    BY <2>1, <1>0 DEF P!TypeOK
  <2>3. HandInv'
    BY <2>1, <1>0 DEF HandInv
  <2>4. P!SubscribedIsStored'
    BY <2>1, <1>0 DEF P!SubscribedIsStored
  <2> QED
    BY <2>2, <2>3, <2>4 DEF PressInv
<1>2. CASE \E user \in Users \cup {None} : P!SignsIn(user)
  <2>1. /\ who' \in Users \cup {None}
        /\ UNCHANGED <<permission, sub, minted, stored, press, current, holding, late, posted,
                       excused>>
    BY <1>2 DEF P!SignsIn, P!page
  <2> QED
    BY <2>1, <1>0 DEF PressInv, P!TypeOK, HandInv, P!SubscribedIsStored
<1>3. CASE \E p \in Pages : P!Paint(p) \/ P!PaintExpires(p) \/ P!ComesBack(p)
  <2> PICK p \in Pages : P!Paint(p) \/ P!PaintExpires(p) \/ P!ComesBack(p)
    BY <1>3
  <2>1. /\ \/ current' = [current EXCEPT ![p] = None]
           \/ current' = [current EXCEPT ![p] = sub]
           \/ current' = current
        /\ UNCHANGED <<permission, sub, minted, who, stored, press, holding, late, posted, excused>>
    BY DEF P!Paint, P!PaintExpires, P!ComesBack
  <2>2. sub # None => sub \in 1 .. minted /\ sub \in P!Endpoints
    BY <1>0 DEF P!TypeOK, P!Endpoints, P!ConstantsType
  <2>3. /\ current' \in [Pages -> P!Endpoints \cup {None}]
        /\ \A q \in Pages : current'[q] # None => current'[q] \in 1 .. minted
    BY <2>1, <2>2, <1>0 DEF P!TypeOK, HandInv
  <2>4. P!TypeOK'
    BY <2>1, <2>3, <1>0 DEF P!TypeOK
  <2>5. HandInv'
    BY <2>1, <2>3, <1>0 DEF HandInv
  <2>6. P!SubscribedIsStored'
    BY <2>1, <1>0 DEF P!SubscribedIsStored
  <2> QED
    BY <2>4, <2>5, <2>6 DEF PressInv
<1>4. CASE UNCHANGED P!vars
  BY <1>0, <1>4 DEF PressInv, P!TypeOK, HandInv, P!SubscribedIsStored, P!vars, P!page, P!bounds
<1> QED
  BY <1>1, <1>2, <1>3, <1>4

\* A step of one page: where its press is, which subscription that is about, and what it leaves
\* the browser and the tables with.
LEMMA PageSteps ==
  ASSUME P!ConstantsType, PressInv, NEW p \in Pages, NEW to \in PressSteps, NEW about,
         press' = [press EXCEPT ![p] = to], holding' = [holding EXCEPT ![p] = about],
         about # None => about \in 1 .. minted' /\ about \in P!Endpoints,
         to \in {"saving", "undoing", "dropping", "forgetting"} => about # None,
         to = "forgetting" => about # sub',
         minted' \in 0 .. MaxEndpoints, minted <= minted',
         sub' \in {sub, None} \/ (sub' \in 1 .. minted' /\ sub' \notin 1 .. minted),
         permission' = permission, who' = who, current' = current,
         stored' \in [P!Endpoints -> Users \cup {None, "disabled"}],
         late' \subseteq Pages, posted' \subseteq P!Endpoints, P!SubscribedIsStored'
  PROVE  PressInv'
<1>0. P!TypeOK /\ HandInv
  BY DEF PressInv
<1>1. 1 .. minted \subseteq 1 .. minted' /\ minted \in Nat /\ minted' \in Nat
  BY <1>0 DEF P!TypeOK, P!ConstantsType
<1>2. sub' \in 1 .. minted' \cup {None}
  BY <1>0, <1>1 DEF P!TypeOK
<1>3. press' \in [Pages -> PressSteps] /\ holding' \in [Pages -> P!Endpoints \cup {None}]
  BY <1>0 DEF P!TypeOK, PressSteps
<1>4. P!TypeOK'
  BY <1>0, <1>2, <1>3 DEF P!TypeOK, PressSteps
<1>5. ASSUME NEW q \in Pages
      PROVE  /\ current'[q] # None => current'[q] \in 1 .. minted'
             /\ holding'[q] # None => holding'[q] \in 1 .. minted'
             /\ press'[q] \in {"saving", "undoing", "dropping", "forgetting"} => holding'[q] # None
             /\ press'[q] = "forgetting" => holding'[q] # sub'
  <2>1. current'[q] # None => current'[q] \in 1 .. minted'
    BY <1>0, <1>1 DEF HandInv
  <2>2. CASE q = p
    <3>1. press'[q] = to /\ holding'[q] = about
      BY <1>0, <2>2 DEF P!TypeOK
    <3> QED
      BY <2>1, <3>1
  <2>3. CASE q # p
    <3>1. press'[q] = press[q] /\ holding'[q] = holding[q]
      BY <1>0, <2>3 DEF P!TypeOK
    <3>2. /\ holding[q] # None => holding[q] \in 1 .. minted
          /\ press[q] \in {"saving", "undoing", "dropping", "forgetting"} => holding[q] # None
          /\ press[q] = "forgetting" => holding[q] # sub
      BY <1>0 DEF HandInv
    <3>3. press[q] = "forgetting" => holding[q] # sub'
      BY <3>2
    <3> QED
      BY <1>1, <2>1, <3>1, <3>2, <3>3
  <2> QED
    BY <2>2, <2>3
<1>6. HandInv'
  BY <1>5 DEF HandInv
<1> QED
  BY <1>4, <1>6 DEF PressInv

\* A press, and the turning off.
LEMMA TurningOff ==
  ASSUME P!ConstantsType, PressInv, NEW p \in Pages,
         P!Press(p) \/ P!Drop(p) \/ P!DropFails(p) \/ P!Forget(p) \/ P!ForgetFails(p)
  PROVE  PressInv'
<1>0. P!TypeOK /\ HandInv /\ P!SubscribedIsStored
  BY DEF PressInv
<1>1. CASE P!Press(p)
  <2> DEFINE to == IF current[p] # None THEN "dropping" ELSE "asking"
             about == current[p]
  <2>1. /\ press[p] = "idle" /\ press' = [press EXCEPT ![p] = to]
        /\ holding' = [holding EXCEPT ![p] = about]
        /\ UNCHANGED <<permission, sub, minted, who, stored, current, late, posted, excused>>
    BY <1>1 DEF P!Press, P!Goes
  <2>2. to \in PressSteps
        /\ (to \in {"saving", "undoing", "dropping", "forgetting"} => about # None)
        /\ to # "forgetting"
    BY DEF PressSteps
  <2>3. about # None => about \in 1 .. minted /\ about \in P!Endpoints
    BY <1>0 DEF P!TypeOK, HandInv
  <2>4. P!SubscribedIsStored'
    <3>1. \A q \in Pages : press[q] \in {"saving", "undoing"} =>
            press'[q] = press[q] /\ holding'[q] = holding[q]
      BY <2>1
    <3> QED
      BY <1>0, <2>1, <3>1 DEF P!SubscribedIsStored
  <2>5. minted' \in 0 .. MaxEndpoints /\ minted <= minted'
    BY <1>0, <2>1 DEF P!TypeOK, P!ConstantsType
  <2> HIDE DEF to, about
  <2> QED
    BY <1>0, <2>1, <2>2, <2>3, <2>4, <2>5, PageSteps DEF P!TypeOK
<1>2. CASE P!Drop(p)
  <2>1. /\ press[p] = "dropping" /\ press' = [press EXCEPT ![p] = "forgetting"] /\ sub' = None
        /\ UNCHANGED <<permission, minted, who, stored, current, holding, late, posted, excused>>
    BY <1>2 DEF P!Drop, P!Goes
  <2>2. holding' = [holding EXCEPT ![p] = holding[p]]
    BY <1>0, <2>1 DEF P!TypeOK
  <2>3. /\ holding[p] # None
        /\ holding[p] \in 1 .. minted /\ holding[p] \in P!Endpoints
    BY <1>0, <2>1 DEF P!TypeOK, HandInv
  <2>4. P!SubscribedIsStored'
    BY <2>1 DEF P!SubscribedIsStored
  <2>5. minted' \in 0 .. MaxEndpoints /\ minted <= minted'
    BY <1>0, <2>1 DEF P!TypeOK, P!ConstantsType
  <2> QED
    BY <1>0, <2>1, <2>2, <2>3, <2>4, <2>5, PageSteps DEF P!TypeOK, PressSteps
<1>3. CASE P!Forget(p)
  <2> DEFINE e == holding[p]
  <2>1. /\ press[p] = "forgetting" /\ press' = [press EXCEPT ![p] = "idle"]
        /\ stored' = stored \/ stored' = [stored EXCEPT ![e] = None]
        /\ UNCHANGED <<permission, sub, minted, who, current, holding, late, posted,
                       excused>>
    BY <1>3 DEF P!Forget, P!Ends, P!Goes
  <2>2. holding' = [holding EXCEPT ![p] = holding[p]]
    BY <1>0, <2>1 DEF P!TypeOK
  <2>3. e # None /\ e \in 1 .. minted /\ e \in P!Endpoints /\ e # sub
    BY <1>0, <2>1 DEF P!TypeOK, HandInv
  <2>4. P!SubscribedIsStored'
    <3>1. sub # None => stored'[sub] = stored[sub]
      BY <1>0, <2>1, <2>3 DEF P!TypeOK, P!Endpoints, P!ConstantsType
    <3>2. \A q \in Pages : press[q] \in {"saving", "undoing"} => press'[q] = press[q]
      BY <2>1
    <3> QED
      BY <1>0, <2>1, <3>1, <3>2 DEF P!SubscribedIsStored
  <2>5. minted' \in 0 .. MaxEndpoints /\ minted <= minted'
    BY <1>0, <2>1 DEF P!TypeOK, P!ConstantsType
  <2>6. stored' \in [P!Endpoints -> Users \cup {None, "disabled"}]
    BY <1>0, <2>1 DEF P!TypeOK
  <2> QED
    BY <1>0, <2>1, <2>2, <2>3, <2>4, <2>5, <2>6, PageSteps DEF P!TypeOK, PressSteps
<1>4. CASE P!DropFails(p) \/ P!ForgetFails(p)
  <2>1. /\ press[p] \in {"dropping", "forgetting"} /\ press' = [press EXCEPT ![p] = "idle"]
        /\ UNCHANGED <<permission, sub, minted, who, stored, current, holding, late, posted,
                       excused>>
    BY <1>4 DEF P!DropFails, P!ForgetFails, P!Ends, P!Goes
  <2>2. holding' = [holding EXCEPT ![p] = holding[p]]
    BY <1>0, <2>1 DEF P!TypeOK
  <2>3. holding[p] # None => holding[p] \in 1 .. minted /\ holding[p] \in P!Endpoints
    BY <1>0, <2>1 DEF P!TypeOK, HandInv
  <2>4. P!SubscribedIsStored'
    <3>1. \A q \in Pages : press[q] \in {"saving", "undoing"} => press'[q] = press[q]
      BY <2>1
    <3> QED
      BY <1>0, <2>1, <3>1 DEF P!SubscribedIsStored
  <2>5. minted' \in 0 .. MaxEndpoints /\ minted <= minted'
    BY <1>0, <2>1 DEF P!TypeOK, P!ConstantsType
  <2> QED
    BY <1>0, <2>1, <2>2, <2>3, <2>4, <2>5, PageSteps DEF P!TypeOK, PressSteps
<1> QED
  BY <1>1, <1>2, <1>3, <1>4

\* Turning on, up to the subscription.
LEMMA Subscribing ==
  ASSUME P!ConstantsType, PressInv, NEW p \in Pages,
         \/ P!Answered(p) \/ P!NotAnswered(p) \/ P!Subscribes(p) \/ P!SubscribeFails(p)
         \/ P!SubscribeExpires(p) \/ P!ReadBack(p)
  PROVE  PressInv'
<1>0. P!TypeOK /\ HandInv /\ P!SubscribedIsStored
  BY DEF PressInv
<1>1. CASE P!Subscribes(p)
  <2>1. /\ press[p] = "subscribing" /\ press' = [press EXCEPT ![p] = "saving"] /\ P!Subscribed
        /\ holding' = [holding EXCEPT ![p] = sub']
        /\ UNCHANGED <<permission, who, stored, current, late, posted, excused>>
    BY <1>1 DEF P!Subscribes, P!Goes
  <2>2. /\ sub' \in 1 .. minted' /\ sub' # None /\ minted' \in 0 .. MaxEndpoints
        /\ minted <= minted'
        /\ sub' = sub \/ (sub = None /\ sub' \notin 1 .. minted)
    BY <1>0, <2>1, HandedOut
  <2>3. sub' \in P!Endpoints
    BY <2>2 DEF P!Endpoints, P!ConstantsType
  <2>4. press'[p] = "saving" /\ holding'[p] = sub'
    BY <1>0, <2>1 DEF P!TypeOK
  <2>5. P!SubscribedIsStored'
    BY <2>4 DEF P!SubscribedIsStored
  <2>6. PICK about \in P!Endpoints : about = sub'
    BY <2>3
  <2>7. /\ about # None /\ about \in 1 .. minted'
        /\ holding' = [holding EXCEPT ![p] = about]
        /\ sub' \in {sub, None} \/ (sub' \in 1 .. minted' /\ sub' \notin 1 .. minted)
    BY <2>1, <2>2, <2>6
  <2>8. /\ press' = [press EXCEPT ![p] = "saving"]
        /\ permission' = permission /\ who' = who /\ current' = current
        /\ stored' \in [P!Endpoints -> Users \cup {None, "disabled"}]
        /\ late' \subseteq Pages /\ posted' \subseteq P!Endpoints
    BY <1>0, <2>1 DEF P!TypeOK
  <2>9. "saving" \in PressSteps /\ about \in P!Endpoints
    BY <2>6 DEF PressSteps
  <2> QED
    BY <2>2, <2>5, <2>7, <2>8, <2>9, PageSteps
<1>2. CASE P!ReadBack(p) /\ sub # None
  <2>1. /\ press[p] = "reading" /\ press' = [press EXCEPT ![p] = "saving"]
        /\ holding' = [holding EXCEPT ![p] = sub]
        /\ UNCHANGED <<permission, sub, minted, who, stored, current, late, posted, excused>>
    BY <1>2 DEF P!ReadBack, P!Goes
  <2>2. sub \in 1 .. minted /\ sub \in P!Endpoints
    BY <1>0, <1>2 DEF P!TypeOK, P!Endpoints, P!ConstantsType
  <2>3. press'[p] = "saving" /\ holding'[p] = sub
    BY <1>0, <2>1 DEF P!TypeOK
  <2>4. P!SubscribedIsStored'
    BY <2>1, <2>3 DEF P!SubscribedIsStored
  <2>5. minted' \in 0 .. MaxEndpoints /\ minted <= minted'
    BY <1>0, <2>1 DEF P!TypeOK, P!ConstantsType
  <2> QED
    BY <1>0, <1>2, <2>1, <2>2, <2>4, <2>5, PageSteps DEF P!TypeOK, PressSteps
<1>3. CASE \/ P!Answered(p) \/ P!NotAnswered(p) \/ P!SubscribeFails(p) \/ P!SubscribeExpires(p)
           \/ (P!ReadBack(p) /\ sub = None)
  <2>1. PICK to \in {"idle", "subscribing", "reading"} :
          /\ press[p] \in {"asking", "subscribing", "reading"} /\ press' = [press EXCEPT ![p] = to]
          /\ late' = late \/ late' = late \cup {p}
          /\ UNCHANGED <<permission, sub, minted, who, stored, current, holding, posted, excused>>
    BY <1>3 DEF P!Answered, P!NotAnswered, P!SubscribeFails, P!SubscribeExpires, P!ReadBack,
                P!Ends, P!Goes
  <2>2. holding' = [holding EXCEPT ![p] = holding[p]]
    BY <1>0, <2>1 DEF P!TypeOK
  <2>3. holding[p] # None => holding[p] \in 1 .. minted /\ holding[p] \in P!Endpoints
    BY <1>0, <2>1 DEF P!TypeOK, HandInv
  <2>4. P!SubscribedIsStored'
    <3>1. \A q \in Pages : press[q] \in {"saving", "undoing"} => press'[q] = press[q]
      BY <2>1
    <3> QED
      BY <1>0, <2>1, <3>1 DEF P!SubscribedIsStored
  <2>5. minted' \in 0 .. MaxEndpoints /\ minted <= minted'
    BY <1>0, <2>1 DEF P!TypeOK, P!ConstantsType
  <2>6. late' \subseteq Pages
    BY <1>0, <2>1 DEF P!TypeOK
  <2> QED
    BY <1>0, <2>1, <2>2, <2>3, <2>4, <2>5, <2>6, PageSteps DEF P!TypeOK, PressSteps
<1> QED
  BY <1>1, <1>2, <1>3

\* Saving it, or dropping what could not be saved.
LEMMA Saving ==
  ASSUME P!ConstantsType, PressInv, NEW p \in Pages,
         P!Save(p) \/ P!NotSaved(p) \/ P!SaveExpires(p) \/ P!Undo(p) \/ P!UndoFails(p) \/ P!Leave(p)
  PROVE  PressInv'
<1>0. P!TypeOK /\ HandInv /\ P!SubscribedIsStored
  BY DEF PressInv
<1>1. minted \in 0 .. MaxEndpoints /\ minted <= minted
  BY <1>0 DEF P!TypeOK, P!ConstantsType
<1>2. holding[p] # None => holding[p] \in 1 .. minted /\ holding[p] \in P!Endpoints
  BY <1>0 DEF P!TypeOK, HandInv
<1>3. holding = [holding EXCEPT ![p] = holding[p]]
  BY <1>0 DEF P!TypeOK
<1>4. CASE P!Save(p)
  <2>1. /\ press[p] = "saving" /\ press' = [press EXCEPT ![p] = "idle"]
        /\ who \in Users /\ stored' = [stored EXCEPT ![holding[p]] = who]
        /\ UNCHANGED <<permission, sub, minted, who, current, holding, late, posted,
                       excused>>
    BY <1>0, <1>4 DEF P!Save, P!Saved, P!Ends, P!Goes, P!TypeOK
  <2>2. holding[p] \in P!Endpoints
    BY <1>0, <1>2, <2>1 DEF HandInv
  <2>3. /\ stored' \in [P!Endpoints -> Users \cup {None, "disabled"}]
        /\ stored'[holding[p]] = who
        /\ \A e \in P!Endpoints : e # holding[p] => stored'[e] = stored[e]
    BY <1>0, <2>1, <2>2 DEF P!TypeOK
  <2>4. P!SubscribedIsStored'
    <3>1. \A q \in Pages : q # p => press'[q] = press[q]
      BY <1>0, <2>1 DEF P!TypeOK
    <3>2. sub # None => sub \in P!Endpoints
      BY <1>0 DEF P!TypeOK, P!Endpoints, P!ConstantsType
    <3>3. SUFFICES ASSUME sub # None, sub \notin excused, stored'[sub] \notin Users
                   PROVE  \E q \in Pages : press'[q] \in {"saving", "undoing"} /\ holding[q] = sub
      BY <2>1 DEF P!SubscribedIsStored
    <3>4. sub # holding[p] /\ stored'[sub] = stored[sub]
      BY <2>1, <2>3, <3>2, <3>3
    <3>5. PICK q \in Pages : press[q] \in {"saving", "undoing"} /\ holding[q] = sub
      BY <1>0, <3>3, <3>4 DEF P!SubscribedIsStored
    <3> QED
      BY <3>1, <3>4, <3>5
  <2> QED
    <3>1. late' \subseteq Pages /\ posted' \subseteq P!Endpoints
      BY <1>0, <2>1 DEF P!TypeOK
    <3>2. /\ press' = [press EXCEPT ![p] = "idle"] /\ holding' = [holding EXCEPT ![p] = holding[p]]
          /\ UNCHANGED <<permission, sub, minted, who, current>>
      BY <1>3, <2>1
    <3>3. stored' \in [P!Endpoints -> Users \cup {None, "disabled"}]
      BY <2>3
    <3>4. "idle" \in PressSteps /\ minted' \in 0 .. MaxEndpoints /\ minted <= minted'
      BY <1>1, <3>2 DEF PressSteps
    <3>5. holding[p] # None => holding[p] \in 1 .. minted' /\ holding[p] \in P!Endpoints
      BY <1>2, <3>2
    <3>6. sub' \in {sub, None} \/ (sub' \in 1 .. minted' /\ sub' \notin 1 .. minted)
      BY <3>2
    <3> QED
      BY <2>4, <3>1, <3>2, <3>3, <3>4, <3>5, <3>6, PageSteps
<1>5. CASE P!NotSaved(p) \/ P!SaveExpires(p)
  <2>1. /\ press[p] = "saving" /\ press' = [press EXCEPT ![p] = "undoing"]
        /\ posted' = posted \/ posted' = posted \cup {holding[p]}
        /\ UNCHANGED <<permission, sub, minted, who, stored, current, holding, late, excused>>
    BY <1>5 DEF P!NotSaved, P!Refused, P!SaveExpires, P!Goes
  <2>2. holding[p] # None /\ posted' \subseteq P!Endpoints
    BY <1>0, <1>2, <2>1 DEF HandInv, P!TypeOK
  <2>3. P!SubscribedIsStored'
    <3>1. \A q \in Pages : press[q] \in {"saving", "undoing"} => press'[q] \in {"saving", "undoing"}
      BY <1>0, <2>1 DEF P!TypeOK
    <3> QED
      BY <1>0, <2>1, <3>1 DEF P!SubscribedIsStored
  <2> QED
    BY <1>0, <1>1, <1>2, <1>3, <2>1, <2>2, <2>3, PageSteps DEF P!TypeOK, PressSteps
<1>6. CASE P!Undo(p)
  <2>1. /\ press[p] = "undoing" /\ press' = [press EXCEPT ![p] = "idle"] /\ sub' = None
        /\ UNCHANGED <<permission, minted, who, stored, current, holding, late, posted, excused>>
    BY <1>6 DEF P!Undo, P!Ends, P!Goes
  <2>2. P!SubscribedIsStored'
    BY <2>1 DEF P!SubscribedIsStored
  <2> QED
    BY <1>0, <1>1, <1>2, <1>3, <2>1, <2>2, PageSteps DEF P!TypeOK, PressSteps
<1>7. CASE P!UndoFails(p)
  <2>1. /\ press[p] = "undoing" /\ press' = [press EXCEPT ![p] = "idle"]
        /\ excused' = excused \cup {sub}
        /\ UNCHANGED <<permission, sub, minted, who, stored, current, holding, late, posted>>
    BY <1>7 DEF P!UndoFails, P!Ends, P!Goes
  <2>2. P!SubscribedIsStored'
    BY <2>1 DEF P!SubscribedIsStored
  <2> QED
    BY <1>0, <1>1, <1>2, <1>3, <2>1, <2>2, PageSteps DEF P!TypeOK, PressSteps
<1>8. CASE P!Leave(p)
  <2>1. /\ press' = [press EXCEPT ![p] = "idle"]
        /\ late' = late \/ late' = late \cup {p}
        /\ excused' = IF press[p] \in {"saving", "undoing"}
                      THEN excused \cup {holding[p]} ELSE excused
        /\ posted' = IF press[p] = "saving" THEN posted \cup {holding[p]} ELSE posted
        /\ UNCHANGED <<permission, sub, minted, who, stored, current, holding>>
    BY <1>8 DEF P!Leave
  <2>2. late' \subseteq Pages /\ posted' \subseteq P!Endpoints
    BY <1>0, <1>2, <2>1 DEF HandInv, P!TypeOK
  <2>3. P!SubscribedIsStored'
    <3>1. \A q \in Pages : q # p => press'[q] = press[q]
      BY <1>0, <2>1 DEF P!TypeOK
    <3>2. SUFFICES ASSUME sub # None, sub \notin excused', stored[sub] \notin Users
                   PROVE  \E q \in Pages : press'[q] \in {"saving", "undoing"} /\ holding[q] = sub
      BY <2>1 DEF P!SubscribedIsStored
    <3>3. sub \notin excused /\ (press[p] \in {"saving", "undoing"} => sub # holding[p])
      BY <2>1, <3>2
    <3>4. PICK q \in Pages : press[q] \in {"saving", "undoing"} /\ holding[q] = sub
      BY <1>0, <3>2, <3>3 DEF P!SubscribedIsStored
    <3> QED
      BY <3>1, <3>3, <3>4
  <2> QED
    BY <1>0, <1>1, <1>2, <1>3, <2>1, <2>2, <2>3, PageSteps DEF P!TypeOK, PressSteps
<1> QED
  BY <1>4, <1>5, <1>6, <1>7, <1>8

\* What comes when nobody waits for it any more.
LEMMA ComingLate ==
  ASSUME P!ConstantsType, PressInv,
         \/ \E p \in Pages : P!LateSubscribe(p)
         \/ \E e \in P!Endpoints : P!LateSave(e) \/ P!Gone(e)
  PROVE  PressInv'
<1>0. P!TypeOK /\ HandInv /\ P!SubscribedIsStored
  BY DEF PressInv
<1>1. CASE \E p \in Pages : P!LateSubscribe(p)
  <2> PICK p \in Pages : P!LateSubscribe(p)
    BY <1>1
  <2>1. /\ late' = late \ {p}
        /\ UNCHANGED <<permission, who, stored, press, current, holding, posted>>
    BY DEF P!LateSubscribe, P!page
  <2>2. CASE UNCHANGED <<sub, minted, excused>>
    BY <1>0, <2>1, <2>2 DEF PressInv, P!TypeOK, HandInv, P!SubscribedIsStored
  <2>3. CASE P!Subscribed /\ excused' = IF sub = None THEN excused \cup {sub'} ELSE excused
    <3>1. /\ sub' \in 1 .. minted' /\ sub' # None /\ minted' \in 0 .. MaxEndpoints
          /\ minted <= minted'
          /\ sub' = sub \/ (sub = None /\ sub' \notin 1 .. minted)
      BY <1>0, <2>3, HandedOut
    <3>2. 1 .. minted \subseteq 1 .. minted'
      BY <1>0, <3>1 DEF P!TypeOK, P!ConstantsType
    <3>3. P!TypeOK'
      BY <1>0, <2>1, <3>1 DEF P!TypeOK
    <3>4. HandInv'
      <4>1. \A q \in Pages : press[q] = "forgetting" => holding[q] # sub'
        BY <1>0, <3>1 DEF HandInv
      <4> QED
        BY <1>0, <2>1, <3>2, <4>1 DEF HandInv
    <3>5. P!SubscribedIsStored'
      BY <1>0, <2>1, <2>3, <3>1 DEF P!SubscribedIsStored
    <3> QED
      BY <3>3, <3>4, <3>5 DEF PressInv
  <2> QED
    BY <2>2, <2>3 DEF P!LateSubscribe
<1>2. CASE \E e \in P!Endpoints : P!LateSave(e)
  <2> PICK e \in P!Endpoints : P!LateSave(e)
    BY <1>2
  <2>1. /\ posted' = posted \ {e}
        /\ stored' = IF who = None THEN stored ELSE [stored EXCEPT ![e] = who]
        /\ UNCHANGED <<permission, sub, minted, who, press, current, holding, late, excused>>
    BY DEF P!LateSave, P!Saved, P!page
  <2>2. /\ stored' \in [P!Endpoints -> Users \cup {None, "disabled"}]
        /\ \A f \in P!Endpoints : stored'[f] = stored[f] \/ stored'[f] \in Users
    BY <1>0, <2>1 DEF P!TypeOK
  <2>3. sub # None => sub \in P!Endpoints
    BY <1>0 DEF P!TypeOK, P!Endpoints, P!ConstantsType
  <2>4. P!TypeOK'
    BY <1>0, <2>1, <2>2 DEF P!TypeOK
  <2>5. HandInv'
    BY <1>0, <2>1 DEF HandInv
  <2>6. P!SubscribedIsStored'
    BY <1>0, <2>1, <2>2, <2>3 DEF P!SubscribedIsStored
  <2> QED
    BY <2>4, <2>5, <2>6 DEF PressInv
<1>3. CASE \E e \in P!Endpoints : P!Gone(e)
  <2> PICK e \in P!Endpoints : P!Gone(e)
    BY <1>3
  <2>1. /\ e # sub /\ stored' = [stored EXCEPT ![e] = "disabled"]
        /\ UNCHANGED <<permission, sub, minted, who, press, current, holding, late, posted,
                       excused>>
    BY DEF P!Gone, P!page
  <2>2. /\ stored' \in [P!Endpoints -> Users \cup {None, "disabled"}]
        /\ stored'[sub] = stored[sub]
    BY <1>0, <2>1 DEF P!TypeOK
  <2>3. P!TypeOK'
    BY <1>0, <2>1, <2>2 DEF P!TypeOK
  <2>4. HandInv'
    BY <1>0, <2>1 DEF HandInv
  <2>5. P!SubscribedIsStored'
    BY <1>0, <2>1, <2>2 DEF P!SubscribedIsStored
  <2> QED
    BY <2>3, <2>4, <2>5 DEF PressInv
<1> QED
  BY <1>1, <1>2, <1>3

LEMMA PushInvariance == ASSUME P!ConstantsType PROVE P!Spec => []PressInv
<1>1. P!Init => PressInv
  BY PushBegins
<1>2. PressInv /\ [P!Next]_(P!vars) => PressInv'
  BY SettingsKept, TurningOff, Subscribing, Saving, ComingLate DEF P!Next
<1> QED
  BY <1>1, <1>2, PTL DEF P!Spec

\* TypeOK of Push: every step of a page, the browser and the server keeps the subscription, the
\* rows and the presses of their types.
THEOREM PushTypesCorrect == ASSUME P!ConstantsType PROVE P!Spec => []P!TypeOK
<1>1. PressInv => P!TypeOK
  BY DEF PressInv
<1> QED
  BY <1>1, PushInvariance, PTL

\* SubscribedIsStored of Push: for any pages of a browser and any accounts in turn, with answers
\* that are late, lost or refused: the browser is not left subscribed to what no row is about,
\* unless a page was left in the middle or a subscription came past its deadline.
THEOREM SubscribedAreStored == ASSUME P!ConstantsType PROVE P!Spec => []P!SubscribedIsStored
<1>1. PressInv => P!SubscribedIsStored
  BY DEF PressInv
<1> QED
  BY <1>1, PushInvariance, PTL
=============================================================================
