---------------------------- MODULE DeliveryClaims ----------------------------
(***************************************************************************)
(* The delivery tier of the reminder pipeline: runBatch in                 *)
(* packages/queue/src/workers.js, the reminder_deliveries table it claims  *)
(* in, and the BullMQ jobs that drive it.  One fixture and one offset are  *)
(* modelled; rows of different fixtures and offsets never meet.            *)
(*                                                                         *)
(* A job carries one page of users; pages may overlap (a fan-out that ran  *)
(* twice pages the followers differently).  A worker slot executes a job   *)
(* step by step, every await being a step; it may die, lose its lock while *)
(* it runs on (BullMQ then gives the job to another slot), or throw.       *)
(***************************************************************************)
EXTENDS Naturals, FiniteSets

CONSTANTS
  Users,        \* accounts on the pages
  Jobs,         \* ids of the batch jobs the fan-out may add
  Page,         \* Page[j]: the userIds stored in job j
  Slots,        \* concurrent executions the batch workers offer
  MaxAttempts,  \* BullMQ attempts per job (5 in the code)
  MaxStalls,    \* BullMQ maxStalledCount (1, the library's default)
  MaxAdds,      \* bound, per job: how often its id is added, again after an eviction
  Crashes,      \* BOOLEAN: executions may die or lose their lock
  Faults,       \* BOOLEAN: Postgres calls may throw
  AckLoss,      \* BOOLEAN: a send may arrive and still be reported failed
  None          \* no slot, no job

Channels == {"webpush", "email"}
Key == Users \X Channels

ASSUME PageType == Page \in [Jobs -> SUBSET Users]
ASSUME LimitsType == MaxAttempts \in Nat \ {0} /\ MaxStalls \in Nat
  /\ MaxAdds \in [Jobs -> Nat]
ASSUME SwitchesType == Crashes \in BOOLEAN /\ Faults \in BOOLEAN /\ AckLoss \in BOOLEAN
ASSUME NoneIsNothing == None \notin Slots \cup Jobs

VARIABLES
  gone,      \* the events row has been deleted
  row,       \* reminder_deliveries: status of the row of each key, or "none"
  job,       \* BullMQ state of each job id, "none" when Redis holds no such job
  attempts,  \* attempts made by each job
  stalls,    \* times each job was found stalled
  adds,      \* times each job id was added
  owner,     \* the slot holding each job's lock
  serving,   \* the job each slot executes
  pc,        \* where each slot's execution is
  targets,   \* the claims each execution built from what it read
  channel,   \* the channel each execution is settling
  pending,   \* rows won whose send has not been answered
  rejected,  \* rows whose send was rejected and that are not marked yet
  acked,     \* ghost: sends of each key that were answered with success
  received,  \* ghost: times each key reached the reader
  dropped    \* ghost: rows left at sent by an execution that ended with them unsettled

jobVars  == <<job, attempts, stalls, adds, owner>>
execVars == <<serving, pc, targets, channel, pending, rejected>>
ghosts   == <<acked, received, dropped>>
vars == <<gone, row, jobVars, execVars, ghosts>>

JobStates == {"none", "waiting", "active", "delayed", "completed", "failed"}
Steps == {"idle", "event", "targets", "claim", "send", "mark", "finish"}

TypeOK ==
  /\ gone \in BOOLEAN
  /\ row \in [Key -> {"none", "sent", "failed"}]
  /\ job \in [Jobs -> JobStates]
  /\ attempts \in [Jobs -> Nat]
  /\ stalls \in [Jobs -> Nat]
  /\ adds \in [Jobs -> Nat]
  /\ owner \in [Jobs -> Slots \cup {None}]
  /\ serving \in [Slots -> Jobs \cup {None}]
  /\ pc \in [Slots -> Steps]
  /\ targets \in [Slots -> SUBSET Key]
  /\ channel \in [Slots -> Channels]
  /\ pending \in [Slots -> SUBSET Key]
  /\ rejected \in [Slots -> SUBSET Key]
  /\ acked \in [Key -> Nat]
  /\ received \in [Key -> Nat]
  /\ dropped \subseteq Key

Init ==
  /\ gone = FALSE
  /\ row = [k \in Key |-> "none"]
  /\ job = [j \in Jobs |-> "none"]
  /\ attempts = [j \in Jobs |-> 0]
  /\ stalls = [j \in Jobs |-> 0]
  /\ adds = [j \in Jobs |-> 0]
  /\ owner = [j \in Jobs |-> None]
  /\ serving = [s \in Slots |-> None]
  /\ pc = [s \in Slots |-> "idle"]
  /\ targets = [s \in Slots |-> {}]
  /\ channel = [s \in Slots |-> "webpush"]
  /\ pending = [s \in Slots |-> {}]
  /\ rejected = [s \in Slots |-> {}]
  /\ acked = [k \in Key |-> 0]
  /\ received = [k \in Key |-> 0]
  /\ dropped = {}

-----------------------------------------------------------------------------
(* BullMQ, as the code uses it: an add with a known id is a no-op, a       *)
(* finished job is kept for a while and then evicted, a job that threw     *)
(* backs off until its attempts are spent, a job whose lock ran out is     *)
(* given to another slot once and failed the second time.                  *)

Enqueue(j) ==
  /\ job[j] = "none"
  /\ adds[j] < MaxAdds[j]
  /\ job' = [job EXCEPT ![j] = "waiting"]
  /\ attempts' = [attempts EXCEPT ![j] = 0]
  /\ stalls' = [stalls EXCEPT ![j] = 0]
  /\ adds' = [adds EXCEPT ![j] = @ + 1]
  /\ UNCHANGED <<gone, row, owner, execVars, ghosts>>

Evict(j) ==
  /\ job[j] \in {"completed", "failed"}
  /\ adds[j] < MaxAdds[j]
  /\ job' = [job EXCEPT ![j] = "none"]
  /\ UNCHANGED <<gone, row, attempts, stalls, adds, owner, execVars, ghosts>>

Backoff(j) ==
  /\ job[j] = "delayed"
  /\ job' = [job EXCEPT ![j] = "waiting"]
  /\ UNCHANGED <<gone, row, attempts, stalls, adds, owner, execVars, ghosts>>

Stalled(j) ==
  /\ job[j] = "active"
  /\ Crashes
  /\ job' = [job EXCEPT ![j] = IF stalls[j] < MaxStalls THEN "waiting" ELSE "failed"]
  /\ stalls' = [stalls EXCEPT ![j] = @ + 1]
  /\ owner' = [owner EXCEPT ![j] = None]
  /\ UNCHANGED <<gone, row, attempts, adds, execVars, ghosts>>

\* No live execution holds the job's lock.
Abandoned(j) == owner[j] \in Slots /\ serving[owner[j]] # j

Take(s, j) ==
  /\ pc[s] = "idle"
  /\ job[j] = "waiting"
  /\ job' = [job EXCEPT ![j] = "active"]
  /\ owner' = [owner EXCEPT ![j] = s]
  /\ serving' = [serving EXCEPT ![s] = j]
  /\ pc' = [pc EXCEPT ![s] = "event"]
  /\ UNCHANGED <<gone, row, attempts, stalls, adds, targets, channel,
                 pending, rejected, ghosts>>

\* The slot is free again; what it had won and not settled stays as it is.
Release(s) ==
  /\ serving' = [serving EXCEPT ![s] = None]
  /\ pc' = [pc EXCEPT ![s] = "idle"]
  /\ targets' = [targets EXCEPT ![s] = {}]
  /\ channel' = [channel EXCEPT ![s] = "webpush"]
  /\ pending' = [pending EXCEPT ![s] = {}]
  /\ rejected' = [rejected EXCEPT ![s] = {}]

HoldsLock(s) == owner[serving[s]] = s

\* Rows a live execution has won and not yet settled.
Held(s) == pending[s] \cup rejected[s]

Drops(keys) ==
  /\ dropped' = dropped \cup {k \in keys : row'[k] = "sent"}
  /\ UNCHANGED <<acked, received>>

\* The processor returned: the job completes, if the slot still has its lock.
Finish(s) ==
  /\ pc[s] = "finish"
  /\ job' = IF HoldsLock(s) THEN [job EXCEPT ![serving[s]] = "completed"] ELSE job
  /\ owner' = IF HoldsLock(s) THEN [owner EXCEPT ![serving[s]] = None] ELSE owner
  /\ Release(s)
  /\ UNCHANGED <<gone, row, attempts, stalls, adds, ghosts>>

\* Mutation: a thrown job backs off for ever.
ThrowUncounted(s) ==
  /\ IF HoldsLock(s)
     THEN /\ job' = [job EXCEPT ![serving[s]] = "delayed"]
          /\ owner' = [owner EXCEPT ![serving[s]] = None]
     ELSE UNCHANGED <<job, owner>>
  /\ Release(s)
  /\ UNCHANGED <<gone, attempts, stalls, adds>>

\* The processor threw: one attempt is spent, the job backs off or fails.
Throw(s) ==
  /\ IF HoldsLock(s)
     THEN LET j == serving[s] IN
          /\ attempts' = [attempts EXCEPT ![j] = @ + 1]
          /\ job' = [job EXCEPT ![j] =
                       IF attempts[j] + 1 < MaxAttempts THEN "delayed" ELSE "failed"]
          /\ owner' = [owner EXCEPT ![j] = None]
     ELSE UNCHANGED <<attempts, job, owner>>
  /\ Release(s)
  /\ UNCHANGED <<gone, stalls, adds>>

\* The process dies; its lock is left to run out.
Crash(s) ==
  /\ Crashes
  /\ pc[s] # "idle"
  /\ UNCHANGED <<gone, row, jobVars>>
  /\ Release(s) /\ Drops(Held(s))

-----------------------------------------------------------------------------
(* runBatch.                                                               *)

LoadEvent(s) ==
  /\ pc[s] = "event"
  /\ pc' = [pc EXCEPT ![s] = IF gone THEN "finish" ELSE "targets"]
  /\ UNCHANGED <<gone, row, jobVars, serving, targets, channel, pending,
                 rejected, ghosts>>

\* Readers save preferences and subscribe or drop browsers at any time, and
\* this is the one read of them: any part of the page may be wanted now.
LoadTargets(s) ==
  /\ pc[s] = "targets"
  /\ \E wanted \in SUBSET {k \in Key : k[1] \in Page[serving[s]]} :
       targets' = [targets EXCEPT ![s] = wanted]
  /\ pc' = [pc EXCEPT ![s] = "claim"]
  /\ UNCHANGED <<gone, row, jobVars, serving, channel, pending, rejected,
                 ghosts>>

\* Mutation: the upsert without its "where status = 'failed'".
ClaimableAlways(s) == targets[s]

\* insert ... on conflict do update ... where status = 'failed' returning
Claimable(s) == {k \in targets[s] : row[k] # "sent"}

\* Mutation: the upsert without its "set status = 'sent'".
TakeRowsKeepStatus(s) ==
  row' = [k \in Key |->
            IF k \in Claimable(s) /\ row[k] = "none" THEN "sent" ELSE row[k]]

TakeRows(s) == row' = [k \in Key |-> IF k \in Claimable(s) THEN "sent" ELSE row[k]]

Claim(s) ==
  /\ pc[s] = "claim"
  /\ targets[s] = {} \/ ~gone
  /\ TakeRows(s)
  /\ pending' = [pending EXCEPT ![s] = Claimable(s)]
  /\ pc' = [pc EXCEPT ![s] = IF Claimable(s) = {} THEN "finish" ELSE "send"]
  /\ targets' = [targets EXCEPT ![s] = {}]
  /\ UNCHANGED <<gone, jobVars, serving, channel, rejected, ghosts>>

\* The fixture was deleted since it was loaded: the foreign key refuses the insert.
ClaimOrphan(s) ==
  /\ pc[s] = "claim"
  /\ gone /\ targets[s] # {}
  /\ Throw(s)
  /\ UNCHANGED <<row, ghosts>>

\* Any call may fail; a failed claim may or may not have committed.
Fault(s) ==
  /\ Faults
  /\ \/ /\ pc[s] \in {"event", "targets", "claim"} \/ (pc[s] = "mark" /\ rejected[s] # {})
        /\ UNCHANGED row /\ Drops(Held(s))
     \/ /\ pc[s] = "claim" /\ ~gone
        /\ TakeRows(s) /\ Drops(Claimable(s))
  /\ Throw(s)

Outstanding(s) == {k \in pending[s] : k[2] = channel[s]}

SendOk(s, k) ==
  /\ pc[s] = "send"
  /\ k \in Outstanding(s)
  /\ pending' = [pending EXCEPT ![s] = @ \ {k}]
  /\ acked' = [acked EXCEPT ![k] = @ + 1]
  /\ received' = [received EXCEPT ![k] = @ + 1]
  /\ UNCHANGED <<gone, row, jobVars, serving, pc, targets, channel, rejected, dropped>>

\* The sender threw.  The service may have accepted it all the same: a
\* response lost to the 15 s timeout looks like any other failure.
SendRejected(s, k) ==
  /\ pc[s] = "send"
  /\ k \in Outstanding(s)
  /\ pending' = [pending EXCEPT ![s] = @ \ {k}]
  /\ rejected' = [rejected EXCEPT ![s] = @ \cup {k}]
  /\ \/ UNCHANGED received
     \/ /\ AckLoss
        /\ received' = [received EXCEPT ![k] = @ + 1]
  /\ UNCHANGED <<gone, row, jobVars, serving, pc, targets, channel, acked, dropped>>

\* Promise.allSettled: every send of the channel has been answered.
AllSettled(s) ==
  /\ pc[s] = "send"
  /\ Outstanding(s) = {}
  /\ pc' = [pc EXCEPT ![s] = "mark"]
  /\ UNCHANGED <<gone, row, jobVars, serving, targets, channel, pending,
                 rejected, ghosts>>

\* Mutation: the failure is only counted.
MarkFailedNowhere(s, k) ==
  /\ pc[s] = "mark"
  /\ k \in rejected[s]
  /\ rejected' = [rejected EXCEPT ![s] = @ \ {k}]
  /\ UNCHANGED <<gone, row, jobVars, serving, pc, targets, channel, pending, ghosts>>

\* Mutation: the failure is recorded under a status claimDeliveries does not know.
MarkFailedAsError(s, k) ==
  /\ pc[s] = "mark"
  /\ k \in rejected[s]
  /\ row' = IF row[k] = "none" THEN row ELSE [row EXCEPT ![k] = "error"]
  /\ rejected' = [rejected EXCEPT ![s] = @ \ {k}]
  /\ UNCHANGED <<gone, jobVars, serving, pc, targets, channel, pending, ghosts>>

MarkFailed(s, k) ==
  /\ pc[s] = "mark"
  /\ k \in rejected[s]
  /\ row' = IF row[k] = "none" THEN row ELSE [row EXCEPT ![k] = "failed"]
  /\ rejected' = [rejected EXCEPT ![s] = @ \ {k}]
  /\ UNCHANGED <<gone, jobVars, serving, pc, targets, channel, pending, ghosts>>

\* settle(webpush) has returned, settle(email) begins; after it the job is done.
NextChannel(s) ==
  /\ pc[s] = "mark"
  /\ rejected[s] = {}
  /\ IF channel[s] = "webpush"
     THEN /\ channel' = [channel EXCEPT ![s] = "email"]
          /\ pc' = [pc EXCEPT ![s] = "send"]
     ELSE /\ pc' = [pc EXCEPT ![s] = "finish"]
          /\ UNCHANGED channel
  /\ UNCHANGED <<gone, row, jobVars, serving, targets, pending, rejected, ghosts>>

-----------------------------------------------------------------------------
(* What happens around it.                                                 *)

\* The fixture is deleted; its delivery rows go with it.
DeleteEvent ==
  /\ ~gone
  /\ gone' = TRUE
  /\ row' = [k \in Key |-> "none"] /\ dropped' = {}
  /\ UNCHANGED <<jobVars, execVars, acked, received>>

-----------------------------------------------------------------------------
Execution(s) ==
  \/ LoadEvent(s) \/ LoadTargets(s) \/ Claim(s) \/ ClaimOrphan(s)
  \/ AllSettled(s) \/ NextChannel(s) \/ Finish(s)
  \/ \E k \in Key : SendOk(s, k) \/ SendRejected(s, k) \/ MarkFailed(s, k)

Queue == \E j \in Jobs :
  \/ Enqueue(j) \/ Evict(j) \/ Backoff(j) \/ Stalled(j)
  \/ \E s \in Slots : Take(s, j)

Next ==
  \/ \E s \in Slots : Execution(s) \/ Fault(s) \/ Crash(s)
  \/ Queue
  \/ DeleteEvent

Spec == Init /\ [][Next]_vars

\* A live process keeps executing (fetch and Postgres calls time out, so every
\* await is answered), BullMQ's backoff timer fires, its stalled check finds a
\* job whose executor is gone, and a waiting job is picked up by an idle slot.
Fairness ==
  /\ \A s \in Slots : WF_vars(Execution(s))
  /\ \A j \in Jobs :
       /\ WF_vars(Backoff(j))
       /\ WF_vars(Abandoned(j) /\ Stalled(j))
       /\ SF_vars(\E s \in Slots : Take(s, j))

FairSpec == Spec /\ Fairness

-----------------------------------------------------------------------------
(* Properties.                                                             *)

InHand(k) == \E s \in Slots : k \in Held(s)

\* No reminder is sent with success twice, whatever retries, evicted job ids,
\* overlapping pages and executions that outlive their lock do: the claim row
\* is the arbiter (reminder_deliveries' primary key and claimDeliveries).
AtMostOneSuccess == \A k \in Key : acked[k] <= 1

\* "this can resurrect a failure without ever duplicating a success"
\* (claimDeliveries): after a send succeeded the reader is never sent that
\* reminder again, on any attempt of any job.
SuccessIsFinal ==
  [][\A k \in Key : acked[k] > 0 => received'[k] = received[k]]_vars

\* Two executions never hold the same claim, so no two senders race on one key.
OneHolder ==
  \A s, t \in Slots : s # t => Held(s) \cap Held(t) = {}

\* The strengthening the proofs rest on: one key has one holder, in one of its
\* two lists; what is held was not sent and its row says sent (unless the
\* fixture took the rows with it); what was sent keeps its row at sent; an
\* execution that has not claimed yet holds nothing.
ListsDisjoint == \A s \in Slots : pending[s] \cap rejected[s] = {}
HeldIsClaimed ==
  \A s \in Slots : \A k \in Held(s) : acked[k] = 0 /\ (gone \/ row[k] = "sent")
ToldIsClosed ==
  \A k \in Key : acked[k] # 0 => acked[k] = 1 /\ (gone \/ row[k] = "sent")
EmptyHanded ==
  \A s \in Slots : pc[s] \in {"idle", "event", "targets", "claim"} => Held(s) = {}
GoneTakesRows == gone => \A k \in Key : row[k] = "none"
ClaimInvariant ==
  /\ TypeOK
  /\ ListsDisjoint
  /\ OneHolder
  /\ HeldIsClaimed
  /\ ToldIsClosed
  /\ EmptyHanded
  /\ GoneTakesRows

\* "the worst case is a dropped notification" (runBatch), and only for what an execution
\* had won and not settled when it died or threw, a mark that failed taking the rest of the
\* page with it: through retries, stalls, lost locks and ids added again, every other row
\* that says sent and that nobody is settling was sent with success.
SentMeansTold ==
  \A k \in Key : row[k] = "sent" /\ ~InHand(k) => acked[k] = 1 \/ k \in dropped

\* How far the reminder of one key has come, seen from outside.
PhaseOf(k) ==
  IF acked[k] > 0 THEN "told"
  ELSE IF \E s \in Slots : k \in rejected[s] THEN "rejected"
  ELSE IF \E s \in Slots : k \in pending[s] THEN "claimed"
  ELSE IF gone THEN "closed"
  ELSE [none |-> "open", sent |-> "dropped", failed |-> "failed"][row[k]]

Promise == INSTANCE OncePerReminder WITH
  phase <- [k \in Key |-> PhaseOf(k)],
  copies <- received

\* What runBatch does to the claims is what a reader is promised: a reminder is
\* claimed by one sender, told once and final, refused and claimed again,
\* dropped with its sender and never resent, or closed with the fixture.
ImplementsPromise == Promise!Spec

\* Every job that was added comes to an end, completed or failed: no crash,
\* stall or fault leaves one in Redis for ever.
JobsEnd ==
  \A j \in Jobs :
    job[j] \in {"waiting", "active", "delayed"} ~> job[j] \in {"completed", "failed"}

\* "the worst case is a dropped notification rather than a duplicate one"
\* (README.md:68-69): the reader never gets one reminder twice on one channel.
NeverReceivedTwice == \A k \in Key : received[k] <= 1
=============================================================================
