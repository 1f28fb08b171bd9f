---------------------------- MODULE ReminderFanout ----------------------------
(***************************************************************************)
(* The two upper tiers of the reminder pipeline: the scan that finds a     *)
(* fixture crossing a reminder threshold (runScan, eventsDueForReminder)   *)
(* and the fan-out that pages its followers into batch jobs (runFanout,    *)
(* followersOfEventPage), with BullMQ's job ids and retention doing the    *)
(* deduplication.  One fixture and one offset; due is starts_at minus the  *)
(* offset.  A batch job is one step here: DeliveryClaims is its detail.    *)
(***************************************************************************)
EXTENDS Integers, FiniteSets

CONSTANTS
  MaxUser,        \* readers are 1..MaxUser, in the order of their user ids
  BatchSize,      \* rows per page of followers (500)
  Lookback,       \* how far back a scan looks (300 s)
  MaxLateness,    \* how late a fan-out may start (300 s)
  ScanEvery,      \* the scan's repeat interval (30 s)
  KeepCompleted,  \* retention of completed jobs (3600 s)
  MaxAttempts,    \* attempts per fan-out job (5)
  FirstDue,       \* when the reminder first falls due
  MaxTime,        \* bound: the clock stops here
  MaxMoves,       \* bound: how often a sync moves the fixture
  MaxFollows,     \* bound: how often somebody follows or unfollows
  Unfollows,      \* BOOLEAN: readers may unfollow
  Outages         \* BOOLEAN: the scan may miss its ticks

Users == 1 .. MaxUser
Cursors == 0 .. MaxUser     \* 0 is the nil uuid every fan-out starts after
Times == 0 .. MaxTime

ASSUME SizesType == MaxUser \in Nat /\ BatchSize \in Nat \ {0} /\ MaxAttempts \in Nat \ {0}
ASSUME TimesType == /\ {Lookback, MaxLateness, ScanEvery, KeepCompleted} \subseteq Nat
                    /\ FirstDue \in Times /\ MaxTime \in Nat
ASSUME BoundsType == MaxMoves \in Nat /\ MaxFollows \in Nat
ASSUME SwitchesType == Unfollows \in BOOLEAN /\ Outages \in BOOLEAN
\* "a completed fan-out must outlive that window" (retention.js) and "the
\* lookback must exceed the scan interval" (runScan).
ASSUME RetentionOutlivesWindow == KeepCompleted >= Lookback
ASSUME LookbackCoversInterval == Lookback > ScanEvery

VARIABLES
  now,       \* the clock
  lastScan,  \* when the scan last ran
  due,       \* starts_at - offset, as the events row has it
  pre,       \* a scan may match the events row: 'pre', of the offset's class, precise
  moves,     \* how often a sync moved the fixture so far
  follows,   \* readers following the fixture's teams or league
  changes,   \* follows and unfollows so far
  fo,        \* state of the job fo-<event>-<offset>
  foDue,     \* due as the job's data has it
  foEnd,     \* when the job finished
  attempts,  \* attempts the job has made
  cursor,    \* the execution's keyset cursor
  bt,        \* state of the job bt-<event>-<offset>-<after>, per cursor
  page,      \* the userIds that job carries
  btEnd,     \* when it finished
  told,      \* readers whose delivery row exists
  since,     \* ghost: when a sync last made the row due when it is, or 'pre' again
  matched,   \* ghost: a scan saw the fixture due at this due
  fanouts,   \* ghost: fan-outs completed for each due, the dropped ones not counted
  standing   \* ghost: readers who follow since the fan-out's first attempt

clockVars  == <<now, lastScan>>
eventVars  == <<due, pre, moves>>
followVars == <<follows, changes>>
foVars     == <<fo, foDue, foEnd, attempts, cursor>>
btVars     == <<bt, page, btEnd, told>>
ghosts     == <<since, matched, fanouts, standing>>
vars == <<clockVars, eventVars, followVars, foVars, btVars, ghosts>>

JobStates == {"none", "waiting", "active", "delayed", "completed", "failed"}

TypeOK ==
  /\ now \in Times /\ lastScan \in Times /\ due \in Times /\ pre \in BOOLEAN
  /\ moves \in 0 .. MaxMoves /\ changes \in 0 .. MaxFollows
  /\ follows \subseteq Users /\ standing \subseteq Users /\ told \subseteq Users
  /\ fo \in JobStates /\ foDue \in Times /\ foEnd \in Times
  /\ attempts \in 0 .. MaxAttempts /\ cursor \in Cursors
  /\ bt \in [Cursors -> JobStates]
  /\ page \in [Cursors -> SUBSET Users]
  /\ btEnd \in [Cursors -> Times]
  /\ fanouts \in [Times -> Nat]
  /\ since \in Times /\ matched \in BOOLEAN

Init ==
  /\ now = 0 /\ lastScan = 0 /\ due = FirstDue /\ pre = TRUE
  /\ moves = 0 /\ changes = 0
  /\ follows \in SUBSET Users
  /\ fo = "none" /\ foDue = 0 /\ foEnd = 0 /\ attempts = 0 /\ cursor = 0
  /\ bt = [a \in Cursors |-> "none"]
  /\ page = [a \in Cursors |-> {}]
  /\ btEnd = [a \in Cursors |-> 0]
  /\ told = {} /\ standing = {}
  /\ since = 0 /\ matched = FALSE /\ fanouts = [d \in Times |-> 0]

-----------------------------------------------------------------------------
(* The scan.                                                               *)

\* Mutation: only what falls due in this very tick.
MatchesThisTick == pre /\ due = now

\* eventsDueForReminder: both ends of the window.
Matches == pre /\ due <= now /\ due > now - Lookback

\* runScan: an add whose id Redis still holds is a no-op.
Scan ==
  /\ lastScan' = now
  /\ matched' = (matched \/ Matches)
  /\ IF Matches /\ fo = "none"
     THEN /\ fo' = "waiting"
          /\ foDue' = due
          /\ attempts' = 0
          /\ cursor' = 0
     ELSE UNCHANGED <<fo, foDue, attempts, cursor>>
  /\ UNCHANGED <<now, eventVars, followVars, foEnd, btVars, since, fanouts,
                 standing>>

-----------------------------------------------------------------------------
(* The fan-out.                                                            *)

Late == now - foDue > MaxLateness

FinishFanout(done) ==
  /\ fo' = "completed"
  /\ foEnd' = now
  /\ fanouts' = IF done THEN [fanouts EXCEPT ![foDue] = @ + 1] ELSE fanouts

StartFanout ==
  /\ fo = "waiting"
  /\ cursor' = 0
  /\ standing' = IF attempts = 0 THEN follows ELSE standing
  /\ IF Late
     THEN FinishFanout(FALSE)
     ELSE fo' = "active" /\ UNCHANGED <<foEnd, fanouts>>
  /\ UNCHANGED <<clockVars, eventVars, followVars, foDue, attempts, btVars, since,
                 matched>>

\* followersOfEventPage: the first BatchSize followers after the cursor.
FollowersAfter(a) == {u \in follows : u > a}
NextPage(a) ==
  {u \in FollowersAfter(a) : Cardinality({v \in FollowersAfter(a) : v < u}) < BatchSize}

\* Mutation: a full page taken for the last one.
LastPageOffByOne(rows) == Cardinality(rows) <= BatchSize

LastPage(rows) == Cardinality(rows) < BatchSize

\* One turn of the loop: read a page, add its job, move the cursor, and stop at
\* a short page.
PageFollowers ==
  LET rows == NextPage(cursor) IN
  /\ fo = "active"
  /\ IF rows # {} /\ bt[cursor] = "none"
     THEN /\ bt' = [bt EXCEPT ![cursor] = "waiting"]
          /\ page' = [page EXCEPT ![cursor] = rows]
     ELSE UNCHANGED <<bt, page>>
  /\ IF rows = {} THEN UNCHANGED cursor
     ELSE \E last \in rows : (\A u \in rows : u <= last) /\ cursor' = last
  /\ IF LastPage(rows)
     THEN FinishFanout(TRUE)
     ELSE UNCHANGED <<fo, foEnd, fanouts>>
  /\ UNCHANGED <<clockVars, eventVars, followVars, foDue, attempts, btEnd, told,
                 since, matched, standing>>

\* Mutation: one attempt too many.
FanoutFailsOffByOne ==
  /\ fo = "active"
  /\ attempts' = attempts + 1
  /\ fo' = IF attempts' <= MaxAttempts THEN "delayed" ELSE "failed"
  /\ foEnd' = IF attempts' <= MaxAttempts THEN foEnd ELSE now
  /\ UNCHANGED <<clockVars, eventVars, followVars, foDue, cursor, btVars, ghosts>>

\* Postgres or Redis threw between two pages, or the process died: the next
\* attempt starts over from the first page.
FanoutFails ==
  /\ fo = "active"
  /\ attempts' = attempts + 1
  /\ fo' = IF attempts' < MaxAttempts THEN "delayed" ELSE "failed"
  /\ foEnd' = IF attempts' < MaxAttempts THEN foEnd ELSE now
  /\ UNCHANGED <<clockVars, eventVars, followVars, foDue, cursor, btVars, ghosts>>

Backoff ==
  /\ fo = "delayed"
  /\ fo' = "waiting"
  /\ UNCHANGED <<clockVars, eventVars, followVars, foDue, foEnd, attempts, cursor, btVars, ghosts>>

\* Mutation: removeOnComplete, as if retention were only for debugging.
EvictAtOnce ==
  /\ fo = "completed"
  /\ fo' = "none"
  /\ UNCHANGED <<clockVars, eventVars, followVars, foDue, foEnd, attempts, cursor, btVars, ghosts>>

\* Completed jobs go after KeepCompleted; failed ones stay a week, beyond MaxTime.
EvictFanout ==
  /\ fo = "completed"
  /\ now - foEnd > KeepCompleted
  /\ fo' = "none"
  /\ UNCHANGED <<clockVars, eventVars, followVars, foDue, foEnd, attempts, cursor, btVars, ghosts>>

-----------------------------------------------------------------------------
(* The batch jobs.                                                         *)

\* runBatch delivers to the userIds of its job, whatever the clock says.
RunBatch(a) ==
  /\ bt[a] = "waiting"
  /\ bt' = [bt EXCEPT ![a] = "completed"]
  /\ btEnd' = [btEnd EXCEPT ![a] = now]
  /\ told' = told \cup page[a]
  /\ UNCHANGED <<clockVars, eventVars, followVars, foVars, page, ghosts>>

EvictBatch(a) ==
  /\ bt[a] = "completed"
  /\ now - btEnd[a] > KeepCompleted
  /\ bt' = [bt EXCEPT ![a] = "none"]
  /\ page' = [page EXCEPT ![a] = {}]
  /\ UNCHANGED <<clockVars, eventVars, followVars, foVars, btEnd, told, ghosts>>

-----------------------------------------------------------------------------
(* Around them.                                                            *)

Tick ==
  /\ now < MaxTime
  /\ Outages \/ now - lastScan < ScanEvery
  /\ now' = now + 1
  /\ UNCHANGED <<lastScan, eventVars, followVars, foVars, btVars, ghosts>>

\* upsertEvents: the source's start, state, class and precision are written whatever the row
\* says, so a fixture moves to any time, one whose window is over among them, and one that
\* had kicked off may be 'pre' again.
Sync(d, p) ==
  /\ <<d, p>> # <<due, pre>>
  /\ d # due => moves < MaxMoves
  /\ due' = d
  /\ pre' = p
  /\ moves' = IF d # due THEN moves + 1 ELSE moves
  /\ since' = IF p THEN now ELSE 0
  /\ matched' = (matched /\ d = due)
  /\ UNCHANGED <<clockVars, followVars, foVars, btVars, fanouts, standing>>

Follow(u) ==
  /\ u \notin follows
  /\ changes < MaxFollows
  /\ follows' = follows \cup {u}
  /\ changes' = changes + 1
  /\ UNCHANGED <<clockVars, eventVars, foVars, btVars, ghosts>>

Unfollow(u) ==
  /\ Unfollows
  /\ u \in follows
  /\ changes < MaxFollows
  /\ follows' = follows \ {u}
  /\ standing' = standing \ {u}
  /\ changes' = changes + 1
  /\ UNCHANGED <<clockVars, eventVars, foVars, btVars, since, matched, fanouts>>

Next ==
  \/ Scan \/ StartFanout \/ PageFollowers \/ FanoutFails \/ Backoff \/ EvictFanout
  \/ \E a \in Cursors : RunBatch(a) \/ EvictBatch(a)
  \/ Tick
  \/ \E d \in Times, p \in BOOLEAN : Sync(d, p)
  \/ \E u \in Users : Follow(u) \/ Unfollow(u)

Spec == Init /\ [][Next]_vars

\* The workers and their timers run on, and time passes.
Fairness ==
  /\ WF_vars(StartFanout) /\ WF_vars(PageFollowers) /\ WF_vars(Backoff)
  /\ WF_vars(Tick) /\ WF_vars(lastScan < now /\ Scan)
  /\ \A a \in Cursors : WF_vars(RunBatch(a))

FairSpec == Spec /\ Fairness

-----------------------------------------------------------------------------
(* Properties.                                                             *)

\* While the scan keeps its interval no tick falls between two windows, whatever the syncs
\* do: a row that has stood for an interval since it was written, or since it fell due, has
\* been matched, unless it was written with less than an interval of its window left ("a
\* tick that runs late leaves a gap no later tick will ever revisit").
NeverMissed ==
  /\ ~Outages /\ pre
  /\ now > due + ScanEvery /\ now > since + ScanEvery
  /\ since + ScanEvery < due + Lookback
  => matched

\* A fixture re-matches on every scan of its window, and the retained job id makes one
\* fan-out of them ("a completed fan-out must outlive that window"), also of a fixture that
\* is moved away and back.
OneFanoutPerDue == \A d \in Times : fanouts[d] <= 1

\* Every row a page query returned is on a job's page: paging "cannot skip or
\* repeat a row when someone follows the team mid-fan-out" (runFanout).
RowsReadArePaged ==
  [][PageFollowers => NextPage(cursor) \subseteq UNION {page'[a] : a \in Cursors}]_vars

\* Whoever followed when the fan-out of a due reminder began is told, unless its
\* attempts are spent or a later attempt comes too late and is dropped.
StandingFollowersTold ==
  \A u \in Users :
    fo = "active" /\ u \in standing ~>
      u \in told \/ fo = "failed" \/ (fo = "completed" /\ fanouts[foDue] = 0)
=============================================================================
