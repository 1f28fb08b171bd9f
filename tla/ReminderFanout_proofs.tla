------------------------ MODULE ReminderFanout_proofs ------------------------
(***************************************************************************)
(* Theorems about the two scans that announce a fixture.  Of the reminder  *)
(* scan and its fan-out, ReminderFanout: the retained job id makes one     *)
(* fan-out of the many scans of a window, and no due reminder falls        *)
(* between two windows.  Of the webhook scan, Webhooks: its types, and     *)
(* that it announces once and within the cap, for any number of scanners,  *)
(* owners and fixtures, and any sizes of windows a mark outlives.          *)
(***************************************************************************)
EXTENDS ReminderFanout, Sequences, TLAPS

CONSTANTS Scanners, Owners, Games, Kinds, None, Limit, Cap, Window, Fresh, Keep, LastHour,
          MaxSyncs, MaxReadings, MaxFaults

VARIABLES hour, state, start, touched, odds, hook, followed, marks, rate, pc, wanted, kind,
          rows, todo, sent, spent, syncs, faults

\* The webhook scanners, which read the same fixtures by a clock of hours.
W == INSTANCE Webhooks WITH now <- hour, follows <- followed, told <- sent, MaxTime <- LastHour


\* A job that may still run has an attempt left.
AttemptsLeft == fo \in {"waiting", "active", "delayed"} => attempts < MaxAttempts

\* Every step keeps the variables in their types.
LEMMA TypeStep ==
  ASSUME TypeOK, AttemptsLeft, [Next]_vars
  PROVE  TypeOK' /\ AttemptsLeft'
<1> USE SizesType, TimesType DEF SizesType, TimesType
<1> USE DEF TypeOK, AttemptsLeft, JobStates, Cursors, Users, clockVars, eventVars,
            followVars, foVars, btVars, ghosts
<1>1. CASE Scan
  <2>1. matched' \in BOOLEAN
    BY <1>1, Zenon DEF Scan
  <2>2. UNCHANGED <<now, eventVars, followVars, foEnd, btVars, since, fanouts,
                    standing>>
    BY <1>1 DEF Scan
  <2>3. lastScan' \in Times /\ foDue' \in Times /\ cursor' \in Cursors
    BY <1>1 DEF Scan
  <2>4. fo' \in JobStates /\ attempts' \in 0 .. MaxAttempts /\ AttemptsLeft'
    BY <1>1 DEF Scan
  <2> QED BY <2>1, <2>2, <2>3, <2>4
<1>2. CASE StartFanout
  <2>1. /\ fo' \in JobStates /\ foEnd' \in Times /\ cursor' \in Cursors
        /\ fanouts' \in [Times -> Nat] /\ standing' \subseteq Users /\ AttemptsLeft'
    BY <1>2 DEF StartFanout, FinishFanout
  <2>2. UNCHANGED <<clockVars, eventVars, followVars, foDue, attempts, btVars, since, matched>>
    BY <1>2 DEF StartFanout
  <2> QED BY <2>1, <2>2
<1>3. CASE PageFollowers
  <2>1. NextPage(cursor) \subseteq Users
    BY DEF NextPage, FollowersAfter
  <2>2. bt' \in [Cursors -> JobStates] /\ page' \in [Cursors -> SUBSET Users]
    BY <1>3, <2>1 DEF PageFollowers
  <2>3. cursor' \in Cursors
    <3>1. CASE NextPage(cursor) = {}
      BY <1>3, <3>1 DEF PageFollowers
    <3>2. CASE NextPage(cursor) # {}
      <4>1. cursor' \in NextPage(cursor)
        BY <1>3, <3>2 DEF PageFollowers
      <4>2. MaxUser \in Nat /\ Users \subseteq Cursors
        BY SizesType
      <4> QED BY <4>1, <4>2, <2>1
    <3> QED BY <3>1, <3>2
  <2>4. fo' \in JobStates /\ foEnd' \in Times /\ AttemptsLeft'
    <3>1. UNCHANGED attempts /\ fo = "active"
      BY <1>3 DEF PageFollowers
    <3>2. (fo' = fo /\ foEnd' = foEnd) \/ (fo' = "completed" /\ foEnd' = now)
      BY <1>3 DEF PageFollowers, FinishFanout
    <3> QED BY <3>1, <3>2
  <2>6. fanouts' \in [Times -> Nat]
    <3>1. fanouts' = fanouts \/ fanouts' = [fanouts EXCEPT ![foDue] = @ + 1]
      BY <1>3 DEF PageFollowers, FinishFanout
    <3>2. fanouts \in [Times -> Nat] /\ fanouts[foDue] + 1 \in Nat
      OBVIOUS
    <3> HIDE DEF TypeOK, AttemptsLeft
    <3> QED BY <3>1, <3>2
  <2>5. UNCHANGED <<clockVars, eventVars, followVars, foDue, attempts, btEnd, told,
                    since, matched, standing>>
    BY <1>3 DEF PageFollowers
  <2> QED BY <2>2, <2>3, <2>4, <2>5, <2>6
<1>4. CASE FanoutFails
  BY <1>4 DEF FanoutFails
<1>5. CASE Backoff
  BY <1>5 DEF Backoff
<1>6. CASE EvictFanout
  BY <1>6 DEF EvictFanout
<1>7. ASSUME NEW a \in Cursors, RunBatch(a) PROVE TypeOK' /\ AttemptsLeft'
  BY <1>7 DEF RunBatch
<1>8. ASSUME NEW a \in Cursors, EvictBatch(a) PROVE TypeOK' /\ AttemptsLeft'
  BY <1>8 DEF EvictBatch
<1>9. CASE Tick
  <2>1. now' \in Times
    BY <1>9 DEF Tick, Times
  <2>2. UNCHANGED <<lastScan, eventVars, followVars, foVars, btVars, ghosts>>
    BY <1>9 DEF Tick
  <2> QED BY <2>1, <2>2
<1>10. ASSUME NEW d \in Times, NEW p \in BOOLEAN, Sync(d, p) PROVE TypeOK' /\ AttemptsLeft'
  <2>1. pre' \in BOOLEAN /\ matched' \in BOOLEAN
    BY <1>10, Zenon DEF Sync
  <2>2. moves' \in 0 .. MaxMoves /\ due' \in Times /\ since' \in Times
    BY <1>10, BoundsType DEF Sync, BoundsType, Times
  <2>3. UNCHANGED <<clockVars, followVars, foVars, btVars, fanouts, standing>>
    BY <1>10 DEF Sync
  <2> QED BY <2>1, <2>2, <2>3
<1>12. ASSUME NEW u \in Users, Follow(u) PROVE TypeOK' /\ AttemptsLeft'
  <2>1. follows' \subseteq Users
    BY <1>12 DEF Follow
  <2>2. changes' \in 0 .. MaxFollows
    <3>1. changes \in Nat /\ changes < MaxFollows /\ changes' = changes + 1
      BY <1>12 DEF Follow
    <3> HIDE DEF TypeOK, AttemptsLeft
    <3> QED BY <3>1, BoundsType DEF BoundsType
  <2>3. UNCHANGED <<clockVars, eventVars, foVars, btVars, ghosts>>
    BY <1>12 DEF Follow
  <2> QED BY <2>1, <2>2, <2>3
<1>13. ASSUME NEW u \in Users, Unfollow(u) PROVE TypeOK' /\ AttemptsLeft'
  <2>1. follows' \subseteq Users /\ standing' \subseteq Users
    BY <1>13 DEF Unfollow
  <2>2. changes' \in 0 .. MaxFollows
    <3>1. changes \in Nat /\ changes < MaxFollows /\ changes' = changes + 1
      BY <1>13 DEF Unfollow
    <3> HIDE DEF TypeOK, AttemptsLeft
    <3> QED BY <3>1, BoundsType DEF BoundsType
  <2>3. UNCHANGED <<clockVars, eventVars, foVars, btVars, since, matched, fanouts>>
    BY <1>13 DEF Unfollow
  <2> QED BY <2>1, <2>2, <2>3
<1>14. CASE UNCHANGED vars
  BY <1>14 DEF vars
<1> QED
  BY <1>1, <1>2, <1>3, <1>4, <1>5, <1>6, <1>7, <1>8, <1>9, <1>10, <1>12,
     <1>13, <1>14 DEF Next

\* TypeOK of ReminderFanout: the clock, the fixture's row, the fan-out job and its
\* pages keep their types, for any number of readers and any intervals.
THEOREM TypesKept == Spec => []TypeOK
<1>1. Init => TypeOK /\ AttemptsLeft
  <2> SUFFICES ASSUME Init PROVE TypeOK /\ AttemptsLeft
    OBVIOUS
  <2>1. now \in Times /\ lastScan \in Times /\ due \in Times /\ foDue \in Times /\ foEnd \in Times
    BY TimesType DEF Init, TimesType, Times
  <2>2. /\ moves \in 0 .. MaxMoves /\ changes \in 0 .. MaxFollows
        /\ attempts \in 0 .. MaxAttempts /\ cursor \in Cursors
    BY SizesType, BoundsType DEF Init, SizesType, BoundsType, Cursors
  <2>3. follows \subseteq Users /\ standing \subseteq Users /\ told \subseteq Users
    BY DEF Init
  <2>4. bt \in [Cursors -> JobStates] /\ page \in [Cursors -> SUBSET Users]
    BY DEF Init, JobStates
  <2>5. btEnd \in [Cursors -> Times] /\ since \in Times /\ fanouts \in [Times -> Nat]
    BY TimesType DEF Init, TimesType, Times
  <2>6. pre \in BOOLEAN /\ matched \in BOOLEAN
    BY DEF Init
  <2>7. fo \in JobStates /\ AttemptsLeft
    BY DEF Init, JobStates, AttemptsLeft
  <2> QED BY <2>1, <2>2, <2>3, <2>4, <2>5, <2>6, <2>7 DEF TypeOK
<1>2. TypeOK /\ AttemptsLeft /\ [Next]_vars => TypeOK' /\ AttemptsLeft'
  BY TypeStep
<1>3. QED
  BY <1>1, <1>2, PTL DEF Spec

-----------------------------------------------------------------------------
(* No due reminder is missed.                                              *)

\* Without an outage the last scan is at most an interval old, and a row that was written
\* with more than an interval of its window left, and is not matched yet, was written after
\* that scan or not due before it.
OnTime ==
  /\ lastScan <= now /\ since <= now
  /\ ~Outages => now - lastScan <= ScanEvery
  /\ ~Outages /\ pre /\ since + ScanEvery < due + Lookback =>
       matched \/ lastScan <= since \/ lastScan < due

LEMMA OnTimeStep == ASSUME TypeOK, OnTime, [Next]_vars PROVE OnTime'
<1> USE TimesType, LookbackCoversInterval, SwitchesType
    DEF TimesType, LookbackCoversInterval, SwitchesType, Times
<1> USE DEF OnTime, TypeOK, clockVars, eventVars, ghosts
<1>1. CASE Scan
  <2>1. /\ lastScan' = now /\ UNCHANGED <<now, due, pre, since>>
        /\ matched \/ Matches => matched'
    BY <1>1 DEF Scan
  <2>2. /\ {now, lastScan, due, since} \subseteq Nat
        /\ {Lookback, ScanEvery} \subseteq Nat
    OBVIOUS
  <2>3. CASE ~Outages /\ pre /\ since + ScanEvery < due + Lookback /\ ~matched
    <3>1. lastScan <= since \/ lastScan < due
      BY <2>3
    <3>2. now - lastScan <= ScanEvery
      BY <2>3
    <3>3. due > now - Lookback
      BY <2>2, <2>3, <3>1, <3>2
    <3> QED BY <2>1, <2>2, <2>3, <3>3 DEF Matches
  <2> QED BY <2>1, <2>2, <2>3
<1>2. CASE Tick
  BY <1>2 DEF Tick
<1>3. ASSUME NEW d \in Times, NEW p \in BOOLEAN, Sync(d, p) PROVE OnTime'
  BY <1>3 DEF Sync
<1>5. ASSUME UNCHANGED <<clockVars, eventVars, since, matched>> PROVE OnTime'
  BY <1>5
<1>6. CASE StartFanout
  BY <1>6, <1>5 DEF StartFanout
<1>7. CASE PageFollowers
  BY <1>7, <1>5 DEF PageFollowers
<1>8. CASE FanoutFails \/ Backoff \/ EvictFanout
  BY <1>8, <1>5 DEF FanoutFails, Backoff, EvictFanout
<1>9. ASSUME NEW a \in Cursors, RunBatch(a) \/ EvictBatch(a) PROVE OnTime'
  BY <1>9, <1>5 DEF RunBatch, EvictBatch
<1>10. ASSUME NEW u \in Users, Follow(u) \/ Unfollow(u) PROVE OnTime'
  BY <1>10, <1>5 DEF Follow, Unfollow
<1>11. CASE UNCHANGED vars
  BY <1>11, <1>5 DEF vars
<1> QED
  BY <1>1, <1>2, <1>3, <1>6, <1>7, <1>8, <1>9, <1>10, <1>11 DEF Next

\* NeverMissed of ReminderFanout: with a lookback longer than the scan's interval no
\* threshold falls between two windows of eventsDueForReminder, whatever times and states
\* the syncs write: what is missed was written with less than an interval of its window left.
THEOREM NothingMissed == Spec => []NeverMissed
<1>1. Init => OnTime
  BY TimesType DEF Init, OnTime, TimesType, Times
<1>2. TypeOK /\ OnTime /\ [Next]_vars => OnTime'
  BY OnTimeStep
<1>3. TypeOK /\ OnTime => NeverMissed
  <2> SUFFICES ASSUME TypeOK, OnTime,
                      ~Outages, pre,
                      now > due + ScanEvery, now > since + ScanEvery,
                      since + ScanEvery < due + Lookback
               PROVE  matched
    BY DEF NeverMissed
  <2>1. {now, lastScan, due, since, ScanEvery} \subseteq Nat
    BY TimesType DEF TypeOK, Times, TimesType
  <2>2. now - lastScan <= ScanEvery
    BY DEF OnTime
  <2>3. due < lastScan /\ since < lastScan
    BY <2>1, <2>2
  <2> QED BY <2>1, <2>3 DEF OnTime
<1>4. QED
  BY <1>1, <1>2, <1>3, TypesKept, PTL DEF Spec

-----------------------------------------------------------------------------
(* One fan-out of a due reminder.                                          *)

\* The job was added when its reminder was due, as the first of its due time, and ended after
\* that; once a fan-out of a due time has completed, its job is retained or the window has
\* passed.
FanoutInv ==
  /\ fo # "none" => foDue <= now
  /\ fo = "completed" => foDue <= foEnd
  /\ fo \in {"waiting", "active", "delayed"} => fanouts[foDue] = 0
  /\ \A d \in Times :
       \/ fanouts[d] = 0
       \/ fanouts[d] = 1 /\ fo = "completed" /\ foDue = d
       \/ fanouts[d] = 1 /\ d <= now - Lookback

LEMMA FanoutStep == ASSUME TypeOK, FanoutInv, [Next]_vars PROVE FanoutInv'
<1> USE TimesType DEF TimesType, Times
<1> USE DEF FanoutInv, TypeOK, clockVars, eventVars, followVars, foVars, ghosts
<1>1. CASE Scan
  <2>1. UNCHANGED <<now, foEnd, fanouts>>
    BY <1>1 DEF Scan
  <2>2. \/ UNCHANGED <<fo, foDue>>
        \/ fo = "none" /\ fo' = "waiting" /\ foDue' = due /\ due <= now /\ due > now - Lookback
    BY <1>1 DEF Scan, Matches
  <2>3. fo = "none" /\ due > now - Lookback => fanouts[due] = 0
    <3>1. due \in Nat /\ now \in Nat /\ Lookback \in Nat /\ due \in Times
      OBVIOUS
    <3>2. due > now - Lookback => ~(due <= now - Lookback)
      BY <3>1
    <3> QED BY <3>1, <3>2, Zenon
  <2> QED BY <2>1, <2>2, <2>3
<1>2. CASE StartFanout
  BY <1>2 DEF StartFanout, FinishFanout
<1>3. CASE PageFollowers
  BY <1>3 DEF PageFollowers, FinishFanout
<1>4. CASE FanoutFails
  BY <1>4 DEF FanoutFails
<1>5. CASE Backoff
  BY <1>5 DEF Backoff
<1>6. CASE EvictFanout
  BY <1>6, RetentionOutlivesWindow DEF EvictFanout, RetentionOutlivesWindow
<1>7. CASE Tick
  BY <1>7 DEF Tick
<1>8. ASSUME NEW d \in Times, NEW p \in BOOLEAN, Sync(d, p) PROVE FanoutInv'
  BY <1>8 DEF Sync
<1>9. ASSUME UNCHANGED <<clockVars, foVars, fanouts>> PROVE FanoutInv'
  BY <1>9
<1>11. ASSUME NEW a \in Cursors, RunBatch(a) \/ EvictBatch(a) PROVE FanoutInv'
  BY <1>11, <1>9 DEF RunBatch, EvictBatch
<1>12. ASSUME NEW u \in Users, Follow(u) \/ Unfollow(u) PROVE FanoutInv'
  BY <1>12, <1>9 DEF Follow, Unfollow
<1>13. CASE UNCHANGED vars
  BY <1>13, <1>9 DEF vars
<1> QED
  BY <1>1, <1>2, <1>3, <1>4, <1>5, <1>6, <1>7, <1>8, <1>11, <1>12, <1>13 DEF Next

\* OneFanoutPerDue of ReminderFanout: however many scans match a due reminder, with
\* outages, retries and reschedulings, one fan-out of it completes, because a
\* completed job is retained at least as long as the window (retention.js).
THEOREM OneFanout == Spec => []OneFanoutPerDue
<1>1. Init => FanoutInv
  BY DEF Init, FanoutInv
<1>2. TypeOK /\ FanoutInv /\ [Next]_vars => FanoutInv'
  BY FanoutStep
<1>3. TypeOK /\ FanoutInv => OneFanoutPerDue
  BY DEF FanoutInv, OneFanoutPerDue, TypeOK
<1>4. QED
  BY <1>1, <1>2, <1>3, TypesKept, PTL DEF Spec
-----------------------------------------------------------------------------
(* The webhook scan: Webhooks.                                             *)

\* What may still be announced of this kind, whatever its state is said to be.
Open(k, r) ==
  IF k = "line.moved" THEN r \in DOMAIN odds /\ odds[r].at = hour
  ELSE r \in Games /\ start[r] > hour - Window

\* A reference of this kind that there is.
Real(k, r) == IF k = "line.moved" THEN r \in DOMAIN odds ELSE r \in Games

\* Nobody will claim it again: it has a mark, or its time is over.
Closed(k, r) == Real(k, r) /\ (r \in W!Marked(k) \/ ~Open(k, r))

\* A scanner has claimed it and has not told this owner yet.
Has(s, k, c) == pc[s] \in {"count", "emit"} /\ W!Kind(s) = k /\ c \in todo[s]

\* A mark is of something there was when it was made.
MarkInv ==
  /\ \A r \in DOMAIN odds : odds[r].at <= hour
  /\ \A m \in marks : /\ m.at <= hour /\ Real(m.kind, m.ref)
                      /\ m.kind = "line.moved" => odds[m.ref].at <= m.at

\* Candidates of a read are claimed within their hour.
ReadInv == \A s \in Scanners : pc[s] = "claim" => \A c \in rows[s] : Open(W!Kind(s), c[1])

ToldInv == \A k \in W!KindSet, r \in W!Refs, o \in Owners :
  sent[k][r][o] <= 1 /\ (sent[k][r][o] > 0 => Closed(k, r))

WorkInv == \A s \in Scanners, k \in W!KindSet, r \in W!Refs, o \in Owners :
  Has(s, k, <<r, o>>) =>
    /\ Closed(k, r) /\ sent[k][r][o] = 0
    /\ \A t \in Scanners : Has(t, k, <<r, o>>) => t = s

SpentInv == \A o \in Owners, k \in W!KindSet, h \in 0 .. LastHour :
  spent[o][k][h] <= rate[o][k][h] /\ spent[o][k][h] <= Cap

HooksInv == W!TypeOK /\ MarkInv /\ ReadInv /\ ToldInv /\ WorkInv /\ SpentInv

-----------------------------------------------------------------------------
(* Kinds, references and candidates.                                       *)

LEMMA KindsAre ==
  ASSUME W!ConstantsType
  PROVE W!KindSet \subseteq W!EventTypes /\ 1 \in DOMAIN Kinds
  BY DEF W!ConstantsType, W!KindSet, W!ToSet

LEMMA KindTyped ==
  ASSUME W!ConstantsType, kind \in [Scanners -> DOMAIN Kinds], NEW s \in Scanners
  PROVE  W!Kind(s) \in W!KindSet
  BY DEF W!KindSet, W!ToSet, W!Kind

LEMMA OddsRefs ==
  ASSUME W!ConstantsType, W!TypeOK, NEW r \in DOMAIN odds
  PROVE  /\ r \in 1 .. MaxReadings /\ r \in W!Refs
         /\ odds[r] \in [game : Games, at : 0 .. LastHour, before : BOOLEAN]
<1> DEFINE Readings == [game : Games, at : 0 .. LastHour, before : BOOLEAN]
<1>0. odds \in Seq(Readings) /\ Len(odds) <= MaxReadings
  BY DEF W!TypeOK
<1> HIDE DEF Readings
<1>1. DOMAIN odds = 1 .. Len(odds) /\ Len(odds) \in Nat
  BY <1>0
<1>2. odds[r] \in Readings
  BY <1>0, <1>1
<1> USE DEF Readings
<1> QED
  BY <1>0, <1>1, <1>2 DEF W!Refs, W!ConstantsType

LEMMA PoolIsOpen ==
  ASSUME W!ConstantsType, W!TypeOK, NEW k \in W!KindSet, NEW r \in W!Pool(k)
  PROVE  Open(k, r) /\ Real(k, r) /\ r \in W!Refs
<1>1. k \in W!EventTypes
  BY KindsAre
<1>2. CASE k = "line.moved"
  <2>1. W!Pool(k) \subseteq {x \in DOMAIN odds : odds[x].at = hour}
    BY <1>2 DEF W!Pool
  <2> QED
    BY <1>2, <2>1, OddsRefs DEF Open, Real
<1>3. CASE k # "line.moved"
  <2>1. r \in Games /\ (start[r] > hour \/ start[r] > hour - Window)
    BY <1>1, <1>3 DEF W!Pool, W!EventTypes
  <2>2. start[r] \in Nat /\ hour \in Nat /\ Window \in Nat
    <3>1. start \in [Games -> 0 .. 1] /\ hour \in 0 .. LastHour
      BY DEF W!TypeOK
    <3> QED
      BY <2>1, <3>1 DEF W!ConstantsType
  <2>3. start[r] > hour - Window
    BY <2>1, <2>2
  <2> QED
    BY <1>3, <2>1, <2>3 DEF Open, Real, W!Refs
<1> QED
  BY <1>2, <1>3

LEMMA CandidatesAre ==
  ASSUME W!ConstantsType, W!TypeOK, NEW k \in W!KindSet,
         NEW some \in W!Limited(W!Candidates(k)), NEW c \in some
  PROVE  c \in W!Refs \X Owners /\ Open(k, c[1]) /\ c[1] \notin W!Marked(k)
<1>1. c \in W!Candidates(k)
  BY DEF W!Limited
<1>2. c \in (W!Pool(k) \ W!Marked(k)) \X Owners
  BY <1>1 DEF W!Candidates
<1> QED
  BY <1>2, PoolIsOpen

-----------------------------------------------------------------------------
(* Types, part by part.                                                    *)

Stages == {"idle", "read", "claim", "count", "emit", "prune"}
Hooks == [Owners -> (SUBSET W!KindSet) \cup {None}]

FixtureTypes ==
  /\ hour \in 0 .. LastHour
  /\ state \in [Games -> {"pre", "in", "post"}] /\ start \in [Games -> 0 .. 1]
  /\ touched \in [Games -> 0 .. LastHour]
  /\ odds \in Seq([game : Games, at : 0 .. LastHour, before : BOOLEAN])
  /\ Len(odds) <= MaxReadings
ReaderTypes == hook \in Hooks /\ followed \subseteq Owners \X Games
CountTypes ==
  /\ marks \subseteq [kind : W!KindSet, ref : W!Refs, at : 0 .. LastHour]
  /\ rate \in [Owners -> [W!KindSet -> [0 .. LastHour -> Nat]]]
  /\ spent \in [Owners -> [W!KindSet -> [0 .. LastHour -> Nat]]]
  /\ sent \in [W!KindSet -> [W!Refs -> [Owners -> Nat]]]
PassTypes ==
  /\ wanted \in [Scanners -> Hooks]
  /\ pc \in [Scanners -> Stages] /\ kind \in [Scanners -> DOMAIN Kinds]
  /\ rows \in [Scanners -> SUBSET (W!Refs \X Owners)]
  /\ todo \in [Scanners -> SUBSET (W!Refs \X Owners)]
BoundTypes == syncs \in 0 .. MaxSyncs /\ faults \in 0 .. MaxFaults

LEMMA TypesAre ==
  W!TypeOK <=> FixtureTypes /\ ReaderTypes /\ CountTypes /\ PassTypes /\ BoundTypes
BY DEF W!TypeOK, FixtureTypes, ReaderTypes, CountTypes, PassTypes, BoundTypes, Stages, Hooks

\* A scanner at work, and everything else.
Works(s) ==
  \/ W!Start(s) \/ W!Read(s) \/ W!Claim(s) \/ W!Prune(s) \/ W!Dies(s)
  \/ \E c \in todo[s] : W!Count(s, c) \/ W!Emit(s, c) \/ W!EmitFails(s, c)
World ==
  \/ \E g \in Games : W!Sync(g) \/ W!Reading(g)
  \/ \E o \in Owners :
       \/ \E to \in (SUBSET W!KindSet) \cup {None} : W!SetHook(o, to)
       \/ \E g \in Games : W!Follow(o, g)
  \/ W!Tick \/ UNCHANGED W!vars

LEMMA StepsAre == ASSUME [W!Next]_(W!vars) PROVE World \/ \E s \in Scanners : Works(s)
BY DEF W!Next, W!Scan, Works, World

LEMMA WorksFrame ==
  ASSUME NEW s \in Scanners, Works(s)
  PROVE  UNCHANGED <<hour, state, start, touched, odds, hook, followed, syncs>>
BY DEF Works, W!Start, W!Read, W!Claim, W!Count, W!Emit, W!EmitFails, W!Prune, W!Dies,
    W!fixtures, W!readers, W!bounds, W!ghosts

LEMMA WorldFrame ==
  ASSUME World
  PROVE  UNCHANGED <<marks, rate, spent, sent, wanted, pc, kind, rows, todo>> /\ start' = start
BY DEF World, W!Sync, W!Reading, W!SetHook, W!Follow, W!Tick, W!fixtures, W!readers, W!pass,
    W!ghosts, W!vars

LEMMA FixturesTyped ==
  ASSUME W!ConstantsType, FixtureTypes, BoundTypes, World
  PROVE  FixtureTypes'
<1> USE DEF FixtureTypes
<1>1. ASSUME NEW g \in Games, W!Sync(g) PROVE FixtureTypes'
  BY <1>1 DEF W!Sync
<1>2. ASSUME NEW g \in Games, W!Reading(g) PROVE FixtureTypes'
  <2> DEFINE Kept == [game : Games, at : 0 .. LastHour, before : BOOLEAN]
             new == [game |-> g, at |-> hour, before |-> state[g] = "pre"]
  <2>1. new \in Kept
    <3>1. (state[g] = "pre") \in BOOLEAN
      BY Zenon
    <3> QED
      BY <3>1
  <2>2. odds \in Seq(Kept) /\ odds' = Append(odds, new) /\ Len(odds) < MaxReadings
    BY <1>2 DEF W!Reading
  <2> HIDE DEF Kept, new
  <2>3. odds' \in Seq(Kept) /\ Len(odds') <= MaxReadings
    BY <2>1, <2>2 DEF W!ConstantsType
  <2> USE DEF Kept
  <2> QED
    BY <1>2, <2>3 DEF W!Reading
<1>3. CASE (\E o \in Owners : \/ \E to \in (SUBSET W!KindSet) \cup {None} : W!SetHook(o, to)
                              \/ \E g \in Games : W!Follow(o, g)) \/ UNCHANGED W!vars
  BY <1>3 DEF W!SetHook, W!Follow, W!fixtures, W!vars
<1>4. CASE W!Tick
  BY <1>4 DEF W!Tick, W!fixtures, W!ConstantsType
<1> QED
  BY <1>1, <1>2, <1>3, <1>4 DEF World

LEMMA ReadersTyped ==
  ASSUME ReaderTypes, World
  PROVE  ReaderTypes'
<1> USE DEF ReaderTypes, Hooks
<1>1. ASSUME NEW o \in Owners, NEW to \in (SUBSET W!KindSet) \cup {None}, W!SetHook(o, to)
      PROVE ReaderTypes'
  BY <1>1 DEF W!SetHook
<1>2. ASSUME NEW o \in Owners, NEW g \in Games, W!Follow(o, g) PROVE ReaderTypes'
  BY <1>2 DEF W!Follow
<1>3. CASE (\E g \in Games : W!Sync(g) \/ W!Reading(g)) \/ W!Tick \/ UNCHANGED W!vars
  BY <1>3 DEF W!Sync, W!Reading, W!Tick, W!readers, W!vars
<1> QED
  BY <1>1, <1>2, <1>3 DEF World

LEMMA BoundsTyped ==
  ASSUME W!ConstantsType, BoundTypes, [W!Next]_(W!vars)
  PROVE  BoundTypes'
<1> USE DEF BoundTypes, W!ConstantsType
<1>1. ASSUME NEW s \in Scanners, Works(s) PROVE BoundTypes'
  <2>1. UNCHANGED W!bounds \/ (faults < MaxFaults /\ faults' = faults + 1 /\ syncs' = syncs)
    BY <1>1 DEF Works, W!Start, W!Read, W!Claim, W!Count, W!Emit, W!EmitFails, W!Prune, W!Dies
  <2> QED
    BY <2>1 DEF W!bounds
<1>2. CASE World
  <2>1. \/ UNCHANGED W!bounds
        \/ faults < MaxFaults /\ faults' = faults + 1 /\ syncs' = syncs
        \/ syncs < MaxSyncs /\ syncs' = syncs + 1 /\ faults' = faults
    BY <1>2 DEF World, W!Sync, W!Reading, W!SetHook, W!Follow, W!Tick, W!Edit, W!bounds, W!vars
  <2> QED
    BY <2>1 DEF W!bounds
<1> QED
  BY <1>1, <1>2, StepsAre

\* On to the next kind: nothing is in hand.
LEMMA NextKindIs ==
  ASSUME W!ConstantsType, PassTypes, NEW s \in Scanners, W!NextKind(s),
         wanted' \in [Scanners -> Hooks]
  PROVE  /\ PassTypes' /\ pc'[s] \in {"prune", "read"}
         /\ \A t \in Scanners \ {s} : /\ pc'[t] = pc[t] /\ kind'[t] = kind[t]
                                      /\ rows'[t] = rows[t] /\ todo'[t] = todo[t]
<1> USE DEF PassTypes, W!NextKind, Stages
<1>1. DOMAIN Kinds = 1 .. Len(Kinds) /\ Len(Kinds) \in Nat \ {0}
  BY DEF W!ConstantsType
<1>2. kind[s] \in 1 .. Len(Kinds)
  BY <1>1
<1>3. (IF kind[s] = Len(Kinds) THEN 1 ELSE kind[s] + 1) \in DOMAIN Kinds
  BY <1>1, <1>2
<1>4. kind' \in [Scanners -> DOMAIN Kinds] /\ \A t \in Scanners \ {s} : kind'[t] = kind[t]
  BY <1>3
<1>5. /\ pc' \in [Scanners -> Stages] /\ pc'[s] \in {"prune", "read"}
      /\ \A t \in Scanners \ {s} : pc'[t] = pc[t]
  OBVIOUS
<1>6. /\ rows' \in [Scanners -> SUBSET (W!Refs \X Owners)]
      /\ todo' \in [Scanners -> SUBSET (W!Refs \X Owners)]
      /\ \A t \in Scanners \ {s} : rows'[t] = rows[t] /\ todo'[t] = todo[t]
  OBVIOUS
<1> QED
  BY <1>4, <1>5, <1>6

\* What an announcement leaves to do.
LEMMA DoneIs ==
  ASSUME W!ConstantsType, PassTypes, NEW s \in Scanners, NEW c, W!Done(s, c),
         wanted' \in [Scanners -> Hooks]
  PROVE  /\ PassTypes'
         /\ \/ pc'[s] \in {"prune", "read"}
            \/ pc'[s] = "count" /\ kind'[s] = kind[s] /\ todo'[s] = todo[s] \ {c}
         /\ \A t \in Scanners \ {s} : /\ pc'[t] = pc[t] /\ kind'[t] = kind[t]
                                      /\ rows'[t] = rows[t] /\ todo'[t] = todo[t]
<1>1. CASE W!NextKind(s)
  BY <1>1, NextKindIs
<1>2. CASE /\ todo' = [todo EXCEPT ![s] = @ \ {c}] /\ pc' = [pc EXCEPT ![s] = "count"]
           /\ UNCHANGED <<kind, rows>>
  BY <1>2 DEF PassTypes, Stages
<1> QED
  BY <1>1, <1>2 DEF W!Done

LEMMA PassTyped ==
  ASSUME W!ConstantsType, W!TypeOK, NEW s \in Scanners, Works(s)
  PROVE  /\ PassTypes'
         /\ \A t \in Scanners \ {s} : /\ pc'[t] = pc[t] /\ kind'[t] = kind[t]
                                      /\ rows'[t] = rows[t] /\ todo'[t] = todo[t]
<1>1. PassTypes /\ ReaderTypes
  BY TypesAre
<1>2. W!Kind(s) \in W!KindSet
  BY <1>1, KindTyped DEF PassTypes
<1> USE <1>1
<1>3. CASE W!Start(s)
  BY <1>3 DEF W!Start, PassTypes, ReaderTypes, Stages
<1>4. CASE W!Read(s)
  <2>1. wanted' \in [Scanners -> Hooks]
    BY <1>4 DEF W!Read, PassTypes
  <2>2. PICK some \in W!Limited(W!Candidates(W!Kind(s))) :
             IF some = {} THEN W!NextKind(s)
             ELSE rows' = [rows EXCEPT ![s] = some] /\ pc' = [pc EXCEPT ![s] = "claim"]
                  /\ UNCHANGED <<kind, todo>>
    BY <1>4 DEF W!Read
  <2>3. CASE some = {}
    BY <2>1, <2>2, <2>3, NextKindIs
  <2>4. CASE some # {}
    <3>1. some \subseteq W!Refs \X Owners
      BY <1>2, CandidatesAre
    <3> QED
      BY <2>1, <2>2, <2>4, <3>1 DEF PassTypes, Stages
  <2> QED
    BY <2>3, <2>4
<1>5. CASE W!Claim(s)
  <2>1. wanted' \in [Scanners -> Hooks]
    BY <1>5 DEF W!Claim, PassTypes
  <2> DEFINE work == {c \in rows[s] : c[1] \in W!Mine(s) /\ W!Wants(s, c[2])}
  <2>2. CASE work = {}
    BY <1>5, <2>1, <2>2, NextKindIs DEF W!Claim
  <2>3. CASE work # {}
    <3>1. todo' = [todo EXCEPT ![s] = work] /\ pc' = [pc EXCEPT ![s] = "count"]
          /\ UNCHANGED <<kind, rows>>
      BY <1>5, <2>3 DEF W!Claim
    <3>2. work \subseteq W!Refs \X Owners
      BY DEF PassTypes
    <3> HIDE DEF work
    <3> QED
      BY <2>1, <3>1, <3>2 DEF PassTypes, Stages
  <2> QED
    BY <2>2, <2>3
<1>6. ASSUME NEW c \in todo[s], W!Count(s, c)
      PROVE  /\ PassTypes'
             /\ \A t \in Scanners \ {s} : /\ pc'[t] = pc[t] /\ kind'[t] = kind[t]
                                          /\ rows'[t] = rows[t] /\ todo'[t] = todo[t]
  <2>1. wanted' \in [Scanners -> Hooks]
    BY <1>6 DEF W!Count, PassTypes
  <2>2. CASE W!Done(s, c)
    BY <2>1, <2>2, DoneIs
  <2>3. CASE rows' = [rows EXCEPT ![s] = {c}] /\ pc' = [pc EXCEPT ![s] = "emit"]
             /\ UNCHANGED <<kind, todo>>
    <3>1. c \in W!Refs \X Owners
      BY <1>6 DEF PassTypes
    <3> QED
      BY <2>1, <2>3, <3>1 DEF PassTypes, Stages
  <2> QED
    BY <1>6, <2>2, <2>3 DEF W!Count
<1>7. ASSUME NEW c \in todo[s], W!Emit(s, c) \/ W!EmitFails(s, c)
      PROVE  /\ PassTypes'
             /\ \A t \in Scanners \ {s} : /\ pc'[t] = pc[t] /\ kind'[t] = kind[t]
                                          /\ rows'[t] = rows[t] /\ todo'[t] = todo[t]
  <2>1. wanted' \in [Scanners -> Hooks] /\ W!Done(s, c)
    BY <1>7 DEF W!Emit, W!EmitFails, PassTypes
  <2> QED
    BY <2>1, DoneIs
<1>8. CASE W!Prune(s)
  BY <1>8 DEF W!Prune, PassTypes, Stages
<1>9. CASE W!Dies(s)
  <2>1. 1 \in DOMAIN Kinds
    BY KindsAre
  <2> QED
    BY <1>9, <2>1 DEF W!Dies, PassTypes, Stages
<1> QED
  BY <1>3, <1>4, <1>5, <1>6, <1>7, <1>8, <1>9 DEF Works

LEMMA EntryIsCount ==
  ASSUME NEW A, NEW B, NEW C, NEW f \in [A -> [B -> [C -> Nat]]],
         NEW a \in A, NEW b \in B, NEW c \in C
  PROVE  f[a][b][c] \in Nat
<1>1. f[a] \in [B -> [C -> Nat]]
  OBVIOUS
<1>2. f[a][b] \in [C -> Nat]
  BY <1>1
<1> QED
  BY <1>2

\* One entry of a table of tables of counts.
LEMMA Entry ==
  ASSUME NEW A, NEW B, NEW C, NEW f \in [A -> [B -> [C -> Nat]]],
         NEW a \in A, NEW b \in B, NEW c \in C, NEW v \in Nat
  PROVE  /\ f[a][b][c] \in Nat
         /\ [f EXCEPT ![a][b][c] = v] \in [A -> [B -> [C -> Nat]]]
         /\ \A x \in A, y \in B, z \in C :
              [f EXCEPT ![a][b][c] = v][x][y][z] =
                IF x = a /\ y = b /\ z = c THEN v ELSE f[x][y][z]
<1>1. \A x \in A : f[x] \in [B -> [C -> Nat]]
  OBVIOUS
<1>2. \A x \in A, y \in B : f[x][y] \in [C -> Nat]
  BY <1>1
<1>3. f[a][b][c] \in Nat
  BY <1>2
<1> DEFINE row == [f[a][b] EXCEPT ![c] = v]
           table == [f[a] EXCEPT ![b] = row]
<1>4. row \in [C -> Nat] /\ \A z \in C : row[z] = IF z = c THEN v ELSE f[a][b][z]
  BY <1>2
<1>5. [f EXCEPT ![a][b][c] = v] = [f EXCEPT ![a] = table]
  OBVIOUS
<1> HIDE DEF row
<1>6. table \in [B -> [C -> Nat]] /\ \A y \in B : table[y] = IF y = b THEN row ELSE f[a][y]
  BY <1>1, <1>4
<1> HIDE DEF table
<1>7. /\ [f EXCEPT ![a] = table] \in [A -> [B -> [C -> Nat]]]
      /\ \A x \in A : [f EXCEPT ![a] = table][x] = IF x = a THEN table ELSE f[x]
  BY <1>1, <1>6
<1> QED
  BY <1>3, <1>4, <1>5, <1>6, <1>7

LEMMA CountsTyped ==
  ASSUME W!ConstantsType, W!TypeOK, NEW s \in Scanners, Works(s)
  PROVE  CountTypes'
<1>1. PassTypes /\ CountTypes /\ hour \in 0 .. LastHour
  BY TypesAre DEF FixtureTypes
<1>2. W!Kind(s) \in W!KindSet
  BY <1>1, KindTyped DEF PassTypes
<1>3. \A c \in todo[s] \cup rows[s] : c[1] \in W!Refs /\ c[2] \in Owners
  BY <1>1 DEF PassTypes
<1> USE <1>1
<1>4. CASE W!Start(s) \/ W!Read(s) \/ W!Dies(s)
  BY <1>4 DEF W!Start, W!Read, W!Dies, CountTypes, W!ghosts
<1>5. CASE W!Claim(s)
  <2>1. W!Mine(s) \subseteq W!Refs
    BY <1>3 DEF W!Mine
  <2>2. UNCHANGED <<rate, spent, sent>>
        /\ marks' = marks \cup {[kind |-> W!Kind(s), ref |-> r, at |-> hour] : r \in W!Mine(s)}
    BY <1>5 DEF W!Claim, W!ghosts
  <2> QED
    BY <1>2, <2>1, <2>2 DEF CountTypes
<1>6. CASE W!Prune(s)
  BY <1>6 DEF W!Prune, CountTypes, W!ghosts
<1>7. ASSUME NEW c \in todo[s], W!Count(s, c) PROVE CountTypes'
  <2>1. PICK o \in Owners, k \in W!KindSet, h \in 0 .. LastHour :
             o = c[2] /\ k = W!Kind(s) /\ h = hour
    BY <1>2, <1>3
  <2>2. /\ rate \in [Owners -> [W!KindSet -> [0 .. LastHour -> Nat]]]
        /\ spent \in [Owners -> [W!KindSet -> [0 .. LastHour -> Nat]]]
    BY DEF CountTypes
  <2>3. rate[o][k][h] \in Nat /\ spent[o][k][h] \in Nat
    BY <2>2, EntryIsCount
  <2>4. PICK n \in Nat, m \in Nat : n = rate[o][k][h] + 1 /\ m = spent[o][k][h] + 1
    BY <2>3
  <2>5. /\ rate' = [rate EXCEPT ![o][k][h] = n]
        /\ spent' = [spent EXCEPT ![o][k][h] = m] \/ spent' = spent
        /\ UNCHANGED <<marks, sent>>
    BY <1>7, <2>1, <2>4 DEF W!Count
  <2> HIDE <1>1
  <2>6. [rate EXCEPT ![o][k][h] = n] \in [Owners -> [W!KindSet -> [0 .. LastHour -> Nat]]]
    BY <2>2, Entry
  <2>7. [spent EXCEPT ![o][k][h] = m] \in [Owners -> [W!KindSet -> [0 .. LastHour -> Nat]]]
    BY <2>2, Entry
  <2> QED
    BY <1>1, <2>2, <2>5, <2>6, <2>7 DEF CountTypes
<1>8. ASSUME NEW c \in todo[s], W!Emit(s, c) PROVE CountTypes'
  <2>1. /\ sent' = [sent EXCEPT ![W!Kind(s)][c[1]][c[2]] = @ + 1]
        /\ UNCHANGED <<marks, rate, spent>>
    BY <1>8 DEF W!Emit
  <2>2. sent \in [W!KindSet -> [W!Refs -> [Owners -> Nat]]]
    BY DEF CountTypes
  <2>3. sent[W!Kind(s)][c[1]][c[2]] + 1 \in Nat
    BY <1>2, <1>3, <2>2, Entry
  <2>4. sent' \in [W!KindSet -> [W!Refs -> [Owners -> Nat]]]
    BY <1>2, <1>3, <2>1, <2>2, <2>3, Entry
  <2> QED
    BY <2>1, <2>4 DEF CountTypes
<1>9. ASSUME NEW c \in todo[s], W!EmitFails(s, c) PROVE CountTypes'
  BY <1>9 DEF W!EmitFails, CountTypes, W!ghosts
<1> QED
  BY <1>4, <1>5, <1>6, <1>7, <1>8, <1>9 DEF Works

LEMMA HookTypesKept ==
  ASSUME W!ConstantsType, W!TypeOK, [W!Next]_(W!vars)
  PROVE  W!TypeOK'
<1>1. FixtureTypes /\ ReaderTypes /\ CountTypes /\ PassTypes /\ BoundTypes
  BY TypesAre
<1>2. BoundTypes'
  BY <1>1, BoundsTyped
<1>3. ASSUME NEW s \in Scanners, Works(s)
      PROVE  FixtureTypes' /\ ReaderTypes' /\ CountTypes' /\ PassTypes'
  <2>1. FixtureTypes' /\ ReaderTypes'
    BY <1>1, <1>3, WorksFrame DEF FixtureTypes, ReaderTypes
  <2> QED
    BY <1>3, <2>1, CountsTyped, PassTyped
<1>4. ASSUME World
      PROVE  FixtureTypes' /\ ReaderTypes' /\ CountTypes' /\ PassTypes'
  <2>1. CountTypes' /\ PassTypes'
    BY <1>1, <1>4, WorldFrame DEF CountTypes, PassTypes
  <2> QED
    BY <1>1, <1>4, <2>1, FixturesTyped, ReadersTyped
<1>5. FixtureTypes' /\ ReaderTypes' /\ CountTypes' /\ PassTypes'
  BY <1>3, <1>4, StepsAre
<1> QED
  BY <1>2, <1>5, TypesAre DEF W!TypeOK, FixtureTypes, ReaderTypes, CountTypes, PassTypes,
      BoundTypes,
                              Stages, Hooks

-----------------------------------------------------------------------------
(* What is over stays over.                                                *)

LEMMA OddsTyped ==
  ASSUME W!ConstantsType, W!TypeOK
  PROVE  /\ DOMAIN odds = 1 .. Len(odds) /\ Len(odds) \in Nat /\ hour \in Nat
         /\ \A r \in DOMAIN odds : odds[r].at \in Nat
<1>1. hour \in 0 .. LastHour
  BY DEF W!TypeOK
<1>2. DOMAIN odds = 1 .. Len(odds) /\ Len(odds) \in Nat
  BY DEF W!TypeOK
<1>3. \A r \in DOMAIN odds : odds[r].at \in 0 .. LastHour
  BY OddsRefs
<1> QED
  BY <1>1, <1>2, <1>3

\* The world goes on by an hour at most, and adds readings of this hour.
LEMMA WorldMoves ==
  ASSUME W!ConstantsType, W!TypeOK, World
  PROVE  /\ hour' = hour \/ (hour' = hour + 1 /\ odds' = odds)
         /\ DOMAIN odds \subseteq DOMAIN odds'
         /\ \A r \in DOMAIN odds : odds'[r] = odds[r]
         /\ \A r \in DOMAIN odds' \ DOMAIN odds : odds'[r].at = hour /\ hour' = hour
<1>1. ASSUME NEW g \in Games, W!Reading(g)
      PROVE  /\ hour' = hour
             /\ DOMAIN odds \subseteq DOMAIN odds'
             /\ \A r \in DOMAIN odds : odds'[r] = odds[r]
             /\ \A r \in DOMAIN odds' \ DOMAIN odds : odds'[r].at = hour
  <2> DEFINE Kept == [game : Games, at : 0 .. LastHour, before : BOOLEAN]
             new == [game |-> g, at |-> hour, before |-> state[g] = "pre"]
  <2>1. odds \in Seq(Kept)
    BY DEF W!TypeOK
  <2>2. odds' = Append(odds, new) /\ hour' = hour
    BY <1>1 DEF W!Reading
  <2>3. new.at = hour
    OBVIOUS
  <2> HIDE DEF Kept, new
  <2>4. /\ DOMAIN odds = 1 .. Len(odds) /\ DOMAIN odds' = 1 .. Len(odds) + 1 /\ Len(odds) \in Nat
        /\ \A r \in 1 .. Len(odds) : odds'[r] = odds[r]
        /\ odds'[Len(odds) + 1] = new
    BY <2>1, <2>2
  <2> QED
    BY <2>2, <2>3, <2>4
<1>2. CASE \/ \E g \in Games : W!Sync(g)
           \/ \E o \in Owners : \/ \E to \in (SUBSET W!KindSet) \cup {None} : W!SetHook(o, to)
                                \/ \E g \in Games : W!Follow(o, g)
           \/ UNCHANGED W!vars
  BY <1>2 DEF W!Sync, W!SetHook, W!Follow, W!fixtures, W!vars
<1>3. CASE W!Tick
  BY <1>3 DEF W!Tick, W!fixtures
<1> QED
  BY <1>1, <1>2, <1>3 DEF World

LEMMA OverStaysOver ==
  ASSUME W!ConstantsType, W!TypeOK, MarkInv, [W!Next]_(W!vars), NEW k, NEW r, Real(k, r)
  PROVE  Real(k, r)' /\ (Open(k, r)' => Open(k, r))
<1>1. ASSUME NEW s \in Scanners, Works(s) PROVE Real(k, r)' /\ (Open(k, r)' => Open(k, r))
  BY <1>1, WorksFrame DEF Real, Open
<1>2. CASE World
  <2>1. hour' = hour \/ hour' = hour + 1
    BY <1>2, WorldMoves
  <2>2. CASE k = "line.moved"
    <3>1. r \in DOMAIN odds /\ r \in DOMAIN odds' /\ odds'[r] = odds[r]
      BY <1>2, <2>2, WorldMoves DEF Real
    <3>2. odds[r].at \in Nat /\ odds[r].at <= hour /\ hour \in Nat
      BY <3>1, OddsTyped DEF MarkInv
    <3>3. odds[r].at = hour' => odds[r].at = hour
      BY <2>1, <3>2
    <3> QED
      BY <2>2, <3>1, <3>3 DEF Real, Open
  <2>3. CASE k # "line.moved"
    <3>1. r \in Games /\ start' = start
      BY <1>2, <2>3, WorldFrame DEF Real
    <3>2. start \in [Games -> 0 .. 1] /\ hour \in 0 .. LastHour
      BY DEF W!TypeOK
    <3>3. start[r] > hour' - Window => start[r] > hour - Window
      BY <2>1, <3>1, <3>2 DEF W!ConstantsType
    <3> QED
      BY <2>3, <3>1, <3>3 DEF Real, Open
  <2> QED
    BY <2>2, <2>3
<1> QED
  BY <1>1, <1>2, StepsAre

\* A pass that claims does so within the hour of its read.
LEMMA ClaimIsOpen ==
  ASSUME W!ConstantsType, W!TypeOK, ReadInv, NEW s \in Scanners, W!Claim(s), NEW r \in W!Mine(s)
  PROVE  Open(W!Kind(s), r) /\ Real(W!Kind(s), r) /\ r \notin W!Marked(W!Kind(s))
<1>1. PICK c \in rows[s] : r = c[1]
  BY DEF W!Mine
<1>2. Open(W!Kind(s), r)
  BY <1>1 DEF ReadInv, W!Claim
<1> QED
  BY <1>2 DEF Open, Real, W!Mine

LEMMA MarksKept ==
  ASSUME W!ConstantsType, W!TypeOK, MarkInv, ReadInv, [W!Next]_(W!vars)
  PROVE  MarkInv'
<1>1. \A m \in marks : Real(m.kind, m.ref)' /\ m.at \in Nat
  <2>1. marks \subseteq [kind : W!KindSet, ref : W!Refs, at : 0 .. LastHour]
    BY DEF W!TypeOK
  <2> QED
    BY <2>1, OverStaysOver DEF MarkInv
<1>2. ASSUME NEW s \in Scanners, Works(s) PROVE MarkInv'
  <2>1. hour' = hour /\ odds' = odds
    BY <1>2, WorksFrame
  <2>2. CASE marks' \subseteq marks
    BY <1>1, <2>1, <2>2 DEF MarkInv
  <2>3. CASE W!Claim(s)
    <3>0. PICK k \in W!KindSet : k = W!Kind(s)
      BY KindTyped DEF W!TypeOK
    <3>1. marks' = marks \cup {[kind |-> k, ref |-> r, at |-> hour] : r \in W!Mine(s)}
      BY <2>3, <3>0 DEF W!Claim
    <3>2. ASSUME NEW r \in W!Mine(s)
          PROVE  Real(k, r)' /\ (k = "line.moved" => odds[r].at = hour)
      <4>1. Open(k, r) /\ Real(k, r)
        BY <2>3, <3>0, ClaimIsOpen
      <4> QED
        BY <4>1, OverStaysOver DEF Open
    <3>3. hour \in Nat
      BY OddsTyped
    <3>4. ASSUME NEW r \in W!Mine(s), NEW m, m = [kind |-> k, ref |-> r, at |-> hour]
          PROVE  /\ m.at <= hour' /\ Real(m.kind, m.ref)'
                 /\ m.kind = "line.moved" => odds'[m.ref].at <= m.at
      <4>1. m.kind = k /\ m.ref = r /\ m.at = hour
        BY <3>4
      <4> QED
        BY <2>1, <3>2, <3>3, <4>1
    <3>5. ASSUME NEW m \in marks
          PROVE  /\ m.at <= hour' /\ Real(m.kind, m.ref)'
                 /\ m.kind = "line.moved" => odds'[m.ref].at <= m.at
      BY <1>1, <2>1 DEF MarkInv
    <3> QED
      BY <2>1, <3>1, <3>4, <3>5 DEF MarkInv
  <2> QED
    BY <1>2, <2>2, <2>3 DEF Works, W!Start, W!Read, W!Count, W!Emit, W!EmitFails, W!Prune,
        W!Dies
<1>3. CASE World
  <2>1. marks' = marks /\ hour \in Nat
    BY <1>3, WorldFrame, OddsTyped
  <2>2. hour <= hour'
    BY <1>3, <2>1, WorldMoves
  <2>3. \A r \in DOMAIN odds' : odds'[r].at <= hour'
    <3>1. ASSUME NEW r \in DOMAIN odds PROVE odds'[r].at <= hour'
      <4>1. odds'[r] = odds[r] /\ odds[r].at <= hour /\ odds[r].at \in Nat
        BY <1>3, WorldMoves, OddsTyped DEF MarkInv
      <4>2. hour' \in Nat
        BY <1>3, <2>1, WorldMoves
      <4> QED
        BY <2>1, <2>2, <4>1, <4>2
    <3>2. ASSUME NEW r \in DOMAIN odds' \ DOMAIN odds PROVE odds'[r].at <= hour'
      BY <1>3, <2>1, <3>2, WorldMoves
    <3> QED
      BY <3>1, <3>2
  <2>4. ASSUME NEW m \in marks
        PROVE  m.at <= hour' /\ (m.kind = "line.moved" => odds'[m.ref].at <= m.at)
    <3>1. m.at \in Nat /\ m.at <= hour /\ hour' \in Nat
      BY <1>1, <1>3, <2>1, WorldMoves DEF MarkInv
    <3>2. m.kind = "line.moved" => odds'[m.ref] = odds[m.ref]
      BY <1>3, WorldMoves DEF MarkInv, Real
    <3> QED
      BY <2>1, <2>2, <3>1, <3>2 DEF MarkInv
  <2> QED
    BY <1>1, <2>1, <2>3, <2>4 DEF MarkInv
<1> QED
  BY <1>2, <1>3, StepsAre

\* A mark outlives the time of what it marks.
LEMMA PrunedIsOver ==
  ASSUME W!ConstantsType, W!TypeOK, MarkInv, NEW m \in marks, ~(m.at >= hour - Keep)
  PROVE  ~Open(m.kind, m.ref)
<1>1. marks \subseteq [kind : W!KindSet, ref : W!Refs, at : 0 .. LastHour]
      /\ start \in [Games -> 0 .. 1] /\ hour \in 0 .. LastHour
  BY DEF W!TypeOK
<1>2. m.at \in Nat /\ hour \in Nat /\ m.at + Keep < hour
  BY <1>1 DEF W!ConstantsType
<1>3. CASE m.kind = "line.moved"
  <2>1. m.ref \in DOMAIN odds /\ odds[m.ref].at <= m.at
    BY <1>3 DEF MarkInv, Real
  <2>2. odds[m.ref].at \in Nat
    BY <2>1, OddsTyped
  <2>3. odds[m.ref].at # hour
    BY <1>2, <2>1, <2>2 DEF W!ConstantsType
  <2> QED
    BY <1>3, <2>3 DEF Open
<1>4. CASE m.kind # "line.moved"
  <2>1. m.ref \in Games
    BY <1>4 DEF MarkInv, Real
  <2>2. ~(start[m.ref] > hour - Window)
    BY <1>1, <1>2, <2>1 DEF W!ConstantsType
  <2> QED
    BY <1>4, <2>2 DEF Open
<1> QED
  BY <1>3, <1>4

LEMMA ClosedStays ==
  ASSUME W!ConstantsType, W!TypeOK, MarkInv, [W!Next]_(W!vars), NEW k, NEW r, Closed(k, r)
  PROVE  Closed(k, r)'
<1>1. Real(k, r) /\ Real(k, r)' /\ (Open(k, r)' => Open(k, r))
  BY OverStaysOver DEF Closed
<1>2. CASE ~Open(k, r)
  BY <1>1, <1>2 DEF Closed
<1>3. CASE r \in W!Marked(k)
  <2>1. PICK m \in marks : m.kind = k /\ m.ref = r
    BY <1>3 DEF W!Marked
  <2>2. CASE m \in marks'
    BY <1>1, <2>1, <2>2 DEF Closed, W!Marked
  <2>3. CASE m \notin marks'
    <3>1. ~(m.at >= hour - Keep)
      <4>1. ASSUME NEW s \in Scanners, Works(s) PROVE ~(m.at >= hour - Keep)
        BY <2>3, <4>1 DEF Works, W!Start, W!Read, W!Claim, W!Count, W!Emit, W!EmitFails,
            W!Prune, W!Dies, W!ghosts
      <4>2. CASE World
        BY <2>3, <4>2, WorldFrame
      <4> QED
        BY <4>1, <4>2, StepsAre
    <3> QED
      BY <1>1, <2>1, <3>1, PrunedIsOver DEF Closed
  <2> QED
    BY <2>2, <2>3
<1> QED
  BY <1>2, <1>3 DEF Closed

-----------------------------------------------------------------------------
(* A pass, and what it has in hand.                                        *)

LEMMA ReadKept ==
  ASSUME W!ConstantsType, W!TypeOK, ReadInv, [W!Next]_(W!vars)
  PROVE  ReadInv'
<1>1. ASSUME NEW s \in Scanners, Works(s) PROVE ReadInv'
  <2>1. \A k, r : Open(k, r) => Open(k, r)'
    BY <1>1, WorksFrame DEF Open
  <2>2. ASSUME NEW t \in Scanners \ {s}, pc'[t] = "claim", NEW c \in rows'[t]
        PROVE  Open(W!Kind(t), c[1])'
    <3>1. pc[t] = "claim" /\ c \in rows[t] /\ W!Kind(t)' = W!Kind(t)
      BY <1>1, <2>2, PassTyped DEF W!Kind
    <3>2. PICK k : k = W!Kind(t)
      OBVIOUS
    <3>3. Open(k, c[1])
      BY <3>1, <3>2 DEF ReadInv
    <3> QED
      BY <2>1, <3>1, <3>2, <3>3
  <2>3. ASSUME pc'[s] = "claim", NEW c \in rows'[s]
        PROVE  Open(W!Kind(s), c[1])'
    <3>0. PassTypes
      BY TypesAre
    <3>1. W!Read(s)
      <4>1. CASE W!Start(s) \/ W!Prune(s) \/ W!Dies(s)
        BY <2>3, <3>0, <4>1 DEF W!Start, W!Prune, W!Dies, PassTypes, Stages
      <4>2. ASSUME W!Claim(s) PROVE FALSE
        <5>1. W!NextKind(s) \/ pc' = [pc EXCEPT ![s] = "count"]
          BY <4>2 DEF W!Claim
        <5>2. ~W!NextKind(s)
          BY <2>3, <3>0 DEF W!NextKind, PassTypes
        <5> QED
          BY <2>3, <3>0, <5>1, <5>2 DEF PassTypes
      <4>3. ASSUME NEW d \in todo[s], W!Count(s, d) \/ W!Emit(s, d) \/ W!EmitFails(s, d)
            PROVE  FALSE
        <5>1. W!NextKind(s) \/ pc' = [pc EXCEPT ![s] = "count"] \/ pc' = [pc EXCEPT ![s] = "emit"]
          BY <4>3 DEF W!Count, W!Emit, W!EmitFails, W!Done
        <5>2. ~W!NextKind(s)
          BY <2>3, <3>0 DEF W!NextKind, PassTypes
        <5> QED
          BY <2>3, <3>0, <5>1, <5>2 DEF PassTypes
      <4> QED
        BY <1>1, <4>1, <4>2, <4>3 DEF Works
    <3>2. PICK k \in W!KindSet : k = W!Kind(s)
      BY <3>0, KindTyped DEF PassTypes
    <3>3. PICK some \in W!Limited(W!Candidates(k)) :
               IF some = {} THEN W!NextKind(s)
               ELSE rows' = [rows EXCEPT ![s] = some] /\ pc' = [pc EXCEPT ![s] = "claim"]
                    /\ UNCHANGED <<kind, todo>>
      BY <3>1, <3>2 DEF W!Read
    <3>4. ~W!NextKind(s)
      BY <2>3, <3>0 DEF W!NextKind, PassTypes
    <3>5. c \in some /\ W!Kind(s)' = W!Kind(s)
      BY <2>3, <3>0, <3>3, <3>4 DEF PassTypes, W!Kind
    <3>6. Open(k, c[1])
      BY <3>5, CandidatesAre
    <3> QED
      BY <2>1, <3>2, <3>5, <3>6
  <2> QED
    BY <2>2, <2>3 DEF ReadInv
<1>2. CASE World
  <2>1. ASSUME NEW s \in Scanners, pc'[s] = "claim", NEW c \in rows'[s]
        PROVE  Open(W!Kind(s), c[1])'
    <3>1. pc[s] = "claim" /\ c \in rows[s] /\ W!Kind(s)' = W!Kind(s) /\ start' = start
      BY <1>2, <2>1, WorldFrame DEF W!Kind
    <3>2. PICK k : k = W!Kind(s)
      OBVIOUS
    <3>3. Open(k, c[1])
      BY <3>1, <3>2 DEF ReadInv
    <3>4. ~W!Tick
      BY <3>1 DEF W!Tick
    <3>5. hour' = hour
      BY <1>2, <3>4 DEF World, W!Sync, W!Reading, W!SetHook, W!Follow, W!vars
    <3>6. Open(k, c[1])'
      BY <1>2, <3>1, <3>3, <3>5, WorldMoves DEF Open
    <3> QED
      BY <3>1, <3>2, <3>6
  <2> QED
    BY <2>1 DEF ReadInv
<1> QED
  BY <1>1, <1>2, StepsAre

\* Work comes from a claim, and an announcement takes it away.
LEMMA WorkComes ==
  ASSUME W!ConstantsType, W!TypeOK, NEW s \in Scanners, Works(s), NEW t \in Scanners,
         NEW k, NEW c,
         Has(t, k, c)'
  PROVE  \/ Has(t, k, c)
         \/ t = s /\ W!Claim(s) /\ k = W!Kind(s) /\ c \in rows[s] /\ c[1] \in W!Mine(s)
<1>0. PassTypes
  BY TypesAre
<1>1. CASE t # s
  BY <1>1, PassTyped DEF Has, W!Kind
<1>2. CASE t = s
  <2>1. pc'[s] \in {"count", "emit"} /\ c \in todo'[s] /\ W!Kind(s)' = k
    BY <1>2 DEF Has
  <2>2. ~W!NextKind(s)
    BY <1>0, <2>1 DEF W!NextKind, PassTypes
  <2>3. CASE W!Claim(s)
    <3>1. /\ todo' = [todo EXCEPT ![s] = {d \in rows[s] : d[1] \in W!Mine(s) /\ W!Wants(s, d[2])}]
          /\ kind' = kind
      BY <2>2, <2>3 DEF W!Claim
    <3>2. c \in rows[s] /\ c[1] \in W!Mine(s) /\ k = W!Kind(s)
      BY <1>0, <2>1, <3>1 DEF PassTypes, W!Kind
    <3> QED
      BY <1>2, <2>3, <3>2
  <2>4. ASSUME NEW d \in todo[s], W!Count(s, d) \/ W!Emit(s, d) \/ W!EmitFails(s, d)
        PROVE  Has(t, k, c)
    <3>1. pc[s] \in {"count", "emit"}
      BY <2>4 DEF W!Count, W!Emit, W!EmitFails
    <3>2. kind' = kind /\ (todo' = todo \/ todo' = [todo EXCEPT ![s] = @ \ {d}])
      BY <2>2, <2>4 DEF W!Count, W!Emit, W!EmitFails, W!Done
    <3>3. c \in todo[s] /\ W!Kind(s) = k
      BY <1>0, <2>1, <3>2 DEF PassTypes, W!Kind
    <3> QED
      BY <1>2, <3>1, <3>3 DEF Has
  <2>5. ASSUME W!Read(s) PROVE FALSE
    <3>1. W!NextKind(s) \/ pc' = [pc EXCEPT ![s] = "claim"]
      BY <2>5 DEF W!Read
    <3> QED
      BY <1>0, <2>1, <2>2, <3>1 DEF PassTypes
  <2>6. ASSUME W!Start(s) \/ W!Prune(s) \/ W!Dies(s) PROVE FALSE
    BY <1>0, <2>1, <2>6 DEF W!Start, W!Prune, W!Dies, PassTypes
  <2> QED
    BY <2>3, <2>4, <2>5, <2>6 DEF Works
<1> QED
  BY <1>1, <1>2

LEMMA WorkGoes ==
  ASSUME W!ConstantsType, W!TypeOK, NEW s \in Scanners, NEW c \in todo[s], W!Emit(s, c)
  PROVE  Has(s, W!Kind(s), c) /\ \A k : k = W!Kind(s) => ~Has(s, k, c)'
<1>0. PassTypes /\ W!Done(s, c)
  BY TypesAre DEF W!Emit
<1>1. Has(s, W!Kind(s), c)
  BY DEF W!Emit, Has
<1>2. wanted' \in [Scanners -> Hooks]
  BY <1>0 DEF W!Emit, PassTypes
<1>3. \/ pc'[s] \in {"prune", "read"}
      \/ pc'[s] = "count" /\ todo'[s] = todo[s] \ {c}
  BY <1>0, <1>2, DoneIs
<1> QED
  BY <1>1, <1>3 DEF Has

\* An announcement is one more of what the scanner had in hand; nothing else is told.
LEMMA ToldIs ==
  ASSUME W!ConstantsType, W!TypeOK, [W!Next]_(W!vars)
  PROVE  \/ sent' = sent
         \/ \E s \in Scanners, k \in W!KindSet, r \in W!Refs, o \in Owners :
              /\ Works(s) /\ Has(s, k, <<r, o>>) /\ ~Has(s, k, <<r, o>>)' /\ ~W!Claim(s)
              /\ \A j \in W!KindSet, q \in W!Refs, p \in Owners :
                   sent'[j][q][p] =
                     IF j = k /\ q = r /\ p = o THEN sent[k][r][o] + 1 ELSE sent[j][q][p]
<1>1. ASSUME NEW s \in Scanners, NEW c \in todo[s], W!Emit(s, c)
      PROVE  \E k \in W!KindSet, r \in W!Refs, o \in Owners :
              /\ Works(s) /\ Has(s, k, <<r, o>>) /\ ~Has(s, k, <<r, o>>)' /\ ~W!Claim(s)
              /\ \A j \in W!KindSet, q \in W!Refs, p \in Owners :
                   sent'[j][q][p] =
                     IF j = k /\ q = r /\ p = o THEN sent[k][r][o] + 1 ELSE sent[j][q][p]
  <2>1. PICK k \in W!KindSet : k = W!Kind(s)
    BY KindTyped DEF W!TypeOK
  <2>2. c \in W!Refs \X Owners
    BY DEF W!TypeOK
  <2>3. PICK r \in W!Refs, o \in Owners : c = <<r, o>>
    BY <2>2
  <2>4. sent' = [sent EXCEPT ![k][r][o] = sent[k][r][o] + 1]
    BY <1>1, <2>1, <2>3 DEF W!Emit
  <2>5. sent \in [W!KindSet -> [W!Refs -> [Owners -> Nat]]]
    BY DEF W!TypeOK
  <2>6. sent[k][r][o] \in Nat
    BY <2>5, EntryIsCount
  <2>7. sent[k][r][o] + 1 \in Nat
    BY <2>6
  <2>8. \A j \in W!KindSet, q \in W!Refs, p \in Owners :
          sent'[j][q][p] =
                     IF j = k /\ q = r /\ p = o THEN sent[k][r][o] + 1 ELSE sent[j][q][p]
    BY <2>4, <2>5, <2>7, Entry
  <2>9. Has(s, k, <<r, o>>) /\ ~Has(s, k, <<r, o>>)'
    BY <1>1, <2>1, <2>3, WorkGoes
  <2>10. Works(s) /\ ~W!Claim(s)
    BY <1>1 DEF Works, W!Emit, W!Claim
  <2> QED
    BY <2>8, <2>9, <2>10
<1>2. ASSUME NEW s \in Scanners, Works(s), \A c \in todo[s] : ~W!Emit(s, c) PROVE sent' = sent
  BY <1>2 DEF Works, W!Start, W!Read, W!Claim, W!Count, W!EmitFails, W!Prune, W!Dies, W!ghosts
<1> QED
  BY <1>1, <1>2, StepsAre, WorldFrame

LEMMA ToldKept ==
  ASSUME W!ConstantsType, W!TypeOK, MarkInv, ToldInv, WorkInv, [W!Next]_(W!vars)
  PROVE  ToldInv'
<1>1. ASSUME NEW k \in W!KindSet, NEW r \in W!Refs, NEW o \in Owners
      PROVE  sent'[k][r][o] <= 1 /\ (sent'[k][r][o] > 0 => Closed(k, r)')
  <2>1. sent[k][r][o] <= 1 /\ (sent[k][r][o] > 0 => Closed(k, r))
    BY DEF ToldInv
  <2>2. Closed(k, r) => Closed(k, r)'
    BY ClosedStays
  <2>3. CASE sent'[k][r][o] = sent[k][r][o]
    BY <2>1, <2>2, <2>3
  <2>4. CASE sent'[k][r][o] # sent[k][r][o]
    <3>1. PICK s \in Scanners : Has(s, k, <<r, o>>) /\ sent'[k][r][o] = sent[k][r][o] + 1
      BY <2>4, ToldIs
    <3>2. Closed(k, r) /\ sent[k][r][o] = 0
      BY <3>1 DEF WorkInv
    <3> QED
      BY <2>2, <3>1, <3>2
  <2> QED
    BY <2>3, <2>4
<1> QED
  BY <1>1 DEF ToldInv

\* What is claimed has been nobody's: it was still open, and unmarked.
LEMMA WorkKept ==
  ASSUME W!ConstantsType, W!TypeOK, MarkInv, ReadInv, ToldInv, WorkInv, [W!Next]_(W!vars)
  PROVE  WorkInv'
<1>1. ASSUME NEW t \in Scanners, NEW k \in W!KindSet, NEW r \in W!Refs, NEW o \in Owners,
             Has(t, k, <<r, o>>)'
      PROVE  \/ Has(t, k, <<r, o>>)
             \/ W!Claim(t) /\ Works(t) /\ k = W!Kind(t) /\ r \in W!Mine(t)
  <2>1. ASSUME NEW s \in Scanners, Works(s)
        PROVE  \/ Has(t, k, <<r, o>>)
               \/ W!Claim(t) /\ Works(t) /\ k = W!Kind(t) /\ r \in W!Mine(t)
    <3>1. \/ Has(t, k, <<r, o>>)
          \/ t = s /\ W!Claim(s) /\ k = W!Kind(s) /\ <<r, o>>[1] \in W!Mine(s)
      BY <1>1, <2>1, WorkComes
    <3> QED
      BY <2>1, <3>1
  <2>2. CASE World
    BY <1>1, <2>2, WorldFrame DEF Has, W!Kind
  <2> QED
    BY <2>1, <2>2, StepsAre
<1>2. ASSUME NEW t \in Scanners, NEW k \in W!KindSet, NEW r \in W!Refs, NEW o \in Owners,
             W!Claim(t), Works(t), k = W!Kind(t), r \in W!Mine(t)
      PROVE  /\ Closed(k, r)' /\ sent'[k][r][o] = 0
             /\ \A s \in Scanners : ~Has(s, k, <<r, o>>)
  <2>1. Open(k, r) /\ Real(k, r) /\ r \notin W!Marked(k)
    BY <1>2, ClaimIsOpen
  <2>2. ~Closed(k, r)
    BY <2>1 DEF Closed
  <2>3. \A s \in Scanners : ~Has(s, k, <<r, o>>)
    BY <2>2 DEF WorkInv
  <2>4. sent' = sent
    BY <1>2 DEF W!Claim, W!ghosts
  <2>5. sent[k][r][o] \in Nat
    <3>1. sent \in [W!KindSet -> [W!Refs -> [Owners -> Nat]]]
      BY DEF W!TypeOK
    <3> QED
      BY <3>1, EntryIsCount
  <2>6. sent'[k][r][o] = 0
    BY <2>2, <2>4, <2>5 DEF ToldInv
  <2>7. [kind |-> k, ref |-> r, at |-> hour] \in marks'
    BY <1>2 DEF W!Claim
  <2>8. r \in W!Marked(k)'
    BY <2>7 DEF W!Marked
  <2>9. Real(k, r)'
    BY <2>1, OverStaysOver
  <2> QED
    BY <2>3, <2>6, <2>8, <2>9 DEF Closed
<1>3. ASSUME NEW t \in Scanners, NEW k \in W!KindSet, NEW r \in W!Refs, NEW o \in Owners,
             Has(t, k, <<r, o>>)'
      PROVE  /\ Closed(k, r)' /\ sent'[k][r][o] = 0
             /\ \A s \in Scanners : Has(s, k, <<r, o>>)' => s = t
  <2>1. CASE Has(t, k, <<r, o>>)
    <3>1. Closed(k, r) /\ sent[k][r][o] = 0 /\ \A s \in Scanners : Has(s, k, <<r, o>>) => s = t
      BY <2>1 DEF WorkInv
    <3>2. Closed(k, r)'
      BY <3>1, ClosedStays
    <3>3. sent'[k][r][o] = 0
      <4>1. ASSUME NEW s \in Scanners, Has(s, k, <<r, o>>), ~Has(s, k, <<r, o>>)' PROVE FALSE
        BY <1>3, <3>1, <4>1
      <4> QED
        BY <3>1, <4>1, ToldIs
    <3>4. ASSUME NEW s \in Scanners, Has(s, k, <<r, o>>)' PROVE s = t
      <4>1. Has(s, k, <<r, o>>) \/ (W!Claim(s) /\ Works(s) /\ k = W!Kind(s) /\ r \in W!Mine(s))
        BY <1>1, <3>4
      <4> QED
        BY <1>2, <2>1, <3>1, <4>1
    <3> QED
      BY <3>2, <3>3, <3>4
  <2>2. CASE ~Has(t, k, <<r, o>>)
    <3>1. W!Claim(t) /\ Works(t) /\ k = W!Kind(t) /\ r \in W!Mine(t)
      BY <1>1, <1>3, <2>2
    <3>2. /\ Closed(k, r)' /\ sent'[k][r][o] = 0
          /\ \A s \in Scanners : ~Has(s, k, <<r, o>>)
      BY <1>2, <3>1
    <3>3. ASSUME NEW s \in Scanners \ {t} PROVE ~Has(s, k, <<r, o>>)'
      BY <3>1, <3>2, <3>3, PassTyped DEF Has, W!Kind
    <3> QED
      BY <3>2, <3>3
  <2> QED
    BY <2>1, <2>2
<1> QED
  BY <1>3 DEF WorkInv

-----------------------------------------------------------------------------
(* The cap, and the theorems.                                              *)

LEMMA SpentKept ==
  ASSUME W!ConstantsType, W!TypeOK, SpentInv, [W!Next]_(W!vars)
  PROVE  SpentInv'
<1>1. ASSUME NEW s \in Scanners, NEW c \in todo[s], W!Count(s, c) PROVE SpentInv'
  <2>1. PICK k \in W!KindSet : k = W!Kind(s)
    BY KindTyped DEF W!TypeOK
  <2>2. c \in W!Refs \X Owners /\ hour \in 0 .. LastHour
    BY DEF W!TypeOK
  <2>3. PICK o \in Owners : o = c[2]
    BY <2>2
  <2>4. PICK n \in 0 .. LastHour : n = hour
    BY <2>2
  <2>5. /\ rate \in [Owners -> [W!KindSet -> [0 .. LastHour -> Nat]]]
        /\ spent \in [Owners -> [W!KindSet -> [0 .. LastHour -> Nat]]]
    BY DEF W!TypeOK
  <2>6. rate[o][k][n] \in Nat /\ spent[o][k][n] \in Nat
    BY <2>5, EntryIsCount
  <2>7. rate[o][k][n] + 1 \in Nat /\ spent[o][k][n] + 1 \in Nat
    BY <2>6
  <2> DEFINE Hours == 0 .. LastHour
  <2>8. /\ n \in Hours /\ rate \in [Owners -> [W!KindSet -> [Hours -> Nat]]]
        /\ spent \in [Owners -> [W!KindSet -> [Hours -> Nat]]]
    BY <2>5
  <2> HIDE DEF Hours
  <2>9. /\ \A p \in Owners, j \in W!KindSet, h \in Hours :
             rate[p][j][h] \in Nat /\ spent[p][j][h] \in Nat
        /\ \A p \in Owners, j \in W!KindSet, h \in Hours :
             rate'[p][j][h] = IF p = o /\ j = k /\ h = n THEN rate[o][k][n] + 1 ELSE rate[p][j][h]
    <3>1. rate' = [rate EXCEPT ![o][k][n] = rate[o][k][n] + 1]
      BY <1>1, <2>1, <2>3, <2>4 DEF W!Count
    <3> DEFINE v == rate[o][k][n] + 1
    <3>2. /\ v \in Nat /\ rate' = [rate EXCEPT ![o][k][n] = v]
          /\ rate \in [Owners -> [W!KindSet -> [Hours -> Nat]]] /\ n \in Hours
      BY <2>7, <2>8, <3>1
    <3> HIDE DEF v
    <3>3. \A p \in Owners, j \in W!KindSet, h \in Hours :
            rate'[p][j][h] = IF p = o /\ j = k /\ h = n THEN v ELSE rate[p][j][h]
      BY <3>2, Entry
    <3> QED
      BY <2>8, <3>3, EntryIsCount DEF v
  <2>10. CASE spent' = spent
    BY <2>9, <2>10 DEF SpentInv, Hours
  <2>11. CASE rate[o][k][n] + 1 <= Cap /\ spent' = [spent EXCEPT ![o][k][n] = spent[o][k][n] + 1]
    <3> DEFINE v == spent[o][k][n] + 1
    <3>1. /\ v \in Nat /\ spent' = [spent EXCEPT ![o][k][n] = v]
          /\ spent \in [Owners -> [W!KindSet -> [Hours -> Nat]]] /\ n \in Hours
      BY <2>7, <2>8, <2>11
    <3> HIDE DEF v
    <3>2. \A p \in Owners, j \in W!KindSet, h \in Hours :
            spent'[p][j][h] = IF p = o /\ j = k /\ h = n THEN v ELSE spent[p][j][h]
      BY <3>1, Entry
    <3>3. spent[o][k][n] <= rate[o][k][n] /\ Cap \in Nat
      BY DEF SpentInv, W!ConstantsType
    <3> QED
      BY <2>6, <2>9, <2>11, <3>2, <3>3 DEF SpentInv, Hours, v
  <2> QED
    BY <1>1, <2>1, <2>3, <2>4, <2>10, <2>11 DEF W!Count, W!Allowed
<1>2. ASSUME NEW s \in Scanners, Works(s), \A c \in todo[s] : ~W!Count(s, c)
      PROVE  rate' = rate /\ spent' = spent
  BY <1>2 DEF Works, W!Start, W!Read, W!Claim, W!Emit, W!EmitFails, W!Prune, W!Dies, W!ghosts
<1>3. CASE rate' = rate /\ spent' = spent
  BY <1>3 DEF SpentInv
<1> QED
  BY <1>1, <1>2, <1>3, StepsAre, WorldFrame

LEMMA HooksInit == ASSUME W!ConstantsType, W!Init PROVE HooksInv
<1>1. W!TypeOK
  <2>1. 1 \in DOMAIN Kinds
    BY KindsAre
  <2>2. odds \in Seq([game : Games, at : 0 .. LastHour, before : BOOLEAN]) /\ Len(odds) = 0
    BY DEF W!Init
  <2>3. hook \in Hooks /\ wanted \in [Scanners -> Hooks]
    BY DEF W!Init, Hooks
  <2> QED
    BY <2>1, <2>2, <2>3 DEF W!Init, W!TypeOK, W!ConstantsType, Hooks
<1>2. DOMAIN odds = {}
  BY DEF W!Init
<1>3. MarkInv
  BY <1>2 DEF W!Init, MarkInv
<1>4. ReadInv /\ WorkInv
  BY DEF W!Init, ReadInv, WorkInv, Has
<1>5. ToldInv
  BY DEF W!Init, ToldInv
<1>6. SpentInv
  BY DEF W!Init, SpentInv, W!ConstantsType
<1> QED
  BY <1>1, <1>3, <1>4, <1>5, <1>6 DEF HooksInv

LEMMA HooksInvariance == ASSUME W!ConstantsType PROVE W!Spec => []HooksInv
<1>1. ASSUME HooksInv, [W!Next]_(W!vars) PROVE HooksInv'
  BY <1>1, HookTypesKept, MarksKept, ReadKept, ToldKept, WorkKept, SpentKept DEF HooksInv
<1> QED
  BY <1>1, HooksInit, PTL DEF W!Spec

\* TypeOK of Webhooks: every step of scanOnce, by any number of workers, and everything
\* around it keep the tables and what a pass has in hand of their types.
THEOREM HookTypesCorrect == ASSUME W!ConstantsType PROVE W!Spec => []W!TypeOK
<1>1. HooksInv => W!TypeOK
  BY DEF HooksInv
<1> QED
  BY <1>1, HooksInvariance, PTL

\* AnnouncedOnce of Webhooks: of the scanners that read a fixture one claims it, and a
\* mark is pruned only when its fixture is no longer announced, so that an owner is queued
\* each announcement once, whatever state the pollers put the fixture in.
THEOREM ToldOnceEach == ASSUME W!ConstantsType PROVE W!Spec => []W!AnnouncedOnce
<1>1. HooksInv => W!AnnouncedOnce
  BY DEF HooksInv, ToldInv, W!AnnouncedOnce
<1> QED
  BY <1>1, HooksInvariance, PTL

\* CapKept of Webhooks: an event is counted before it is sent (allowed), so that all
\* scanners together send an account no more than its cap of a kind in an hour.
THEOREM CapIsKept == ASSUME W!ConstantsType PROVE W!Spec => []W!CapKept
<1>1. HooksInv => W!CapKept
  BY DEF HooksInv, SpentInv, W!CapKept
<1> QED
  BY <1>1, HooksInvariance, PTL
=============================================================================
