-------------------------------- MODULE Webhooks --------------------------------
(***************************************************************************)
(* Customer webhooks: scanners, one in each worker process, look for       *)
(* fixtures in a state worth announcing that somebody with a webhook       *)
(* follows, claim each once in webhook_marks and queue one event for each  *)
(* owner, under an hourly cap.  The queue and its deliveries belong to a   *)
(* package; an event is told when it is queued.                            *)
(***************************************************************************)
EXTENDS Integers, Sequences, FiniteSets, SequencesExt

CONSTANTS
  Scanners, Owners,
  Games,      \* fixtures, each of which keeps its start
  Kinds,      \* EVENT_TYPES, those an instance has
  None,
  Limit,      \* candidate rows of one kind in one pass
  Cap,        \* HOURLY_CAP
  Window,     \* hours after its start in which a fixture is announced: 4 days
  Fresh,      \* hours since a sync wrote it: 2
  Keep,       \* hours a mark is kept: 7 days
  MaxTime,    \* bound: hours
  MaxSyncs,   \* bound: writes of the pollers
  MaxReadings, \* bound: odds readings
  MaxFaults   \* bound: settings and follows changed, failed emits and deaths

EventTypes == {"game.starting", "game.started", "game.final", "line.moved"}

\* What the composing module and the proofs assume of them: a mark outlives the window of
\* its fixture.
ConstantsType ==
  /\ Kinds \in Seq(EventTypes) /\ Kinds # <<>>
  /\ Limit \in Nat \ {0} /\ Cap \in Nat
  /\ Window \in Nat /\ Keep \in Nat /\ Window < Keep /\ Fresh \in Nat
  /\ MaxTime \in Nat /\ MaxSyncs \in Nat /\ MaxReadings \in Nat /\ MaxFaults \in Nat

VARIABLES
  now,
  state, start, touched, \* events: state, starts_at, updated_at
  odds,      \* event_odds_snapshots, by id
  hook,      \* what an owner's enabled endpoints subscribe to, or None
  follows,
  marks,     \* webhook_marks: kind, ref and when
  rate,      \* webhook_rate
  pc, wanted, kind, rows, todo, \* a pass: the patterns it read, where it is, and its work
  told,      \* ghost: how often an owner was sent what
  spent,     \* ghost: events queued for an owner in an hour
  syncs, faults

fixtures == <<state, start, touched, odds>>
readers == <<hook, follows>>
pass == <<pc, wanted, kind, rows, todo>>
ghosts == <<told, spent>>
bounds == <<syncs, faults>>
vars == <<now, fixtures, readers, marks, rate, pass, ghosts, bounds>>

KindSet == ToSet(Kinds)
Refs == Games \cup 1 .. MaxReadings

Init ==
  /\ now = 0
  /\ state = [g \in Games |-> "pre"] /\ start \in [Games -> 0 .. 1]
  /\ touched = [g \in Games |-> 0] /\ odds = <<>>
  /\ hook = [o \in Owners |-> KindSet] /\ follows = Owners \X Games
  /\ marks = {}
  /\ rate = [o \in Owners |-> [k \in KindSet |-> [h \in 0 .. MaxTime |-> 0]]]
  /\ pc = [s \in Scanners |-> "idle"]
  /\ wanted = [s \in Scanners |-> hook] /\ kind = [s \in Scanners |-> 1]
  /\ rows = [s \in Scanners |-> {}] /\ todo = [s \in Scanners |-> {}]
  /\ told = [k \in KindSet |-> [r \in Refs |-> [o \in Owners |-> 0]]]
  /\ spent = rate
  /\ syncs = 0 /\ faults = 0

-----------------------------------------------------------------------------
(* What is worth announcing.                                               *)

GameOf(k, r) == IF k = "line.moved" THEN odds[r].game ELSE r

\* GAME_POOLS, and the readings before kickoff that have one before them.
Pool(k) ==
  CASE k = "game.starting" -> {g \in Games : state[g] = "pre"
                                               /\ start[g] > now /\ start[g] <= now + 1}
    [] k = "game.started"  -> {g \in Games : state[g] = "in" /\ start[g] > now - Window}
    [] k = "game.final"    -> {g \in Games : state[g] = "post" /\ start[g] > now - Window
                                               /\ touched[g] > now - Fresh}
    [] k = "line.moved"    -> {r \in DOMAIN odds :
                                 /\ odds[r].at = now /\ odds[r].before
                                 /\ \E p \in 1 .. r - 1 : odds[p].game = odds[r].game}

Marked(k) == {m.ref : m \in {n \in marks : n.kind = k}}

\* candidatesSql: owners with an endpoint who follow the fixture.
Candidates(k) == {c \in (Pool(k) \ Marked(k)) \X Owners :
  hook[c[2]] # None /\ <<c[2], GameOf(k, c[1])>> \in follows}

Before(r, q) == CHOOSE b \in BOOLEAN : b <=> (r \in Nat /\ q \in Nat /\ r < q)

\* order by ref limit: whole refs but for the last.
Limited(cand) == {some \in SUBSET cand :
  /\ Cardinality(some) = IF Cardinality(cand) < Limit THEN Cardinality(cand) ELSE Limit
  /\ \A c \in some, d \in cand \ some : c[1] = d[1] \/ ~Before(d[1], c[1])}

-----------------------------------------------------------------------------
(* A pass: scanOnce.                                                       *)

Kind(s) == Kinds[kind[s]]

\* On to the next kind, or done.
NextKind(s) ==
  /\ pc' = [pc EXCEPT ![s] = IF kind[s] = Len(Kinds) THEN "prune" ELSE "read"]
  /\ kind' = [kind EXCEPT ![s] = IF @ = Len(Kinds) THEN 1 ELSE @ + 1]
  /\ rows' = [rows EXCEPT ![s] = {}] /\ todo' = [todo EXCEPT ![s] = {}]

\* The patterns of every owner; with no endpoint there is nothing to do.
Start(s) ==
  /\ pc[s] = "idle" /\ \E o \in Owners : hook[o] # None
  /\ wanted' = [wanted EXCEPT ![s] = hook]
  /\ pc' = [pc EXCEPT ![s] = "read"]
  /\ UNCHANGED <<now, fixtures, readers, marks, rate, kind, rows, todo, ghosts, bounds>>

Read(s) ==
  /\ pc[s] = "read"
  /\ \E some \in Limited(Candidates(Kind(s))) :
       IF some = {} THEN NextKind(s)
       ELSE rows' = [rows EXCEPT ![s] = some] /\ pc' = [pc EXCEPT ![s] = "claim"]
            /\ UNCHANGED <<kind, todo>>
  /\ UNCHANGED <<now, fixtures, readers, marks, rate, wanted, ghosts, bounds>>

Wants(s, o) == wanted[s][o] # None /\ Kind(s) \in wanted[s][o]

\* Mutation: everything the pass saw, whoever claimed it.
MineUnclaimed(s) == {c[1] : c \in rows[s]}

\* The refs this pass is the one to announce.
Mine(s) == {c[1] : c \in rows[s]} \ Marked(Kind(s))

\* Every ref it saw is claimed, wanted or not.
Claim(s) ==
  LET mine == Mine(s)
      work == {c \in rows[s] : c[1] \in mine /\ Wants(s, c[2])}
  IN
  /\ pc[s] = "claim"
  /\ marks' = marks \cup {[kind |-> Kind(s), ref |-> r, at |-> now] : r \in mine}
  /\ IF work = {} THEN NextKind(s)
     ELSE todo' = [todo EXCEPT ![s] = work] /\ pc' = [pc EXCEPT ![s] = "count"]
          /\ UNCHANGED <<kind, rows>>
  /\ UNCHANGED <<now, fixtures, readers, rate, wanted, ghosts, bounds>>

Done(s, c) ==
  IF todo[s] = {c} THEN NextKind(s)
  ELSE todo' = [todo EXCEPT ![s] = @ \ {c}] /\ pc' = [pc EXCEPT ![s] = "count"]
       /\ UNCHANGED <<kind, rows>>

\* Mutation: one event over the cap.
AllowedOneMore(n) == n <= Cap + 1

Allowed(n) == n <= Cap

\* allowed: the event is counted before it is sent, sent or not.
Count(s, c) ==
  LET n == rate[c[2]][Kind(s)][now] + 1 IN
  /\ pc[s] = "count" /\ c \in todo[s]
  /\ rate' = [rate EXCEPT ![c[2]][Kind(s)][now] = n]
  /\ IF Allowed(n)
     THEN rows' = [rows EXCEPT ![s] = {c}] /\ pc' = [pc EXCEPT ![s] = "emit"]
          /\ spent' = [spent EXCEPT ![c[2]][Kind(s)][now] = @ + 1]
          /\ UNCHANGED <<kind, todo>>
     ELSE Done(s, c) /\ UNCHANGED spent
  /\ UNCHANGED <<now, fixtures, readers, marks, wanted, told, bounds>>

Emit(s, c) ==
  /\ pc[s] = "emit" /\ rows[s] = {c}
  /\ told' = [told EXCEPT ![Kind(s)][c[1]][c[2]] = @ + 1]
  /\ Done(s, c)
  /\ UNCHANGED <<now, fixtures, readers, marks, rate, wanted, spent, bounds>>

\* A failed emit is logged, and is not tried again.
EmitFails(s, c) ==
  /\ pc[s] = "emit" /\ rows[s] = {c} /\ faults < MaxFaults
  /\ faults' = faults + 1
  /\ Done(s, c)
  /\ UNCHANGED <<now, fixtures, readers, marks, rate, wanted, ghosts, syncs>>

\* pruneMarks, after one pass in 120.
Prune(s) ==
  /\ pc[s] = "prune"
  /\ marks' \in {marks, {m \in marks : m.at >= now - Keep}}
  /\ pc' = [pc EXCEPT ![s] = "idle"]
  /\ UNCHANGED <<now, fixtures, readers, rate, wanted, kind, rows, todo, ghosts, bounds>>

\* The worker dies, or a statement fails: what was claimed is not announced.
Dies(s) ==
  /\ pc[s] # "idle" /\ faults < MaxFaults
  /\ faults' = faults + 1
  /\ pc' = [pc EXCEPT ![s] = "idle"] /\ kind' = [kind EXCEPT ![s] = 1]
  /\ rows' = [rows EXCEPT ![s] = {}] /\ todo' = [todo EXCEPT ![s] = {}]
  /\ UNCHANGED <<now, fixtures, readers, marks, rate, wanted, ghosts, syncs>>

-----------------------------------------------------------------------------
(* Around it.                                                              *)

\* A poller writes a fixture, maybe what it was told before the other poller wrote.
Sync(g) ==
  /\ syncs < MaxSyncs /\ syncs' = syncs + 1
  /\ \E st \in {"pre", "in", "post"} : state' = [state EXCEPT ![g] = st]
  /\ touched' = [touched EXCEPT ![g] = now]
  /\ UNCHANGED <<now, start, odds, readers, marks, rate, pass, ghosts, faults>>

\* recordOddsSnapshots.
Reading(g) ==
  /\ Len(odds) < MaxReadings
  /\ odds' = Append(odds, [game |-> g, at |-> now, before |-> state[g] = "pre"])
  /\ UNCHANGED <<now, state, start, touched, readers, marks, rate, pass, ghosts, bounds>>

Edit == faults < MaxFaults /\ faults' = faults + 1

\* An endpoint is added, filtered, switched off or deleted.
SetHook(o, to) ==
  /\ Edit /\ hook' = [hook EXCEPT ![o] = to]
  /\ UNCHANGED <<now, fixtures, follows, marks, rate, pass, ghosts, syncs>>

Follow(o, g) ==
  /\ Edit
  /\ follows' = IF <<o, g>> \in follows THEN follows \ {<<o, g>>} ELSE follows \cup {<<o, g>>}
  /\ UNCHANGED <<now, fixtures, hook, marks, rate, pass, ghosts, syncs>>

\* A claim follows its read within the hour.
Tick ==
  /\ now < MaxTime /\ \A s \in Scanners : pc[s] # "claim"
  /\ now' = now + 1
  /\ UNCHANGED <<fixtures, readers, marks, rate, pass, ghosts, bounds>>

Scan(s) ==
  \/ Start(s) \/ Read(s) \/ Claim(s) \/ Prune(s)
  \/ \E c \in todo[s] : Count(s, c) \/ Emit(s, c) \/ EmitFails(s, c)

Next ==
  \/ \E s \in Scanners : Scan(s) \/ Dies(s)
  \/ \E g \in Games : Sync(g) \/ Reading(g)
  \/ \E o \in Owners :
       \/ \E to \in (SUBSET KindSet) \cup {None} : to # hook[o] /\ SetHook(o, to)
       \/ \E g \in Games : Follow(o, g)
  \/ Tick

Spec == Init /\ [][Next]_vars

-----------------------------------------------------------------------------
TypeOK ==
  /\ now \in 0 .. MaxTime
  /\ state \in [Games -> {"pre", "in", "post"}] /\ start \in [Games -> 0 .. 1]
  /\ touched \in [Games -> 0 .. MaxTime]
  /\ odds \in Seq([game : Games, at : 0 .. MaxTime, before : BOOLEAN])
  /\ Len(odds) <= MaxReadings
  /\ hook \in [Owners -> (SUBSET KindSet) \cup {None}] /\ follows \subseteq Owners \X Games
  /\ marks \subseteq [kind : KindSet, ref : Refs, at : 0 .. MaxTime]
  /\ rate \in [Owners -> [KindSet -> [0 .. MaxTime -> Nat]]]
  /\ spent \in [Owners -> [KindSet -> [0 .. MaxTime -> Nat]]]
  /\ told \in [KindSet -> [Refs -> [Owners -> Nat]]]
  /\ wanted \in [Scanners -> [Owners -> (SUBSET KindSet) \cup {None}]]
  /\ pc \in [Scanners -> {"idle", "read", "claim", "count", "emit", "prune"}]
  /\ kind \in [Scanners -> DOMAIN Kinds]
  /\ rows \in [Scanners -> SUBSET (Refs \X Owners)]
  /\ todo \in [Scanners -> SUBSET (Refs \X Owners)]
  /\ syncs \in 0 .. MaxSyncs /\ faults \in 0 .. MaxFaults

\* An announcement is queued once for an owner, although several scanners read it before
\* one claims it, the pollers put the fixture back and forth, and marks are pruned.
AnnouncedOnce == \A k \in KindSet, r \in Refs, o \in Owners : told[k][r][o] <= 1

\* No account is sent more than its cap in an hour, by all scanners together.
CapKept == \A o \in Owners, k \in KindSet, h \in 0 .. MaxTime : spent[o][k][h] <= Cap
=============================================================================
