--------------------------------- MODULE Mirror ---------------------------------
(***************************************************************************)
(* The mirror of nichedb's sports collection: walks over the items of one  *)
(* kind, a page at a time by id, under an hourly budget, with one cursor   *)
(* row that says from when the next walk must look and where a walk was    *)
(* cut short.  Items change while they are walked, what upstream commits   *)
(* may be stamped Lag earlier, requests fail and the worker dies.          *)
(***************************************************************************)
EXTENDS Integers, Sequences, FiniteSets, FiniteSetsExt

CONSTANTS
  Items,       \* ids of upstream's items
  KindOf,      \* league, team, fixture or plays
  LeagueOf,    \* the league of a team or fixture
  FixtureOf,   \* the fixture of a plays item
  Unmapped,    \* items the mappers refuse: placeholders, ESPN's tennis
  Sportsdb,    \* TheSportsDB's leagues
  Clashing,    \* those whose slug another provider has
  Twins,       \* those another provider carries under another slug
  Old,         \* fixtures from before the backfill's floor
  None,
  PageSize,    \* PAGE
  Overlap,     \* OVERLAP_MS
  Lag,         \* how long before it can be read an item may be stamped
  Hour, Budget, \* hourlyBudget
  MaxTime,     \* bound: the clock stops here
  MaxChanges,  \* bound: changes upstream
  MaxFaults    \* bound: failures and deaths

Passes == {"since", "all", "catalogue", "plays", "broadcast"}
WalkIds == {"fixtures:since", "fixtures:all", "league", "team", "plays:since", "broadcast"}
NoWalk == [id |-> "none", since |-> None, after |-> 0, started |-> 0]

Leagues == {i \in Items : KindOf[i] = "league"}

\* What the composing module assumes of them: ids are numbered from one.
ConstantsType ==
  /\ IsFiniteSet(Items) /\ Items \subseteq Nat \ {0}
  /\ \A i \in Items : KindOf[i] = "fixture" => LeagueOf[i] \in Leagues
  /\ Overlap \in Nat /\ Lag \in 0 .. Overlap
  /\ PageSize \in Nat \ {0} /\ Budget \in Nat \ {0} /\ Hour \in Nat \ {0}
  /\ MaxTime \in Nat /\ MaxChanges \in Nat /\ MaxFaults \in Nat
  /\ None \notin Passes \cup {"saving"}

VARIABLES
  now,
  ver, stamp,   \* upstream: versions and updated_at
  row,          \* the version a row was last written from
  known,        \* leagues with a row
  retired,      \* those with superseded_by
  saved,        \* sync_cursors
  pass,         \* the pass in progress, "saving" or None
  at, mem,      \* its now, and its copy of the cursor with the budget's count
  todo, walk,   \* the walks it still owes, and the one it is in
  skips,        \* the retired leagues of its index
  owes,         \* retireCovered is to run
  changes, faults,
  orphaned      \* ghost: plays dropped because their fixture had no row

upstream == <<ver, stamp, changes>>
tables == <<row, known, retired, orphaned>>
running == <<pass, at, mem, todo, walk, skips>>
vars == <<now, upstream, tables, saved, running, owes, faults>>

KindOfWalk(id) == IF id \in {"fixtures:since", "fixtures:all"} THEN "fixture"
                  ELSE IF id = "plays:since" THEN "plays" ELSE id
NeverSynced == [since |-> None, playsSince |-> None, pending |-> NoWalk, hour |-> 0, calls |-> 0]

Init ==
  /\ now = 0 /\ changes = 0 /\ faults = 0
  /\ ver = [i \in Items |-> 1]
  /\ stamp = [i \in Items |-> 0]
  /\ row = [i \in Items |-> 0] /\ known = {} /\ retired = {} /\ orphaned = {}
  /\ saved = NeverSynced /\ mem = NeverSynced
  /\ pass = None /\ at = 0 /\ todo = <<>> /\ walk = NoWalk /\ skips = {}
  /\ owes = FALSE

-----------------------------------------------------------------------------
(* A pass and its walks.                                                   *)

WalkOf(id, since) == [id |-> id, since |-> since, after |-> 0, started |-> 0]

\* Never synced: the first pass is the backfill, however it was scheduled.
FixturesSince(cursor) ==
  IF cursor.since = None THEN WalkOf("fixtures:all", None)
  ELSE WalkOf("fixtures:since", cursor.since)

\* The first look of the plays cursor goes back further than an instance runs.
PlaysSince(cursor) ==
  WalkOf("plays:since", IF cursor.playsSince = None THEN 0 ELSE cursor.playsSince)

Catalogue == <<WalkOf("league", None), WalkOf("team", None)>>

Specs(kind, cursor) ==
  CASE kind = "since"     -> <<FixturesSince(cursor)>>
    [] kind = "all"       -> Append(Catalogue, WalkOf("fixtures:all", None))
    [] kind = "catalogue" -> Catalogue
    [] kind = "plays"     -> <<PlaysSince(cursor)>>
    [] kind = "broadcast" -> <<WalkOf("broadcast", None)>>

\* runWalks puts an interrupted walk first; the broadcast fill calls walk itself.
Queue(kind, cursor) ==
  LET specs == Specs(kind, cursor)
      asked == \E n \in DOMAIN specs : specs[n].id = cursor.pending.id
  IN  IF kind = "broadcast" \/ cursor.pending = NoWalk \/ asked THEN specs
      ELSE <<cursor.pending>> \o specs

\* withRun: one pass at a time, with the cursor and the hour's budget.
Begin(kind) ==
  /\ pass = None
  /\ pass' = kind /\ at' = now
  /\ mem' = IF saved.hour = now \div Hour THEN saved
            ELSE [saved EXCEPT !.hour = now \div Hour, !.calls = 0]
  /\ todo' = Queue(kind, saved) /\ walk' = NoWalk
  /\ skips' = retired
  /\ UNCHANGED <<now, upstream, tables, saved, owes, faults>>

Walking == pass \in Passes

\* A walk begins where it was cut short, or anew.
Current ==
  IF walk # NoWalk THEN walk
  ELSE IF mem.pending.id = Head(todo).id THEN mem.pending
  ELSE [Head(todo) EXCEPT !.after = 0, !.started = at]

Spent == [mem EXCEPT !.calls = @ + 1]

\* The items a walk asks for, and the first page of them.
Asked(w) == {i \in Items :
  /\ KindOf[i] = KindOfWalk(w.id)
  /\ i > w.after
  /\ w.since # None => stamp[i] >= w.since
  /\ w.id = "fixtures:all" => i \notin Old}
PageOf(w) == {i \in Asked(w) : Cardinality({j \in Asked(w) : j < i}) < PageSize}

\* What the mappers make a row of, and which of those reach a table.
Mapped(page) == page \ Unmapped
LandsLeague(i) == i \in Sportsdb => i \in known
LandsTeam(i) == LeagueOf[i] \in known
LandsFixture(i) ==
  /\ LeagueOf[i] \notin skips
  /\ LeagueOf[i] \in Clashing => LeagueOf[i] \in known
LandsPlays(i) == row[FixtureOf[i]] > 0
Landing(page) == {i \in Mapped(page) :
  \/ KindOf[i] = "league" /\ LandsLeague(i)
  \/ KindOf[i] = "team" /\ LandsTeam(i)
  \/ KindOf[i] = "fixture" /\ LandsFixture(i)
  \/ KindOf[i] = "plays" /\ LandsPlays(i)}

Apply(page) ==
  LET in == Landing(page) IN
  /\ row' = [i \in Items |-> IF i \in in THEN ver[i] ELSE row[i]]
  /\ known' = known \cup (in \cap Leagues)
                \cup {LeagueOf[i] : i \in {j \in in : KindOf[j] = "fixture"}}
  /\ orphaned' = (orphaned \ in) \cup {i \in page \ in : KindOf[i] = "plays"}
  /\ UNCHANGED retired

\* Mutation: from the pass that finished it.
AdvancedFromPass(old, started) ==
  LET next == at - Overlap IN IF old = None \/ next > old THEN next ELSE old

\* The cursor after a whole walk: from its start, less the overlap, never back.
Advanced(old, started) ==
  LET next == started - Overlap IN IF old = None \/ next > old THEN next ELSE old

Finished(w) == LET cursor == [Spent EXCEPT !.pending = NoWalk] IN
  CASE KindOfWalk(w.id) = "fixture" -> [cursor EXCEPT !.since = Advanced(@, w.started)]
    [] KindOfWalk(w.id) = "plays"   -> [cursor EXCEPT !.playsSince = Advanced(@, w.started)]
    [] OTHER -> cursor

\* A parked walk is the object the cursor holds: its position moves in both.
Moved(w) == IF mem.pending.id = w.id THEN [Spent EXCEPT !.pending = w] ELSE Spent

\* One request and what it brings; a short page ends the walk.
FullPage ==
  LET page == PageOf(Current) w == [Current EXCEPT !.after = Max(page)] IN
  /\ Walking /\ mem.calls < Budget
  /\ Cardinality(page) = PageSize
  /\ Apply(page)
  /\ walk' = w /\ mem' = Moved(w)
  /\ owes' = (owes \/ known' # known)
  /\ UNCHANGED <<now, upstream, saved, pass, at, todo, skips, faults>>

LastPage ==
  LET page == PageOf(Current) IN
  /\ Walking /\ mem.calls < Budget
  /\ Cardinality(page) < PageSize
  /\ Apply(page)
  /\ mem' = Finished(Current)
  /\ walk' = NoWalk /\ todo' = Tail(todo)
  /\ pass' = IF Len(todo) = 1 THEN "saving" ELSE pass
  /\ owes' = (owes \/ known' # known \/ (Len(todo) = 1 /\ pass \in {"all", "catalogue"}))
  /\ UNCHANGED <<now, upstream, saved, at, skips, faults>>

\* The hour is spent: the walk is parked, unless it collects into memory.
Exhausted ==
  /\ Walking /\ mem.calls >= Budget
  /\ mem' = IF pass = "broadcast" THEN mem ELSE [mem EXCEPT !.pending = Current]
  /\ pass' = "saving" /\ todo' = <<>> /\ walk' = NoWalk
  /\ owes' = (owes \/ pass \in {"all", "catalogue"})
  /\ UNCHANGED <<now, upstream, tables, saved, at, skips, faults>>

\* A request or a write fails: the position stays before this page.
PageFails ==
  /\ Walking /\ mem.calls < Budget /\ faults < MaxFaults
  /\ faults' = faults + 1
  /\ mem' = Spent /\ pass' = "saving" /\ todo' = <<>> /\ walk' = NoWalk
  /\ owes' = FALSE
  /\ UNCHANGED <<now, upstream, tables, saved, at, skips>>

\* Nothing of a pass outlives it.
Over ==
  /\ pass' = None /\ at' = 0 /\ mem' = NeverSynced
  /\ todo' = <<>> /\ walk' = NoWalk /\ skips' = {}

\* finally: the cursor is written back whatever happened.
SaveCursor ==
  /\ pass = "saving"
  /\ saved' = mem /\ Over
  /\ UNCHANGED <<now, upstream, tables, owes, faults>>

\* retireCovered, between passes or beside the next one.
Retire ==
  /\ owes /\ pass \in {None} \cup Passes
  /\ retired' = retired \cup (known \cap Twins)
  /\ owes' = FALSE
  /\ UNCHANGED <<now, upstream, row, known, orphaned, saved, running, faults>>

Dies ==
  /\ pass # None /\ faults < MaxFaults
  /\ faults' = faults + 1
  /\ Over /\ owes' = FALSE
  /\ UNCHANGED <<now, upstream, tables, saved>>

-----------------------------------------------------------------------------
(* Upstream.                                                               *)

\* An item can be read from now on, and is stamped when its writer began.
Change(i) ==
  /\ changes < MaxChanges
  /\ changes' = changes + 1
  /\ ver' = [ver EXCEPT ![i] = @ + 1]
  /\ \E t \in Max({0, now - Lag}) .. now : stamp' = [stamp EXCEPT ![i] = t]
  /\ UNCHANGED <<now, tables, saved, running, owes, faults>>

Tick ==
  /\ now < MaxTime /\ now' = now + 1
  /\ UNCHANGED <<upstream, tables, saved, running, owes, faults>>

Next ==
  \/ \E kind \in Passes : Begin(kind)
  \/ FullPage \/ LastPage \/ Exhausted \/ PageFails \/ SaveCursor \/ Retire \/ Dies
  \/ \E i \in Items : Change(i)
  \/ Tick

Spec == Init /\ [][Next]_vars

-----------------------------------------------------------------------------
Times == -Overlap .. MaxTime
WalkType == [id : WalkIds \cup {"none"}, since : Times \cup {None},
             after : {0} \cup Items, started : 0 .. MaxTime]
CursorType == [since : Times \cup {None}, playsSince : Times \cup {None}, pending : WalkType,
               hour : 0 .. MaxTime \div Hour, calls : 0 .. Budget]

TypeOK ==
  /\ now \in 0 .. MaxTime /\ changes \in 0 .. MaxChanges /\ faults \in 0 .. MaxFaults
  /\ ver \in [Items -> Nat] /\ stamp \in [Items -> 0 .. MaxTime]
  /\ row \in [Items -> Nat] /\ known \subseteq Leagues /\ retired \subseteq known
  /\ saved \in CursorType /\ mem \in CursorType
  /\ pass \in Passes \cup {"saving", None} /\ at \in 0 .. MaxTime
  /\ todo \in Seq(WalkType) /\ walk \in WalkType
  /\ skips \subseteq known /\ owes \in BOOLEAN /\ orphaned \subseteq Items

\* Fixtures the mirror leaves out on purpose.
LeftOut(i) == i \in Unmapped \cup Old \/ LeagueOf[i] \in Clashing \cup Twins

\* A cursor never passes a change that no row has: whatever is stamped before it has been
\* written, although items change behind the walk, walks are cut short and resumed by
\* other passes, requests fail and the worker dies.  A fixture outside the backfill comes
\* in with its next change; plays may have been dropped for want of their fixture.
MirrorMissesNothing ==
  /\ saved.since # None =>
       \A i \in {j \in Items : KindOf[j] = "fixture"} :
         stamp[i] < saved.since /\ ~LeftOut(i) => row[i] = ver[i]
  /\ saved.playsSince # None =>
       \A i \in {j \in Items : KindOf[j] = "plays"} \ Unmapped :
         stamp[i] < saved.playsSince => row[i] = ver[i] \/ i \in orphaned
=============================================================================
