-------------------------------- MODULE Fixtures --------------------------------
(***************************************************************************)
(* The direct pollers of one league and what they write on its fixtures.   *)
(* The sweep (syncAll, syncNear) and the live tick each ask the provider   *)
(* and write what it said then, whatever the other has written since; the  *)
(* plays tick reads a few fixtures' logs, live ones in turn and finished   *)
(* ones once more; the broadcast fill looks for listings ESPN has not.     *)
(***************************************************************************)
EXTENDS Integers, Sequences, FiniteSets, FiniteSetsExt, Functions

CONSTANTS
  Games,      \* fixtures, numbered in the order they start
  Begun,      \* those in progress when an instance begins
  Silent,     \* those whose league has a box score and no log (plays_supported false)
  EspnLists, SportsdbLists, \* fixtures each may name a broadcaster for
  Limit,      \* syncPlays' limit
  None,
  MaxPlays,   \* bound: plays of a fixture
  MaxFaults,  \* bound: failures and deaths
  MaxDrops    \* bound: fixtures the provider stops returning

\* What the composing modules and the proofs assume of them.
ConstantsType ==
  /\ Games \subseteq Int /\ Begun \subseteq Games /\ SportsdbLists \subseteq Games
  /\ None # "espn"
  /\ Limit \in Nat /\ Limit >= 2 /\ MaxPlays \in Nat /\ MaxFaults \in Nat

States == {"pre", "in", "post"}
Pollers == {"sweep", "live"}

VARIABLES
  truth,    \* the provider: where a fixture is
  played,   \* how many plays it has told
  listed,   \* fixtures it names a broadcaster for
  dropped,  \* fixtures it no longer returns
  soon,     \* fixtures not yet half an hour past their start
  state,    \* events.state
  log,      \* event_plays of a fixture
  source,   \* broadcast_source
  fresh,    \* fixtures whose updated_at is within ten minutes
  older,    \* the pairs of fixtures of which the first has the older plays_synced_at
  final,    \* plays_final
  recapped, \* recap_synced_at
  seen,     \* what a poller was told and has yet to write, or None
  filling,  \* the fixtures the fill looks up, or None
  due, step, got, \* the plays tick: what it reads, where it is, and the plays it was told
  faults

provider == <<truth, played, listed, dropped, soon>>
scores == <<state, source, fresh>>
logs == <<log, older, final, recapped>>
tick == <<due, step, got>>
vars == <<provider, scores, logs, seen, filling, tick, faults>>

\* Fixtures by their start, and by it newest first.
ByStart == {p \in Games \X Games : p[1] < p[2]}
NewestFirst == {p \in Games \X Games : p[1] > p[2]}

Init ==
  /\ truth = [g \in Games |-> IF g \in Begun THEN "in" ELSE "pre"]
  /\ played = [g \in Games |-> 0]
  /\ listed = {} /\ dropped = {} /\ soon = Games \ Begun
  /\ state = truth
  /\ log = [g \in Games |-> 0]
  /\ source = [g \in Games |-> None]
  /\ fresh = Games /\ older = ByStart
  /\ final = {} /\ recapped = {}
  /\ seen = [p \in Pollers |-> None] /\ filling = None
  /\ due = <<>> /\ step = "idle" /\ got = 0 /\ faults = 0

-----------------------------------------------------------------------------
(* The sweep and the live tick.                                            *)

\* leaguesWithLiveGames: something on, or about to be.
SomethingOn == \E g \in Games : state[g] = "in" \/ (state[g] = "pre" /\ g \in soon)

\* fetchSchedule.
Ask(p) ==
  /\ seen[p] = None
  /\ p = "live" => SomethingOn
  /\ seen' = [seen EXCEPT ![p] =
       [state |-> [g \in Games \ dropped |-> truth[g]], listed |-> listed]]
  /\ UNCHANGED <<provider, scores, logs, filling, tick, faults>>

\* upsertEvents and updateEventScores: a null broadcaster leaves the listing alone.
Write(p) ==
  /\ seen[p] # None
  /\ state' = [g \in Games |->
       IF g \in DOMAIN seen[p].state THEN seen[p].state[g] ELSE state[g]]
  /\ source' = [g \in Games |->
       IF g \in DOMAIN seen[p].state /\ g \in seen[p].listed THEN "espn" ELSE source[g]]
  /\ fresh' = fresh \cup DOMAIN seen[p].state
  /\ seen' = [seen EXCEPT ![p] = None]
  /\ UNCHANGED <<provider, logs, filling, tick, faults>>

\* The request or the write fails, or the worker dies: the league waits for the next pass.
PollFails(p) ==
  /\ seen[p] # None /\ faults < MaxFaults
  /\ seen' = [seen EXCEPT ![p] = None]
  /\ faults' = faults + 1
  /\ UNCHANGED <<provider, scores, logs, filling, tick>>

\* Ten minutes without a write.
Ages(g) ==
  /\ g \in fresh /\ g \in dropped
  /\ fresh' = fresh \ {g}
  /\ UNCHANGED <<provider, state, source, logs, seen, filling, tick, faults>>

-----------------------------------------------------------------------------
(* The broadcast fill, at the tail of a sweep.                             *)

\* Mutation: a listing is news, whoever has spoken.
MissingAny(g) == source[g] \in {None, "espn", "thesportsdb"}
\* A better source's answer is left alone.
Missing(g) == source[g] \in {None, "thesportsdb"}

\* listEventsMissingBroadcast, and the days' listings after it.
FillReads ==
  /\ filling = None
  /\ \E found \in SUBSET {g \in SportsdbLists : Missing(g)} : found # {} /\ filling' = found
  /\ UNCHANGED <<provider, scores, logs, seen, tick, faults>>

\* fillMissingBroadcasts asks again.
FillWrites ==
  /\ filling # None
  /\ source' = [g \in Games |-> IF g \in filling /\ Missing(g) THEN "thesportsdb" ELSE source[g]]
  /\ filling' = None
  /\ UNCHANGED <<provider, state, fresh, logs, seen, tick, faults>>

-----------------------------------------------------------------------------
(* The plays tick.                                                         *)

\* limit n: the n first of some fixtures in an order, or as many as there are.
Firsts(n, some, order) ==
  {list \in UNION {[1 .. k -> some] : k \in 0 .. n} :
    /\ \A i, j \in DOMAIN list : list[i] = list[j] => i = j
    /\ Len(list) = n \/ Range(list) = some
    /\ \A j \in DOMAIN list, g \in some :
         <<g, list[j]>> \in order => \E i \in 1 .. j - 1 : list[i] = g}

\* eventsNeedingPlays: live fixtures take turns, finished ones newest first.
LiveDue == {g \in fresh \ Silent : state[g] = "in"}
EndedDue == {g \in Games \ (final \cup Silent) : state[g] = "post"}
RecapDue == {g \in Games \ recapped : state[g] = "post"}

\* Mutation: live fixtures in the order they start.
FirstLiveByStart(n) == Firsts(n, LiveDue, ByStart)
FirstLive(n) == Firsts(n, LiveDue, older)

\* A share is kept for finished fixtures while there are live ones to keep it from.
EndedShare == Min({2, Max({1, Limit - 1})})

Select ==
  /\ step = "idle" /\ due = <<>>
  /\ \E live \in FirstLive(Limit - EndedShare) :
     \E ended \in Firsts(Limit - Len(live), EndedDue, NewestFirst) :
     \E only \in Firsts(Limit - Len(live) - Len(ended),
                       RecapDue \ (Range(live) \cup Range(ended)), NewestFirst) :
       LET all == live \o ended \o only
       IN  /\ all # <<>>
           /\ due' = [n \in DOMAIN all |-> [game |-> all[n], state |-> state[all[n]]]]
  /\ step' = "fetch" /\ got' = 0
  /\ UNCHANGED <<provider, scores, logs, seen, filling, faults>>

Game == Head(due).game
Over == Head(due).state = "post"

FetchPlays ==
  /\ step = "fetch"
  /\ got' = played[Game] /\ step' = "insert"
  /\ UNCHANGED <<provider, scores, logs, seen, filling, due, faults>>

\* insertPlays: what is there already stays.
InsertPlays ==
  /\ step = "insert"
  /\ log' = [log EXCEPT ![Game] = Max({@, got})]
  /\ step' = IF Over THEN "recap" ELSE "close"
  /\ UNCHANGED <<provider, scores, older, final, recapped, seen, filling, due, got, faults>>

SaveRecap ==
  /\ step = "recap"
  /\ recapped' = recapped \cup {Game} /\ step' = "close"
  /\ UNCHANGED <<provider, scores, log, older, final, seen, filling, due, got, faults>>

\* plays_synced_at = now(): to the end of the queue.
Synced == older' = {p \in older : Game \notin {p[1], p[2]}} \cup (Games \ {Game}) \X {Game}

NextDue ==
  /\ due' = Tail(due) /\ got' = 0
  /\ step' = IF Len(due) = 1 THEN "idle" ELSE "fetch"

\* Mutation: every read closes the log.
CloseAll ==
  /\ step = "close"
  /\ Synced /\ NextDue
  /\ final' = final \cup {Game}
  /\ UNCHANGED <<provider, scores, log, recapped, seen, filling, faults>>

\* markPlaysFinal for a fixture that was over when it was chosen, or markPlaysSynced.
Close ==
  /\ step = "close"
  /\ Synced /\ NextDue
  /\ final' = IF Over THEN final \cup {Game} ELSE final
  /\ UNCHANGED <<provider, scores, log, recapped, seen, filling, faults>>

\* A failed read is stamped and not closed.
PlaysFail ==
  /\ step \in {"fetch", "insert", "recap", "close"} /\ faults < MaxFaults
  /\ faults' = faults + 1
  /\ Synced /\ NextDue
  /\ UNCHANGED <<provider, scores, log, final, recapped, seen, filling>>

Dies ==
  /\ step # "idle" /\ faults < MaxFaults
  /\ faults' = faults + 1
  /\ due' = <<>> /\ step' = "idle" /\ got' = 0
  /\ UNCHANGED <<provider, scores, logs, seen, filling>>

-----------------------------------------------------------------------------
(* The provider.                                                           *)

KickOff(g) ==
  /\ truth[g] = "pre" /\ truth' = [truth EXCEPT ![g] = "in"]
  /\ UNCHANGED <<played, listed, dropped, soon, scores, logs, seen, filling, tick, faults>>

Play(g) ==
  /\ truth[g] = "in" /\ played[g] < MaxPlays
  /\ played' = [played EXCEPT ![g] = @ + 1]
  /\ UNCHANGED <<truth, listed, dropped, soon, scores, logs, seen, filling, tick, faults>>

Whistle(g) ==
  /\ truth[g] = "in" /\ truth' = [truth EXCEPT ![g] = "post"]
  /\ UNCHANGED <<played, listed, dropped, soon, scores, logs, seen, filling, tick, faults>>

Lists(g) ==
  /\ g \in EspnLists \ listed /\ listed' = listed \cup {g}
  /\ UNCHANGED <<truth, played, dropped, soon, scores, logs, seen, filling, tick, faults>>

StopsReturning(g) ==
  /\ g \notin dropped /\ Cardinality(dropped) < MaxDrops
  /\ dropped' = dropped \cup {g}
  /\ UNCHANGED <<truth, played, listed, soon, scores, logs, seen, filling, tick, faults>>

\* Half an hour after its start, whatever the game does.
StartPasses(g) ==
  /\ g \in soon /\ soon' = soon \ {g}
  /\ UNCHANGED <<truth, played, listed, dropped, scores, logs, seen, filling, tick, faults>>

Poll == \E p \in Pollers : Ask(p) \/ Write(p) \/ PollFails(p)
Fill == FillReads \/ FillWrites
PlaysTick == Select \/ FetchPlays \/ InsertPlays \/ SaveRecap \/ Close

Next ==
  \/ Poll \/ Fill
  \/ PlaysTick \/ PlaysFail \/ Dies
  \/ \E g \in Games :
       \/ Ages(g) \/ KickOff(g) \/ Play(g) \/ Whistle(g) \/ Lists(g)
       \/ StopsReturning(g) \/ StartPasses(g)

\* The passes are repeated for ever: every day and every minute, and the plays tick beside
\* them.  Neither the provider nor the fill has to do anything.
Fairness ==
  /\ WF_vars(Ask("sweep")) /\ WF_vars(Write("sweep")) /\ WF_vars(Write("live"))
  /\ WF_vars(\E g \in Games : Ages(g))
  /\ WF_vars(PlaysTick)

Spec == Init /\ [][Next]_vars /\ Fairness

-----------------------------------------------------------------------------
Answers == [state : UNION {[some -> States] : some \in SUBSET Games}, listed : SUBSET Games]

TypeOK ==
  /\ truth \in [Games -> States] /\ played \in [Games -> 0 .. MaxPlays]
  /\ listed \subseteq Games /\ dropped \subseteq Games /\ soon \subseteq Games
  /\ state \in [Games -> States] /\ log \in [Games -> 0 .. MaxPlays]
  /\ source \in [Games -> {None, "espn", "thesportsdb"}]
  /\ fresh \subseteq Games /\ older \subseteq Games \X Games
  /\ final \subseteq Games /\ recapped \subseteq Games
  /\ seen \in [Pollers -> {None} \cup Answers]
  /\ filling \in (SUBSET Games) \cup {None}
  /\ due \in Seq([game : Games, state : States])
  /\ step \in {"idle", "fetch", "insert", "recap", "close"}
  /\ got \in 0 .. MaxPlays /\ faults \in 0 .. MaxFaults

\* A log that is closed is complete and has its box score, although the two ticks and the
\* sweep overlap and a late sweep may put the fixture back in play.
ClosedIsComplete == \A g \in final : log[g] = played[g] /\ g \in recapped

\* What ESPN has listed is never taken for TheSportsDB's again, however long the fill took.
ListingNeverUndone == [][\A g \in Games : source[g] = "espn" => source'[g] = "espn"]_source

\* Every play that is told reaches the log, of the fixtures the provider still returns:
\* live fixtures keep no finished one from its last read, nor the other way round, and a
\* row that a late sweep put back is put right.
PlaysLand == \A g \in Games \ Silent, n \in 1 .. MaxPlays :
  played[g] >= n ~> log[g] >= n \/ g \in dropped
=============================================================================
