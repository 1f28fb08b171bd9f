------------------------------ MODULE MCSources ------------------------------
(***************************************************************************)
(* Small instances of the parts that bring things in from elsewhere: a     *)
(* behaviour is of one of them, the subject, while the others stay as they *)
(* begin.                                                                  *)
(***************************************************************************)
EXTENDS Naturals, TLC

CONSTANTS None, q1, q2, x1, l1, l2, l3, home, line

VARIABLES
  subject,
  rows, before, url, channels, hash, panel, managed, audience, listsNamed, listsPass,
  version, doomed, listsPc, listsJob, starts, listsChanges, stops, amiss, disturbed,
  tvNow, passEnd, unlocked, issued, tvRow, rowEnd, imported, tvPc, tvSeen, tvFaults,
  beside, orphans, unread,
  mirrorNow, ver, stamp, mirrorRow, mirrorKnown, retired, saved, mirrorPass, at, mem,
  mirrorTodo, walk, skips, owes, mirrorChanges, mirrorFaults, orphaned,
  truth, played, listed, dropped, soon, state, log, source, fresh, older, final, recapped,
  pollsSeen, filling, due, step, got, pollsFaults,
  sweepsNow, sweepsKnown, created, synced, sweepsNamed, repeat, jobs, boot, found,
  sweepsJob, sweepsTodo, swept, lost, deploys, sweepsFaults

listsVars == <<rows, before, url, channels, hash, panel, managed, audience, listsNamed,
    listsPass, version, doomed, listsPc, listsJob, starts, listsChanges, stops, amiss,
    disturbed>>
tvVars == <<tvNow, passEnd, unlocked, issued, tvRow, rowEnd, imported, tvPc, tvSeen,
    tvFaults, beside, orphans, unread>>
mirrorVars == <<mirrorNow, ver, stamp, mirrorRow, mirrorKnown, retired, saved, mirrorPass,
    at, mem, mirrorTodo, walk, skips, owes, mirrorChanges, mirrorFaults, orphaned>>
pollsVars == <<truth, played, listed, dropped, soon, state, log, source, fresh, older,
    final, recapped, pollsSeen, filling, due, step, got, pollsFaults>>
sweepsVars == <<sweepsNow, sweepsKnown, created, synced, sweepsNamed, repeat, jobs, boot,
    found, sweepsJob, sweepsTodo, swept, lost, deploys, sweepsFaults>>

KindOf == 1 :> "fixture" @@ 2 :> "fixture" @@ 3 :> "plays" @@ 4 :> "league"
LeagueOf == 1 :> 4 @@ 2 :> 4
FixtureOf == 3 :> 2

Playlists == INSTANCE Playlists WITH Lists <- {l1, l2, l3}, Own <- {home}, Line <- line,
  Jobs <- {q1, q2}, Friends <- {x1}, MaxPlaylists <- 2, MaxVersion <- 1, MaxStarts <- 2,
  MaxChanges <- 1, MaxStops <- 1, named <- listsNamed, pass <- listsPass, pc <- listsPc,
  job <- listsJob, changes <- listsChanges

LiveLine == INSTANCE LiveLine WITH Calls <- {q1}, Terms <- {1, 4}, Month <- 2, Year <- 5,
  MaxTime <- 3, MaxEnd <- 8, MaxFaults <- 1, MaxLines <- 3, now <- tvNow, row <- tvRow,
  pc <- tvPc, seen <- tvSeen, faults <- tvFaults

Mirror == INSTANCE Mirror WITH Items <- 1 .. 4, KindOf <- KindOf, LeagueOf <- LeagueOf,
  FixtureOf <- FixtureOf, Unmapped <- {}, Sportsdb <- {}, Clashing <- {}, Twins <- {},
  Old <- {}, PageSize <- 1, Overlap <- 1, Lag <- 1, Hour <- 2, Budget <- 2, MaxTime <- 2,
  MaxChanges <- 1, MaxFaults <- 1, now <- mirrorNow, row <- mirrorRow,
  known <- mirrorKnown, pass <- mirrorPass, todo <- mirrorTodo, changes <- mirrorChanges,
  faults <- mirrorFaults

Fixtures == INSTANCE Fixtures WITH Games <- {1, 2}, Begun <- {1, 2}, Silent <- {1},
  EspnLists <- {2}, SportsdbLists <- {2}, Limit <- 2, MaxPlays <- 1, MaxFaults <- 0,
  MaxDrops <- 0, seen <- pollsSeen, faults <- pollsFaults

FailingFixtures == INSTANCE Fixtures WITH Games <- {1, 2}, Begun <- {1, 2}, Silent <- {1},
  EspnLists <- {}, SportsdbLists <- {2}, Limit <- 2, MaxPlays <- 1, MaxFaults <- 1,
  MaxDrops <- 0, seen <- pollsSeen, faults <- pollsFaults

Sweeps == INSTANCE Sweeps WITH Processes <- {1, 2}, Leagues <- {1, 2}, Born <- {1},
  Dead <- {2}, Hour <- 2, Day <- 3, Stale <- 1, NearEvery <- 2, MaxTime <- 5,
  MaxDeploys <- 1, MaxFaults <- 1, now <- sweepsNow, known <- sweepsKnown,
  named <- sweepsNamed, job <- sweepsJob, todo <- sweepsTodo, faults <- sweepsFaults

ASSUME PartsConstants ==
  /\ Mirror!ConstantsType /\ Sweeps!ConstantsType
  /\ Fixtures!ConstantsType /\ FailingFixtures!ConstantsType
  /\ LiveLine!ConstantsType /\ Playlists!ConstantsType

Init ==
  /\ subject \in {"lists", "tv", "mirror", "polls", "failing", "sweeps"}
  /\ Playlists!Init
  /\ LiveLine!Init
  /\ Mirror!Init
  /\ IF subject = "failing" THEN FailingFixtures!Init ELSE Fixtures!Init
  /\ Sweeps!Init
  /\ subject # "lists" => rows = {l1}

Next ==
  \/ subject = "lists" /\ Playlists!Next /\ UNCHANGED <<subject, tvVars, mirrorVars,
       pollsVars, sweepsVars>>
  \/ subject = "tv" /\ LiveLine!Next /\ UNCHANGED <<subject, listsVars, mirrorVars,
       pollsVars, sweepsVars>>
  \/ subject = "mirror" /\ Mirror!Next /\ UNCHANGED <<subject, listsVars, tvVars,
       pollsVars, sweepsVars>>
  \/ subject = "polls" /\ Fixtures!Next /\ UNCHANGED <<subject, listsVars, tvVars,
       mirrorVars, sweepsVars>>
  \/ subject = "failing" /\ FailingFixtures!Next /\ UNCHANGED <<subject, listsVars, tvVars,
       mirrorVars, sweepsVars>>
  \/ subject = "sweeps" /\ Sweeps!Next /\ UNCHANGED <<subject, listsVars, tvVars,
       mirrorVars, pollsVars>>

vars == <<subject, listsVars, tvVars, mirrorVars, pollsVars, sweepsVars>>

Spec == Init /\ [][Next]_vars

\* The types of the part that moves.
TypeOK ==
  /\ subject = "lists" => Playlists!TypeOK
  /\ subject = "tv" => LiveLine!TypeOK
  /\ subject = "mirror" => Mirror!TypeOK
  /\ subject = "polls" => Fixtures!TypeOK
  /\ subject = "failing" => FailingFixtures!TypeOK
  /\ subject = "sweeps" => Sweeps!TypeOK

\* What a list holds and remembers is of the address it has, and ours is what we brought,
\* opened to nobody; and our line is one line, known as it is, and long enough.
ListsHonest ==
  /\ Playlists!ListsHonest
  /\ LiveLine!LineHeld

\* No change upstream is behind the cursor and on no row, and a play-by-play log is closed
\* when it is complete; and no league waits for its sweep longer than the data may be
\* stale and a timer runs.
FeedsHonest ==
  /\ Mirror!MirrorMissesNothing
  /\ Fixtures!ClosedIsComplete /\ FailingFixtures!ClosedIsComplete
  /\ Sweeps!LeaguesSwept

\* Who carries a fixture, once ESPN has said so, is never said by the lesser source.
ListingStays == Fixtures!ListingNeverUndone /\ FailingFixtures!ListingNeverUndone

Alike == Permutations({q1, q2}) \cup Permutations({l1, l2, l3})
=============================================================================
