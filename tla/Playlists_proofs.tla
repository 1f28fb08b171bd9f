---------------------------- MODULE Playlists_proofs ----------------------------
(***************************************************************************)
(* Theorems about a reader's lists, the line one of them plays, and its    *)
(* channels.  Of Playlists: its types, and ListsHonest, for any lists,     *)
(* addresses, imports at a time and friends, and any number of removals,   *)
(* edits, polls, lapses and stops.  Of LiveLine, L: its types, and         *)
(* LineHeld, for any number of calls, lines and faults, any terms of a     *)
(* pass and any two packages of the provider.  Of Channels, C: its types,  *)
(* and VerdictsEarned, for any lists, rows, viewers and requests, whatever *)
(* the provider answers.  Of Ranking, R: that narrowing loses nothing and  *)
(* that the right entries come first, for any games and any words of       *)
(* titles.                                                                 *)
(***************************************************************************)
EXTENDS Playlists, Sequences, FiniteSetTheorems, TLAPS

CONSTANTS Calls, Terms, Month, Year, MaxTime, MaxEnd, MaxFaults, MaxLines, Chosen, Rows,
          ListOf, Fits, Stored, Viewers, Slots, Header, Checks, Window, PerLine, MaxTried, Games,
          Markers, Titles, Languages

VARIABLES now, passEnd, unlocked, issued, row, rowEnd, imported, stage, seen, faults,
          beside, orphans, unread, slot, stored, retired, verdict, due, admitted, asking, check,
          basis, turns, fixture, ranked, matches, competition

\* The calls of ensureLine, which buy the line a provisioned list plays.
L == INSTANCE LiveLine WITH pc <- stage

\* The channels of a line, which are offered for a fixture, probed, and shown or hidden.
C == INSTANCE Channels WITH Lists <- Chosen, pc <- asking, changes <- turns

\* What a fixture is offered of the channels: the rows it asks for, in their order.
R == INSTANCE Ranking WITH list <- ranked

\* Job j is at work on list k.
At(j, k) == pc[j] # "idle" /\ job[j].list = k

\* What a row that is gone, or not there yet, has left: nothing.
NothingLeft ==
  \A k \in Lists \ rows :
    /\ url[k] = None /\ channels[k] = None /\ hash[k] = None
    /\ audience[k] = "none" /\ named[k] = {}

HasAddress == \A k \in rows : url[k] # None

\* Two imports at work on one list have been noticed.
Lone ==
  \A i, j \in Jobs, k \in Lists : i # j /\ At(i, k) /\ At(j, k) => k \in disturbed

\* What the locals of an import hold, by the way it came in and how far it got.
JobInv(j) ==
  LET its == job[j] IN
  /\ pc[j] = "idle" => its = NoJob
  /\ pc[j] = "reread" => its.kind = "poll"
  /\ pc[j] # "idle" =>
       /\ its.kind \in {"add", "provision"} =>
            /\ its.previous = None /\ its.known = None /\ its.was = "own"
            /\ its.list = None <=> pc[j] = "save"
       /\ its.kind \in {"edit", "poll"} => its.list # None
       /\ its.kind = "poll" => its.was = "own"
       /\ its.kind = "provision" => its.url = Line
       /\ its.kind \in {"add", "edit"} => its.url \in Own
       /\ its.kind = "edit" => its.previous # None
  /\ pc[j] \notin {"idle", "reread"} =>
       /\ its.url # None
       /\ its.kind = "poll" => its.previous = its.url
       /\ its.known # None => its.previous = its.url
  /\ pc[j] \in {"replace", "fresh", "panel", "own"} =>
       its.body # None /\ its.body.of = its.url
  /\ pc[j] = "replace" => Replaced(j)
  /\ pc[j] = "own" => its.kind = "provision" \/ its.was = "ours"

\* A list nobody is at work on, but for what is wrong with it.
Sound(k) ==
  /\ "hash" \notin amiss[k] => hash[k] = channels[k]
  /\ "channels" \notin amiss[k] => channels[k] # None /\ channels[k].of = url[k]
  /\ "owner" \notin amiss[k] => (k \in managed <=> url[k] = Line)

Closed(k) == audience[k] = "none" /\ named[k] = {}

\* A list that is being added: closed, nobody's yet, and without channels until they are
\* replaced.
Adding(j, k) ==
  LET its == job[j] IN
  /\ k \notin managed /\ Closed(k) /\ url[k] = its.url
  /\ pc[j] \in {"fetch", "restore", "replace"} => channels[k] = None /\ hash[k] = None
  /\ pc[j] \in {"fresh", "panel", "own"} => channels[k] = its.body
  /\ pc[j] \in {"panel", "own"} => hash[k] = its.body

\* A list that was there before the import: until they are replaced its channels are those
\* of the address it had.
Changing(j, k) ==
  LET its == job[j] IN
  /\ its.kind = "edit" => (its.was = "ours" <=> k \in managed)
  /\ its.known # None => (its.known = hash[k] \/ pc[j] \in {"panel", "own"})
  /\ pc[j] = "reread" => Sound(k)
  /\ pc[j] = "save" => Sound(k) /\ url[k] = its.previous
  /\ pc[j] \notin {"reread", "save"} =>
       /\ url[k] = its.url /\ its.previous # None
       /\ "owner" \notin amiss[k] => (k \in managed <=> its.previous = Line)
  /\ pc[j] \in {"fetch", "restore", "replace"} =>
       /\ "hash" \notin amiss[k] => hash[k] = channels[k]
       /\ "channels" \notin amiss[k] => channels[k] # None /\ channels[k].of = its.previous
  /\ pc[j] \in {"fresh", "panel", "own"} =>
       /\ "hash" \notin amiss[k] \/ Replaced(j) => channels[k] = its.body
       /\ "channels" \notin amiss[k] => channels[k] # None /\ channels[k].of = its.url
  /\ pc[j] \in {"panel", "own"} => hash[k] = its.body

\* A row on which no import met another.
ListInv(k) ==
  /\ k \in managed => Closed(k)
  /\ (\A j \in Jobs : ~At(j, k)) => Sound(k)
  /\ \A j \in Jobs : At(j, k) =>
       IF job[j].kind \in {"add", "provision"} THEN Adding(j, k) ELSE Changing(j, k)

IInv ==
  /\ TypeOK /\ NothingLeft /\ HasAddress /\ Lone
  /\ \A j \in Jobs : JobInv(j)
  /\ \A k \in rows \ disturbed : ListInv(k)

-----------------------------------------------------------------------------
(* Types.                                                                  *)

\* What is not the order.
PlainTypes ==
  /\ rows \subseteq Lists
  /\ url \in [Lists -> Urls \cup {None}] /\ panel \in [Lists -> Urls \cup {None}]
  /\ channels \in [Lists -> Bodies \cup {None}] /\ hash \in [Lists -> Bodies \cup {None}]
  /\ managed \subseteq rows /\ doomed \subseteq Lists /\ disturbed \subseteq Lists
  /\ audience \in [Lists -> Audiences] /\ named \in [Lists -> SUBSET Friends]
  /\ pass \in {"held", "lapsed"} /\ version \in [Urls -> 0 .. MaxVersion]
  /\ pc \in [Jobs -> Steps] /\ job \in [Jobs -> Locals]
  /\ amiss \in [Lists -> SUBSET Wrongs]
  /\ starts \in 0 .. MaxStarts /\ changes \in 0 .. MaxChanges /\ stops \in 0 .. MaxStops

LEMMA NoJobType == NoJob \in Locals
  BY DEF NoJob, Locals, Kinds

\* The order is kept where rows are dropped, added at its end or moved to its front.
LEMMA DropOrdered ==
  ASSUME Ordered, NEW gone, Drop(gone)
  PROVE  Ordered'
  BY DEF Ordered, Drop

LEMMA SaveOrdered ==
  ASSUME Ordered, NEW j \in Jobs, Save(j)
  PROVE  Ordered'
<1>1. CASE UNCHANGED shelf
  BY <1>1 DEF Ordered, shelf
<1>2. ASSUME NEW new \in Lists \ rows, rows' = rows \cup {new},
             before' = before \cup (rows \X {new})
      PROVE  Ordered'
  BY <1>2 DEF Ordered
<1> QED
  BY <1>1, <1>2 DEF Save

LEMMA MakePrimaryOrdered ==
  ASSUME Ordered, NEW l \in Lists, MakePrimary(l)
  PROVE  Ordered'
  BY DEF Ordered, MakePrimary

LEMMA DropTypes ==
  ASSUME PlainTypes, NEW gone \in SUBSET Lists, Drop(gone)
  PROVE  /\ rows' \subseteq Lists /\ managed' \subseteq rows'
         /\ url' \in [Lists -> Urls \cup {None}] /\ panel' \in [Lists -> Urls \cup {None}]
         /\ channels' \in [Lists -> Bodies \cup {None}]
         /\ hash' \in [Lists -> Bodies \cup {None}]
         /\ audience' \in [Lists -> Audiences] /\ named' \in [Lists -> SUBSET Friends]
  BY DEF PlainTypes, Drop, Audiences

LEMMA BeginTypes ==
  ASSUME ConstantsType, PlainTypes, NEW j \in Jobs, NEW locals \in Locals,
         NEW label \in Steps, Begin(j, locals), Goto(j, label)
  PROVE  PlainTypes'
<1>1. starts' \in 0 .. MaxStarts
  BY DEF Begin, PlainTypes, ConstantsType
<1>2. locals.list # None => locals.list \in Lists
  BY DEF Locals
<1>3. disturbed' \subseteq Lists
  BY <1>2 DEF Begin, PlainTypes
<1> QED
  BY <1>1, <1>3 DEF PlainTypes, Begin, Goto, shelf, rowVars

LEMMA DoneTypes ==
  ASSUME PlainTypes, NEW j \in Jobs, Done(j)
  PROVE  pc' \in [Jobs -> Steps] /\ job' \in [Jobs -> Locals]
  BY NoJobType DEF Done, Goto, PlainTypes, Steps

LEMMA TypesKept ==
  ASSUME ConstantsType, PlainTypes, \A j \in Jobs : JobInv(j), [Next]_vars
  PROVE  PlainTypes'
<1> USE ConstantsType
<1>1. ASSUME NEW j \in Jobs, NEW u \in Own, BeginAdd(j, u) PROVE PlainTypes'
  <2>1. [NoJob EXCEPT !.url = u] \in Locals
    BY NoJobType DEF Locals, Urls
  <2> QED BY <1>1, <2>1, BeginTypes DEF BeginAdd, Steps
<1>2. ASSUME NEW j \in Jobs, NEW u \in Own, NEW l \in Lists, BeginEdit(j, l, u)
      PROVE  PlainTypes'
  <2>1. url[l] \in Urls \cup {None} /\ hash[l] \in Bodies \cup {None}
    BY DEF PlainTypes
  <2> DEFINE known == IF url[l] = u THEN hash[l] ELSE None
             was == IF l \in managed THEN "ours" ELSE "own"
             its == [NoJob EXCEPT !.kind = "edit", !.list = l, !.url = u, !.previous = url[l],
                                  !.known = known, !.was = was]
  <2>2. known \in Bodies \cup {None} /\ was \in {"ours", "own"} /\ u \in Urls
    BY <2>1 DEF Urls
  <2>3. Begin(j, its) /\ Goto(j, "save")
    BY <1>2 DEF BeginEdit
  <2> HIDE DEF known, was
  <2>4. its \in Locals
    BY <2>1, <2>2, NoJobType DEF Locals, Kinds
  <2> HIDE DEF its
  <2> QED BY <2>3, <2>4, BeginTypes DEF Steps
<1>3. ASSUME NEW j \in Jobs, NEW l \in Lists, NEW known \in Bodies \cup {None},
             BeginPoll(j, l, known)
      PROVE  PlainTypes'
  <2>1. [NoJob EXCEPT !.kind = "poll", !.list = l, !.known = known] \in Locals
    BY NoJobType DEF Locals, Kinds
  <2> QED BY <1>3, <2>1, BeginTypes DEF BeginPoll, Steps
<1>4. ASSUME NEW j \in Jobs, BeginProvision(j) PROVE PlainTypes'
  <2>1. [NoJob EXCEPT !.kind = "provision", !.url = Line] \in Locals
    BY NoJobType DEF Locals, Kinds, Urls
  <2> QED BY <1>4, <2>1, BeginTypes DEF BeginProvision, Steps
<1>5. ASSUME NEW j \in Jobs, Reread(j) PROVE PlainTypes'
  <2> DEFINE l == job[j].list
  <2>1. CASE l \in rows
    <3>1. l \in Lists /\ url[l] \in Urls \cup {None} /\ job[j] \in Locals
      BY <2>1 DEF PlainTypes
    <3>2. [job[j] EXCEPT !.url = url[l], !.previous = url[l]] \in Locals
      BY <3>1 DEF Locals
    <3> QED BY <1>5, <2>1, <3>2
      DEF Reread, Note, Goto, PlainTypes, Steps, shelf, rowVars, Elsewhere, Around, bounds
  <2>2. CASE l \notin rows
    BY <1>5, <2>2, DoneTypes DEF Reread, PlainTypes, shelf, rowVars, Elsewhere, Around, bounds
  <2> QED BY <2>1, <2>2
<1>6. ASSUME NEW j \in Jobs, Save(j) PROVE PlainTypes'
  <2>1. job[j] \in Locals /\ job[j].url \in Urls \cup {None}
    BY DEF PlainTypes, Locals
  <2>2. pc' \in [Jobs -> Steps]
    BY <1>6 DEF Save, Goto, PlainTypes, Steps
  <2>3. CASE job[j].list # None
    <3>1. url' \in [Lists -> Urls \cup {None}] /\ UNCHANGED <<shelf, job>>
      BY <1>6, <2>1, <2>3 DEF Save, PlainTypes
    <3> QED BY <1>6, <2>2, <3>1 DEF Save, PlainTypes, shelf, Elsewhere, Around, bounds
  <2>4. ASSUME NEW new \in Lists, rows' = rows \cup {new}, url' = [url EXCEPT ![new] = job[j].url],
               Note(j, [job[j] EXCEPT !.list = new])
        PROVE  PlainTypes'
    <3>1. [job[j] EXCEPT !.list = new] \in Locals
      BY <2>1 DEF Locals
    <3>2. job' \in [Jobs -> Locals] /\ url' \in [Lists -> Urls \cup {None}]
      BY <2>1, <2>4, <3>1 DEF Note, PlainTypes
    <3> QED BY <1>6, <2>2, <2>4, <3>2 DEF Save, PlainTypes, Elsewhere, Around, bounds
  <2> QED BY <1>6, <2>3, <2>4 DEF Save
<1>7. ASSUME NEW j \in Jobs, Fetch(j) PROVE PlainTypes'
  <2> DEFINE body == [of |-> job[j].url, version |-> version[job[j].url]]
  <2>1. CASE Goto(j, "restore") /\ UNCHANGED job
    BY <1>7, <2>1 DEF Fetch, Goto, PlainTypes, Steps, shelf, rowVars, Elsewhere, Around, bounds
  <2>2. CASE job[j].url \in Urls /\ Note(j, [job[j] EXCEPT !.body = body])
    <3>1. job[j] \in Locals /\ body \in Bodies
      BY <2>2 DEF PlainTypes, Bodies
    <3> HIDE DEF body
    <3>2. [job[j] EXCEPT !.body = body] \in Locals
      BY <3>1 DEF Locals
    <3>3. job' \in [Jobs -> Locals]
      BY <2>2, <3>2 DEF Note, PlainTypes
    <3>4. pc' \in [Jobs -> Steps]
      BY <1>7 DEF Fetch, Goto, PlainTypes, Steps
    <3> QED BY <1>7, <3>3, <3>4 DEF Fetch, PlainTypes, shelf, rowVars, Elsewhere, Around, bounds
  <2>3. job[j].url \in Urls
    BY <1>7 DEF Fetch, JobInv, PlainTypes, Locals
  <2> QED BY <1>7, <2>1, <2>2, <2>3 DEF Fetch
<1>8. ASSUME NEW j \in Jobs, Restore(j) PROVE PlainTypes'
  <2> DEFINE l == job[j].list
  <2>1. l \in Lists /\ job[j].previous \in Urls \cup {None}
    BY <1>8 DEF Restore, JobInv, PlainTypes, Locals, Kinds
  <2>2. pc' \in [Jobs -> Steps] /\ job' \in [Jobs -> Locals]
    BY <1>8, DoneTypes DEF Restore
  <2>3. CASE Drop({l})
    <3>1. {l} \in SUBSET Lists
      BY <2>1
    <3> HIDE DEF l
    <3> QED BY <1>8, <2>2, <2>3, <3>1, DropTypes DEF Restore, PlainTypes, Elsewhere, Around, bounds
  <2>4. CASE /\ url' = [url EXCEPT ![l] = IF l \in rows THEN job[j].previous ELSE @]
             /\ UNCHANGED <<shelf, channels, hash, panel, managed, audience, named>>
    BY <1>8, <2>1, <2>2, <2>4 DEF Restore, PlainTypes, Elsewhere, Around, bounds, shelf
  <2> QED BY <1>8, <2>3, <2>4 DEF Restore
<1>9. ASSUME NEW j \in Jobs, Replace(j) \/ MarkFresh(j) PROVE PlainTypes'
  <2>1. job[j].body \in Bodies \cup {None}
    BY DEF PlainTypes, Locals
  <2>2. pc' \in [Jobs -> Steps]
    BY <1>9 DEF Replace, MarkFresh, Goto, PlainTypes, Steps
  <2> QED BY <1>9, <2>1, <2>2 DEF Replace, MarkFresh, PlainTypes, Elsewhere, Around, bounds, shelf
<1>10. ASSUME NEW j \in Jobs, AskPanel(j) PROVE PlainTypes'
  <2>1. job[j].url \in Urls \cup {None}
    BY DEF PlainTypes, Locals
  <2>2. panel' \in [Lists -> Urls \cup {None}]
    BY <1>10, <2>1 DEF AskPanel, PlainTypes
  <2>3. pc' \in [Jobs -> Steps] /\ job' \in [Jobs -> Locals]
    <3>1. CASE Goto(j, "own") /\ UNCHANGED job
      BY <3>1 DEF Goto, PlainTypes, Steps
    <3> QED BY <1>10, <3>1, DoneTypes DEF AskPanel
  <2> QED BY <1>10, <2>2, <2>3 DEF AskPanel, PlainTypes, Elsewhere, Around, bounds, shelf
<1>11. ASSUME NEW j \in Jobs, SetManaged(j) PROVE PlainTypes'
  <2>1. managed' \subseteq rows
    BY <1>11 DEF SetManaged, PlainTypes
  <2> QED BY <1>11, <2>1, DoneTypes DEF SetManaged, PlainTypes, Elsewhere, Around, bounds, shelf
<1>12. ASSUME NEW j \in Jobs, Stops(j) PROVE PlainTypes'
  <2>1. job[j].list \in Lists \cup {None}
    BY DEF PlainTypes, Locals
  <2>2. stops' \in 0 .. MaxStops
    BY <1>12 DEF Stops, PlainTypes, ConstantsType
  <2>3. LeavesWrong(j) \subseteq Wrongs
    BY DEF LeavesWrong, Wrongs
  <2>4. amiss' \in [Lists -> SUBSET Wrongs]
    BY <1>12, <2>1, <2>3 DEF Stops, PlainTypes
  <2> QED BY <1>12, <2>2, <2>4, DoneTypes DEF Stops, PlainTypes, rowVars, shelf
<1>13. ASSUME NEW l \in Lists, Delete(l) \/ DeleteLapsed(l) PROVE PlainTypes'
  <2>1. changes' \in 0 .. MaxChanges /\ doomed' \subseteq Lists
    BY <1>13 DEF Delete, DeleteLapsed, Changed, PlainTypes, ConstantsType
  <2>2. CASE Drop({l})
    BY <1>13, <2>1, <2>2, DropTypes DEF Delete, DeleteLapsed, Quiet, PlainTypes
  <2>3. CASE UNCHANGED <<shelf, rowVars>>
    BY <1>13, <2>1, <2>3 DEF Delete, DeleteLapsed, Quiet, PlainTypes, shelf, rowVars
  <2> QED BY <1>13, <2>2, <2>3 DEF Delete, DeleteLapsed
<1>14. ASSUME NEW l \in Lists, MakePrimary(l) PROVE PlainTypes'
  BY <1>14 DEF MakePrimary, Changed, Quiet, PlainTypes, ConstantsType, rowVars
<1>15. ASSUME NEW l \in Lists, NEW to \in Audiences, Share(l, to) PROVE PlainTypes'
  BY <1>15 DEF Share, MarkIfAtWork, Changed, Quiet, PlainTypes, ConstantsType, shelf
<1>16. ASSUME NEW l \in Lists, NEW f \in Friends, Grant(l, f) \/ Revoke(l, f) PROVE PlainTypes'
  BY <1>16 DEF Grant, Revoke, MarkIfAtWork, Changed, Quiet, PlainTypes, ConstantsType, shelf
<1>17. CASE ReadLapsed
  BY <1>17 DEF ReadLapsed, Quiet, PlainTypes, shelf, rowVars
<1>18. CASE PassLapses
  BY <1>18 DEF PassLapses, PlainTypes, shelf, rowVars, bounds
<1>19. ASSUME NEW u \in Urls, ProviderRewrites(u) PROVE PlainTypes'
  BY <1>19 DEF ProviderRewrites, PlainTypes, ConstantsType, shelf, rowVars, bounds
<1>20. CASE UNCHANGED vars
  BY <1>20 DEF vars, PlainTypes, shelf, rowVars, bounds
<1> QED
  BY <1>1, <1>2, <1>3, <1>4, <1>5, <1>6, <1>7, <1>8, <1>9, <1>10, <1>11, <1>12, <1>13,
     <1>14, <1>15, <1>16, <1>17, <1>18, <1>19, <1>20 DEF Next

LEMMA OrderKept ==
  ASSUME Ordered, [Next]_vars
  PROVE  Ordered'
<1>1. CASE UNCHANGED shelf
  BY <1>1 DEF Ordered, shelf
<1>2. ASSUME NEW j \in Jobs, Restore(j) PROVE Ordered'
  BY <1>1, <1>2, DropOrdered DEF Restore
<1>3. ASSUME NEW l \in Lists, Delete(l) \/ DeleteLapsed(l) PROVE Ordered'
  BY <1>1, <1>3, DropOrdered DEF Delete, DeleteLapsed
<1>4. ASSUME NEW j \in Jobs,
             \/ \E u \in Own : BeginAdd(j, u) \/ \E l \in Lists : BeginEdit(j, l, u)
             \/ \E l \in Lists, known \in Bodies \cup {None} : BeginPoll(j, l, known)
             \/ BeginProvision(j)
      PROVE  UNCHANGED shelf
  BY <1>4 DEF BeginAdd, BeginEdit, BeginPoll, BeginProvision, Begin
<1>5. ASSUME NEW j \in Jobs, \/ Reread(j) \/ Fetch(j) \/ Replace(j) \/ MarkFresh(j) \/ AskPanel(j)
                             \/ SetManaged(j) \/ Stops(j)
      PROVE  UNCHANGED shelf
  BY <1>5 DEF Reread, Fetch, Replace, MarkFresh, AskPanel, SetManaged, Stops
<1>6. ASSUME NEW l \in Lists, \/ \E to \in Audiences : Share(l, to)
                              \/ \E f \in Friends : Grant(l, f) \/ Revoke(l, f)
      PROVE  UNCHANGED shelf
  BY <1>6 DEF Share, Grant, Revoke
<1>7. ReadLapsed \/ PassLapses \/ (\E u \in Urls : ProviderRewrites(u)) \/ UNCHANGED vars
      => UNCHANGED shelf
  BY DEF ReadLapsed, PassLapses, ProviderRewrites, vars
<1> QED
  BY <1>1, <1>2, <1>3, <1>4, <1>5, <1>6, <1>7, SaveOrdered, MakePrimaryOrdered DEF Next

LEMMA TypeOKIs == TypeOK <=> PlainTypes /\ Ordered
  BY DEF TypeOK, PlainTypes

-----------------------------------------------------------------------------
(* Rows.                                                                   *)

\* The steps that leave the rows alone, or all of them but panel and managed.
Content == <<rows, url, channels, hash, audience, named>>

LEMMA ContentUnchanged ==
  ASSUME [Next]_vars
  PROVE  \/ UNCHANGED Content
         \/ \E j \in Jobs : Save(j) \/ Restore(j) \/ Replace(j) \/ MarkFresh(j)
         \/ \E l \in Lists : \/ Delete(l) \/ DeleteLapsed(l)
                             \/ \E to \in Audiences : Share(l, to)
                             \/ \E f \in Friends : Grant(l, f) \/ Revoke(l, f)
<1>1. ASSUME NEW j \in Jobs,
             \/ \E u \in Own : BeginAdd(j, u) \/ \E l \in Lists : BeginEdit(j, l, u)
             \/ \E l \in Lists, known \in Bodies \cup {None} : BeginPoll(j, l, known)
             \/ BeginProvision(j)
      PROVE  UNCHANGED Content
  BY <1>1 DEF BeginAdd, BeginEdit, BeginPoll, BeginProvision, Begin, shelf, rowVars, Content
<1>2. ASSUME NEW j \in Jobs, Reread(j) \/ Fetch(j) \/ AskPanel(j) \/ SetManaged(j) \/ Stops(j)
      PROVE  UNCHANGED Content
  BY <1>2 DEF Reread, Fetch, AskPanel, SetManaged, Stops, shelf, rowVars, Content
<1>3. ASSUME NEW l \in Lists, MakePrimary(l) PROVE UNCHANGED Content
  BY <1>3 DEF MakePrimary, rowVars, Content
<1>4. ReadLapsed \/ PassLapses \/ (\E u \in Urls : ProviderRewrites(u)) \/ UNCHANGED vars
      => UNCHANGED Content
  BY DEF ReadLapsed, PassLapses, ProviderRewrites, vars, shelf, rowVars, Content
<1> QED
  BY <1>1, <1>2, <1>3, <1>4 DEF Next

LEMMA RowsKept ==
  ASSUME ConstantsType, PlainTypes, NothingLeft, HasAddress, \A j \in Jobs : JobInv(j),
         [Next]_vars
  PROVE  NothingLeft' /\ HasAddress'
<1>1. CASE UNCHANGED Content
  BY <1>1 DEF Content, NothingLeft, HasAddress
<1>2. ASSUME NEW gone \in SUBSET Lists, Drop(gone) PROVE NothingLeft' /\ HasAddress'
  BY <1>2 DEF Drop, NothingLeft, HasAddress, PlainTypes
<1>3. ASSUME NEW j \in Jobs, Save(j) PROVE NothingLeft' /\ HasAddress'
  <2>1. job[j].url # None
    BY <1>3 DEF Save, JobInv
  <2>2. CASE job[j].list # None
    BY <1>3, <2>1, <2>2 DEF Save, NothingLeft, HasAddress, PlainTypes, shelf
  <2>3. CASE job[j].list = None
    <3>1. PICK new \in Lists : rows' = rows \cup {new} /\ url' = [url EXCEPT ![new] = job[j].url]
      BY <1>3, <2>3 DEF Save
    <3>2. UNCHANGED <<channels, hash, audience, named>>
      BY <1>3 DEF Save
    <3> QED BY <2>1, <3>1, <3>2 DEF NothingLeft, HasAddress, PlainTypes
  <2> QED BY <2>2, <2>3
<1>4. ASSUME NEW j \in Jobs, Restore(j) PROVE NothingLeft' /\ HasAddress'
  <2> DEFINE l == job[j].list
  <2>1. l \in Lists
    BY <1>4 DEF Restore, JobInv, PlainTypes, Locals, Kinds
  <2>2. CASE job[j].previous = None
    <3>1. Drop({l})
      BY <1>4, <2>2 DEF Restore
    <3>2. {l} \in SUBSET Lists
      BY <2>1
    <3> HIDE DEF l
    <3> QED BY <3>1, <3>2, <1>2
  <2>3. CASE job[j].previous # None
    BY <1>4, <2>3 DEF Restore, NothingLeft, HasAddress, PlainTypes, shelf
  <2> QED BY <2>2, <2>3
<1>5. ASSUME NEW j \in Jobs, Replace(j) \/ MarkFresh(j) PROVE NothingLeft' /\ HasAddress'
  BY <1>5 DEF Replace, MarkFresh, NothingLeft, HasAddress, PlainTypes, shelf
<1>6. ASSUME NEW l \in Lists, Delete(l) \/ DeleteLapsed(l) PROVE NothingLeft' /\ HasAddress'
  <2>1. CASE Drop({l})
    BY <1>2, <2>1
  <2>2. CASE UNCHANGED <<shelf, rowVars>>
    BY <2>2, <1>1 DEF shelf, rowVars, Content
  <2> QED BY <1>6, <2>1, <2>2 DEF Delete, DeleteLapsed
<1>7. ASSUME NEW l \in Lists, NEW to \in Audiences, Share(l, to)
      PROVE  NothingLeft' /\ HasAddress'
  BY <1>7 DEF Share, NothingLeft, HasAddress, PlainTypes, shelf
<1>8. ASSUME NEW l \in Lists, NEW f \in Friends, Grant(l, f) \/ Revoke(l, f)
      PROVE  NothingLeft' /\ HasAddress'
  BY <1>8 DEF Grant, Revoke, NothingLeft, HasAddress, PlainTypes, shelf
<1> QED
  BY ContentUnchanged, <1>1, <1>3, <1>4, <1>5, <1>6, <1>7, <1>8

-----------------------------------------------------------------------------
(* Imports.                                                                *)

\* A step of import j leaves the others where they are.
LEMMA OthersStay ==
  ASSUME PlainTypes, NEW j \in Jobs,
         \/ \E locals : Begin(j, locals) /\ (Goto(j, "save") \/ Goto(j, "reread"))
         \/ Reread(j) \/ Save(j) \/ Fetch(j) \/ Restore(j) \/ Replace(j) \/ MarkFresh(j)
         \/ AskPanel(j) \/ SetManaged(j) \/ Stops(j)
  PROVE  \A i \in Jobs \ {j} : pc'[i] = pc[i] /\ job'[i] = job[i]
  BY DEF Begin, Reread, Save, Fetch, Restore, Replace, MarkFresh, AskPanel, SetManaged, Stops,
         Goto, Note, Done, PlainTypes

\* Steps that are no import's.
LEMMA ImportsWait ==
  ASSUME \/ \E l \in Lists : \/ Delete(l) \/ MakePrimary(l) \/ DeleteLapsed(l)
                             \/ \E to \in Audiences : Share(l, to)
                             \/ \E f \in Friends : Grant(l, f) \/ Revoke(l, f)
         \/ ReadLapsed \/ PassLapses \/ (\E u \in Urls : ProviderRewrites(u)) \/ UNCHANGED vars
  PROVE  UNCHANGED <<pc, job>>
  BY DEF Delete, MakePrimary, DeleteLapsed, Share, Grant, Revoke, ReadLapsed, PassLapses,
         ProviderRewrites, vars, Quiet

LEMMA JobsKept ==
  ASSUME ConstantsType, PlainTypes, HasAddress, \A j \in Jobs : JobInv(j), [Next]_vars
  PROVE  \A j \in Jobs : JobInv(j)'
<1> USE ConstantsType DEF ConstantsType
<1>1. ASSUME NEW j \in Jobs, JobInv(j)',
             \/ \E locals : Begin(j, locals) /\ (Goto(j, "save") \/ Goto(j, "reread"))
             \/ Reread(j) \/ Save(j) \/ Fetch(j) \/ Restore(j) \/ Replace(j) \/ MarkFresh(j)
             \/ AskPanel(j) \/ SetManaged(j) \/ Stops(j)
      PROVE  \A i \in Jobs : JobInv(i)'
  <2>1. \A i \in Jobs \ {j} : pc'[i] = pc[i] /\ job'[i] = job[i]
    BY <1>1, OthersStay
  <2> QED BY <1>1, <2>1 DEF JobInv, Replaced
<1>2. ASSUME NEW j \in Jobs, Done(j) PROVE JobInv(j)'
  <2>1. pc'[j] = "idle" /\ job'[j] = NoJob
    BY <1>2 DEF Done, Goto, PlainTypes
  <2> QED BY <2>1 DEF JobInv
<1>3. ASSUME NEW j \in Jobs, NEW u \in Own, BeginAdd(j, u) PROVE JobInv(j)'
  <2>1. pc'[j] = "save" /\ job'[j] = [NoJob EXCEPT !.url = u]
    BY <1>3 DEF BeginAdd, Begin, Goto, PlainTypes
  <2> QED BY <2>1 DEF JobInv, NoJob, Urls
<1>4. ASSUME NEW j \in Jobs, NEW u \in Own, NEW l \in Lists, BeginEdit(j, l, u)
      PROVE  JobInv(j)'
  <2>1. /\ pc'[j] = "save" /\ job'[j].kind = "edit" /\ job'[j].list = l /\ job'[j].url = u
        /\ job'[j].previous = url[l]
        /\ job'[j].known = IF url[l] = u THEN hash[l] ELSE None
    BY <1>4 DEF BeginEdit, Begin, Goto, PlainTypes, NoJob
  <2>2. url[l] # None /\ l # None /\ u # None
    BY <1>4 DEF BeginEdit, HasAddress, Urls
  <2> QED BY <2>1, <2>2 DEF JobInv
<1>5. ASSUME NEW j \in Jobs, NEW l \in Lists, NEW known \in Bodies \cup {None},
             BeginPoll(j, l, known)
      PROVE  JobInv(j)'
  <2>1. pc'[j] = "reread"
        /\ job'[j] = [NoJob EXCEPT !.kind = "poll", !.list = l, !.known = known]
    BY <1>5 DEF BeginPoll, Begin, Goto, PlainTypes
  <2> QED BY <2>1 DEF JobInv, NoJob
<1>6. ASSUME NEW j \in Jobs, BeginProvision(j) PROVE JobInv(j)'
  <2>1. pc'[j] = "save" /\ job'[j] = [NoJob EXCEPT !.kind = "provision", !.url = Line]
    BY <1>6 DEF BeginProvision, Begin, Goto, PlainTypes
  <2> QED BY <2>1 DEF JobInv, NoJob, Urls
<1>7. ASSUME NEW j \in Jobs, Reread(j) PROVE JobInv(j)'
  <2> DEFINE l == job[j].list
  <2>1. CASE l \in rows
    <3>1. pc'[j] = "save" /\ job'[j] = [job[j] EXCEPT !.url = url[l], !.previous = url[l]]
      BY <1>7, <2>1 DEF Reread, Note, Goto, PlainTypes
    <3>2. pc[j] = "reread" /\ url[l] # None /\ job[j] \in Locals /\ JobInv(j)
      BY <1>7, <2>1 DEF Reread, HasAddress, PlainTypes
    <3> QED BY <3>1, <3>2 DEF JobInv, Locals
  <2>2. CASE l \notin rows
    BY <1>7, <2>2, <1>2 DEF Reread
  <2> QED BY <2>1, <2>2
<1>8. ASSUME NEW j \in Jobs, Save(j) PROVE JobInv(j)'
  <2>1. pc[j] = "save" /\ pc'[j] = "fetch" /\ job[j] \in Locals /\ JobInv(j)
    BY <1>8 DEF Save, Goto, PlainTypes
  <2>2. CASE job[j].list # None
    <3>1. job'[j] = job[j]
      BY <1>8, <2>2 DEF Save
    <3> QED BY <2>1, <2>2, <3>1 DEF JobInv
  <2>3. CASE job[j].list = None
    <3>1. PICK new \in Lists : job' = [job EXCEPT ![j] = [job[j] EXCEPT !.list = new]]
      BY <1>8, <2>3 DEF Save, Note
    <3>2. job'[j] = [job[j] EXCEPT !.list = new]
      BY <3>1 DEF PlainTypes
    <3> QED BY <2>1, <2>3, <3>2 DEF JobInv, Locals
  <2> QED BY <2>2, <2>3
<1>9. ASSUME NEW j \in Jobs, Fetch(j) PROVE JobInv(j)'
  <2> DEFINE body == [of |-> job[j].url, version |-> version[job[j].url]]
  <2>1. pc[j] = "fetch" /\ job[j] \in Locals /\ JobInv(j) /\ job[j].url \in Urls
    BY <1>9 DEF Fetch, JobInv, PlainTypes, Locals
  <2>2. CASE Goto(j, "restore") /\ UNCHANGED job
    <3>1. pc'[j] = "restore" /\ job'[j] = job[j]
      BY <2>2 DEF Goto, PlainTypes
    <3> QED BY <2>1, <3>1 DEF JobInv
  <2>3. CASE Note(j, [job[j] EXCEPT !.body = body])
             /\ Goto(j, IF job[j].known = body THEN "fresh" ELSE "replace")
    <3>1. /\ pc'[j] = (IF job[j].known = body THEN "fresh" ELSE "replace")
          /\ job'[j] = [job[j] EXCEPT !.body = body]
      BY <2>3 DEF Note, Goto, PlainTypes
    <3>2. body # None /\ body.of = job[j].url
      BY <2>1 DEF PlainTypes, Bodies, ConstantsType
    <3> HIDE DEF body
    <3> QED BY <2>1, <3>1, <3>2 DEF JobInv, Locals, Replaced
  <2> QED BY <1>9, <2>2, <2>3 DEF Fetch
<1>10. ASSUME NEW j \in Jobs, Replace(j) \/ MarkFresh(j) PROVE JobInv(j)'
  <2>1. /\ pc[j] \in {"replace", "fresh"} /\ pc'[j] \in {"fresh", "panel"}
        /\ job'[j] = job[j] /\ JobInv(j)
    BY <1>10 DEF Replace, MarkFresh, Goto, PlainTypes
  <2> QED BY <2>1 DEF JobInv
<1>11. ASSUME NEW j \in Jobs, AskPanel(j) PROVE JobInv(j)'
  <2>1. CASE job[j].kind = "provision" \/ job[j].was = "ours"
    <3>1. pc[j] = "panel" /\ pc'[j] = "own" /\ job'[j] = job[j] /\ JobInv(j)
      BY <1>11, <2>1 DEF AskPanel, Goto, PlainTypes
    <3> QED BY <2>1, <3>1 DEF JobInv
  <2>2. CASE ~(job[j].kind = "provision" \/ job[j].was = "ours")
    BY <1>2, <1>11, <2>2 DEF AskPanel
  <2> QED BY <2>1, <2>2
<1>12. ASSUME NEW j \in Jobs, Restore(j) \/ SetManaged(j) \/ Stops(j) PROVE JobInv(j)'
  BY <1>2, <1>12 DEF Restore, SetManaged, Stops
<1>13. ASSUME UNCHANGED <<pc, job>> PROVE \A j \in Jobs : JobInv(j)'
  BY <1>13 DEF JobInv, Replaced
<1>14. ASSUME NEW j \in Jobs,
              \/ \E u \in Own : BeginAdd(j, u) \/ \E l \in Lists : BeginEdit(j, l, u)
              \/ \E l \in Lists, known \in Bodies \cup {None} : BeginPoll(j, l, known)
              \/ BeginProvision(j)
       PROVE  \E locals : Begin(j, locals) /\ (Goto(j, "save") \/ Goto(j, "reread"))
  BY <1>14 DEF BeginAdd, BeginEdit, BeginPoll, BeginProvision
<1> QED
  BY <1>1, <1>3, <1>4, <1>5, <1>6, <1>7, <1>8, <1>9, <1>10, <1>11, <1>12, <1>13, <1>14,
     ImportsWait DEF Next

\* Whoever comes to a list that somebody is at work on disturbs it.
LEMMA LoneKept ==
  ASSUME ConstantsType, PlainTypes, Lone, \A j \in Jobs : JobInv(j), [Next]_vars
  PROVE  Lone'
<1> USE DEF ConstantsType
<1>1. ASSUME NEW j \in Jobs, disturbed \subseteq disturbed',
             \A i \in Jobs \ {j} : pc'[i] = pc[i] /\ job'[i] = job[i],
             \A i \in Jobs \ {j}, k \in Lists : At(j, k)' /\ At(i, k) => k \in disturbed'
      PROVE  Lone'
  <2>1. \A i \in Jobs \ {j}, k \in Lists : At(i, k)' <=> At(i, k)
    BY <1>1 DEF At
  <2> QED BY <1>1, <2>1 DEF Lone
<1>2. ASSUME NEW j \in Jobs, NEW locals, NEW label, Begin(j, locals), Goto(j, label),
             label \in {"save", "reread"}
      PROVE  Lone'
  <2>1. \A i \in Jobs \ {j} : pc'[i] = pc[i] /\ job'[i] = job[i]
    BY <1>2, OthersStay
  <2>2. job'[j] = locals
    BY <1>2 DEF Begin, PlainTypes
  <2>3. disturbed \subseteq disturbed'
    BY <1>2 DEF Begin
  <2>4. ASSUME NEW i \in Jobs \ {j}, NEW k \in Lists, At(j, k)', At(i, k)
        PROVE  k \in disturbed'
    <3>1. locals.list = k /\ i \in AtWork(k) /\ k # None
      BY <2>2, <2>4 DEF At, AtWork
    <3> QED BY <1>2, <3>1 DEF Begin
  <2> QED BY <1>1, <2>1, <2>3, <2>4
<1>3. ASSUME NEW j \in Jobs, disturbed \subseteq disturbed',
             \A i \in Jobs \ {j} : pc'[i] = pc[i] /\ job'[i] = job[i],
             pc'[j] = "idle" \/ (pc[j] # "idle" /\ job'[j].list = job[j].list)
      PROVE  Lone'
  <2>1. \A k \in Lists : At(j, k)' => At(j, k)
    BY <1>3 DEF At
  <2> QED BY <1>1, <1>3, <2>1 DEF Lone
<1>4. ASSUME NEW j \in Jobs, Done(j) PROVE pc'[j] = "idle"
  BY <1>4 DEF Done, Goto, PlainTypes
<1>5. ASSUME NEW j \in Jobs, \/ Reread(j) \/ Fetch(j) \/ Restore(j) \/ Replace(j) \/ MarkFresh(j)
                             \/ AskPanel(j) \/ SetManaged(j) \/ Stops(j)
      PROVE  Lone'
  <2>1. \A i \in Jobs \ {j} : pc'[i] = pc[i] /\ job'[i] = job[i]
    BY <1>5, OthersStay
  <2>2. disturbed \subseteq disturbed'
    BY <1>5 DEF Reread, Fetch, Restore, Replace, MarkFresh, AskPanel, SetManaged, Stops, Elsewhere,
                Around
  <2>3. job[j] \in Locals
    BY DEF PlainTypes
  <2>4. CASE Done(j)
    BY <1>3, <1>4, <2>1, <2>2, <2>4
  <2>5. CASE ~Done(j)
    <3>1. CASE Reread(j) \/ Fetch(j)
      <4>1. ASSUME NEW its, Note(j, its), its.list = job[j].list PROVE job'[j].list = job[j].list
        BY <4>1 DEF Note, PlainTypes
      <4>2. ASSUME Reread(j) PROVE job'[j].list = job[j].list
        <5> DEFINE u == url[job[j].list]
                   its == [job[j] EXCEPT !.url = u, !.previous = u]
        <5>1. Note(j, its)
          BY <2>5, <4>2 DEF Reread
        <5>2. its.list = job[j].list
          BY <2>3 DEF Locals
        <5> HIDE DEF its
        <5> QED BY <4>1, <5>1, <5>2
      <4>3. ASSUME Fetch(j) PROVE job'[j].list = job[j].list
        <5> DEFINE body == [of |-> job[j].url, version |-> version[job[j].url]]
                   its == [job[j] EXCEPT !.body = body]
        <5>1. Note(j, its) \/ job' = job
          BY <4>3 DEF Fetch
        <5>2. its.list = job[j].list
          BY <2>3 DEF Locals
        <5> HIDE DEF its
        <5> QED BY <4>1, <5>1, <5>2
      <4>4. pc[j] # "idle"
        BY <3>1 DEF Reread, Fetch
      <4> QED BY <1>3, <2>1, <2>2, <3>1, <4>2, <4>3, <4>4
    <3>2. CASE Replace(j) \/ MarkFresh(j) \/ AskPanel(j)
      <4>1. pc[j] # "idle" /\ job' = job
        BY <2>5, <3>2 DEF Replace, MarkFresh, AskPanel
      <4> QED BY <1>3, <2>1, <2>2, <4>1
    <3> QED BY <1>5, <2>5, <3>1, <3>2 DEF Restore, SetManaged, Stops
  <2> QED BY <2>4, <2>5
<1>6. ASSUME NEW j \in Jobs, Save(j) PROVE Lone'
  <2>1. \A i \in Jobs \ {j} : pc'[i] = pc[i] /\ job'[i] = job[i]
    BY <1>6, OthersStay
  <2>2. disturbed' = disturbed /\ pc[j] # "idle"
    BY <1>6 DEF Save, Elsewhere, Around
  <2>3. CASE job[j].list # None
    <3>1. job'[j] = job[j]
      BY <1>6, <2>3 DEF Save
    <3> QED BY <1>3, <2>1, <2>2, <3>1
  <2>4. CASE job[j].list = None
    <3>1. PICK new \in Lists \ {job[i].list : i \in Jobs} :
            job' = [job EXCEPT ![j] = [job[j] EXCEPT !.list = new]]
      BY <1>6, <2>4 DEF Save, Note
    <3>2. job'[j].list = new
      BY <3>1 DEF PlainTypes, Locals
    <3>3. \A i \in Jobs \ {j}, k \in Lists : ~(At(j, k)' /\ At(i, k))
      BY <3>1, <3>2 DEF At
    <3> QED BY <1>1, <2>1, <2>2, <3>3
  <2> QED BY <2>3, <2>4
<1>7. ASSUME UNCHANGED <<pc, job>>, disturbed \subseteq disturbed' PROVE Lone'
  BY <1>7 DEF Lone, At
<1>8. ASSUME \/ \E l \in Lists : \/ Delete(l) \/ MakePrimary(l) \/ DeleteLapsed(l)
                                 \/ \E to \in Audiences : Share(l, to)
                                 \/ \E f \in Friends : Grant(l, f) \/ Revoke(l, f)
             \/ ReadLapsed \/ PassLapses \/ (\E u \in Urls : ProviderRewrites(u))
             \/ UNCHANGED vars
      PROVE  Lone'
  <2>1. disturbed \subseteq disturbed'
    BY <1>8 DEF Delete, MakePrimary, DeleteLapsed, Share, Grant, Revoke, ReadLapsed, PassLapses,
                ProviderRewrites, vars, MarkIfAtWork
  <2> QED BY <1>7, <1>8, <2>1, ImportsWait
<1>9. ASSUME NEW j \in Jobs,
             \/ \E u \in Own : BeginAdd(j, u) \/ \E l \in Lists : BeginEdit(j, l, u)
             \/ \E l \in Lists, known \in Bodies \cup {None} : BeginPoll(j, l, known)
             \/ BeginProvision(j)
      PROVE  Lone'
  <2>1. \E locals : Begin(j, locals) /\ (Goto(j, "save") \/ Goto(j, "reread"))
    BY <1>9 DEF BeginAdd, BeginEdit, BeginPoll, BeginProvision
  <2> QED BY <1>2, <2>1
<1> QED
  BY <1>5, <1>6, <1>8, <1>9 DEF Next

-----------------------------------------------------------------------------
(* One list.                                                               *)

\* Nothing of a list or of those at work on it changed, but that it was closed further.
LEMMA Frame ==
  ASSUME NEW k \in Lists, ListInv(k),
         url'[k] = url[k], channels'[k] = channels[k], hash'[k] = hash[k],
         k \in managed' <=> k \in managed, Closed(k) => Closed(k)',
         \A i \in Jobs : At(i, k)' <=> At(i, k),
         \A i \in Jobs : At(i, k) => pc'[i] = pc[i] /\ job'[i] = job[i], amiss'[k] = amiss[k]
  PROVE  ListInv(k)'
<1>1. Sound(k) => Sound(k)'
  BY DEF Sound
<1>2. ASSUME NEW i \in Jobs, At(i, k), Adding(i, k) PROVE Adding(i, k)'
  BY <1>2 DEF Adding
<1>3. ASSUME NEW i \in Jobs, At(i, k), Changing(i, k) PROVE Changing(i, k)'
  BY <1>1, <1>3 DEF Changing, Replaced
<1>4. (k \in managed => Closed(k))'
  BY DEF ListInv
<1>5. ASSUME \A j \in Jobs : ~At(j, k)' PROVE Sound(k)'
  BY <1>1, <1>5 DEF ListInv
<1>6. ASSUME NEW i \in Jobs, At(i, k)'
      PROVE  IF job'[i].kind \in {"add", "provision"} THEN Adding(i, k)' ELSE Changing(i, k)'
  BY <1>2, <1>3, <1>6 DEF ListInv
<1> QED BY <1>4, <1>5, <1>6 DEF ListInv

\* The list of an import that is alone with it.
LEMMA OneAtWork ==
  ASSUME NEW k \in Lists, NEW j \in Jobs, \A i \in Jobs \ {j} : ~At(i, k)',
         (k \in managed => Closed(k))', ~At(j, k)' => Sound(k)',
         At(j, k)' => IF job'[j].kind \in {"add", "provision"} THEN Adding(j, k)'
                                                               ELSE Changing(j, k)'
  PROVE  ListInv(k)'
<1>1. (\A i \in Jobs : ~At(i, k)') => Sound(k)'
  OBVIOUS
<1>2. ASSUME NEW i \in Jobs, At(i, k)'
      PROVE  IF job'[i].kind \in {"add", "provision"} THEN Adding(i, k)' ELSE Changing(i, k)'
  <2>1. i = j
    BY <1>2
  <2> QED BY <1>2, <2>1
<1> QED BY <1>1, <1>2 DEF ListInv

\* The step of import j seen from a list it is not at work on.
LEMMA ElsewhereStays ==
  ASSUME PlainTypes, NEW j \in Jobs, NEW k \in Lists, ListInv(k), ~At(j, k), ~At(j, k)',
         \A i \in Jobs \ {j} : pc'[i] = pc[i] /\ job'[i] = job[i],
         url'[k] = url[k], channels'[k] = channels[k], hash'[k] = hash[k],
         k \in managed' <=> k \in managed, audience'[k] = audience[k], named'[k] = named[k],
         amiss'[k] = amiss[k]
  PROVE  ListInv(k)'
<1>1. \A i \in Jobs : At(i, k)' <=> At(i, k)
  BY DEF At
<1>2. \A i \in Jobs : At(i, k) => pc'[i] = pc[i] /\ job'[i] = job[i]
  OBVIOUS
<1>3. Closed(k) => Closed(k)'
  BY DEF Closed
<1> QED BY <1>1, <1>2, <1>3, Frame

LEMMA BeginsKeepList ==
  ASSUME ConstantsType, IInv, NEW j \in Jobs, NEW k \in rows' \ disturbed',
         \/ \E u \in Own : BeginAdd(j, u) \/ \E l \in Lists : BeginEdit(j, l, u)
         \/ \E l \in Lists, known \in Bodies \cup {None} : BeginPoll(j, l, known)
         \/ BeginProvision(j)
  PROVE  ListInv(k)'
<1> USE DEF ConstantsType
<1>1. PlainTypes /\ k \in Lists /\ k # None /\ k \in rows /\ k \notin disturbed /\ ListInv(k)
  <2>1. PlainTypes
    BY TypeOKIs DEF IInv
  <2>2. rows' = rows /\ disturbed \subseteq disturbed'
    BY DEF BeginAdd, BeginEdit, BeginPoll, BeginProvision, Begin, shelf
  <2> QED BY <2>1, <2>2 DEF IInv, PlainTypes
<1>2. UNCHANGED <<url, channels, hash, managed, audience, named, amiss>>
  BY DEF BeginAdd, BeginEdit, BeginPoll, BeginProvision, Begin, rowVars
<1>3. pc[j] = "idle" /\ ~At(j, k)
  BY DEF BeginAdd, BeginEdit, BeginPoll, BeginProvision, Begin, At
<1>4. \E locals : Begin(j, locals) /\ (Goto(j, "save") \/ Goto(j, "reread"))
  BY DEF BeginAdd, BeginEdit, BeginPoll, BeginProvision
<1>5. \A i \in Jobs \ {j} : pc'[i] = pc[i] /\ job'[i] = job[i]
  BY <1>1, <1>4, OthersStay
<1>6. CASE job'[j].list # k
  <2>1. ~At(j, k)'
    BY <1>6 DEF At
  <2> QED BY <1>1, <1>2, <1>3, <1>5, <2>1, ElsewhereStays
<1>7. CASE job'[j].list = k
  <2>1. \A i \in Jobs : ~At(i, k)
    <3>1. PICK locals : Begin(j, locals)
      BY <1>4
    <3>2. job'[j] = locals
      BY <1>1, <3>1 DEF Begin, PlainTypes
    <3>3. AtWork(k) = {}
      BY <1>1, <1>7, <3>1, <3>2 DEF Begin
    <3> QED BY <3>3 DEF AtWork, At
  <2>2. \A i \in Jobs \ {j} : ~At(i, k)'
    BY <1>5, <2>1 DEF At
  <2>3. Sound(k) /\ (k \in managed => Closed(k))
    BY <1>1, <2>1 DEF ListInv
  <2>4. Sound(k)' /\ (k \in managed => Closed(k))'
    BY <1>2, <2>3 DEF Sound, Closed
  <2>5. CASE \E u \in Own, l \in Lists : BeginEdit(j, l, u)
    <3>1. PICK u \in Own, l \in Lists : BeginEdit(j, l, u)
      BY <2>5
    <3>2. /\ pc'[j] = "save" /\ job'[j].kind = "edit" /\ job'[j].list = l
          /\ job'[j].previous = url[l]
          /\ job'[j].known = IF url[l] = u THEN hash[l] ELSE None
          /\ job'[j].was = IF l \in managed THEN "ours" ELSE "own"
      BY <1>1, <3>1 DEF BeginEdit, Begin, Goto, PlainTypes, NoJob
    <3>3. Changing(j, k)'
      BY <1>2, <1>7, <2>4, <3>2 DEF Changing
    <3> QED BY <1>1, <2>2, <2>4, <3>2, <3>3, OneAtWork
  <2>6. CASE \E l \in Lists, known \in Bodies \cup {None} : BeginPoll(j, l, known)
    <3>1. PICK l \in Lists, known \in Bodies \cup {None} : BeginPoll(j, l, known)
      BY <2>6
    <3>2. /\ pc'[j] = "reread" /\ job'[j].kind = "poll" /\ job'[j].list = l
          /\ job'[j].known \in {hash[l], None}
      BY <1>1, <3>1 DEF BeginPoll, Begin, Goto, PlainTypes, NoJob
    <3>3. Changing(j, k)'
      BY <1>2, <1>7, <2>4, <3>2 DEF Changing
    <3> QED BY <1>1, <2>2, <2>4, <3>2, <3>3, OneAtWork
  <2>7. CASE (\E u \in Own : BeginAdd(j, u)) \/ BeginProvision(j)
    <3>1. job'[j].list = None
      <4>1. ASSUME NEW u \in Own, BeginAdd(j, u) PROVE job'[j].list = None
        BY <1>1, <4>1 DEF BeginAdd, Begin, PlainTypes, NoJob
      <4>2. ASSUME BeginProvision(j) PROVE job'[j].list = None
        BY <1>1, <4>2 DEF BeginProvision, Begin, PlainTypes, NoJob
      <4> QED BY <2>7, <4>1, <4>2
    <3> QED BY <1>1, <1>7, <3>1
  <2> QED BY <2>5, <2>6, <2>7
<1> QED BY <1>6, <1>7

LEMMA AloneWith ==
  ASSUME IInv, NEW j \in Jobs, NEW k \in Lists \ disturbed, At(j, k),
         \A i \in Jobs \ {j} : pc'[i] = pc[i] /\ job'[i] = job[i]
  PROVE  \A i \in Jobs \ {j} : ~At(i, k)'
  BY DEF IInv, Lone, At

\* What the lemmas below begin with: import j moves and list k is undisturbed.
Moving(j, k) ==
  /\ IInv /\ PlainTypes /\ k \in Lists \ disturbed
  /\ \A i \in Jobs \ {j} : pc'[i] = pc[i] /\ job'[i] = job[i]
  /\ JobInv(j) /\ job[j] \in Locals /\ pc[j] # "idle"

LEMMA RereadKeepsList ==
  ASSUME ConstantsType, NEW j \in Jobs, NEW k \in rows, Moving(j, k), Reread(j), ListInv(k)
  PROVE  ListInv(k)'
<1>1. UNCHANGED <<url, channels, hash, managed, audience, named, amiss>>
  BY DEF Reread, rowVars, Elsewhere
<1>2. CASE job[j].list # k
  <2>1. job'[j].list # k \/ pc'[j] = "idle"
    <3>1. CASE Done(j)
      BY <3>1 DEF Done, Goto, Moving, PlainTypes
    <3>2. CASE Note(j, [job[j] EXCEPT !.url = url[job[j].list], !.previous = url[job[j].list]])
      BY <1>2, <3>2 DEF Note, Moving, PlainTypes, Locals
    <3> QED BY <3>1, <3>2 DEF Reread
  <2>2. ~At(j, k) /\ ~At(j, k)'
    BY <1>2, <2>1 DEF At
  <2> QED BY <1>1, <2>2, ElsewhereStays DEF Moving
<1>3. CASE job[j].list = k
  <2>1. At(j, k) /\ pc[j] = "reread" /\ job[j].kind = "poll"
    BY <1>3 DEF At, Moving, Reread, JobInv
  <2>2. \A i \in Jobs \ {j} : ~At(i, k)'
    BY <2>1, AloneWith DEF Moving
  <2>3. Changing(j, k) /\ Sound(k) /\ (k \in managed => Closed(k))
    BY <2>1 DEF ListInv, Changing
  <2>4. Sound(k)' /\ (k \in managed => Closed(k))'
    BY <1>1, <2>3 DEF Sound, Closed
  <2>5. pc'[j] = "save" /\ job'[j] = [job[j] EXCEPT !.url = url[k], !.previous = url[k]]
    BY <1>3 DEF Reread, Note, Goto, Moving, PlainTypes
  <2>6. /\ job'[j].kind = "poll" /\ job'[j].known = job[j].known /\ job'[j].previous = url[k]
        /\ At(j, k)'
    BY <1>3, <2>1, <2>5 DEF Moving, Locals, At
  <2>7. Changing(j, k)'
    BY <1>1, <2>1, <2>3, <2>4, <2>5, <2>6 DEF Changing
  <2> QED BY <2>2, <2>4, <2>6, <2>7, OneAtWork DEF Moving
<1> QED BY <1>2, <1>3

LEMMA SaveKeepsList ==
  ASSUME ConstantsType, NEW j \in Jobs, NEW k \in rows', Moving(j, k), Save(j),
         k \in rows => ListInv(k)
  PROVE  ListInv(k)'
<1> USE DEF ConstantsType
<1>0. /\ UNCHANGED <<channels, hash, managed, audience, named, amiss>>
      /\ pc[j] = "save" /\ pc'[j] = "fetch"
  BY DEF Save, Goto, Moving, PlainTypes, Elsewhere
<1>1. CASE job[j].list # None
  <2>1. /\ job' = job /\ rows' = rows
        /\ url' = [url EXCEPT ![job[j].list] = IF job[j].list \in rows THEN job[j].url ELSE @]
    BY <1>1 DEF Save, shelf
  <2>2. CASE job[j].list # k
    <3>1. url'[k] = url[k] /\ ~At(j, k) /\ ~At(j, k)'
      BY <2>1, <2>2 DEF Moving, PlainTypes, At
    <3> QED BY <1>0, <2>1, <3>1, ElsewhereStays DEF Moving
  <2>3. CASE job[j].list = k
    <3>1. At(j, k) /\ At(j, k)' /\ url'[k] = job[j].url
      BY <1>0, <2>1, <2>3 DEF At, Moving, PlainTypes
    <3>2. \A i \in Jobs \ {j} : ~At(i, k)'
      BY <3>1, AloneWith DEF Moving
    <3>3. job[j].kind \in {"edit", "poll"} /\ job'[j] = job[j]
      BY <1>0, <1>1, <2>1 DEF Moving, JobInv, Locals, Kinds
    <3>4. Changing(j, k) /\ Sound(k) /\ (k \in managed => Closed(k)) /\ url[k] = job[j].previous
      BY <1>0, <2>1, <3>1, <3>3 DEF ListInv, Changing
    <3>5. url[k] # None
      BY <2>1 DEF Moving, IInv, HasAddress
    <3>6. Changing(j, k)'
      BY <1>0, <3>1, <3>3, <3>4, <3>5 DEF Changing, Sound
    <3>7. (k \in managed => Closed(k))'
      BY <1>0, <3>4 DEF Closed
    <3> QED BY <3>1, <3>2, <3>3, <3>6, <3>7, OneAtWork DEF Moving
  <2> QED BY <2>2, <2>3
<1>2. CASE job[j].list = None
  <2>1. PICK new \in Lists \ rows :
          /\ rows' = rows \cup {new} /\ url' = [url EXCEPT ![new] = job[j].url]
          /\ new \notin {job[i].list : i \in Jobs}
          /\ job' = [job EXCEPT ![j] = [job[j] EXCEPT !.list = new]]
    BY <1>2 DEF Save, Note
  <2>2. job'[j] = [job[j] EXCEPT !.list = new]
    BY <2>1 DEF Moving, PlainTypes
  <2>3. /\ job'[j].list = new /\ job'[j].kind = job[j].kind /\ job'[j].url = job[j].url
    BY <2>2 DEF Moving, Locals
  <2>4. CASE k # new
    <3>1. url'[k] = url[k] /\ ~At(j, k) /\ ~At(j, k)' /\ k \in rows
      BY <1>2, <2>1, <2>3, <2>4 DEF Moving, PlainTypes, At
    <3> QED BY <1>0, <3>1, ElsewhereStays DEF Moving
  <2>5. CASE k = new
    <3>1. \A i \in Jobs \ {j} : ~At(i, k)'
      BY <2>1, <2>5 DEF Moving, At
    <3>2. /\ url'[k] = job[j].url /\ channels[k] = None /\ hash[k] = None
          /\ k \notin managed /\ Closed(k)
      BY <2>1, <2>5 DEF Moving, IInv, NothingLeft, PlainTypes, Closed
    <3>3. job[j].kind \in {"add", "provision"}
      BY <1>0, <1>2 DEF Moving, JobInv, Locals, Kinds
    <3>4. Adding(j, k)' /\ At(j, k)'
      BY <1>0, <2>3, <2>5, <3>2 DEF Adding, Closed, At
    <3>5. (k \in managed => Closed(k))'
      BY <1>0, <3>2
    <3> QED BY <2>3, <3>1, <3>3, <3>4, <3>5, OneAtWork DEF Moving
  <2> QED BY <2>4, <2>5
<1> QED BY <1>1, <1>2

LEMMA FetchKeepsList ==
  ASSUME ConstantsType, NEW j \in Jobs, NEW k \in rows, Moving(j, k), Fetch(j), ListInv(k)
  PROVE  ListInv(k)'
<1> USE DEF ConstantsType
<1> DEFINE body == [of |-> job[j].url, version |-> version[job[j].url]]
<1>1. UNCHANGED <<url, channels, hash, managed, audience, named, amiss>> /\ pc[j] = "fetch"
  BY DEF Fetch, rowVars, Elsewhere
<1>2. body # None
  BY <1>1 DEF Moving, JobInv, PlainTypes, Locals, Bodies
<1>3. /\ job'[j].list = job[j].list /\ job'[j].kind = job[j].kind /\ job'[j].url = job[j].url
      /\ job'[j].previous = job[j].previous /\ job'[j].known = job[j].known
      /\ job'[j].was = job[j].was
      /\ \/ pc'[j] = "restore"
         \/ job'[j].body = body /\ pc'[j] = IF job[j].known = body THEN "fresh" ELSE "replace"
  <2>1. CASE Goto(j, "restore") /\ UNCHANGED job
    BY <2>1 DEF Goto, Moving, PlainTypes
  <2>2. CASE Note(j, [job[j] EXCEPT !.body = body])
             /\ Goto(j, IF job[j].known = body THEN "fresh" ELSE "replace")
    <3> HIDE DEF body
    <3>1. job'[j] = [job[j] EXCEPT !.body = body]
      BY <2>2 DEF Note, Moving, PlainTypes
    <3> QED BY <2>2, <3>1 DEF Goto, Moving, PlainTypes, Locals
  <2> QED BY <2>1, <2>2 DEF Fetch
<1> HIDE DEF body
<1>4. CASE job[j].list # k
  <2>1. ~At(j, k) /\ ~At(j, k)'
    BY <1>3, <1>4 DEF At
  <2> QED BY <1>1, <2>1, ElsewhereStays DEF Moving
<1>5. CASE job[j].list = k
  <2>1. At(j, k) /\ At(j, k)'
    BY <1>1, <1>3, <1>5 DEF At
  <2>2. \A i \in Jobs \ {j} : ~At(i, k)'
    BY <2>1, AloneWith DEF Moving
  <2>3. (k \in managed => Closed(k))'
    BY <1>1 DEF ListInv, Closed
  <2>4. CASE job[j].kind \in {"add", "provision"}
    <3>1. Adding(j, k) /\ job[j].known = None
      BY <1>1, <2>1, <2>4 DEF ListInv, Moving, JobInv
    <3>2. Adding(j, k)'
      BY <1>1, <1>2, <1>3, <3>1 DEF Adding, Closed
    <3> QED BY <1>3, <2>1, <2>2, <2>3, <2>4, <3>2, OneAtWork DEF Moving
  <2>5. CASE job[j].kind \notin {"add", "provision"}
    <3>1. Changing(j, k)
      BY <2>1, <2>5 DEF ListInv
    <3>2. /\ url'[k] = url[k] /\ channels'[k] = channels[k] /\ hash'[k] = hash[k]
          /\ amiss'[k] = amiss[k] /\ (k \in managed' <=> k \in managed)
          /\ job[j].known # None => job[j].previous = job[j].url
      BY <1>1 DEF Moving, JobInv
    <3>3. ASSUME pc'[j] \in {"restore", "replace"} PROVE Changing(j, k)'
      BY <1>1, <1>3, <3>1, <3>2, <3>3 DEF Changing
    <3>4. ASSUME pc'[j] = "fresh" PROVE Changing(j, k)'
      <4>1. job'[j].known = job'[j].body /\ job'[j].known = hash[k] /\ job[j].known # None
        BY <1>1, <1>2, <1>3, <3>1, <3>4 DEF Changing
      <4> QED BY <1>1, <1>3, <3>1, <3>2, <3>4, <4>1 DEF Changing, Replaced
    <3>5. Changing(j, k)'
      BY <1>3, <3>3, <3>4
    <3> QED BY <1>3, <2>1, <2>2, <2>3, <2>5, <3>5, OneAtWork DEF Moving
  <2> QED BY <2>4, <2>5
<1> QED BY <1>4, <1>5

LEMMA RestoreKeepsList ==
  ASSUME ConstantsType, NEW j \in Jobs, NEW k \in rows', Moving(j, k), Restore(j),
         k \in rows => ListInv(k)
  PROVE  ListInv(k)'
<1> USE DEF ConstantsType
<1>1. pc[j] = "restore" /\ pc'[j] = "idle" /\ ~At(j, k)' /\ amiss' = amiss
  BY DEF Restore, Done, Goto, Moving, PlainTypes, At, Elsewhere
<1>2. CASE job[j].list # k
  <2>1. /\ k \in rows /\ url'[k] = url[k] /\ channels'[k] = channels[k] /\ hash'[k] = hash[k]
        /\ k \in managed' <=> k \in managed
        /\ audience'[k] = audience[k] /\ named'[k] = named[k]
    <3>1. CASE Drop({job[j].list})
      BY <1>2, <3>1 DEF Drop, Moving, PlainTypes
    <3>2. CASE job[j].previous # None
      BY <1>2, <3>2 DEF Restore, Moving, PlainTypes, shelf
    <3> QED BY <3>1, <3>2 DEF Restore
  <2>2. ~At(j, k)
    BY <1>2 DEF At
  <2> QED BY <1>1, <2>1, <2>2, ElsewhereStays DEF Moving
<1>3. CASE job[j].list = k
  <2>1. job[j].previous # None
    BY <1>3 DEF Restore, Drop
  <2>2. /\ k \in rows /\ UNCHANGED <<channels, hash, managed, audience, named>>
        /\ url'[k] = job[j].previous
    BY <1>3, <2>1 DEF Restore, shelf, Moving, PlainTypes
  <2>3. At(j, k)
    BY <1>1, <1>3 DEF At
  <2>4. \A i \in Jobs \ {j} : ~At(i, k)'
    BY <2>3, AloneWith DEF Moving
  <2>5. Changing(j, k) /\ (k \in managed => Closed(k))
    BY <1>1, <2>1, <2>2, <2>3 DEF ListInv, Moving, JobInv
  <2>6. Sound(k)' /\ (k \in managed => Closed(k))'
    BY <1>1, <2>2, <2>5 DEF Changing, Sound, Closed
  <2> QED BY <1>1, <2>4, <2>6, OneAtWork DEF Moving
<1> QED BY <1>2, <1>3

\* Replace and MarkFresh: the content of the import's list, and where it is.
LEMMA ContentKeepsList ==
  ASSUME ConstantsType, NEW j \in Jobs, NEW k \in rows, Moving(j, k),
         Replace(j) \/ MarkFresh(j), ListInv(k)
  PROVE  ListInv(k)'
<1>1. UNCHANGED <<url, managed, audience, named, job>>
  BY DEF Replace, MarkFresh
<1>2. \/ /\ pc[j] = "replace" /\ pc'[j] = "fresh" /\ hash' = hash /\ amiss' = amiss
         /\ channels' =
              [channels EXCEPT ![job[j].list] = IF job[j].list \in rows THEN job[j].body ELSE @]
      \/ /\ pc[j] = "fresh" /\ pc'[j] = "panel" /\ channels' = channels
         /\ hash' = [hash EXCEPT ![job[j].list] = IF job[j].list \in rows THEN job[j].body ELSE @]
         /\ amiss' = [amiss EXCEPT ![job[j].list] = IF Replaced(j) THEN @ \ {"hash", "channels"}
                                                    ELSE @]
  BY DEF Replace, MarkFresh, Goto, Moving, PlainTypes, Elsewhere
<1>3. CASE job[j].list # k
  <2>1. ~At(j, k) /\ ~At(j, k)' /\ channels'[k] = channels[k] /\ hash'[k] = hash[k]
        /\ amiss'[k] = amiss[k]
    BY <1>1, <1>2, <1>3 DEF At, Moving, PlainTypes
  <2> QED BY <1>1, <2>1, ElsewhereStays DEF Moving
<1>4. CASE job[j].list = k
  <2>1. At(j, k) /\ At(j, k)' /\ job'[j] = job[j]
    BY <1>1, <1>2, <1>4 DEF At
  <2>2. \A i \in Jobs \ {j} : ~At(i, k)'
    BY <2>1, AloneWith DEF Moving
  <2>3. (k \in managed => Closed(k))'
    BY <1>1 DEF ListInv, Closed
  <2>4. \/ /\ pc[j] = "replace" /\ pc'[j] = "fresh" /\ hash'[k] = hash[k]
           /\ channels'[k] = job[j].body /\ amiss'[k] = amiss[k]
        \/ /\ pc[j] = "fresh" /\ pc'[j] = "panel" /\ channels'[k] = channels[k]
           /\ hash'[k] = job[j].body
           /\ amiss'[k] = IF Replaced(j) THEN amiss[k] \ {"hash", "channels"} ELSE amiss[k]
    BY <1>2, <1>4 DEF Moving, PlainTypes
  <2>5. CASE job[j].kind \in {"add", "provision"}
    <3>1. Adding(j, k)
      BY <2>1, <2>5 DEF ListInv
    <3>2. Adding(j, k)'
      BY <1>1, <2>1, <2>4, <3>1 DEF Adding, Closed
    <3> QED BY <2>1, <2>2, <2>3, <2>5, <3>2, OneAtWork DEF Moving
  <2>6. CASE job[j].kind \notin {"add", "provision"}
    <3>1. Changing(j, k)
      BY <2>1, <2>6 DEF ListInv
    <3>2. job[j].body # None /\ job[j].body.of = job[j].url
      BY <2>4 DEF Moving, JobInv
    <3>3. job'[j] = job[j] /\ url'[k] = url[k] /\ (k \in managed' <=> k \in managed)
      BY <1>1
    <3>4. ASSUME pc[j] = "replace" PROVE Changing(j, k)'
      <4>1. /\ pc'[j] = "fresh" /\ hash'[k] = hash[k] /\ amiss'[k] = amiss[k]
            /\ channels'[k] = job[j].body
        BY <2>4, <3>4
      <4> QED BY <3>1, <3>2, <3>3, <3>4, <4>1 DEF Changing
    <3>5. ASSUME pc[j] = "fresh" PROVE Changing(j, k)'
      <4>1. /\ pc'[j] = "panel" /\ hash'[k] = job[j].body /\ channels'[k] = channels[k]
            /\ amiss'[k] = IF Replaced(j) THEN amiss[k] \ {"hash", "channels"} ELSE amiss[k]
        BY <2>4, <3>5
      <4>2. CASE Replaced(j)
        BY <3>1, <3>2, <3>3, <3>5, <4>1, <4>2 DEF Changing
      <4>3. CASE ~Replaced(j)
        BY <3>1, <3>2, <3>3, <3>5, <4>1, <4>3 DEF Changing, Replaced
      <4> QED BY <4>2, <4>3
    <3> QED BY <2>1, <2>2, <2>3, <2>4, <2>6, <3>4, <3>5, OneAtWork DEF Moving
  <2> QED BY <2>5, <2>6
<1> QED BY <1>3, <1>4

LEMMA PanelKeepsList ==
  ASSUME ConstantsType, NEW j \in Jobs, NEW k \in rows, Moving(j, k), AskPanel(j), ListInv(k)
  PROVE  ListInv(k)'
<1> USE DEF ConstantsType
<1>1. UNCHANGED <<url, channels, hash, managed, audience, named, amiss>> /\ pc[j] = "panel"
  BY DEF AskPanel, Elsewhere
<1>2. \/ /\ job[j].kind = "provision" \/ job[j].was = "ours"
         /\ pc'[j] = "own" /\ job' = job
      \/ /\ job[j].kind # "provision" /\ job[j].was # "ours"
         /\ pc'[j] = "idle"
  BY DEF AskPanel, Done, Goto, Moving, PlainTypes
<1>3. CASE job[j].list # k
  <2>1. ~At(j, k) /\ ~At(j, k)'
    BY <1>2, <1>3 DEF At
  <2> QED BY <1>1, <2>1, ElsewhereStays DEF Moving
<1>4. CASE job[j].list = k
  <2>1. At(j, k)
    BY <1>1, <1>4 DEF At
  <2>2. \A i \in Jobs \ {j} : ~At(i, k)'
    BY <2>1, AloneWith DEF Moving
  <2>3. (k \in managed => Closed(k))'
    BY <1>1 DEF ListInv, Closed
  <2>4. job[j].body # None /\ job[j].body.of = job[j].url
    BY <1>1 DEF Moving, JobInv
  <2>5. CASE job[j].kind \in {"add", "provision"}
    <3>1. Adding(j, k)
      BY <2>1, <2>5 DEF ListInv
    <3>2. CASE pc'[j] = "own"
      <4>1. job' = job
        BY <1>2, <3>2
      <4>2. Adding(j, k)' /\ At(j, k)'
        BY <1>1, <1>4, <3>1, <3>2, <4>1 DEF Adding, Closed, At
      <4> QED BY <2>2, <2>3, <2>5, <4>1, <4>2, OneAtWork DEF Moving
    <3>3. CASE pc'[j] = "idle"
      <4>1. job[j].kind = "add"
        BY <1>2, <2>5, <3>3
      <4>2. job[j].url # Line
        BY <1>1, <4>1 DEF Moving, JobInv
      <4>3. Sound(k)' /\ ~At(j, k)'
        BY <1>1, <2>4, <3>1, <3>3, <4>2 DEF Adding, Sound, At
      <4> QED BY <2>2, <2>3, <4>3, OneAtWork DEF Moving
    <3> QED BY <1>2, <3>2, <3>3
  <2>6. CASE job[j].kind \notin {"add", "provision"}
    <3>1. Changing(j, k)
      BY <2>1, <2>6 DEF ListInv
    <3>2. CASE pc'[j] = "own"
      <4>1. job' = job
        BY <1>2, <3>2
      <4>2. Changing(j, k)' /\ At(j, k)'
        BY <1>1, <1>4, <3>1, <3>2, <4>1 DEF Changing, Replaced, At
      <4> QED BY <2>2, <2>3, <2>6, <4>1, <4>2, OneAtWork DEF Moving
    <3>3. CASE pc'[j] = "idle"
      <4>1. "owner" \notin amiss[k] => (k \in managed <=> job[j].url = Line)
        <5>1. CASE job[j].kind = "edit"
          BY <1>1, <1>2, <3>1, <3>3, <5>1 DEF Changing, Moving, JobInv
        <5>2. CASE job[j].kind = "poll"
          BY <1>1, <3>1, <5>2 DEF Changing, Moving, JobInv
        <5> QED BY <2>6, <5>1, <5>2 DEF Moving, Locals, Kinds
      <4>2. Sound(k)' /\ ~At(j, k)'
        BY <1>1, <2>4, <3>1, <3>3, <4>1 DEF Changing, Sound, At
      <4> QED BY <2>2, <2>3, <4>2, OneAtWork DEF Moving
    <3> QED BY <1>2, <3>2, <3>3
  <2> QED BY <2>5, <2>6
<1> QED BY <1>3, <1>4

LEMMA SetManagedKeepsList ==
  ASSUME ConstantsType, NEW j \in Jobs, NEW k \in rows, Moving(j, k), SetManaged(j), ListInv(k)
  PROVE  ListInv(k)'
<1> USE DEF ConstantsType
<1>1. UNCHANGED <<url, channels, hash, audience, named, amiss>> /\ pc[j] = "own" /\ ~At(j, k)'
  BY DEF SetManaged, Elsewhere, Done, Goto, Moving, PlainTypes, At
<1>2. CASE job[j].list # k
  <2>1. ~At(j, k) /\ (k \in managed' <=> k \in managed)
    BY <1>2 DEF At, SetManaged
  <2> QED BY <1>1, <2>1, ElsewhereStays DEF Moving
<1>3. CASE job[j].list = k
  <2>1. At(j, k)
    BY <1>1, <1>3 DEF At
  <2>2. \A i \in Jobs \ {j} : ~At(i, k)'
    BY <2>1, AloneWith DEF Moving
  <2>3. job[j].body # None /\ job[j].body.of = job[j].url
    BY <1>1 DEF Moving, JobInv
  <2>4. CASE job[j].kind = "provision"
    <3>1. Adding(j, k) /\ job[j].url = Line
      BY <1>1, <2>1, <2>4 DEF ListInv, Moving, JobInv
    <3>2. k \in managed'
      BY <1>3, <2>4 DEF SetManaged
    <3>3. Sound(k)' /\ Closed(k)'
      BY <1>1, <2>3, <3>1, <3>2 DEF Adding, Sound, Closed
    <3> QED BY <1>1, <2>2, <3>3, OneAtWork DEF Moving
  <2>5. CASE job[j].kind # "provision"
    <3>1. job[j].kind = "edit" /\ job[j].url \in Own
      BY <1>1, <2>5 DEF Moving, JobInv, Locals, Kinds
    <3>2. Changing(j, k) /\ k \notin managed'
      BY <1>3, <2>1, <2>5, <3>1 DEF ListInv, SetManaged
    <3>3. Sound(k)'
      BY <1>1, <2>3, <3>1, <3>2 DEF Changing, Sound
    <3> QED BY <1>1, <2>2, <3>2, <3>3, OneAtWork DEF Moving
  <2> QED BY <2>4, <2>5
<1> QED BY <1>2, <1>3

\* An import that ends where it is leaves wrong what it had still to write.
LEMMA StopKeepsList ==
  ASSUME ConstantsType, NEW j \in Jobs, NEW k \in rows, Moving(j, k), Stops(j), ListInv(k)
  PROVE  ListInv(k)'
<1> USE DEF ConstantsType
<1>1. UNCHANGED <<url, channels, hash, managed, audience, named>> /\ pc[j] # "idle" /\ ~At(j, k)'
  BY DEF Stops, rowVars, Done, Goto, Moving, PlainTypes, At
<1>2. amiss' = IF job[j].list = None THEN amiss
               ELSE [amiss EXCEPT ![job[j].list] = @ \cup LeavesWrong(j)]
  BY DEF Stops
<1>3. CASE job[j].list # k
  <2>1. ~At(j, k) /\ amiss'[k] = amiss[k]
    BY <1>2, <1>3 DEF At, Moving, PlainTypes
  <2> QED BY <1>1, <2>1, ElsewhereStays DEF Moving
<1>4. CASE job[j].list = k
  <2>1. At(j, k) /\ amiss'[k] = amiss[k] \cup LeavesWrong(j)
    BY <1>1, <1>2, <1>4 DEF At, Moving, PlainTypes
  <2>2. \A i \in Jobs \ {j} : ~At(i, k)'
    BY <2>1, AloneWith DEF Moving
  <2>3. (k \in managed => Closed(k))'
    BY <1>1 DEF ListInv, Closed
  <2> HIDE DEF LeavesWrong
  <2>4. /\ pc[j] = "fresh" /\ Replaced(j) => "hash" \in LeavesWrong(j)
        /\ pc[j] \in {"fetch", "restore", "replace"} /\ job[j].previous # job[j].url
             => "channels" \in LeavesWrong(j)
        /\ pc[j] \in Saved /\ (job[j].kind = "provision" \/ job[j].was = "ours")
             => "owner" \in LeavesWrong(j)
    BY DEF LeavesWrong
  <2>5. JobInv(j) /\ job[j] \in Locals /\ pc[j] \in Steps
    BY DEF Moving, PlainTypes
  <2>6. CASE job[j].kind \in {"add", "provision"}
    <3>1. Adding(j, k) /\ pc[j] \in Saved
      BY <1>1, <1>4, <2>1, <2>5, <2>6 DEF ListInv, JobInv, Steps, Saved, Moving
    <3>2. job[j].previous = None /\ job[j].known = None /\ job[j].url # None
          /\ (job[j].kind = "add" => job[j].url \in Own)
          /\ (pc[j] \in {"fresh", "panel", "own"} =>
                job[j].body # None /\ job[j].body.of = job[j].url)
      BY <1>1, <2>5, <2>6, <3>1 DEF JobInv, Saved
    <3>3. "hash" \notin amiss'[k] => hash[k] = channels[k]
      BY <2>1, <2>4, <3>1, <3>2 DEF Adding, Replaced, Saved
    <3>4. "channels" \notin amiss'[k] => channels[k] # None /\ channels[k].of = url[k]
      BY <2>1, <2>4, <3>1, <3>2 DEF Adding, Saved
    <3>5. "owner" \notin amiss'[k] => (k \in managed <=> url[k] = Line)
      BY <2>1, <2>4, <2>6, <3>1, <3>2 DEF Adding
    <3> QED BY <1>1, <2>2, <2>3, <3>3, <3>4, <3>5, OneAtWork DEF Sound, Moving
  <2>7. CASE job[j].kind \in {"edit", "poll"}
    <3>1. Changing(j, k)
      BY <2>1, <2>7 DEF ListInv
    <3>2. /\ job[j].kind = "edit" => job[j].url \in Own
          /\ job[j].kind = "poll" => job[j].was = "own"
          /\ pc[j] \notin {"idle", "reread"} =>
               /\ job[j].url # None
               /\ job[j].kind = "poll" => job[j].previous = job[j].url
          /\ pc[j] \in {"replace", "fresh", "panel", "own"} =>
               job[j].body # None /\ job[j].body.of = job[j].url
      BY <1>1, <2>5 DEF JobInv
    <3>3. CASE pc[j] \in {"reread", "save"}
      <4>1. Sound(k)
        BY <3>1, <3>3 DEF Changing
      <4>2. Sound(k)'
        BY <1>1, <2>1, <4>1 DEF Sound
      <4> QED BY <1>1, <2>2, <2>3, <4>2, OneAtWork DEF Moving
    <3>4. CASE pc[j] \in Saved
      <4>1. "hash" \notin amiss'[k] => hash[k] = channels[k]
        BY <2>1, <2>4, <3>1, <3>2, <3>4 DEF Changing, Replaced, Saved
      <4>2. "channels" \notin amiss'[k] => channels[k] # None /\ channels[k].of = url[k]
        BY <2>1, <2>4, <3>1, <3>2, <3>4 DEF Changing, Saved
      <4>3. "owner" \notin amiss'[k] => (k \in managed <=> url[k] = Line)
        BY <2>1, <2>4, <2>5, <2>7, <3>1, <3>2, <3>4 DEF Changing, Saved, Locals
      <4> QED BY <1>1, <2>2, <2>3, <4>1, <4>2, <4>3, OneAtWork DEF Sound, Moving
    <3> QED BY <1>1, <2>5, <3>3, <3>4 DEF Steps, Saved
  <2> QED BY <2>5, <2>6, <2>7 DEF Locals, Kinds
<1> QED BY <1>3, <1>4

\* The reader's own doings and the clocks.
LEMMA ReaderKeepsList ==
  ASSUME IInv, PlainTypes, NEW k \in rows' \ disturbed',
         \/ \E l \in Lists : \/ Delete(l) \/ MakePrimary(l) \/ DeleteLapsed(l)
                             \/ \E to \in Audiences : Share(l, to)
                             \/ \E f \in Friends : Grant(l, f) \/ Revoke(l, f)
         \/ ReadLapsed \/ PassLapses \/ (\E u \in Urls : ProviderRewrites(u)) \/ UNCHANGED vars
  PROVE  ListInv(k)'
<1>1. UNCHANGED <<pc, job, amiss>>
  BY ImportsWait DEF Delete, MakePrimary, DeleteLapsed, Share, Grant, Revoke, ReadLapsed,
                     PassLapses, ProviderRewrites, vars, Quiet
<1>2. (\A i \in Jobs : At(i, k)' <=> At(i, k))
      /\ (\A i \in Jobs : pc'[i] = pc[i] /\ job'[i] = job[i])
  BY <1>1 DEF At
<1>3. ASSUME k \in rows, k \notin disturbed, url'[k] = url[k], channels'[k] = channels[k],
             hash'[k] = hash[k], k \in managed' <=> k \in managed, Closed(k) => Closed(k)'
      PROVE  ListInv(k)'
  <2>1. ListInv(k) /\ k \in Lists
    BY <1>3 DEF IInv, PlainTypes
  <2> QED BY <1>1, <1>2, <1>3, <2>1, Frame
<1>4. ASSUME UNCHANGED <<shelf, rowVars>>, disturbed' = disturbed PROVE ListInv(k)'
  <2>1. k \in rows /\ k \notin disturbed
    BY <1>4 DEF shelf
  <2>2. /\ url'[k] = url[k] /\ channels'[k] = channels[k] /\ hash'[k] = hash[k]
        /\ k \in managed' <=> k \in managed
    BY <1>4 DEF rowVars
  <2>3. Closed(k) => Closed(k)'
    BY <1>4 DEF rowVars, Closed
  <2> QED BY <1>3, <2>1, <2>2, <2>3
<1>5. ASSUME NEW l \in Lists, Drop({l}), disturbed' = disturbed PROVE ListInv(k)'
  <2>1. k \in rows /\ k # l /\ k \notin disturbed /\ k \in Lists
    BY <1>5 DEF Drop, PlainTypes
  <2>2. /\ url'[k] = url[k] /\ channels'[k] = channels[k] /\ hash'[k] = hash[k]
        /\ k \in managed' <=> k \in managed
        /\ audience'[k] = audience[k] /\ named'[k] = named[k]
    BY <1>5, <2>1 DEF Drop
  <2> QED BY <1>3, <2>1, <2>2 DEF Closed
<1>6. ASSUME NEW l \in Lists, NEW to \in Audiences, Share(l, to) PROVE ListInv(k)'
  <2>1. /\ UNCHANGED <<url, channels, hash, managed, named>> /\ rows' = rows
        /\ l \notin managed /\ audience' = [audience EXCEPT ![l] = to]
        /\ disturbed' = IF AtWork(l) # {} THEN disturbed \cup {l} ELSE disturbed
    BY <1>6 DEF Share, MarkIfAtWork, shelf
  <2>2. k \in rows /\ k \notin disturbed
    BY <2>1
  <2>3. CASE k # l
    BY <1>3, <2>1, <2>2, <2>3 DEF Closed, PlainTypes
  <2>4. CASE k = l
    <3>1. \A i \in Jobs : ~At(i, k)
      BY <2>1, <2>4 DEF AtWork, At
    <3>2. Sound(k)
      BY <2>2, <3>1 DEF IInv, ListInv
    <3>3. Sound(k)' /\ k \notin managed'
      BY <1>1, <2>1, <2>4, <3>2 DEF Sound
    <3> QED BY <1>2, <3>1, <3>3 DEF ListInv
  <2> QED BY <2>3, <2>4
<1>7. ASSUME NEW l \in Lists, NEW f \in Friends, Grant(l, f) PROVE ListInv(k)'
  <2>1. /\ UNCHANGED <<url, channels, hash, managed, audience>> /\ rows' = rows
        /\ l \notin managed /\ named' = [named EXCEPT ![l] = @ \cup {f}]
        /\ disturbed' = IF AtWork(l) # {} THEN disturbed \cup {l} ELSE disturbed
    BY <1>7 DEF Grant, MarkIfAtWork, shelf
  <2>2. k \in rows /\ k \notin disturbed
    BY <2>1
  <2>3. CASE k # l
    BY <1>3, <2>1, <2>2, <2>3 DEF Closed, PlainTypes
  <2>4. CASE k = l
    <3>1. \A i \in Jobs : ~At(i, k)
      BY <2>1, <2>4 DEF AtWork, At
    <3>2. Sound(k)
      BY <2>2, <3>1 DEF IInv, ListInv
    <3>3. Sound(k)' /\ k \notin managed'
      BY <1>1, <2>1, <2>4, <3>2 DEF Sound
    <3> QED BY <1>2, <3>1, <3>3 DEF ListInv
  <2> QED BY <2>3, <2>4
<1>8. ASSUME NEW l \in Lists, NEW f \in Friends, Revoke(l, f) PROVE ListInv(k)'
  <2>1. /\ UNCHANGED <<url, channels, hash, managed, audience, disturbed>> /\ rows' = rows
        /\ named' = [named EXCEPT ![l] = @ \ {f}]
    BY <1>8 DEF Revoke, shelf
  <2>2. Closed(k) => Closed(k)'
    BY <2>1 DEF Closed, PlainTypes
  <2> QED BY <1>3, <2>1, <2>2
<1>9. ASSUME NEW l \in Lists, MakePrimary(l) PROVE ListInv(k)'
  <2>1. UNCHANGED <<rows, rowVars, disturbed>>
    BY <1>9 DEF MakePrimary
  <2> QED BY <1>3, <2>1 DEF rowVars, Closed
<1>10. ASSUME NEW l \in Lists, Delete(l) \/ DeleteLapsed(l) PROVE ListInv(k)'
  BY <1>4, <1>5, <1>10 DEF Delete, DeleteLapsed
<1>11. ASSUME ReadLapsed \/ PassLapses \/ (\E u \in Urls : ProviderRewrites(u)) \/ UNCHANGED vars
       PROVE  UNCHANGED <<shelf, rowVars>> /\ disturbed' = disturbed
  BY <1>11 DEF ReadLapsed, PassLapses, ProviderRewrites, vars
<1> QED BY <1>4, <1>6, <1>7, <1>8, <1>9, <1>10, <1>11

LEMMA ListsKept ==
  ASSUME ConstantsType, IInv, [Next]_vars
  PROVE  \A k \in rows' \ disturbed' : ListInv(k)'
<1> SUFFICES ASSUME NEW k \in rows' \ disturbed' PROVE ListInv(k)'
  OBVIOUS
<1>0. PlainTypes
  BY TypeOKIs DEF IInv
<1>1. ASSUME NEW j \in Jobs,
             \/ \E u \in Own : BeginAdd(j, u) \/ \E l \in Lists : BeginEdit(j, l, u)
             \/ \E l \in Lists, known \in Bodies \cup {None} : BeginPoll(j, l, known)
             \/ BeginProvision(j)
      PROVE  ListInv(k)'
  BY <1>1, BeginsKeepList
<1>2. ASSUME NEW j \in Jobs,
             \/ Reread(j) \/ Save(j) \/ Fetch(j) \/ Restore(j) \/ Replace(j) \/ MarkFresh(j)
             \/ AskPanel(j) \/ SetManaged(j) \/ Stops(j)
      PROVE  ListInv(k)'
  <2>1. disturbed \subseteq disturbed' /\ pc[j] # "idle"
    BY <1>2 DEF Reread, Save, Fetch, Restore, Replace, MarkFresh, AskPanel, SetManaged, Stops,
                Elsewhere, Around, rowVars
  <2>2. k \in Lists
    BY <1>0, TypesKept DEF IInv, PlainTypes
  <2>3. Moving(j, k)
    BY <1>0, <1>2, <2>1, <2>2, OthersStay DEF Moving, IInv, PlainTypes
  <2>4. k \in rows => ListInv(k)
    BY <2>1 DEF IInv
  <2>5. CASE Save(j)
    BY <2>3, <2>4, <2>5, SaveKeepsList
  <2>6. CASE Restore(j)
    BY <2>3, <2>4, <2>6, RestoreKeepsList
  <2>7. ASSUME ~Save(j), ~Restore(j) PROVE k \in rows
    BY <1>2, <2>7 DEF Reread, Fetch, Replace, MarkFresh, AskPanel, SetManaged, Stops, shelf
  <2> QED
    BY <1>2, <2>3, <2>4, <2>5, <2>6, <2>7, RereadKeepsList, FetchKeepsList, ContentKeepsList,
       PanelKeepsList, SetManagedKeepsList, StopKeepsList
<1> QED
  BY <1>0, <1>1, <1>2, ReaderKeepsList DEF Next

-----------------------------------------------------------------------------
(* The theorems.                                                           *)

LEMMA InitInv ==
  ASSUME ConstantsType, Init
  PROVE  IInv
<1> USE DEF ConstantsType
<1>1. PICK l \in Lists, u \in Own :
        /\ rows = {l} /\ before = {}
        /\ url = [k \in Lists |-> IF k = l THEN u ELSE None]
        /\ channels = [k \in Lists |-> IF k = l THEN [of |-> u, version |-> 0] ELSE None]
        /\ hash = channels /\ panel = url
  BY DEF Init
<1>2. [of |-> u, version |-> 0] \in Bodies /\ u \in Urls
  BY DEF Bodies, Urls
<1>3. PlainTypes
  <2>1. /\ url \in [Lists -> Urls \cup {None}] /\ panel \in [Lists -> Urls \cup {None}]
        /\ channels \in [Lists -> Bodies \cup {None}] /\ hash \in [Lists -> Bodies \cup {None}]
    BY <1>1, <1>2
  <2>2. /\ audience \in [Lists -> Audiences] /\ named \in [Lists -> SUBSET Friends]
        /\ version \in [Urls -> 0 .. MaxVersion]
        /\ pc \in [Jobs -> Steps] /\ job \in [Jobs -> Locals]
        /\ amiss \in [Lists -> SUBSET Wrongs]
    BY NoJobType DEF Init, Audiences, Steps
  <2>3. /\ starts \in 0 .. MaxStarts /\ changes \in 0 .. MaxChanges /\ stops \in 0 .. MaxStops
        /\ managed \subseteq rows /\ doomed \subseteq Lists /\ disturbed \subseteq Lists
        /\ pass \in {"held", "lapsed"}
    BY DEF Init
  <2> QED BY <1>1, <2>1, <2>2, <2>3 DEF PlainTypes
<1>4. Ordered
  BY <1>1 DEF Ordered
<1>5. NothingLeft /\ HasAddress
  BY <1>1, <1>2 DEF NothingLeft, HasAddress, Init
<1>6. \A j \in Jobs : pc[j] = "idle" /\ job[j] = NoJob
  BY DEF Init
<1>7. Lone /\ \A j \in Jobs : JobInv(j)
  BY <1>6 DEF Lone, At, JobInv
<1>8. ASSUME NEW k \in rows \ disturbed PROVE ListInv(k)
  <2>1. Sound(k) /\ Closed(k)
    BY <1>1, <1>2, <1>8 DEF Sound, Closed, Init, Urls
  <2>2. \A j \in Jobs : ~At(j, k)
    BY <1>6 DEF At
  <2> QED BY <2>1, <2>2 DEF ListInv
<1> QED BY <1>3, <1>4, <1>5, <1>7, <1>8, TypeOKIs DEF IInv

LEMMA Invariance == ASSUME ConstantsType PROVE Spec => []IInv
<1>1. IInv /\ [Next]_vars => IInv'
  <2> SUFFICES ASSUME IInv, [Next]_vars PROVE IInv'
    OBVIOUS
  <2>1. PlainTypes /\ Ordered /\ NothingLeft /\ HasAddress /\ Lone
        /\ (\A j \in Jobs : JobInv(j))
    BY TypeOKIs DEF IInv
  <2>2. PlainTypes' /\ Ordered'
    BY <2>1, TypesKept, OrderKept
  <2>3. TypeOK'
    BY <2>2, TypeOKIs, PTL
  <2>4. NothingLeft' /\ HasAddress'
    BY <2>1, RowsKept
  <2>5. Lone' /\ \A j \in Jobs : JobInv(j)'
    BY <2>1, LoneKept, JobsKept
  <2>6. \A k \in rows' \ disturbed' : ListInv(k)'
    BY ListsKept
  <2> QED BY <2>3, <2>4, <2>5, <2>6 DEF IInv
<1>2. Init => IInv
  BY InitInv
<1> QED BY <1>1, <1>2, PTL DEF Spec

\* Rows, imports and the reader's order keep their types, and the order stays one: whatever
\* is added, removed or put first, every two lists are in it one way round.
THEOREM TypeCorrect == ASSUME ConstantsType PROVE Spec => []TypeOK
<1>1. IInv => TypeOK
  BY DEF IInv
<1> QED BY <1>1, Invariance, PTL

\* importPlaylist, its callers and what else is done to a list meanwhile: a list on which no
\* import met another has the channels of its own address and the hash of those very channels,
\* and is ours exactly when it is our line, whatever failed: but for an import that ended where
\* it was, which leaves wrong only what it had still to write, until the list is read anew.
\* Ours is opened to nobody, whatever ended.
THEOREM ListsAreHonest == ASSUME ConstantsType PROVE Spec => []ListsHonest
<1>1. IInv => ListsHonest
  <2> SUFFICES ASSUME IInv PROVE ListsHonest
    OBVIOUS
  <2>1. ASSUME NEW k \in rows \ disturbed, AtWork(k) = {}
        PROVE  Sound(k) /\ (k \in managed => Closed(k))
    <3>1. \A j \in Jobs : ~At(j, k)
      BY <2>1 DEF AtWork, At
    <3> QED BY <2>1, <3>1 DEF IInv, ListInv
  <2>2. HashDescribesChannels /\ ChannelsComeFromAddress
    BY <2>1 DEF HashDescribesChannels, ChannelsComeFromAddress, Right, Sound
  <2>3. ManagedIsOurs
    BY <2>1 DEF ManagedIsOurs, Right, Sound
  <2>4. ManagedStaysClosed
    <3>1. managed \subseteq rows
      BY DEF IInv, TypeOK
    <3> QED BY <2>1, <3>1 DEF ManagedStaysClosed, Closed
  <2> QED BY <2>2, <2>3, <2>4 DEF ListsHonest
<1> QED BY <1>1, Invariance, PTL

-----------------------------------------------------------------------------
(* LiveLine: the stages of a call, what it has read, and what is held as   *)
(* long as calls follow one another.                                       *)

WithLine == {"seal", "save", "extend", "reread", "touch", "list"}
Opening == {"seal", "save"}
Stages == {"idle", "create", "seal", "save", "extend", "reread", "touch", "list"}
Readings == [from : Nat, until : 0 .. MaxEnd, line : L!LineIds \cup {None}, end : Nat]

\* A call past its first decision has a line in hand.
LineKnown == \A c \in Calls : stage[c] \in WithLine => seen[c].line \in L!LineIds

Alone == \A c, d \in Calls : stage[c] # "idle" /\ stage[d] # "idle" => c = d

\* A line that is open is lost, or in the row, or about to be: in the hands of the call
\* that opened it.
Placed ==
  /\ \A l \in orphans : issued[l] > 0
  /\ \A l \in L!LineIds :
       issued[l] > 0 => \/ l \in orphans
                        \/ l = row
                        \/ \E c \in Calls : stage[c] \in Opening /\ seen[c].line = l

\* The row is of a line that is open, and knows how long it lasts unless that is unread.
RowKnown ==
  /\ row # None => /\ row \notin orphans /\ issued[row] > 0
                   /\ rowEnd <= issued[row]
                   /\ row \notin unread => rowEnd = issued[row]
  /\ imported # None => imported = row

Covers(c) == seen[c].until - seen[c].from <= Year => issued[seen[c].line] >= seen[c].until

\* What a call has in hand at each of its steps.
Hand(c) ==
  LET l == seen[c].line IN
  /\ stage[c] = "create" => row = None /\ seen[c].from <= now
  /\ stage[c] \in Opening => /\ row = None /\ l \notin orphans /\ l \notin unread
                             /\ issued[l] > 0 /\ seen[c].end = issued[l] /\ Covers(c)
  /\ stage[c] = "extend" => l = row /\ seen[c].end = rowEnd /\ seen[c].from = rowEnd
  /\ stage[c] = "reread" => l = row /\ Covers(c)
  /\ stage[c] = "touch" => l = row /\ Covers(c) /\ (seen[c].end # 0 => seen[c].end = issued[l])
  /\ stage[c] = "list" => l = row /\ Covers(c)

\* Nothing is known to be unread but what is open.
Held ==
  /\ Alone /\ Placed /\ RowKnown /\ \A c \in Calls : Hand(c)
  /\ \A l \in unread : issued[l] > 0

LineInv == L!TypeOK /\ LineKnown /\ (beside = {} => Held)

-----------------------------------------------------------------------------
(* LiveLine: the arithmetic of the packages.                               *)

\* LiveLine's Cardinality, instanced, is the one the theorems on finite sets are about.
LEMMA SameCount ==
  ASSUME NEW S
  PROVE  L!Cardinality(S) = Cardinality(S)
BY DEF L!Cardinality, Cardinality

\* Max of two numbers.
LEMMA MaxOfTwo ==
  ASSUME NEW a \in Nat, NEW b \in Nat
  PROVE  L!Max({a, b}) \in {a, b} /\ L!Max({a, b}) >= a /\ L!Max({a, b}) >= b
<1>1. \E x \in {a, b} : \A y \in {a, b} : x >= y
  <2>1. CASE a >= b
    BY <2>1
  <2>2. CASE b >= a
    BY <2>2
  <2> QED
    BY <2>1, <2>2
<1> QED
  BY <1>1 DEF L!Max

\* packageCovering: what is bought reaches as far as was asked, if a year does.
LEMMA PackageReaches ==
  ASSUME L!ConstantsType, NEW from \in Nat, NEW until \in Nat, until - from <= Year
  PROVE  from + L!PackageCovering(from, until) >= until
BY DEF L!PackageCovering, L!ConstantsType

LEMMA PackageType ==
  ASSUME L!ConstantsType, NEW from, NEW until
  PROVE  L!PackageCovering(from, until) \in Nat \ {0}
BY DEF L!PackageCovering, L!ConstantsType

-----------------------------------------------------------------------------
(* LiveLine: types.                                                        *)

LEMMA StartsTyped == ASSUME L!ConstantsType, L!Init PROVE LineInv
<1>1. L!TypeOK
  <2>1. L!Nothing \in Readings
    BY DEF L!Nothing, Readings, L!ConstantsType
  <2>2. seen \in [Calls -> Readings] /\ issued \in [L!LineIds -> Nat]
    BY <2>1 DEF L!Init
  <2>3. unlocked \in BOOLEAN
    BY Zenon DEF L!Init
  <2>4. now \in 0 .. MaxTime /\ passEnd \in 0 .. MaxEnd /\ faults \in 0 .. MaxFaults
    BY DEF L!Init, L!ConstantsType
  <2>5. stage \in [Calls -> Stages]
    BY DEF L!Init, Stages
  <2> QED
    BY <2>2, <2>3, <2>4, <2>5 DEF L!Init, L!TypeOK, Readings, Stages
<1>2. LineKnown
  BY DEF L!Init, LineKnown, WithLine
<1>3. Held
  BY DEF L!Init, Held, Alone, Placed, RowKnown, Hand, Opening
<1> QED
  BY <1>1, <1>2, <1>3 DEF LineInv

\* A step of one call that ends it, leaves its hand alone, or gives it another with a line.
LEMMA StaysTyped ==
  ASSUME L!ConstantsType, L!TypeOK, LineKnown, [L!Next]_(L!vars)
  PROVE  L!TypeOK' /\ LineKnown'
<1> USE DEF L!ConstantsType
<1>1. \A c \in Calls : seen[c] \in Readings
  BY DEF L!TypeOK, Readings
<1>2. L!Nothing \in Readings
  BY DEF L!Nothing, Readings
<1>3. L!TypeOK /\ LineKnown
  OBVIOUS
<1>4. ASSUME NEW c \in Calls, L!Begin(c)
      PROVE  L!TypeOK' /\ LineKnown'
  <2> DEFINE what == [from |-> IF row = None THEN now ELSE rowEnd,
                      until |-> passEnd, line |-> row, end |-> rowEnd]
  <2>1. what \in Readings
    BY DEF L!TypeOK, Readings
  <2>2. what.line = row
    OBVIOUS
  <2>3. stage' = [stage EXCEPT ![c] = L!AfterReading(row, rowEnd, passEnd)]
        /\ seen' = [seen EXCEPT ![c] = what]
    BY <1>4 DEF L!Begin, L!Goto, L!See
  <2> HIDE DEF what
  <2>4. L!AfterReading(row, rowEnd, passEnd) \in {"create", "extend", "list"}
        /\ (row = None => L!AfterReading(row, rowEnd, passEnd) = "create")
    BY DEF L!AfterReading
  <2>5. beside' \subseteq Calls
    BY <1>4 DEF L!Begin, L!TypeOK
  <2>6. L!TypeOK'
    BY <1>4, <2>1, <2>3, <2>4, <2>5 DEF L!Begin, L!TypeOK, Readings, L!provider, L!rows
  <2>7. LineKnown'
    BY <2>2, <2>3, <2>4 DEF LineKnown, L!TypeOK, WithLine
  <2> QED
    BY <2>6, <2>7
<1>5. ASSUME NEW c \in Calls, L!Create(c)
      PROVE  L!TypeOK' /\ LineKnown'
  <2> DEFINE end == now + L!PackageCovering(now, seen[c].until)
  <2>1. end \in Nat
    BY PackageType DEF L!TypeOK
  <2> HIDE DEF end
  <2>2. PICK l \in L!LineIds : issued' = [issued EXCEPT ![l] = end]
                               /\ L!See(c, [seen[c] EXCEPT !.line = l, !.end = issued'[l]])
    BY <1>5 DEF L!Create, end
  <2> DEFINE what == [seen[c] EXCEPT !.line = l, !.end = end]
  <2>3. issued' \in [L!LineIds -> Nat] /\ issued'[l] = end
    BY <2>1, <2>2 DEF L!TypeOK
  <2>4. stage' = [stage EXCEPT ![c] = "seal"] /\ seen' = [seen EXCEPT ![c] = what]
    BY <1>5, <2>2, <2>3 DEF L!Create, L!Goto, L!See
  <2>5. what \in Readings /\ what.line = l
    <3>1. seen[c] \in Readings
      BY <1>1
    <3> QED
      BY <2>1, <3>1 DEF Readings
  <2> HIDE DEF what
  <2>6. L!TypeOK'
    BY <1>5, <2>3, <2>4, <2>5 DEF L!Create, L!TypeOK, Readings, L!rows, L!ghosts
  <2>7. LineKnown'
    BY <2>4, <2>5 DEF LineKnown, L!TypeOK, WithLine
  <2> QED
    BY <2>6, <2>7
<1>6. ASSUME NEW c \in Calls, L!Extend(c)
      PROVE  L!TypeOK' /\ LineKnown'
  <2>1. seen[c].line \in L!LineIds
    BY <1>1, <1>6 DEF L!Extend, LineKnown, WithLine
  <2>2. L!Max({issued[seen[c].line], now}) \in Nat
    BY <2>1, MaxOfTwo DEF L!TypeOK
  <2>3. L!PackageCovering(seen[c].end, seen[c].until) \in Nat
    BY PackageType
  <2>4. issued' \in [L!LineIds -> Nat] /\ unread' \subseteq L!LineIds
    BY <1>6, <2>1, <2>2, <2>3 DEF L!Extend, L!TypeOK
  <2> QED
    BY <1>6, <2>4 DEF L!Extend, L!Goto, L!TypeOK, LineKnown, WithLine, L!rows
<1>7. ASSUME NEW c \in Calls, L!ReadBack(c)
      PROVE  L!TypeOK' /\ LineKnown'
  <2>1. seen[c].line \in L!LineIds
    BY <1>1, <1>7 DEF L!ReadBack, LineKnown, WithLine
  <2>2. PICK n \in {0, issued[seen[c].line]} :
          seen' = [seen EXCEPT ![c] = [seen[c] EXCEPT !.end = n]]
    BY <1>7 DEF L!ReadBack, L!See
  <2> DEFINE what == [seen[c] EXCEPT !.end = n]
  <2>3. what \in Readings /\ what.line = seen[c].line
    <3>1. seen[c] \in Readings /\ n \in Nat
      BY <1>1, <2>1 DEF L!TypeOK
    <3> QED
      BY <3>1 DEF Readings
  <2>4. /\ stage' = [stage EXCEPT ![c] = "touch"] /\ seen' = [seen EXCEPT ![c] = what]
        /\ faults' \in 0 .. MaxFaults
    BY <1>7, <2>2 DEF L!ReadBack, L!Goto, L!TypeOK
  <2> HIDE DEF what
  <2>5. L!TypeOK'
    BY <1>7, <2>3, <2>4 DEF L!ReadBack, L!TypeOK, Readings, L!provider, L!rows, L!ghosts
  <2>6. LineKnown'
    BY <1>7, <2>1, <2>3, <2>4 DEF LineKnown, L!TypeOK, WithLine
  <2> QED
    BY <2>5, <2>6
<1>8. ASSUME NEW c \in Calls, L!Save(c) \/ L!Touch(c)
      PROVE  L!TypeOK' /\ LineKnown'
  BY <1>1, <1>8 DEF L!Save, L!Touch, L!Told, L!Goto, L!TypeOK, Readings, LineKnown, WithLine,
                    L!provider, L!ghosts
<1>9. ASSUME NEW c \in Calls, L!Seal(c) \/ L!Import(c) \/ L!Stops(c)
      PROVE  L!TypeOK' /\ LineKnown'
  <2>1. \/ stage' = [stage EXCEPT ![c] = "idle"] /\ seen' = [seen EXCEPT ![c] = L!Nothing]
        \/ /\ stage[c] = "seal" /\ stage' = [stage EXCEPT ![c] = "save"]
           /\ seen' = seen
    BY <1>9 DEF L!Seal, L!Import, L!Stops, L!End, L!Goto
  <2>2. LineKnown'
    BY <2>1 DEF LineKnown, L!TypeOK, WithLine
  <2>3. imported' \in L!LineIds \cup {None}
    BY <1>1, <1>9 DEF L!Seal, L!Import, L!Stops, L!TypeOK, Readings, L!rows
  <2>4. faults' \in 0 .. MaxFaults
    BY <1>9 DEF L!Seal, L!Import, L!Stops, L!TypeOK
  <2>5. orphans' \subseteq L!LineIds
    BY <1>9 DEF L!Seal, L!Import, L!Stops, L!TypeOK, L!ghosts, LineKnown, WithLine
  <2>6. L!TypeOK'
    BY <1>2, <1>9, <2>1, <2>3, <2>4, <2>5
       DEF L!Seal, L!Import, L!Stops, L!TypeOK, Readings, L!provider, L!rows, L!ghosts
  <2> QED
    BY <2>2, <2>6
<1>10. ASSUME NEW days \in Terms, L!BuyPass(days)
       PROVE  L!TypeOK' /\ LineKnown'
  <2>1. L!Max({now, passEnd}) \in Nat
    BY MaxOfTwo DEF L!TypeOK
  <2>2. passEnd' \in 0 .. MaxEnd
    BY <1>10, <2>1 DEF L!BuyPass, L!TypeOK
  <2> QED
    BY <1>10, <2>2 DEF L!BuyPass, L!TypeOK, LineKnown, L!provider, L!ghosts
<1>11. CASE L!Unlock \/ L!Lock \/ L!TakeDown \/ L!Tick
  <2>1. unlocked' \in BOOLEAN
    BY <1>11, Zenon DEF L!Unlock, L!Lock, L!TakeDown, L!Tick, L!TypeOK
  <2>2. now' \in 0 .. MaxTime /\ imported' \in L!LineIds \cup {None}
    BY <1>11 DEF L!Unlock, L!Lock, L!TakeDown, L!Tick, L!TypeOK, L!rows
  <2> QED
    BY <1>11, <2>1, <2>2
       DEF L!Unlock, L!Lock, L!TakeDown, L!Tick, L!TypeOK, LineKnown, L!provider, L!rows, L!ghosts
<1>12. CASE UNCHANGED L!vars
  BY <1>12 DEF L!vars, L!TypeOK, LineKnown, L!provider, L!rows, L!ghosts
<1> QED
  BY <1>4, <1>5, <1>6, <1>7, <1>8, <1>9, <1>10, <1>11, <1>12 DEF L!Next

-----------------------------------------------------------------------------
(* LiveLine: one line, known as it is.                                     *)

\* Calls that have been beside one another stay so.
LEMMA BesideStays ==
  ASSUME [L!Next]_(L!vars)
  PROVE  beside \subseteq beside'
<1>1. ASSUME NEW c \in Calls,
             \/ L!Begin(c) \/ L!Create(c) \/ L!Seal(c) \/ L!Save(c) \/ L!Extend(c)
             \/ L!ReadBack(c) \/ L!Touch(c) \/ L!Import(c) \/ L!Stops(c)
      PROVE  beside \subseteq beside'
  BY <1>1 DEF L!Begin, L!Create, L!Seal, L!Save, L!Extend, L!ReadBack, L!Touch, L!Import, L!Stops,
              L!ghosts
<1>2. CASE (\E days \in Terms : L!BuyPass(days)) \/ L!Unlock \/ L!Lock \/ L!TakeDown \/ L!Tick
           \/ UNCHANGED L!vars
  BY <1>2 DEF L!BuyPass, L!Unlock, L!Lock, L!TakeDown, L!Tick, L!vars, L!ghosts
<1> QED
  BY <1>1, <1>2 DEF L!Next

\* A step of one call, whose new hand is all there is to be looked at.
LEMMA OneCallMoves ==
  ASSUME Held, L!TypeOK, NEW c \in Calls, stage[c] # "idle",
         \A d \in Calls \ {c} : stage'[d] = stage[d]
  PROVE  /\ \A d \in Calls \ {c} : stage[d] = "idle" /\ stage'[d] = "idle"
         /\ Alone'
         /\ Hand(c)' => \A d \in Calls : Hand(d)'
<1>1. \A d \in Calls \ {c} : stage[d] = "idle" /\ stage'[d] = "idle"
  BY DEF Held, Alone
<1>2. Alone'
  BY <1>1 DEF Alone
<1>3. \A d \in Calls \ {c} : Hand(d)'
  BY <1>1 DEF Hand, Opening
<1> QED
  BY <1>1, <1>2, <1>3

LEMMA BeginHolds ==
  ASSUME L!ConstantsType, L!TypeOK, Held, NEW c \in Calls, L!Begin(c), beside' = {}
  PROVE  Held'
<1> DEFINE what == [from |-> IF row = None THEN now ELSE rowEnd,
                    until |-> passEnd, line |-> row, end |-> rowEnd]
           next == L!AfterReading(row, rowEnd, passEnd)
<1>1. \A d \in Calls : stage[d] = "idle"
  BY DEF L!Begin, L!TypeOK
<1>2. stage' = [stage EXCEPT ![c] = next] /\ seen' = [seen EXCEPT ![c] = what]
      /\ UNCHANGED <<now, issued, passEnd, row, rowEnd, imported, orphans, unread>>
  BY DEF L!Begin, L!Goto, L!See, L!provider, L!rows
<1>3. /\ row = None => next = "create"
      /\ row # None /\ rowEnd < passEnd => next = "extend"
      /\ row # None /\ ~(rowEnd < passEnd) => next = "list"
  BY DEF L!AfterReading
<1>4. /\ what.from = IF row = None THEN now ELSE rowEnd
      /\ what.until = passEnd /\ what.line = row /\ what.end = rowEnd
  OBVIOUS
<1> HIDE DEF what, next
<1>5. stage'[c] = next /\ seen'[c] = what /\ \A d \in Calls \ {c} : stage'[d] = "idle"
  BY <1>1, <1>2 DEF L!TypeOK
<1>6. Alone' /\ RowKnown'
  BY <1>2, <1>5 DEF Held, Alone, RowKnown
<1>7. Placed'
  BY <1>1, <1>2, <1>5 DEF Held, Placed, Opening
<1>8. now \in Nat /\ rowEnd \in Nat /\ passEnd \in Nat /\ (row # None => issued[row] \in Nat)
  BY DEF L!TypeOK
<1>9. Hand(c)'
  <2>1. CASE row = None
    BY <1>2, <1>3, <1>4, <1>5, <1>8, <2>1 DEF Hand, Opening
  <2>2. CASE row # None
    <3>1. stage'[c] \in {"extend", "list"} /\ seen'[c].line = row'
          /\ seen'[c].end = rowEnd' /\ seen'[c].from = rowEnd'
      BY <1>2, <1>3, <1>4, <1>5, <2>2
    <3>2. stage'[c] = "list" => issued'[seen'[c].line] >= seen'[c].until
      BY <1>2, <1>3, <1>4, <1>5, <1>8, <2>2 DEF Held, RowKnown
    <3> QED
      BY <3>1, <3>2 DEF Hand, Covers, Opening
  <2> QED
    BY <2>1, <2>2
<1>10. \A d \in Calls : Hand(d)'
  BY <1>5, <1>9 DEF Hand, Opening
<1> QED
  BY <1>2, <1>6, <1>7, <1>10 DEF Held

LEMMA CreateHolds ==
  ASSUME L!ConstantsType, L!TypeOK, Held, NEW c \in Calls, L!Create(c)
  PROVE  Held'
<1> DEFINE end == now + L!PackageCovering(now, seen[c].until)
<1>1. seen[c] \in Readings /\ now \in Nat /\ end \in Nat /\ end > 0
  <2>1. seen[c] \in Readings /\ now \in Nat
    BY DEF L!TypeOK, Readings
  <2>2. L!PackageCovering(now, seen[c].until) \in Nat \ {0}
    BY PackageType
  <2> QED
    BY <2>1, <2>2
<1>2. stage[c] = "create" /\ row = None /\ seen[c].from <= now
  BY DEF L!Create, Held, Hand
<1>3. seen[c].until - seen[c].from <= Year => end >= seen[c].until
  <2>1. seen[c].from \in Nat /\ seen[c].until \in Nat
    BY <1>1 DEF Readings
  <2>2. seen[c].until - seen[c].from <= Year => seen[c].until - now <= Year
    BY <1>1, <1>2, <2>1 DEF L!ConstantsType
  <2> QED
    BY <1>1, <2>1, <2>2, PackageReaches
<1> HIDE DEF end
<1>4. PICK l \in L!LineIds : /\ issued[l] = 0 /\ issued' = [issued EXCEPT ![l] = end]
                             /\ L!See(c, [seen[c] EXCEPT !.line = l, !.end = issued'[l]])
  BY DEF L!Create, end
<1>5. issued'[l] = end /\ \A k \in L!LineIds : k # l => issued'[k] = issued[k]
  BY <1>4 DEF L!TypeOK
<1> DEFINE what == [seen[c] EXCEPT !.line = l, !.end = end]
<1>6. stage' = [stage EXCEPT ![c] = "seal"] /\ seen' = [seen EXCEPT ![c] = what]
      /\ UNCHANGED <<now, passEnd, row, rowEnd, imported, orphans, unread>>
  BY <1>4, <1>5 DEF L!Create, L!Goto, L!See, L!rows, L!ghosts
<1>7. what.line = l /\ what.end = end /\ what.from = seen[c].from /\ what.until = seen[c].until
  BY <1>1, <1>4 DEF Readings
<1> HIDE DEF what
<1>8. stage'[c] = "seal" /\ seen'[c] = what /\ \A d \in Calls \ {c} : stage'[d] = stage[d]
  BY <1>6 DEF L!TypeOK
<1>9. \A d \in Calls \ {c} : stage[d] = "idle" /\ stage'[d] = "idle"
  BY <1>2, <1>8, OneCallMoves
<1>10. l \notin orphans /\ l \notin unread
  BY <1>4 DEF Held, Placed, L!TypeOK
<1>11. Hand(c)'
  BY <1>1, <1>2, <1>3, <1>5, <1>6, <1>7, <1>8, <1>10 DEF Hand, Covers, Opening
<1>12. Placed'
  <2>1. \A k \in orphans' : issued'[k] > 0
    BY <1>5, <1>6, <1>10 DEF Held, Placed, L!TypeOK
  <2>2. ASSUME NEW k \in L!LineIds, k # l, issued'[k] > 0 PROVE k \in orphans'
    BY <1>2, <1>5, <1>6, <1>9, <2>2 DEF Held, Placed, Opening, L!TypeOK, L!ConstantsType
  <2>3. stage'[c] \in Opening /\ seen'[c].line = l
    BY <1>7, <1>8 DEF Opening
  <2> QED
    BY <2>1, <2>2, <2>3 DEF Placed
<1>13. RowKnown' /\ \A k \in unread' : issued'[k] > 0
  BY <1>2, <1>5, <1>6, <1>10 DEF Held, RowKnown, L!TypeOK
<1> QED
  BY <1>2, <1>8, <1>11, <1>12, <1>13, OneCallMoves DEF Held

\* A call that ends before it has saved its line loses it.
LEMMA EndHolds ==
  ASSUME L!TypeOK, LineKnown, Held, NEW c \in Calls, L!Seal(c) \/ L!Stops(c)
  PROVE  Held'
<1>1. UNCHANGED <<now, issued, passEnd, row, rowEnd, imported, unread>> /\ stage[c] # "idle"
  BY DEF L!Seal, L!Stops, L!provider, L!rows
<1>2. CASE stage' = [stage EXCEPT ![c] = "save"] /\ stage[c] = "seal" /\ UNCHANGED <<seen, orphans>>
  <2>1. stage'[c] = "save" /\ \A d \in Calls \ {c} : stage'[d] = stage[d]
    BY <1>2 DEF L!TypeOK
  <2>2. Hand(c)'
    BY <1>1, <1>2, <2>1 DEF Held, Hand, Covers, Opening
  <2>3. Placed'
    BY <1>1, <1>2, <2>1 DEF Held, Placed, Opening
  <2>4. RowKnown'
    BY <1>1, <1>2 DEF Held, RowKnown
  <2> QED
    BY <1>1, <2>1, <2>2, <2>3, <2>4, OneCallMoves DEF Held
<1>3. CASE /\ stage' = [stage EXCEPT ![c] = "idle"]
           /\ orphans' = IF stage[c] \in Opening THEN orphans \cup {seen[c].line} ELSE orphans
  <2>1. stage'[c] = "idle" /\ \A d \in Calls \ {c} : stage'[d] = stage[d]
    BY <1>3 DEF L!TypeOK
  <2>2. Hand(c)'
    BY <2>1 DEF Hand, Opening
  <2>3. \A d \in Calls \ {c} : stage[d] = "idle"
    BY <1>1, <2>1, OneCallMoves
  <2>4. stage[c] \in Opening => row = None /\ issued[seen[c].line] > 0
    BY DEF Held, Hand
  <2>5. Placed'
    BY <1>1, <1>3, <2>3, <2>4 DEF Held, Placed, Opening
  <2>6. RowKnown'
    BY <1>1, <1>3, <2>4 DEF Held, RowKnown
  <2> QED
    BY <1>1, <2>1, <2>2, <2>5, <2>6, OneCallMoves DEF Held
<1> QED
  BY <1>2, <1>3 DEF L!Seal, L!Stops, L!End, L!Goto, Opening

LEMMA SaveHolds ==
  ASSUME L!ConstantsType, L!TypeOK, LineKnown, Held, NEW c \in Calls, L!Save(c)
  PROVE  Held'
<1> DEFINE l == seen[c].line
<1>1. stage[c] = "save" /\ l \in L!LineIds
  BY DEF L!Save, LineKnown, WithLine
<1>2. /\ row = None /\ l \notin orphans /\ l \notin unread
      /\ issued[l] > 0 /\ seen[c].end = issued[l] /\ Covers(c)
  BY <1>1 DEF Held, Hand, Opening
<1>3. stage' = [stage EXCEPT ![c] = "list"] /\ row' = l /\ rowEnd' = issued[l]
      /\ UNCHANGED <<now, issued, passEnd, imported, seen, orphans, unread>>
  BY <1>2 DEF L!Save, L!Goto, L!provider, L!ghosts
<1>4. stage'[c] = "list" /\ \A d \in Calls \ {c} : stage'[d] = stage[d]
  BY <1>3 DEF L!TypeOK
<1>5. Hand(c)'
  BY <1>2, <1>3, <1>4 DEF Hand, Covers, Opening
<1>6. \A d \in Calls \ {c} : stage[d] = "idle"
  BY <1>1, <1>4, OneCallMoves
<1>7. Placed'
  <2>1. ASSUME NEW k \in L!LineIds, issued'[k] > 0 PROVE k \in orphans' \/ k = row'
    <3>1. k # None
      BY DEF L!ConstantsType
    <3> QED
      BY <1>1, <1>2, <1>3, <1>6, <2>1, <3>1 DEF Held, Placed, Opening
  <2> QED
    BY <1>3, <2>1 DEF Held, Placed
<1>8. RowKnown'
  <2>1. issued[l] \in Nat
    BY <1>1 DEF L!TypeOK
  <2>2. imported = None
    BY <1>2 DEF Held, RowKnown
  <2> QED
    BY <1>2, <1>3, <2>1, <2>2 DEF RowKnown
<1> QED
  BY <1>1, <1>3, <1>4, <1>5, <1>7, <1>8, OneCallMoves DEF Held

LEMMA ExtendHolds ==
  ASSUME L!ConstantsType, L!TypeOK, LineKnown, Held, NEW c \in Calls, L!Extend(c)
  PROVE  Held'
<1> DEFINE l == seen[c].line
           end == L!Max({issued[l], now}) + L!PackageCovering(rowEnd, seen[c].until)
<1>1. stage[c] = "extend" /\ l \in L!LineIds
  BY DEF L!Extend, LineKnown, WithLine
<1>2. l = row /\ seen[c].end = rowEnd /\ seen[c].from = rowEnd /\ row # None
  BY <1>1 DEF Held, Hand, L!ConstantsType
<1>3. issued[l] \in Nat /\ now \in Nat /\ rowEnd \in Nat /\ seen[c].until \in Nat
      /\ rowEnd <= issued[l] /\ issued[l] > 0 /\ l \notin orphans
  BY <1>1, <1>2 DEF L!TypeOK, Held, RowKnown
<1>4. L!Max({issued[l], now}) \in Nat /\ L!Max({issued[l], now}) >= issued[l]
  BY <1>3, MaxOfTwo
<1>5. L!PackageCovering(rowEnd, seen[c].until) \in Nat \ {0}
  BY PackageType
<1>6. seen[c].until - rowEnd <= Year =>
        rowEnd + L!PackageCovering(rowEnd, seen[c].until) >= seen[c].until
  BY <1>3, PackageReaches
<1>7. end \in Nat /\ end >= issued[l] /\ (seen[c].until - rowEnd <= Year => end >= seen[c].until)
  BY <1>3, <1>4, <1>5, <1>6
<1>8. issued' = [issued EXCEPT ![l] = end]
  BY <1>2 DEF L!Extend
<1> HIDE DEF end
<1>9. /\ issued'[l] = end /\ \A k \in L!LineIds : k # l => issued'[k] = issued[k]
      /\ \A k \in L!LineIds : issued'[k] > 0 <=> issued[k] > 0
  BY <1>1, <1>3, <1>7, <1>8 DEF L!TypeOK
<1>10. stage' = [stage EXCEPT ![c] = "reread"] /\ unread' = unread \cup {l}
       /\ UNCHANGED <<now, passEnd, row, rowEnd, imported, seen, orphans>>
  BY DEF L!Extend, L!Goto, L!rows
<1>11. stage'[c] = "reread" /\ \A d \in Calls \ {c} : stage'[d] = stage[d]
  BY <1>10 DEF L!TypeOK
<1>12. Hand(c)'
  BY <1>2, <1>7, <1>9, <1>10, <1>11 DEF Hand, Covers, Opening
<1>13. \A d \in Calls \ {c} : stage[d] = "idle"
  BY <1>1, <1>11, OneCallMoves
<1>14. Placed'
  BY <1>1, <1>9, <1>10, <1>13 DEF Held, Placed, Opening, L!TypeOK
<1>15. RowKnown'
  BY <1>2, <1>3, <1>7, <1>9, <1>10 DEF Held, RowKnown
<1>16. \A k \in unread' : issued'[k] > 0
  BY <1>1, <1>3, <1>9, <1>10 DEF Held, L!TypeOK
<1> QED
  BY <1>1, <1>11, <1>12, <1>14, <1>15, <1>16, OneCallMoves DEF Held

LEMMA ReadBackHolds ==
  ASSUME L!TypeOK, LineKnown, Held, NEW c \in Calls, L!ReadBack(c)
  PROVE  Held'
<1>1. stage[c] = "reread" /\ seen[c].line = row /\ Covers(c) /\ seen[c] \in Readings
  BY DEF L!ReadBack, Held, Hand, L!TypeOK, Readings
<1>2. PICK n \in {0, issued[row]} : seen' = [seen EXCEPT ![c] = [seen[c] EXCEPT !.end = n]]
  BY <1>1 DEF L!ReadBack, L!See
<1>3. stage' = [stage EXCEPT ![c] = "touch"]
      /\ UNCHANGED <<now, issued, passEnd, row, rowEnd, imported, orphans, unread>>
  BY DEF L!ReadBack, L!Goto, L!provider, L!rows, L!ghosts
<1>4. stage'[c] = "touch" /\ seen'[c] = [seen[c] EXCEPT !.end = n]
      /\ \A d \in Calls \ {c} : stage'[d] = stage[d]
  BY <1>2, <1>3 DEF L!TypeOK
<1>5. seen'[c].end = n /\ seen'[c].line = row /\ seen'[c].from = seen[c].from
      /\ seen'[c].until = seen[c].until
  BY <1>1, <1>4 DEF Readings
<1>6. Hand(c)'
  BY <1>1, <1>2, <1>3, <1>4, <1>5 DEF Hand, Covers, Opening
<1>7. \A d \in Calls \ {c} : stage[d] = "idle"
  BY <1>1, <1>4, OneCallMoves
<1>8. Placed'
  BY <1>1, <1>3, <1>7 DEF Held, Placed, Opening
<1>9. RowKnown'
  BY <1>3 DEF Held, RowKnown
<1> QED
  BY <1>1, <1>3, <1>4, <1>6, <1>8, <1>9, OneCallMoves DEF Held

LEMMA TouchHolds ==
  ASSUME L!ConstantsType, L!TypeOK, LineKnown, Held, NEW c \in Calls, L!Touch(c)
  PROVE  Held'
<1>1. stage[c] = "touch" /\ seen[c].line = row /\ row \in L!LineIds /\ Covers(c)
      /\ (seen[c].end # 0 => seen[c].end = issued[row])
  BY DEF L!Touch, Held, Hand, LineKnown, WithLine
<1>2. stage' = [stage EXCEPT ![c] = "list"]
      /\ UNCHANGED <<now, issued, passEnd, row, imported, seen, orphans>>
      /\ rowEnd' = (IF seen[c].end # 0 THEN issued[row] ELSE rowEnd)
      /\ unread' = (IF seen[c].end # 0 THEN unread \ {row} ELSE unread)
  BY <1>1 DEF L!Touch, L!Told, L!Goto, L!provider
<1>3. stage'[c] = "list" /\ \A d \in Calls \ {c} : stage'[d] = stage[d]
  BY <1>2 DEF L!TypeOK
<1>4. Hand(c)'
  BY <1>1, <1>2, <1>3 DEF Hand, Covers, Opening
<1>5. \A d \in Calls \ {c} : stage[d] = "idle"
  BY <1>1, <1>3, OneCallMoves
<1>6. Placed'
  BY <1>1, <1>2, <1>5 DEF Held, Placed, Opening
<1>7. RowKnown'
  <2>1. issued[row] \in Nat /\ row # None
    BY <1>1 DEF L!TypeOK, L!ConstantsType
  <2> QED
    BY <1>2, <2>1 DEF Held, RowKnown
<1>8. \A k \in unread' : issued'[k] > 0
  BY <1>2 DEF Held
<1> QED
  BY <1>1, <1>3, <1>4, <1>6, <1>7, <1>8, OneCallMoves DEF Held

LEMMA ImportHolds ==
  ASSUME L!TypeOK, LineKnown, Held, NEW c \in Calls, L!Import(c)
  PROVE  Held'
<1>1. stage[c] = "list" /\ seen[c].line = row
  BY DEF L!Import, Held, Hand
<1>2. stage' = [stage EXCEPT ![c] = "idle"] /\ imported' \in {imported, row}
      /\ UNCHANGED <<now, issued, passEnd, row, rowEnd, orphans, unread>>
  BY <1>1 DEF L!Import, L!End, L!Goto, L!provider, L!ghosts
<1>3. stage'[c] = "idle" /\ \A d \in Calls \ {c} : stage'[d] = stage[d]
  BY <1>2 DEF L!TypeOK
<1>4. Hand(c)'
  BY <1>3 DEF Hand, Opening
<1>5. \A d \in Calls \ {c} : stage[d] = "idle"
  BY <1>1, <1>3, OneCallMoves
<1>6. Placed'
  BY <1>1, <1>2, <1>5 DEF Held, Placed, Opening
<1>7. RowKnown'
  BY <1>2 DEF Held, RowKnown
<1> QED
  BY <1>1, <1>2, <1>3, <1>4, <1>6, <1>7, OneCallMoves DEF Held

LEMMA StaysHeld ==
  ASSUME L!ConstantsType, LineInv, [L!Next]_(L!vars), beside' = {}
  PROVE  Held'
<1>1. L!TypeOK /\ LineKnown /\ Held
  BY BesideStays DEF LineInv
<1>2. ASSUME NEW c \in Calls,
             \/ L!Begin(c) \/ L!Create(c) \/ L!Seal(c) \/ L!Save(c) \/ L!Extend(c)
             \/ L!ReadBack(c) \/ L!Touch(c) \/ L!Import(c) \/ L!Stops(c)
      PROVE  Held'
  BY <1>1, <1>2, BeginHolds, CreateHolds, EndHolds, SaveHolds, ExtendHolds, ReadBackHolds,
     TouchHolds, ImportHolds
<1>3. CASE \/ (\E days \in Terms : L!BuyPass(days)) \/ L!Unlock \/ L!Lock \/ L!TakeDown \/ L!Tick
           \/ UNCHANGED L!vars
  <2>1. UNCHANGED <<issued, row, rowEnd, stage, seen, orphans, unread>>
        /\ imported' \in {imported, None}
    BY <1>3 DEF L!BuyPass, L!Unlock, L!Lock, L!TakeDown, L!Tick, L!vars, L!provider, L!rows,
                L!ghosts
  <2>2. now \in Nat /\ (now' = now \/ now' = now + 1)
    BY <1>1, <1>3 DEF L!BuyPass, L!Unlock, L!Lock, L!TakeDown, L!Tick, L!vars, L!TypeOK
  <2>3. \A c \in Calls : seen[c].from \in Nat
    BY <1>1 DEF L!TypeOK
  <2>4. \A c \in Calls : Hand(c)'
    BY <1>1, <2>1, <2>2, <2>3 DEF Held, Hand, Covers
  <2>5. Alone' /\ Placed' /\ RowKnown'
    BY <1>1, <2>1 DEF Held, Alone, Placed, RowKnown
  <2> QED
    BY <1>1, <2>1, <2>4, <2>5 DEF Held
<1> QED
  BY <1>2, <1>3 DEF L!Next

-----------------------------------------------------------------------------
(* LiveLine: the theorems.                                                 *)

LEMMA LineInvariance == ASSUME L!ConstantsType PROVE L!Spec => []LineInv
<1>1. L!Init => LineInv
  BY StartsTyped
<1>2. LineInv /\ [L!Next]_(L!vars) => LineInv'
  <2> SUFFICES ASSUME LineInv, [L!Next]_(L!vars) PROVE LineInv'
    OBVIOUS
  <2>1. L!TypeOK' /\ LineKnown'
    BY StaysTyped DEF LineInv
  <2>2. beside' = {} => Held'
    BY StaysHeld
  <2> QED
    BY <2>1, <2>2 DEF LineInv
<1> QED
  BY <1>1, <1>2, PTL DEF L!Spec

\* Every step of ensureLine, whoever else is in it, keeps the rows and what a call has
\* read of their types.
THEOREM LineTypeCorrect == ASSUME L!ConstantsType PROVE L!Spec => []L!TypeOK
<1>1. LineInv => L!TypeOK
  BY DEF LineInv
<1> QED
  BY <1>1, LineInvariance, PTL

\* Calls of ensureLine that come one after another, in any number, each ending at any of its
\* steps, with the provider's effect kept or not, and the vault locking under any: beside the
\* lines that were opened and never saved there is one, and the row and the list are of it;
\* the row never promises more than the provider, and knows what was read back; and a call
\* that gets as far as the list has a line that covers the pass.
THEOREM OneLineIsHeld == ASSUME L!ConstantsType PROVE L!Spec => []L!LineHeld
<1>1. ASSUME LineInv PROVE L!LineHeld
  <2>1. L!TypeOK /\ LineKnown /\ (beside = {} => Held)
    BY <1>1 DEF LineInv
  <2>2. L!OneLine
    <3> SUFFICES ASSUME beside = {}
                 PROVE  /\ L!Cardinality(L!Lines \ orphans) <= 1
                        /\ row # None => row \in L!Lines \ orphans
                        /\ imported # None => imported = row
      BY DEF L!OneLine
    <3>1. Held
      BY <2>1
    <3>2. \A k, l \in L!Lines \ orphans : k = l
      BY <2>1, <3>1 DEF Held, Placed, Alone, Hand, Opening, L!Lines, L!ConstantsType
    <3>3. \E S : L!Lines \ orphans \subseteq {S}
      BY <3>2
    <3>4. Cardinality(L!Lines \ orphans) <= 1
      <4>1. PICK S : L!Lines \ orphans \subseteq {S}
        BY <3>3
      <4>2. IsFiniteSet({S}) /\ Cardinality({S}) = 1
        BY FS_Singleton
      <4> QED
        BY <4>1, <4>2, FS_Subset
    <3>5. row # None => row \in L!Lines \ orphans
      BY <2>1, <3>1 DEF Held, RowKnown, L!Lines, L!TypeOK
    <3> QED
      BY <3>1, <3>4, <3>5, SameCount DEF Held, RowKnown
  <2>3. L!RowKnowsLine
    BY <2>1 DEF L!RowKnowsLine, Held, RowKnown
  <2>4. L!LineCovers
    BY <2>1 DEF L!LineCovers, Held, Hand, Covers
  <2> QED
    BY <2>2, <2>3, <2>4 DEF L!LineHeld
<1> QED
  BY <1>1, LineInvariance, PTL

-----------------------------------------------------------------------------
(* What is known of channels: Channels.                                    *)

\* A verdict that a body, a status or a declared type gives of a row, or the player's refusal.
Proved(live, saw, r) ==
  IF live THEN saw = "stream" \/ (saw \in {"declared", "cut"} /\ Header[r] \in {"video", "hls"})
  ELSE \/ saw \in {"page", "gone"}
       \/ saw \in {"declared", "cut"} /\ Header[r] \notin {"video", "hls", "other"}
       \/ saw = "unplayable" /\ Header[r] = "hls"

\* A request's locals are there, each with its name.
Whole(locals) ==
  locals \in [kind : {locals.kind}, row : {locals.row}, rest : {locals.rest},
              saw : {locals.saw}, heard : {locals.heard}]

\* What a request reads is a body, and what it has heard is a verdict that is proved, or none.
ProbeInv == \A c \in Checks :
  /\ Whole(check[c])
  /\ asking[c] = "reading" => check[c].saw \in {"stream", "page", "silent"}
  /\ asking[c] = "heard" =>
       \E live, definitive \in BOOLEAN :
         /\ check[c].heard = [live |-> live, definitive |-> definitive]
         /\ live \/ definitive => Proved(live, check[c].saw, check[c].row)

VerdictsInv ==
  /\ DOMAIN check = Checks /\ DOMAIN basis = Rows
  /\ C!TypeOK /\ ProbeInv /\ C!VerdictsEarned

\* What is asked next is another row, of which nothing is known yet.
LEMMA AskedIsWhole ==
  ASSUME NEW c \in Checks, NEW locals, Whole(locals), DOMAIN check = Checks,
         asking \in [Checks -> {"idle", "looking", "asked", "reading", "heard"}],
         ProbeInv, C!Ask(c, locals)
  PROVE  /\ asking' \in [Checks -> {"idle", "looking", "asked", "reading", "heard"}]
         /\ DOMAIN check' = Checks /\ ProbeInv'
<1>1. /\ asking' = [asking EXCEPT ![c] = "asked"]
      /\ check' = [check EXCEPT ![c] = [locals EXCEPT !.saw = None, !.heard = None]]
  BY DEF C!Ask
<1>2. Whole([locals EXCEPT !.saw = None, !.heard = None])
  BY DEF Whole
<1>3. asking'[c] = "asked" /\ Whole(check'[c])
  BY <1>1, <1>2
<1>4. \A d \in Checks : d # c => asking'[d] = asking[d] /\ check'[d] = check[d]
  BY <1>1
<1>5. /\ asking' \in [Checks -> {"idle", "looking", "asked", "reading", "heard"}]
      /\ DOMAIN check' = Checks
  BY <1>1
<1>6. ASSUME NEW d \in Checks
      PROVE  /\ Whole(check'[d])
             /\ asking'[d] = "reading" => check'[d].saw \in {"stream", "page", "silent"}
             /\ asking'[d] = "heard" =>
                  \E l, f \in BOOLEAN :
                    /\ check'[d].heard = [live |-> l, definitive |-> f]
                    /\ l \/ f => Proved(l, check'[d].saw, check'[d].row)
  <2>1. CASE d = c
    BY <1>3, <2>1
  <2>2. CASE d # c
    BY <1>4, <2>2 DEF ProbeInv
  <2> QED
    BY <2>1, <2>2
<1> QED
  BY <1>5, <1>6 DEF ProbeInv, Proved

\* A request that ends has nothing left to write.
LEMMA EndedIsWhole ==
  ASSUME NEW c \in Checks, DOMAIN check = Checks,
         asking \in [Checks -> {"idle", "looking", "asked", "reading", "heard"}],
         ProbeInv, C!Idle(c)
  PROVE  /\ asking' \in [Checks -> {"idle", "looking", "asked", "reading", "heard"}]
         /\ DOMAIN check' = Checks /\ ProbeInv'
<1>1. asking' = [asking EXCEPT ![c] = "idle"] /\ check' = [check EXCEPT ![c] = C!NoCheck]
  BY DEF C!Idle
<1>2. Whole(C!NoCheck)
  BY DEF Whole, C!NoCheck
<1>3. asking'[c] = "idle" /\ check'[c] = C!NoCheck
  BY <1>1
<1>4. \A d \in Checks : d # c => asking'[d] = asking[d] /\ check'[d] = check[d]
  BY <1>1
<1> QED
  BY <1>1, <1>2, <1>3, <1>4 DEF ProbeInv

\* What is heard is written down with what it was heard of.
LEMMA HeardIsWhole ==
  ASSUME NEW c \in Checks, NEW saw, NEW live \in BOOLEAN, NEW definitive \in BOOLEAN,
         live \/ definitive => Proved(live, saw, check[c].row), DOMAIN check = Checks,
         asking \in [Checks -> {"idle", "looking", "asked", "reading", "heard"}],
         ProbeInv, C!Heard(c, saw, live, definitive)
  PROVE  /\ asking' \in [Checks -> {"idle", "looking", "asked", "reading", "heard"}]
         /\ DOMAIN check' = Checks /\ ProbeInv'
<1>1. /\ asking' = [asking EXCEPT ![c] = "heard"]
      /\ check' = [check EXCEPT ![c].saw = saw,
                                ![c].heard = [live |-> live, definitive |-> definitive]]
  BY DEF C!Heard
<1>2. Whole(check[c])
  BY DEF ProbeInv
<1>3. /\ asking'[c] = "heard" /\ Whole(check'[c]) /\ check'[c].row = check[c].row
      /\ check'[c].saw = saw
      /\ check'[c].heard = [live |-> live, definitive |-> definitive]
  BY <1>1, <1>2 DEF Whole
<1>4. \A d \in Checks : d # c => asking'[d] = asking[d] /\ check'[d] = check[d]
  BY <1>1
<1>5. DOMAIN check' = Checks
  BY <1>1
<1>6. asking' \in [Checks -> {"idle", "looking", "asked", "reading", "heard"}]
  BY <1>1
<1>7. ASSUME NEW d \in Checks
      PROVE  /\ Whole(check'[d])
             /\ asking'[d] = "reading" => check'[d].saw \in {"stream", "page", "silent"}
             /\ asking'[d] = "heard" =>
                  \E l, f \in BOOLEAN :
                    /\ check'[d].heard = [live |-> l, definitive |-> f]
                    /\ l \/ f => Proved(l, check'[d].saw, check'[d].row)
  <2>1. CASE d = c
    BY <1>3, <2>1
  <2>2. CASE d # c
    BY <1>4, <2>2 DEF ProbeInv
  <2> QED
    BY <2>1, <2>2
<1> QED
  BY <1>5, <1>6, <1>7 DEF ProbeInv, Proved

\* Every step of a probe, and of what is around it.
LEMMA ProbesKept ==
  ASSUME DOMAIN check = Checks, C!TypeOK, ProbeInv, [C!Next]_(C!vars)
  PROVE  /\ asking' \in [Checks -> {"idle", "looking", "asked", "reading", "heard"}]
         /\ DOMAIN check' = Checks /\ ProbeInv'
<1> DEFINE CheckStages == {"idle", "looking", "asked", "reading", "heard"}
           Kept == asking' \in [Checks -> CheckStages] /\ DOMAIN check' = Checks /\ ProbeInv'
<1>0. asking \in [Checks -> CheckStages]
  BY DEF C!TypeOK
<1>1. ASSUME NEW c \in Checks, NEW r \in Rows, C!CheckOwn(c, r)
      PROVE  Kept
  <2>1. /\ asking' = [asking EXCEPT ![c] = "looking"]
        /\ check' = [check EXCEPT ![c] = [C!NoCheck EXCEPT !.row = r]]
    BY <1>1 DEF C!CheckOwn
  <2>2. Whole([C!NoCheck EXCEPT !.row = r])
    BY DEF Whole, C!NoCheck
  <2>3. asking'[c] = "looking" /\ Whole(check'[c])
    BY <2>1, <2>2, <1>0
  <2>4. \A d \in Checks : d # c => asking'[d] = asking[d] /\ check'[d] = check[d]
    BY <2>1, <1>0
  <2>5. asking' \in [Checks -> CheckStages] /\ DOMAIN check' = Checks
    BY <2>1, <1>0
  <2>6. ASSUME NEW d \in Checks
        PROVE  /\ Whole(check'[d])
               /\ asking'[d] = "reading" => check'[d].saw \in {"stream", "page", "silent"}
               /\ asking'[d] = "heard" =>
                    \E l, f \in BOOLEAN :
                      /\ check'[d].heard = [live |-> l, definitive |-> f]
                      /\ l \/ f => Proved(l, check'[d].saw, check'[d].row)
    <3>1. CASE d = c
      BY <2>3, <3>1
    <3>2. CASE d # c
      BY <2>4, <3>2 DEF ProbeInv
    <3> QED
      BY <3>1, <3>2
  <2> QED
    BY <2>5, <2>6 DEF ProbeInv, Proved
<1>2. ASSUME NEW c \in Checks, NEW r \in Rows, C!Download(c, r)
      PROVE  Kept
  <2> DEFINE order == <<r>> \o SelectSeq(C!Offered, LAMBDA q : q # r)
             locals == [C!NoCheck EXCEPT !.kind = "download", !.row = r,
                                         !.rest = C!First(MaxTried - 1, Tail(order))]
  <2>1. C!Ask(c, locals)
    BY <1>2 DEF C!Download
  <2>2. Whole(locals)
    BY DEF Whole, C!NoCheck
  <2> QED
    BY <2>1, <2>2, <1>0, AskedIsWhole
<1>3. ASSUME NEW c \in Checks, NEW v \in Viewers, NEW r \in Rows, C!CheckShared(c, v, r)
      PROVE  Kept
  <2> DEFINE locals == [C!NoCheck EXCEPT !.kind = "shared", !.row = r]
  <2>1. C!Ask(c, locals)
    BY <1>3 DEF C!CheckShared
  <2>2. Whole(locals)
    BY DEF Whole, C!NoCheck
  <2> QED
    BY <2>1, <2>2, <1>0, AskedIsWhole
<1>12. ASSUME NEW c \in Checks, NEW r \in Rows, C!Play(c, r)
       PROVE  Kept
  <2> DEFINE locals == [C!NoCheck EXCEPT !.kind = "play", !.row = r]
  <2>1. C!Ask(c, locals)
    BY <1>12 DEF C!Play
  <2>2. Whole(locals)
    BY DEF Whole, C!NoCheck
  <2> QED
    BY <2>1, <2>2, <1>0, AskedIsWhole
<1>13. ASSUME NEW c \in Checks, NEW v \in Viewers, NEW r \in Rows, C!PlayShared(c, v, r)
       PROVE  Kept
  <2> DEFINE locals == [C!NoCheck EXCEPT !.kind = "playShared", !.row = r]
  <2>1. C!Ask(c, locals)
    BY <1>13 DEF C!PlayShared
  <2>2. Whole(locals)
    BY DEF Whole, C!NoCheck
  <2> QED
    BY <2>1, <2>2, <1>0, AskedIsWhole
<1>4. ASSUME NEW c \in Checks, C!LookUp(c)
      PROVE  Kept
  <2>1. C!Ask(c, check[c]) \/ C!Idle(c)
    BY <1>4 DEF C!LookUp
  <2>2. Whole(check[c])
    BY DEF ProbeInv
  <2> QED
    BY <2>1, <2>2, <1>0, AskedIsWhole, EndedIsWhole
<1>5. ASSUME NEW c \in Checks, C!Refused(c)
      PROVE  Kept
  <2> DEFINE answer == slot[check[c].row]
  <2>1. answer \in {"gone", "busy"} /\ C!Heard(c, answer, FALSE, answer = "gone")
    BY <1>5 DEF C!Refused
  <2>2. (answer = "gone") \in BOOLEAN
    OBVIOUS
  <2>3. FALSE \/ answer = "gone" => Proved(FALSE, answer, check[c].row)
    BY DEF Proved
  <2> QED
    BY <2>1, <2>2, <2>3, <1>0, HeardIsWhole
<1>6. ASSUME NEW c \in Checks, C!Headers(c)
      PROVE  Kept
  <2> DEFINE answer == slot[check[c].row]
             declared == Header[check[c].row]
  <2>1. answer \in {"stream", "page", "silent"}
    BY <1>6 DEF C!Headers
  <2>2. ASSUME asking' = [asking EXCEPT ![c] = "reading"], check' = [check EXCEPT ![c].saw = answer]
        PROVE  Kept
    <3>1. Whole(check[c])
      BY DEF ProbeInv
    <3>2. /\ asking'[c] = "reading" /\ Whole(check'[c])
          /\ check'[c].saw \in {"stream", "page", "silent"}
      BY <2>1, <2>2, <3>1, <1>0 DEF Whole
    <3>3. \A d \in Checks : d # c => asking'[d] = asking[d] /\ check'[d] = check[d]
      BY <2>2, <1>0
    <3>4. asking' \in [Checks -> CheckStages] /\ DOMAIN check' = Checks
      BY <2>2, <1>0
    <3>5. ASSUME NEW d \in Checks
          PROVE  /\ Whole(check'[d])
                 /\ asking'[d] = "reading" => check'[d].saw \in {"stream", "page", "silent"}
                 /\ asking'[d] = "heard" =>
                      \E l, f \in BOOLEAN :
                        /\ check'[d].heard = [live |-> l, definitive |-> f]
                        /\ l \/ f => Proved(l, check'[d].saw, check'[d].row)
      <4>1. CASE d = c
        BY <3>2, <4>1
      <4>2. CASE d # c
        BY <3>3, <4>2 DEF ProbeInv
      <4> QED
        BY <4>1, <4>2
    <3> QED
      BY <3>4, <3>5 DEF ProbeInv, Proved
  <2>3. ASSUME declared \in {"video", "html"}, C!Heard(c, "declared", declared = "video", TRUE)
        PROVE  Kept
    <3>1. (declared = "video") \in BOOLEAN
      OBVIOUS
    <3>2. Proved(declared = "video", "declared", check[c].row)
      BY <2>3 DEF Proved
    <3> QED
      BY <2>3, <3>1, <3>2, <1>0, HeardIsWhole
  <2>4. ASSUME declared = "hls", C!Heard(c, "unplayable", FALSE, TRUE)
        PROVE  Kept
    <3>1. Proved(FALSE, "unplayable", check[c].row)
      BY <2>4 DEF Proved
    <3> QED
      BY <2>4, <3>1, <1>0, HeardIsWhole
  <2> QED
    BY <1>6, <2>2, <2>3, <2>4 DEF C!Headers
<1>7. ASSUME NEW c \in Checks, NEW saw \in {"declared", "cut"}, C!ByHeader(c, saw)
      PROVE  Kept
  <2> DEFINE declared == Header[check[c].row]
             live == declared \in {"video", "hls"}
  <2>1. C!Heard(c, saw, live, declared # "other")
    BY <1>7 DEF C!ByHeader
  <2>2. live \in BOOLEAN /\ (declared # "other") \in BOOLEAN
    OBVIOUS
  <2>3. live \/ declared # "other" => Proved(live, saw, check[c].row)
    BY DEF Proved
  <2> QED
    BY <2>1, <2>2, <2>3, <1>0, HeardIsWhole
<1>8. ASSUME NEW c \in Checks, C!Body(c)
      PROVE  Kept
  <2> DEFINE read == check[c].saw
  <2>1. CASE read = "silent"
    BY <1>7, <1>8, <2>1 DEF C!Body
  <2>2. CASE read # "silent"
    <3>1. C!Heard(c, read, read = "stream", TRUE)
      BY <1>8, <2>2 DEF C!Body
    <3>2. read \in {"stream", "page"}
      BY <1>8, <2>2 DEF C!Body, ProbeInv
    <3>3. (read = "stream") \in BOOLEAN /\ Proved(read = "stream", read, check[c].row)
      BY <3>2 DEF Proved
    <3> QED
      BY <3>1, <3>3, <1>0, HeardIsWhole
  <2> QED
    BY <2>1, <2>2
<1>9. ASSUME NEW c \in Checks, C!CutShort(c)
      PROVE  Kept
  <2>1. CASE C!Heard(c, None, FALSE, FALSE)
    BY <2>1, <1>0, HeardIsWhole
  <2> QED
    BY <1>7, <1>9, <2>1 DEF C!CutShort
<1>10. ASSUME NEW c \in Checks, C!Go(c)
       PROVE  Kept
  <2> DEFINE locals == [check[c] EXCEPT !.row = Head(check[c].rest),
                                        !.rest = Tail(check[c].rest)]
  <2>1. C!Idle(c) \/ C!Ask(c, locals)
    BY <1>10 DEF C!Go
  <2>2. Whole(check[c])
    BY DEF ProbeInv
  <2>3. Whole(locals)
    BY <2>2 DEF Whole
  <2> QED
    BY <2>1, <2>3, <1>0, AskedIsWhole, EndedIsWhole
<1>11. ASSUME UNCHANGED <<asking, check>>
       PROVE  Kept
  BY <1>0, <1>11 DEF ProbeInv, Whole, Proved
<1> QED
  BY <1>1, <1>2, <1>3, <1>4, <1>5, <1>6, <1>8, <1>9, <1>10, <1>11, <1>12, <1>13
     DEF C!Next, C!vars, C!Record, C!RecordFails, C!Turn, C!Import, C!Open, C!FallDue

\* What a request writes about a row is what it has heard of it.
LEMMA ProbedRowsKept ==
  ASSUME C!ConstantsType, DOMAIN basis = Rows, C!TypeOK, ProbeInv, C!VerdictsEarned,
         [C!Next]_(C!vars)
  PROVE  /\ DOMAIN basis' = Rows /\ verdict' \in [Rows -> BOOLEAN \cup {None}]
         /\ due' \subseteq {r \in Rows : verdict'[r] = FALSE}
         /\ C!VerdictsEarned'
<1> DEFINE Kept == /\ DOMAIN basis' = Rows /\ verdict' \in [Rows -> BOOLEAN \cup {None}]
                   /\ due' \subseteq {r \in Rows : verdict'[r] = FALSE}
                   /\ C!VerdictsEarned'
<1>0. /\ DOMAIN basis = Rows /\ verdict \in [Rows -> BOOLEAN \cup {None}] /\ stored \subseteq Rows
      /\ due \subseteq {r \in Rows : verdict[r] = FALSE}
  BY DEF C!TypeOK
<1>1. ASSUME NEW c \in Checks, C!Record(c)
      PROVE  Kept
  <2> DEFINE r == check[c].row
             told == C!ToStore(check[c].heard)
  <2>1. CASE ~C!MayMark(c)
    <3>1. UNCHANGED <<verdict, due, basis>>
      BY <1>1, <2>1 DEF C!Record
    <3> QED
      BY <3>1, <1>0 DEF C!VerdictsEarned
  <2>2. CASE C!MayMark(c)
    <3>1. r \in Rows
      BY <2>2, <1>0 DEF C!MayMark
    <3>2. /\ verdict' = [verdict EXCEPT ![r] = told] /\ due' = due \ {r}
          /\ basis' = [basis EXCEPT ![r] = check[c].saw]
      BY <1>1, <2>2 DEF C!Record
    <3>3. PICK live \in BOOLEAN, definitive \in BOOLEAN :
            /\ check[c].heard = [live |-> live, definitive |-> definitive]
            /\ live \/ definitive => Proved(live, check[c].saw, r)
      BY <1>1 DEF C!Record, ProbeInv
    <3>4. told = IF live THEN TRUE ELSE IF definitive THEN FALSE ELSE None
      BY <3>3 DEF C!ToStore
    <3>5. told \in BOOLEAN \cup {None}
      BY <3>4
    <3>6. verdict' \in [Rows -> BOOLEAN \cup {None}]
      BY <3>2, <3>5, <1>0
    <3>7. verdict'[r] = told /\ \A q \in Rows : q # r => verdict'[q] = verdict[q]
      BY <3>1, <3>2, <1>0
    <3>8. due' \subseteq {q \in Rows : verdict'[q] = FALSE}
      BY <3>2, <3>7, <1>0
    <3>9. told = FALSE => ~live /\ definitive
      BY <3>4 DEF C!ConstantsType
    <3>10. told = TRUE => live
      BY <3>4 DEF C!ConstantsType
    <3>11. Header[r] \in {"video", "hls", "html", "other"}
      BY <3>1 DEF C!ConstantsType
    <3>12. basis'[r] = check[c].saw /\ \A q \in Rows : q # r => basis'[q] = basis[q]
      BY <3>1, <3>2, <1>0
    <3>13. /\ verdict'[r] = FALSE =>
                \/ basis'[r] \in {"page", "gone"}
                \/ basis'[r] \in {"declared", "cut"} /\ Header[r] = "html"
                \/ basis'[r] = "unplayable" /\ Header[r] = "hls"
           /\ verdict'[r] = TRUE =>
                \/ basis'[r] = "stream"
                \/ basis'[r] \in {"declared", "cut"} /\ Header[r] \in {"video", "hls"}
      BY <3>3, <3>7, <3>9, <3>10, <3>11, <3>12 DEF Proved
    <3>14. C!VerdictsEarned'
      BY <3>7, <3>12, <3>13 DEF C!VerdictsEarned
    <3> QED
      BY <3>2, <3>6, <3>8, <3>14, <1>0
  <2> QED
    BY <2>1, <2>2
<1>2. ASSUME NEW r \in Rows, C!FallDue(r)
      PROVE  Kept
  BY <1>0, <1>2 DEF C!FallDue, C!VerdictsEarned
<1>3. ASSUME UNCHANGED <<verdict, due, basis>>
      PROVE  Kept
  BY <1>0, <1>3 DEF C!VerdictsEarned
<1> QED
  BY <1>1, <1>2, <1>3
     DEF C!Next, C!vars, C!rowVars, C!Quiet, C!CheckOwn, C!Download, C!CheckShared, C!Play,
         C!PlayShared, C!LookUp, C!Refused, C!Headers, C!Body, C!CutShort, C!RecordFails, C!Turn,
         C!Import, C!Open

\* The rows come and go, and nobody else is let in than a reader.
LEMMA AroundKept ==
  ASSUME C!ConstantsType, C!TypeOK, [C!Next]_(C!vars)
  PROVE  /\ turns' \in 0 .. MaxChanges /\ slot' \in [Rows -> C!Answers]
         /\ stored' \subseteq Rows /\ retired' \subseteq Rows \ stored'
         /\ \A l \in C!ToSet(Chosen) : admitted'[l] = None \/ admitted'[l] \subseteq Viewers
<1> DEFINE Kept == /\ turns' \in 0 .. MaxChanges /\ slot' \in [Rows -> C!Answers]
                   /\ stored' \subseteq Rows /\ retired' \subseteq Rows \ stored'
                   /\ \A l \in C!ToSet(Chosen) :
                        admitted'[l] = None \/ admitted'[l] \subseteq Viewers
<1>0. /\ turns \in 0 .. MaxChanges /\ slot \in [Rows -> C!Answers]
      /\ stored \subseteq Rows /\ retired \subseteq Rows \ stored
      /\ \A l \in C!ToSet(Chosen) : admitted[l] = None \/ admitted[l] \subseteq Viewers
  BY DEF C!TypeOK
<1>1. C!Change => turns' \in 0 .. MaxChanges
  BY <1>0 DEF C!Change, C!ConstantsType
<1>2. ASSUME NEW r \in Rows, C!Turn(r)
      PROVE  Kept
  BY <1>0, <1>1, <1>2 DEF C!Turn, C!rowVars
<1>3. ASSUME NEW l \in C!ToSet(Chosen), C!Import(l)
      PROVE  Kept
  <2> DEFINE old == {r \in stored : ListOf[r] = l}
             new == {r \in Rows \ (stored \cup retired) : ListOf[r] = l}
  <2>1. /\ stored' = (stored \ old) \cup new /\ retired' = retired \cup old
        /\ UNCHANGED <<slot, admitted>> /\ C!Change
    BY <1>3 DEF C!Import
  <2>2. stored' \subseteq Rows /\ retired' \subseteq Rows \ stored'
    BY <2>1, <1>0
  <2> QED
    BY <2>1, <2>2, <1>0, <1>1
<1>4. ASSUME NEW l \in C!ToSet(Chosen), C!Open(l)
      PROVE  Kept
  <2>1. PICK to \in {None} \cup SUBSET Viewers : admitted' = [admitted EXCEPT ![l] = to]
    BY <1>4 DEF C!Open
  <2>2. \A k \in C!ToSet(Chosen) : admitted'[k] = admitted[k] \/ admitted'[k] = to
    BY <2>1
  <2> QED
    BY <2>1, <2>2, <1>0, <1>1, <1>4 DEF C!Open, C!rowVars
<1>5. ASSUME UNCHANGED <<turns, slot, stored, retired, admitted>>
      PROVE  Kept
  BY <1>0, <1>5
<1> QED
  BY <1>2, <1>3, <1>4, <1>5
     DEF C!Next, C!vars, C!rowVars, C!Quiet, C!CheckOwn, C!Download, C!CheckShared, C!Play,
         C!PlayShared, C!LookUp, C!Refused, C!Headers, C!Body, C!CutShort, C!Record, C!RecordFails,
         C!FallDue

LEMMA ChannelsBegin == ASSUME C!ConstantsType, C!Init PROVE VerdictsInv
<1>1. /\ turns = 0 /\ slot = Slots /\ stored = Stored /\ retired = {}
      /\ verdict = [r \in Rows |-> None] /\ due = {}
      /\ admitted = [l \in C!ToSet(Chosen) |-> None]
      /\ asking = [c \in Checks |-> "idle"] /\ check = [c \in Checks |-> C!NoCheck]
  BY DEF C!Init
<1>2. C!TypeOK
  BY <1>1 DEF C!TypeOK, C!ConstantsType, C!Answers
<1>3. Whole(C!NoCheck)
  BY DEF Whole, C!NoCheck
<1>4. DOMAIN check = Checks /\ ProbeInv
  BY <1>1, <1>3 DEF ProbeInv
<1>5. C!VerdictsEarned
  BY <1>1 DEF C!VerdictsEarned, C!ConstantsType
<1>6. DOMAIN basis = Rows
  BY DEF C!Init
<1> QED
  BY <1>2, <1>4, <1>5, <1>6 DEF VerdictsInv

LEMMA ChannelsInvariance == ASSUME C!ConstantsType PROVE C!Spec => []VerdictsInv
<1>1. C!Init => VerdictsInv
  BY ChannelsBegin
<1>2. VerdictsInv /\ [C!Next]_(C!vars) => VerdictsInv'
  <2> SUFFICES ASSUME VerdictsInv, [C!Next]_(C!vars) PROVE VerdictsInv'
    OBVIOUS
  <2>1. /\ DOMAIN check = Checks /\ DOMAIN basis = Rows
        /\ C!TypeOK /\ ProbeInv /\ C!VerdictsEarned
    BY DEF VerdictsInv
  <2>2. /\ asking' \in [Checks -> {"idle", "looking", "asked", "reading", "heard"}]
        /\ DOMAIN check' = Checks /\ ProbeInv'
    BY <2>1, ProbesKept
  <2>3. /\ DOMAIN basis' = Rows /\ verdict' \in [Rows -> BOOLEAN \cup {None}]
        /\ due' \subseteq {r \in Rows : verdict'[r] = FALSE} /\ C!VerdictsEarned'
    BY <2>1, ProbedRowsKept
  <2>4. /\ turns' \in 0 .. MaxChanges /\ slot' \in [Rows -> C!Answers]
        /\ stored' \subseteq Rows /\ retired' \subseteq Rows \ stored'
        /\ \A l \in C!ToSet(Chosen) : admitted'[l] = None \/ admitted'[l] \subseteq Viewers
    BY <2>1, AroundKept
  <2>5. C!TypeOK'
    BY <2>2, <2>3, <2>4 DEF C!TypeOK
  <2> QED
    BY <2>2, <2>3, <2>5 DEF VerdictsInv
<1> QED
  BY <1>1, <1>2, PTL DEF C!Spec

\* TypeOK of Channels: every step keeps the rows, the verdicts and the requests of their types,
\* a row that is taken away among those that are no longer there.
THEOREM ChannelTypesCorrect == ASSUME C!ConstantsType PROVE C!Spec => []C!TypeOK
<1>1. VerdictsInv => C!TypeOK
  BY DEF VerdictsInv
<1> QED
  BY <1>1, ChannelsInvariance, PTL

\* VerdictsEarned of Channels: whatever slots turn into while they are asked, however requests,
\* timeouts and imports meet, a row is hidden for an answer that says it is dead and shown as
\* verified for one that streams, or for the type its server declares where a body says nothing,
\* be it because the probe was cut short; the player's request also hides what its page cannot
\* play.  A busy line and a request that ends before the headers say neither.
THEOREM VerdictsAreEarned == ASSUME C!ConstantsType PROVE C!Spec => []C!VerdictsEarned
<1>1. VerdictsInv => C!VerdictsEarned
  BY DEF VerdictsInv
<1> QED
  BY <1>1, ChannelsInvariance, PTL
-----------------------------------------------------------------------------
(* What a fixture is offered: Ranking.                                     *)

\* A word of a name that is among the words of a title is said by it.
LEMMA WordSaid ==
  ASSUME R!ConstantsType, NEW t \in Titles, NEW w \in R!ToSet(t.words)
  PROVE  R!Says(t, <<w>>)
<1>1. t.words \in Seq(STRING)
  BY DEF R!ConstantsType
<1>2. PICK i \in DOMAIN t.words : w = t.words[i]
  BY DEF R!ToSet
<1>3. /\ Len(<<w>>) = 1 /\ DOMAIN <<w>> = {1} /\ <<w>>[1] = w /\ <<w>> # <<>>
  OBVIOUS
<1>4. /\ i \in 1 .. Len(t.words) /\ Len(t.words) \in Nat
  BY <1>1
<1>5. i - 1 \in 0 .. Len(t.words) - Len(<<w>>)
  BY <1>3, <1>4
<1>6. \A k \in DOMAIN <<w>> : t.words[(i - 1) + k] = <<w>>[k]
  <2>1. (i - 1) + 1 = i
    BY <1>4
  <2> QED BY <1>2, <1>3, <2>1
<1> QED
  BY <1>3, <1>5, <1>6 DEF R!Says

\* A title that says a name has every word of it.
LEMMA NameFound ==
  ASSUME R!ConstantsType, NEW t \in Titles, NEW name \in Seq(STRING), R!Says(t, name)
  PROVE  R!Found(t, name) = R!Tokens(name)
<1>1. t.words \in Seq(STRING)
  BY DEF R!ConstantsType
<1>2. SUFFICES ASSUME NEW w \in R!ToSet(name) PROVE w \in R!ToSet(t.words)
  BY DEF R!Found, R!Tokens
<1>3. PICK i \in 0 .. Len(t.words) - Len(name) :
        \A k \in DOMAIN name : t.words[i + k] = name[k]
  BY DEF R!Says
<1>4. PICK k \in DOMAIN name : w = name[k]
  BY DEF R!ToSet
<1>5. /\ Len(t.words) \in Nat /\ Len(name) \in Nat /\ k \in 1 .. Len(name)
      /\ DOMAIN t.words = 1 .. Len(t.words)
  BY <1>1
<1>6. i + k \in DOMAIN t.words
  BY <1>5
<1> QED
  BY <1>3, <1>4, <1>6 DEF R!ToSet

\* What the ranking would offer, the rows are asked for by, if a side has a word to ask for.
LEMMA RankedAreAskedFor ==
  ASSUME R!ConstantsType, NEW t \in Titles, NEW g \in Games,
         \/ R!HasTerms(g) /\ R!Certain(t, g)
         \/ R!Likely(t, g)
         \/ R!OfCompetition(t, g)
  PROVE  \E term \in R!MatchTerms(g) : R!Says(t, term)
<1>1. ASSUME NEW w \in R!Tokens(g.home) \cup R!Tokens(g.away) \cup R!Tokens(g.event),
             w \in R!ToSet(t.words)
      PROVE  \E term \in R!MatchTerms(g) : R!Says(t, term)
  <2>1. R!Says(t, <<w>>)
    BY <1>1, WordSaid
  <2>2. <<w>> \in R!MatchTerms(g)
    BY <1>1 DEF R!MatchTerms
  <2> QED BY <2>1, <2>2
<1>2. CASE R!HasTerms(g) /\ R!Certain(t, g) /\ g.home # <<>>
  <2>1. R!Says(t, g.home) /\ R!Says(t, g.away)
    BY <1>2 DEF R!Certain, R!HasWhole
  <2>2. R!Found(t, g.home) = R!Tokens(g.home) /\ R!Found(t, g.away) = R!Tokens(g.away)
    BY <2>1, NameFound DEF R!ConstantsType
  <2>3. PICK w \in R!Tokens(g.home) \cup R!Tokens(g.away) : TRUE
    BY <1>2 DEF R!HasTerms
  <2>4. w \in R!ToSet(t.words)
    BY <2>2, <2>3 DEF R!Found
  <2> QED BY <1>1, <2>3, <2>4
<1>3. CASE R!Certain(t, g) /\ g.home = <<>>
  BY <1>1, <1>3 DEF R!Certain, R!Found
<1>4. CASE R!Likely(t, g)
  BY <1>1, <1>4 DEF R!Likely, R!Found
<1>5. CASE R!OfCompetition(t, g)
  BY <1>5 DEF R!OfCompetition, R!MatchTerms
<1> QED
  BY <1>2, <1>3, <1>4, <1>5

\* The rows asked for have the tiers of all: the surest one of a game with terms to ask by.
LEMMA NarrowedTiersAlike ==
  ASSUME R!ConstantsType, NEW g \in Games, NEW whole \in SUBSET Titles,
         NEW few, few = {t \in R!Narrowed(whole, g) : R!Considered(t)},
         NEW all, all = {t \in whole : R!Considered(t)}
  PROVE  /\ R!HasTerms(g) => {t \in few : R!Certain(t, g)} = {t \in all : R!Certain(t, g)}
         /\ {t \in few : R!Likely(t, g)} = {t \in all : R!Likely(t, g)}
         /\ {t \in few : R!OfCompetition(t, g)} = {t \in all : R!OfCompetition(t, g)}
<1>1. ASSUME NEW t \in whole,
             \/ R!HasTerms(g) /\ R!Certain(t, g)
             \/ R!Likely(t, g)
             \/ R!OfCompetition(t, g)
      PROVE  t \in R!Narrowed(whole, g)
  <2>1. t \in Titles
    OBVIOUS
  <2> QED BY <1>1, <2>1, RankedAreAskedFor DEF R!Narrowed
<1>2. R!Narrowed(whole, g) \subseteq whole
  BY DEF R!Narrowed
<1>3. ASSUME R!HasTerms(g)
      PROVE  {t \in few : R!Certain(t, g)} = {t \in all : R!Certain(t, g)}
  BY <1>1, <1>2, <1>3
<1>4. {t \in few : R!Likely(t, g)} = {t \in all : R!Likely(t, g)}
  BY <1>1, <1>2
<1>5. {t \in few : R!OfCompetition(t, g)} = {t \in all : R!OfCompetition(t, g)}
  BY <1>1, <1>2
<1> QED
  BY <1>3, <1>4, <1>5

\* What the rows asked for are ranked into, all would be: the entries of the series always, and
\* those of the game if it has terms to ask by.
LEMMA NarrowedRanksAlike ==
  ASSUME R!ConstantsType, NEW g \in Games, NEW whole \in SUBSET Titles,
         NEW r \in R!Rank(R!Narrowed(whole, g), g)
  PROVE  /\ \A q \in R!Rank(whole, g) : q.competition = r.competition
         /\ R!HasTerms(g) => r \in R!Rank(whole, g)
<1> DEFINE Sure(S) == {t \in S : R!Certain(t, g)}
           Near(S) == {t \in S : R!Likely(t, g)}
           Series(S) == {t \in S : R!OfCompetition(t, g)}
           Offers(sure, near, series) ==
             [matches : {c \o l : c \in R!InRank(sure, g), l \in R!InRank(near, g)},
              competition : {series}]
<1>a. PICK few : few = {t \in R!Narrowed(whole, g) : R!Considered(t)}
  OBVIOUS
<1>b. PICK all : all = {t \in whole : R!Considered(t)}
  OBVIOUS
<1>1. /\ R!HasTerms(g) => Sure(few) = Sure(all)
      /\ Near(few) = Near(all) /\ Series(few) = Series(all)
  BY <1>a, <1>b, NarrowedTiersAlike
<1>2. /\ R!Rank(R!Narrowed(whole, g), g) = Offers(Sure(few), Near(few), Series(few))
      /\ R!Rank(whole, g) = Offers(Sure(all), Near(all), Series(all))
  BY <1>a, <1>b DEF R!Rank
<1>3. \A sure, near, series : \A q \in Offers(sure, near, series) : q.competition = series
  OBVIOUS
<1> HIDE DEF Sure, Near, Series, Offers
<1>4. \A q \in R!Rank(whole, g) : q.competition = r.competition
  BY <1>1, <1>2, <1>3
<1>5. R!HasTerms(g) => r \in R!Rank(whole, g)
  BY <1>1, <1>2
<1> QED
  BY <1>4, <1>5

\* An order of some entries is of them and no others, and by score.
LEMMA OrderOfEntries ==
  ASSUME NEW S, IsFiniteSet(S), NEW g, NEW s \in R!InRank(S, g)
  PROVE  /\ s \in Seq(S)
         /\ \A i \in DOMAIN s : s[i] \in S
         /\ \A i, j \in DOMAIN s :
              i < j => \/ R!Score(s[i], g) > R!Score(s[j], g)
                       \/ R!Score(s[i], g) = R!Score(s[j], g)
<1>1. R!Cardinality(S) \in Nat
  BY FS_CardinalityType DEF R!Cardinality, Cardinality
<1>2. s \in [1 .. R!Cardinality(S) -> S]
  BY DEF R!InRank, R!SetToSeqs
<1>3. s \in Seq(S) /\ \A i \in DOMAIN s : s[i] \in S
  BY <1>1, <1>2
<1>4. \A i, j \in DOMAIN s :
        i < j => \/ R!Score(s[i], g) > R!Score(s[j], g)
                 \/ R!Score(s[i], g) = R!Score(s[j], g)
  BY DEF R!InRank
<1> QED
  BY <1>3, <1>4

\* Where an entry of a chain of two orders comes from.
LEMMA PlaceInChain ==
  ASSUME NEW S, NEW T, NEW c \in Seq(S), NEW l \in Seq(T), NEW j \in DOMAIN (c \o l)
  PROVE  \/ j \in DOMAIN c /\ (c \o l)[j] = c[j]
         \/ j \notin DOMAIN c /\ j - Len(c) \in DOMAIN l /\ (c \o l)[j] = l[j - Len(c)]
<1>1. /\ Len(c) \in Nat /\ Len(l) \in Nat
      /\ DOMAIN c = 1 .. Len(c) /\ DOMAIN l = 1 .. Len(l)
  OBVIOUS
<1>2. DOMAIN (c \o l) = 1 .. Len(c) + Len(l)
  OBVIOUS
<1>3. CASE j <= Len(c)
  BY <1>1, <1>2, <1>3
<1>4. CASE j > Len(c)
  BY <1>1, <1>2, <1>4
<1> QED
  BY <1>1, <1>2, <1>3, <1>4

\* An entry that names both sides and is not certain is of a side whose name is brief.
LEMMA NamedIsCertain ==
  ASSUME NEW t, NEW g, R!InFull(t, g), ~R!Certain(t, g)
  PROVE  R!Brief(g.home) \/ R!Brief(g.away)
BY DEF R!InFull, R!Certain, R!HasWhole

\* The words of a name are counted, and those found of them are as many only when they are all.
LEMMA WordsCounted ==
  ASSUME NEW t, NEW name \in Seq(STRING)
  PROVE  /\ R!Cardinality(R!Tokens(name)) \in Nat /\ R!Cardinality(R!Found(t, name)) \in Nat
         /\ R!Cardinality(R!Found(t, name)) <= R!Cardinality(R!Tokens(name))
         /\ R!Cardinality(R!Found(t, name)) = R!Cardinality(R!Tokens(name)) =>
              R!Found(t, name) = R!Tokens(name)
<1>1. IsFiniteSet(R!ToSet(name))
  <2>1. IsFiniteSet(1 .. Len(name))
    BY FS_Interval
  <2>2. name \in [1 .. Len(name) -> R!ToSet(name)]
        /\ \A w \in R!ToSet(name) : \E i \in 1 .. Len(name) : name[i] = w
    BY DEF R!ToSet
  <2>3. name \in Surjection(1 .. Len(name), R!ToSet(name))
    BY <2>2 DEF Surjection
  <2> QED BY <2>1, <2>3, FS_Surjection
<1>2. IsFiniteSet(R!Tokens(name))
  BY <1>1, FS_Subset DEF R!Tokens
<1>3. R!Found(t, name) \subseteq R!Tokens(name)
  BY DEF R!Found
<1>4. /\ Cardinality(R!Tokens(name)) \in Nat /\ Cardinality(R!Found(t, name)) \in Nat
      /\ Cardinality(R!Found(t, name)) <= Cardinality(R!Tokens(name))
      /\ Cardinality(R!Found(t, name)) = Cardinality(R!Tokens(name)) =>
           R!Found(t, name) = R!Tokens(name)
  BY <1>2, <1>3, FS_Subset, FS_CardinalityType
<1>5. \A S : R!Cardinality(S) = Cardinality(S)
  BY DEF R!Cardinality, Cardinality
<1> QED
  BY <1>4, <1>5

\* Of two likely entries the first has every word of both names if the second has.
LEMMA ScoreCountsWords ==
  ASSUME NEW t, NEW u, NEW g, g.home \in Seq(STRING), g.away \in Seq(STRING),
         ~R!Certain(t, g), ~R!Certain(u, g), R!HasEveryWord(u, g),
         R!Score(t, g) > R!Score(u, g) \/ R!Score(t, g) = R!Score(u, g)
  PROVE  R!HasEveryWord(t, g)
<1> DEFINE H(v) == R!Cardinality(R!Found(v, g.home))
           A(v) == R!Cardinality(R!Found(v, g.away))
           h == R!Cardinality(R!Tokens(g.home))
           a == R!Cardinality(R!Tokens(g.away))
<1>1. R!Score(t, g) = H(t) + A(t) /\ R!Score(u, g) = H(u) + A(u)
  BY DEF R!Score
<1>2. H(u) = h /\ A(u) = a
  BY DEF R!HasEveryWord
<1>3. /\ h \in Nat /\ H(t) \in Nat /\ H(t) <= h
      /\ H(t) = h => R!Found(t, g.home) = R!Tokens(g.home)
  BY WordsCounted
<1>4. /\ a \in Nat /\ A(t) \in Nat /\ A(t) <= a
      /\ A(t) = a => R!Found(t, g.away) = R!Tokens(g.away)
  BY WordsCounted
<1> HIDE DEF H, A, h, a
<1>5. H(t) + A(t) >= h + a
  BY <1>1, <1>2, <1>3, <1>4
<1>6. H(t) = h /\ A(t) = a
  BY <1>3, <1>4, <1>5
<1> QED
  BY <1>3, <1>4, <1>6 DEF R!HasEveryWord

\* The entries of a page are those it was asked of, and none is a recording; those that name
\* both sides are behind none that lacks a word.
LEMMA AnswerSound ==
  ASSUME R!ConstantsType, NEW g \in Games, NEW whole \in SUBSET Titles, IsFiniteSet(whole),
         NEW r \in R!Rank(whole, g)
  PROVE  /\ r.matches \in Seq(Titles) /\ r.competition \subseteq Titles
         /\ \A t \in R!ToSet(r.matches) \cup r.competition : ~t.dated
         /\ \A i, j \in DOMAIN r.matches : i < j /\ R!InFull(r.matches[j], g) =>
              /\ R!HasEveryWord(r.matches[i], g)
              /\ R!InFull(r.matches[i], g) \/ R!Brief(g.home) \/ R!Brief(g.away)
<1> DEFINE all == {t \in whole : R!Considered(t)}
           sure == {t \in all : R!Certain(t, g)}
           near == {t \in all : R!Likely(t, g)}
<1>1. PICK c \in R!InRank(sure, g), l \in R!InRank(near, g) : r.matches = c \o l
  BY DEF R!Rank
<1>2. r.competition = {t \in all : R!OfCompetition(t, g)}
  BY DEF R!Rank
<1>3. /\ sure \subseteq whole /\ near \subseteq whole /\ all \subseteq Titles
      /\ \A t \in all : ~t.dated
  BY DEF R!Considered
<1>4. IsFiniteSet(sure) /\ IsFiniteSet(near)
  BY <1>3, FS_Subset
<1>5. /\ \A t \in sure : t \in all /\ R!Certain(t, g)
      /\ \A t \in near : t \in all /\ R!Likely(t, g)
  OBVIOUS
<1> HIDE DEF sure, near, all
<1>6. c \in Seq(sure) /\ \A i \in DOMAIN c : c[i] \in sure
  BY <1>1, <1>4, OrderOfEntries
<1>7. /\ l \in Seq(near) /\ \A i \in DOMAIN l : l[i] \in near
      /\ \A i, j \in DOMAIN l :
           i < j => R!Score(l[i], g) > R!Score(l[j], g) \/ R!Score(l[i], g) = R!Score(l[j], g)
  BY <1>1, <1>4, OrderOfEntries
<1>8. ASSUME NEW j \in DOMAIN r.matches
      PROVE  \/ j \in DOMAIN c /\ r.matches[j] \in sure
             \/ /\ j \notin DOMAIN c /\ r.matches[j] \in near
                /\ j - Len(c) \in DOMAIN l /\ r.matches[j] = l[j - Len(c)]
  <2>1. j \in DOMAIN (c \o l)
    BY <1>1, <1>8
  <2>2. \/ j \in DOMAIN c /\ (c \o l)[j] = c[j]
        \/ j \notin DOMAIN c /\ j - Len(c) \in DOMAIN l /\ (c \o l)[j] = l[j - Len(c)]
    BY <1>6, <1>7, <2>1, PlaceInChain
  <2> QED BY <1>1, <1>6, <1>7, <2>2
<1>9. r.matches \in Seq(all)
  <2>1. c \in Seq(all)
    BY <1>5, <1>6
  <2>2. l \in Seq(all)
    BY <1>5, <1>7
  <2> QED BY <1>1, <2>1, <2>2
<1>10. r.matches \in Seq(Titles)
  BY <1>3, <1>9
<1>11. r.competition \subseteq Titles
  BY <1>2, <1>3
<1>12. \A t \in R!ToSet(r.matches) \cup r.competition : ~t.dated
  <2>1. \A t \in R!ToSet(r.matches) : t \in all
    BY <1>5, <1>8 DEF R!ToSet
  <2> QED BY <1>2, <1>3, <2>1
<1>13. ASSUME NEW i \in DOMAIN r.matches, NEW j \in DOMAIN r.matches, i < j,
              R!InFull(r.matches[j], g)
       PROVE  /\ R!HasEveryWord(r.matches[i], g)
              /\ R!InFull(r.matches[i], g) \/ R!Brief(g.home) \/ R!Brief(g.away)
  <2>1. /\ r.matches[i] \in Titles /\ r.matches[j] \in Titles
        /\ g.home \in Seq(STRING) /\ g.away \in Seq(STRING)
    BY <1>10, <1>13 DEF R!ConstantsType
  <2>2. ASSUME NEW t \in Titles, R!InFull(t, g)
        PROVE  R!HasEveryWord(t, g)
    BY <2>1, <2>2, NameFound DEF R!InFull, R!HasEveryWord
  <2>3. DOMAIN c = 1 .. Len(c) /\ Len(c) \in Nat
    BY <1>6
  <2>4. i \in Int /\ j \in Int /\ 1 <= i
    BY <1>9, <1>13
  <2>5. CASE i \in DOMAIN c
    <3>1. R!Certain(r.matches[i], g)
      BY <1>5, <1>8, <2>5
    <3>2. R!InFull(r.matches[i], g)
      BY <1>13, <3>1 DEF R!Certain, R!HasWhole, R!InFull
    <3> QED BY <2>1, <2>2, <3>2
  <2>6. CASE i \notin DOMAIN c
    <3>1. j \notin DOMAIN c
      BY <1>13, <2>3, <2>4, <2>6
    <3>2. /\ ~R!Certain(r.matches[i], g) /\ ~R!Certain(r.matches[j], g)
          /\ i - Len(c) \in DOMAIN l /\ r.matches[i] = l[i - Len(c)]
          /\ j - Len(c) \in DOMAIN l /\ r.matches[j] = l[j - Len(c)]
      BY <1>5, <1>8, <2>6, <3>1 DEF R!Likely
    <3>3. i - Len(c) < j - Len(c)
      BY <1>13, <2>3, <2>4
    <3>4. \/ R!Score(r.matches[i], g) > R!Score(r.matches[j], g)
          \/ R!Score(r.matches[i], g) = R!Score(r.matches[j], g)
      BY <1>7, <3>2, <3>3
    <3>5. R!HasEveryWord(r.matches[j], g)
      BY <1>13, <2>1, <2>2
    <3>6. R!HasEveryWord(r.matches[i], g)
      BY <2>1, <3>2, <3>4, <3>5, ScoreCountsWords
    <3>7. R!Brief(g.home) \/ R!Brief(g.away)
      BY <1>13, <3>2, NamedIsCertain
    <3> QED BY <3>6, <3>7
  <2> QED BY <2>5, <2>6
<1> QED
  BY <1>10, <1>11, <1>12, <1>13

\* What a page shows is what is ranked of all, in its order.
RankedInv == R!TypeOK /\ R!NarrowingLosesNothing /\ R!RightOneFirst

\* Before anything is asked nothing is offered.
LEMMA RankingBegins == R!Init => RankedInv
  BY DEF R!Init, RankedInv, R!TypeOK, R!NarrowingLosesNothing, R!RightOneFirst, R!ToSet

\* A page asked for, of any two entries.
LEMMA AskKeeps ==
  ASSUME R!ConstantsType, NEW g \in Games, NEW s \in Titles, NEW t \in Titles, R!Ask(g, {s, t})
  PROVE  RankedInv'
<1> DEFINE whole == {s, t}
<1>1. whole \in SUBSET Titles /\ IsFiniteSet(whole)
  <2>1. IsFiniteSet({s})
    BY FS_Singleton
  <2>2. IsFiniteSet({s} \cup {t})
    BY <2>1, FS_AddElement
  <2>3. {s} \cup {t} = whole
    OBVIOUS
  <2> QED BY <2>2, <2>3
<1>2. PICK r \in R!Rank(R!Narrowed(whole, g), g) :
        /\ fixture' = g /\ ranked' = whole
        /\ matches' = r.matches /\ competition' = r.competition
  BY DEF R!Ask
<1> HIDE DEF whole
<1>3. /\ \A q \in R!Rank(whole, g) : q.competition = r.competition
      /\ R!HasTerms(g) => r \in R!Rank(whole, g)
  BY <1>1, <1>2, NarrowedRanksAlike
<1>4. R!Narrowed(whole, g) \in SUBSET Titles /\ IsFiniteSet(R!Narrowed(whole, g))
  BY <1>1, FS_Subset DEF R!Narrowed
<1>5. /\ r.matches \in Seq(Titles) /\ r.competition \subseteq Titles
      /\ \A u \in R!ToSet(r.matches) \cup r.competition : ~u.dated
      /\ \A i, j \in DOMAIN r.matches : i < j /\ R!InFull(r.matches[j], g) =>
           /\ R!HasEveryWord(r.matches[i], g)
           /\ R!InFull(r.matches[i], g) \/ R!Brief(g.home) \/ R!Brief(g.away)
  BY <1>2, <1>4, AnswerSound
<1>6. R!TypeOK'
  BY <1>1, <1>2, <1>5 DEF R!TypeOK
<1>7. R!NarrowingLosesNothing'
  BY <1>2, <1>3 DEF R!NarrowingLosesNothing
<1>8. R!RightOneFirst'
  BY <1>2, <1>5 DEF R!RightOneFirst
<1> QED
  BY <1>6, <1>7, <1>8 DEF RankedInv

\* The ranking's own invariant: its types with the two properties, which need nothing else.
LEMMA RankingInvariance == ASSUME R!ConstantsType PROVE R!Spec => []RankedInv
<1>1. R!Init => RankedInv
  BY RankingBegins
<1>2. RankedInv /\ [R!Next]_(R!vars) => RankedInv'
  <2> SUFFICES ASSUME RankedInv, [R!Next]_(R!vars) PROVE RankedInv'
    OBVIOUS
  <2>1. CASE R!Next
    BY <2>1, AskKeeps DEF R!Next
  <2>2. CASE UNCHANGED R!vars
    BY <2>2 DEF R!vars, RankedInv, R!TypeOK, R!NarrowingLosesNothing, R!RightOneFirst
  <2> QED BY <2>1, <2>2
<1> QED
  BY <1>1, <1>2, PTL DEF R!Spec

\* NarrowingLosesNothing of Ranking: for any games and titles, the entries of the series found
\* among the rows asked for are those of all rows, and so are the entries of the game, in the
\* same order, whenever a side has a word to ask for.
THEOREM RankedRowsAreAll == ASSUME R!ConstantsType PROVE R!Spec => []R!NarrowingLosesNothing
<1>1. RankedInv => R!NarrowingLosesNothing
  BY DEF RankedInv
<1> QED
  BY <1>1, RankingInvariance, PTL

\* RightOneFirst of Ranking: for any games and titles, what comes before an entry that names
\* both sides in full has every word of both, and names both in full itself unless a name is
\* under four letters; and no recording is offered.
THEOREM NamedComeFirst == ASSUME R!ConstantsType PROVE R!Spec => []R!RightOneFirst
<1>1. RankedInv => R!RightOneFirst
  BY DEF RankedInv
<1> QED
  BY <1>1, RankingInvariance, PTL
=============================================================================
