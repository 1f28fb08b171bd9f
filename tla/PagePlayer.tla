------------------------------- MODULE PagePlayer -------------------------------
(***************************************************************************)
(* One tab of the site: the sections of a page that play the reader's own  *)
(* channels or their radio, the bundle they fetch on the first press, the  *)
(* sweep that asks about each channel before it can be pressed, and the    *)
(* navigation that replaces the page under them without a reload.          *)
(***************************************************************************)
EXTENDS Integers, FiniteSets

CONSTANTS
  Tv, Radio,   \* the sections a page has, of each sort
  Rows,        \* the rows of a section
  None,
  MaxPages,    \* bound: pages seen
  MaxPresses,  \* bound: presses
  MaxFaults    \* bound: bundles that do not arrive, checks lost, streams that fail

VARIABLES
  page, going,      \* the page, and whether another is being fetched
  chain,            \* the sections __tipoffStopPlayer stops
  bundle,           \* of each sort of section: none, loading or ready
  waiting,          \* presses that wait for their bundle
  gen, handle, label, \* of a section: generation, stop and the row that says Stop
  row,              \* of a section: off, open (enabled unasked), on (it answered) or gone
  sweep, stray,     \* of a section: rows its sweep has left, and one nothing can abort has
  running,          \* players attached and not destroyed
  late,             \* ghost: presses that still waited when their page was replaced
  presses, faults

tab == <<page, going, chain, bundle>>
players == <<waiting, gen, handle, label, running>>
rows == <<row, sweep, stray>>
bounds == <<presses, faults>>
vars == <<tab, players, rows, late, bounds>>

Sections == (Tv \cup Radio) \X (1 .. MaxPages)
OnPage(p) == {s \in Sections : s[2] = p}
Sort(s) == IF s[1] \in Tv THEN "tv" ELSE "radio"
TvOn(p) == {s \in OnPage(p) : Sort(s) = "tv"}
Presses == [sec : Sections, row : Rows, gen : 1 .. MaxPresses]

\* What the composing module and the proofs assume of them.
ConstantsType ==
  /\ None \notin Presses /\ MaxPages \in Nat \ {0} /\ MaxPresses \in Nat /\ MaxFaults \in Nat

Init ==
  /\ page = 1 /\ going = FALSE /\ chain = OnPage(1)
  /\ bundle = [k \in {"tv", "radio"} |-> "none"]
  /\ waiting = {} /\ running = {} /\ late = {}
  /\ gen = [s \in Sections |-> 0] /\ handle = [s \in Sections |-> None]
  /\ label = [s \in Sections |-> None]
  /\ row = [s \in Sections |-> [r \in Rows |-> IF Sort(s) = "tv" THEN "off" ELSE "on"]]
  /\ sweep = [s \in Sections |-> IF s \in TvOn(1) THEN Rows ELSE {}]
  /\ stray = [s \in Sections |-> {}]
  /\ presses = 0 /\ faults = 0

-----------------------------------------------------------------------------
(* The sweep: checkOwnChannels, one row at a time.                         *)

\* The rows a sweep would ask about.
Unasked(s) == {r \in Rows : row[s][r] \in {"off", "open"}}

\* Another sweep: one that is still under way can be aborted no more.
StartSweeps(some) ==
  /\ sweep' = [s \in Sections |-> IF s \in some THEN Unasked(s) ELSE sweep[s]]
  /\ stray' = [s \in Sections |-> stray[s] \cup (IF s \in some THEN sweep[s] ELSE {})]

\* A row is heard of: it is streaming, it is not, or there was no answer about it.
Hear(s, r, to) == row' = [row EXCEPT ![s][r] = to]

Asked(s, r, of) == r \in of[s] /\ \A q \in of[s] : r <= q

Checked(s, r) ==
  /\ \/ Asked(s, r, sweep) /\ sweep' = [sweep EXCEPT ![s] = @ \ {r}] /\ UNCHANGED stray
     \/ Asked(s, r, stray) /\ stray' = [stray EXCEPT ![s] = @ \ {r}] /\ UNCHANGED sweep
  /\ \E to \in {"on", "gone"} : Hear(s, r, to)
  /\ UNCHANGED <<tab, players, late, bounds>>

\* The check did not get through: the row can be pressed all the same.
CheckLost(s, r) ==
  /\ Asked(s, r, sweep) /\ faults < MaxFaults
  /\ faults' = faults + 1
  /\ sweep' = [sweep EXCEPT ![s] = @ \ {r}]
  /\ Hear(s, r, "open")
  /\ UNCHANGED <<tab, players, stray, late, presses>>

\* The server is streaming to this account: no more is asked.
Skipped(s) ==
  /\ sweep[s] # {}
  /\ row' = [row EXCEPT ![s] = [r \in Rows |-> IF r \in sweep[s] THEN "open" ELSE @[r]]]
  /\ sweep' = [sweep EXCEPT ![s] = {}]
  /\ UNCHANGED <<tab, players, stray, late, bounds>>

-----------------------------------------------------------------------------
(* Presses.                                                                *)

\* The sections' players are destroyed; a radio's button stops saying Stop.
Teardown(some) ==
  /\ handle' = [s \in Sections |-> IF s \in some THEN None ELSE handle[s]]
  /\ running' = running \ {handle[s] : s \in some}

Enabled(s, r) ==
  row[s][r] \in {"open", "on"} /\ ~ \E w \in waiting : w.sec = s /\ w.row = r

\* Pressing the row that says Stop stops it, and the sweep goes on.
PressStop(s, r) ==
  /\ label[s] = r /\ presses < MaxPresses /\ s \in OnPage(page)
  /\ presses' = presses + 1
  /\ gen' = [gen EXCEPT ![s] = @ + 1]
  /\ label' = [label EXCEPT ![s] = None]
  /\ Teardown({s})
  /\ IF Sort(s) = "tv"
     THEN sweep' = [sweep EXCEPT ![s] = Unasked(s)] ELSE UNCHANGED sweep
  /\ UNCHANGED <<tab, waiting, row, stray, late, faults>>

\* Mutation: a press does not outdate the one before it.
NextGenSame(s) == gen[s]

NextGen(s) == gen[s] + 1

\* A channel stops its own section's player, the radio whatever is in the chain.
StoppedBy(s) == IF Sort(s) = "radio" THEN chain ELSE {s}

PressPlay(s, r) ==
  LET stops == StoppedBy(s) IN
  /\ label[s] # r /\ Enabled(s, r) /\ presses < MaxPresses /\ s \in OnPage(page)
  /\ presses' = presses + 1
  /\ gen' = [gen EXCEPT ![s] = NextGen(s)]
  /\ sweep' = [sweep EXCEPT ![s] = {}]
  /\ Teardown(stops)
  /\ label' = [q \in Sections |->
       IF q = s \/ (q \in stops /\ Sort(q) = "radio") THEN None ELSE label[q]]
  /\ waiting' = waiting \cup {[sec |-> s, row |-> r, gen |-> NextGen(s)]}
  /\ bundle' = [bundle EXCEPT ![Sort(s)] = IF @ = "none" THEN "loading" ELSE @]
  /\ UNCHANGED <<page, going, chain, row, stray, late, faults>>

BundleArrives(k) ==
  /\ bundle[k] = "loading" /\ bundle' = [bundle EXCEPT ![k] = "ready"]
  /\ UNCHANGED <<page, going, chain, players, rows, late, bounds>>

\* The newest press plays, whatever became of its page; any other puts its button back.
Proceed(w) ==
  /\ w \in waiting /\ bundle[Sort(w.sec)] = "ready"
  /\ waiting' = waiting \ {w}
  /\ IF w.gen = gen[w.sec]
     THEN /\ handle' = [handle EXCEPT ![w.sec] = w] /\ running' = running \cup {w}
          /\ label' = [label EXCEPT ![w.sec] = w.row]
     ELSE UNCHANGED <<handle, running, label>>
  /\ UNCHANGED <<tab, gen, rows, late, bounds>>

\* fail, of these sections: nothing says Stop, an unasked row is shut, and the sweep goes on.
Fail(some) ==
  /\ Teardown(some)
  /\ label' = [s \in Sections |-> IF s \in some THEN None ELSE label[s]]
  /\ row' = [s \in Sections |-> [r \in Rows |->
       IF s \in some /\ row[s][r] = "open" THEN "off" ELSE row[s][r]]]
  /\ faults < MaxFaults /\ faults' = faults + 1

\* The bundle does not arrive, and each press that waited for it fails its section.
BundleFails(k) ==
  LET some == {w.sec : w \in {v \in waiting : Sort(v.sec) = k}}
      twice == {s \in some : Cardinality({w \in waiting : w.sec = s}) > 1}
  IN
  /\ bundle[k] = "loading" /\ bundle' = [bundle EXCEPT ![k] = "none"]
  /\ waiting' = {w \in waiting : Sort(w.sec) # k}
  /\ Fail(some)
  /\ sweep' = [s \in Sections |-> IF s \in some /\ k = "tv" THEN Unasked(s) ELSE sweep[s]]
  /\ stray' = [s \in Sections |-> IF s \in twice /\ k = "tv" THEN Unasked(s) ELSE stray[s]]
  /\ UNCHANGED <<page, going, chain, gen, late, presses>>

\* A player gives up.
StreamFails(w) ==
  /\ w \in running /\ handle[w.sec] = w
  /\ Fail({w.sec})
  /\ StartSweeps({w.sec} \cap {s \in Sections : Sort(s) = "tv"})
  /\ UNCHANGED <<tab, waiting, gen, late, presses>>

-----------------------------------------------------------------------------
(* Navigation.                                                             *)

Go ==
  /\ page < MaxPages /\ ~going /\ going' = TRUE
  /\ UNCHANGED <<page, chain, bundle, players, rows, late, bounds>>

\* The chain is run, <main> is replaced, and the new sections begin.
Arrive ==
  /\ going /\ going' = FALSE
  /\ page' = page + 1 /\ chain' = OnPage(page + 1)
  /\ Teardown(chain)
  /\ late' = late \cup waiting
  /\ label' = [s \in Sections |-> IF s \in chain /\ Sort(s) = "radio" THEN None ELSE label[s]]
  /\ sweep' = [s \in Sections |-> IF s \in TvOn(page + 1) THEN Rows ELSE sweep[s]]
  /\ UNCHANGED <<bundle, waiting, gen, row, stray, bounds>>

\* The page cannot be fetched: the browser loads it, and pagehide stops every section.
Reload ==
  /\ going /\ going' = FALSE
  /\ page' = page + 1 /\ chain' = OnPage(page + 1)
  /\ bundle' = [k \in {"tv", "radio"} |-> "none"] /\ waiting' = {} /\ late' = {}
  /\ Teardown(Sections)
  /\ label' = [s \in Sections |-> None]
  /\ sweep' = [s \in Sections |-> IF s \in TvOn(page + 1) THEN Rows ELSE {}]
  /\ stray' = [s \in Sections |-> {}]
  /\ UNCHANGED <<gen, row, bounds>>

Next ==
  \/ \E s \in Sections, r \in Rows :
       Checked(s, r) \/ CheckLost(s, r) \/ PressStop(s, r) \/ PressPlay(s, r)
  \/ \E s \in Sections : Skipped(s)
  \/ \E k \in {"tv", "radio"} : BundleArrives(k) \/ BundleFails(k)
  \/ \E w \in waiting : Proceed(w)
  \/ \E w \in running : StreamFails(w)
  \/ Go \/ Arrive \/ Reload

Spec == Init /\ [][Next]_vars

-----------------------------------------------------------------------------
TypeOK ==
  /\ page \in 1 .. MaxPages /\ going \in BOOLEAN /\ chain \subseteq Sections
  /\ bundle \in [{"tv", "radio"} -> {"none", "loading", "ready"}]
  /\ waiting \subseteq Presses /\ running \subseteq Presses /\ late \subseteq Presses
  /\ gen \in [Sections -> 0 .. MaxPresses]
  /\ handle \in [Sections -> Presses \cup {None}] /\ label \in [Sections -> Rows \cup {None}]
  /\ row \in [Sections -> [Rows -> {"off", "open", "on", "gone"}]]
  /\ sweep \in [Sections -> SUBSET Rows] /\ stray \in [Sections -> SUBSET Rows]
  /\ presses \in 0 .. MaxPresses /\ faults \in 0 .. MaxFaults

\* Whatever plays, its section holds what stops it: two presses while the bundle arrives
\* do not leave a player "with nothing left that could destroy it".
NoStrayPlayer == \A w \in running : handle[w.sec] = w /\ w.gen = gen[w.sec]

\* A page that was left plays nothing, but for a press that still waited for its bundle.
LeftPagesSilent == \A w \in running : w.sec[2] = page \/ w \in late

\* No check of a section is under way beside its own stream, "which would take their match
\* off them", but for a sweep that a failed bundle had started twice.
NoCheckBesideStream == \A w \in running : sweep[w.sec] = {}
=============================================================================
