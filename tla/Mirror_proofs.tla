----------------------------- MODULE Mirror_proofs -----------------------------
(***************************************************************************)
(* Proofs about the mirror: its cursor never passes a change that no row   *)
(* has, for any items, page size, budget and lag within the overlap; and   *)
(* about the direct pollers, F, for any fixtures, limit, failures and      *)
(* interleaving: a closed log is whole and a listing is never undone.      *)
(***************************************************************************)
EXTENDS Mirror, TLAPS, FiniteSetTheorems, SequenceTheorems, WellFoundedInduction

CONSTANTS Games, Begun, Silent, EspnLists, SportsdbLists, Limit, MaxPlays, MaxDrops

VARIABLES truth, played, listed, dropped, soon, state, log, source, fresh, older, final, recapped,
          seen, filling, due, step, got, failures

\* The direct pollers, the other way in which fixtures and their logs are filled.
F == INSTANCE Fixtures WITH faults <- failures

\* Whatever the mirror has to write and has not: the fixtures it does not leave out and
\* the plays that are not placeholders, unless it dropped them for want of their fixture.
Due == {i \in Items : \/ KindOf[i] = "fixture" /\ ~LeftOut(i)
                      \/ KindOf[i] = "plays" /\ i \notin Unmapped}
Held(i) == row[i] = ver[i] \/ (KindOf[i] = "plays" /\ i \in orphaned)
Late == {i \in Due : ~Held(i)}

\* Nothing late of this kind is stamped before t.
Covers(kind, t) == \A i \in Late : KindOf[i] = kind => t <= stamp[i]

\* A walk may begin at its since, and what it has passed by is late only by a change
\* since it started, less the overlap.
Walks == {w \in WalkType :
  /\ w.started <= now
  /\ w.since # None => /\ w.since <= 0 \/ w.since <= now - Lag
                       /\ Covers(KindOfWalk(w.id), w.since)
  /\ \A i \in Late : KindOf[i] = KindOfWalk(w.id) /\ i <= w.after =>
                       w.started - Overlap <= stamp[i]}

Cursors == {c \in CursorType :
  /\ c.since # None => c.since <= now - Overlap /\ Covers("fixture", c.since)
  /\ c.playsSince # None => c.playsSince <= now - Overlap /\ Covers("plays", c.playsSince)
  /\ c.pending \in Walks}

\* The types of all but the cursors and the walks.
PlainTypes ==
  /\ now \in 0 .. MaxTime /\ changes \in 0 .. MaxChanges /\ faults \in 0 .. MaxFaults
  /\ ver \in [Items -> Nat] /\ stamp \in [Items -> 0 .. MaxTime]
  /\ row \in [Items -> Nat] /\ known \subseteq Leagues /\ retired \subseteq known
  /\ pass \in Passes \cup {"saving", None} /\ at \in 0 .. MaxTime
  /\ skips \subseteq known /\ owes \in BOOLEAN /\ orphaned \subseteq Items

\* The inductive invariant.
IInv ==
  /\ PlainTypes
  /\ saved \in Cursors /\ mem \in Cursors
  /\ walk \in Walks /\ todo \in Seq(Walks)
  /\ at <= now
  /\ pass \in Passes => todo # <<>>
  /\ retired \subseteq Twins /\ skips \subseteq Twins

-----------------------------------------------------------------------------
(* Finite sets of numbers and pages.                                       *)

\* A finite set of numbers has a largest and a smallest one: among the sets of what is
\* above a member, or below one, there is a smallest, and it is empty.
LEMMA HasLargest ==
  ASSUME NEW S, IsFiniteSet(S), S \subseteq Nat, S # {}
  PROVE  \E x \in S : \A y \in S : x >= y
<1> DEFINE Above(x) == {y \in S : y > x}
           R == StrictSubsetOrdering(S)
           T == {Above(x) : x \in S}
<1>1. IsWellFoundedOn(R, SUBSET S)
  BY FS_StrictSubsetOrderingWellFounded, FS_FiniteSubsetsOfFinite
<1>2. T \subseteq SUBSET S /\ T # {}
  OBVIOUS
<1>3. PICK A \in T : \A B \in T : ~ (<<B, A>> \in R)
  <2> HIDE DEF R, T
  <2> QED BY <1>1, <1>2, WFMin
<1>4. PICK x \in S : A = Above(x)
  BY <1>3
<1>5. \A y \in S : y <= x
  <2> SUFFICES ASSUME NEW y \in S, y > x PROVE FALSE
    OBVIOUS
  <2>0. x \in Nat /\ y \in Nat /\ \A z \in S : z > y => z > x
    BY <1>4
  <2>1. Above(y) \subseteq A /\ Above(y) # A
    <3>1. y \in A /\ y \notin Above(y)
      BY <1>4, <2>0
    <3>2. \A z \in Above(y) : z \in A
      BY <1>4, <2>0
    <3> QED BY <3>1, <3>2
  <2>2. <<Above(y), A>> \in R
    BY <2>1, <1>4 DEF StrictSubsetOrdering
  <2>3. Above(y) \in T
    OBVIOUS
  <2> QED BY <1>3, <2>2, <2>3
<1> QED BY <1>5

LEMMA HasSmallest ==
  ASSUME NEW S, IsFiniteSet(S), S \subseteq Nat, S # {}
  PROVE  \E x \in S : \A y \in S : x <= y
<1> DEFINE Below(x) == {y \in S : y < x}
           R == StrictSubsetOrdering(S)
           T == {Below(x) : x \in S}
<1>1. IsWellFoundedOn(R, SUBSET S)
  BY FS_StrictSubsetOrderingWellFounded, FS_FiniteSubsetsOfFinite
<1>2. T \subseteq SUBSET S /\ T # {}
  OBVIOUS
<1>3. PICK A \in T : \A B \in T : ~ (<<B, A>> \in R)
  <2> HIDE DEF R, T
  <2> QED BY <1>1, <1>2, WFMin
<1>4. PICK x \in S : A = Below(x)
  BY <1>3
<1>5. \A y \in S : x <= y
  <2> SUFFICES ASSUME NEW y \in S, y < x PROVE FALSE
    OBVIOUS
  <2>0. x \in Nat /\ y \in Nat /\ \A z \in S : z < y => z < x
    BY <1>4
  <2>1. Below(y) \subseteq A /\ Below(y) # A
    <3>1. y \in A /\ y \notin Below(y)
      BY <1>4, <2>0
    <3>2. \A z \in Below(y) : z \in A
      BY <1>4, <2>0
    <3> QED BY <3>1, <3>2
  <2>2. <<Below(y), A>> \in R
    BY <2>1, <1>4 DEF StrictSubsetOrdering
  <2>3. Below(y) \in T
    OBVIOUS
  <2> QED BY <1>3, <2>2, <2>3
<1> QED BY <1>5

\* A short page is everything the walk asks for, and on a full one whatever it asks for
\* up to the last item.
LEMMA PagesAreOrdered ==
  ASSUME ConstantsType, NEW w
  PROVE  LET page == PageOf(w) IN
         /\ page \subseteq Asked(w) /\ page \subseteq Items
         /\ Cardinality(page) < PageSize => page = Asked(w)
         /\ Cardinality(page) = PageSize =>
              /\ Max(page) \in page
              /\ \A i \in Asked(w) : i <= Max(page) => i \in page
<1> DEFINE page == PageOf(w)
           before(i) == {j \in Asked(w) : j < i}
<1>1. /\ page \subseteq Asked(w) /\ Asked(w) \subseteq Items /\ Items \subseteq Nat
      /\ IsFiniteSet(Asked(w)) /\ IsFiniteSet(page) /\ PageSize \in Nat \ {0}
  <2>1. /\ page \subseteq Asked(w) /\ Asked(w) \subseteq Items /\ Items \subseteq Nat
        /\ IsFiniteSet(Items) /\ PageSize \in Nat \ {0}
    BY DEF PageOf, Asked, ConstantsType
  <2> QED BY <2>1, FS_Subset
<1>2. \A i \in Asked(w) : /\ before(i) \subseteq Asked(w)
                          /\ IsFiniteSet(before(i))
                          /\ Cardinality(before(i)) \in Nat
  BY <1>1, FS_Subset, FS_CardinalityType
<1>3. \A i \in Asked(w) : i \in page <=> Cardinality(before(i)) < PageSize
  BY DEF PageOf
<1>4. \A i \in page, j \in Asked(w) : j < i => j \in page
  <2> SUFFICES ASSUME NEW i \in page, NEW j \in Asked(w), j < i PROVE j \in page
    OBVIOUS
  <2>1. i \in Asked(w) /\ i \in Nat /\ j \in Nat
    BY <1>1
  <2>2. before(j) \subseteq before(i)
    <3>1. \A z \in Asked(w) : z \in Nat
      BY <1>1
    <3>2. \A z \in before(j) : z \in before(i)
      BY <2>1, <3>1
    <3> QED BY <3>2
  <2>3. Cardinality(before(j)) <= Cardinality(before(i))
    BY <2>1, <2>2, <1>2, FS_Subset
  <2> HIDE DEF before, page
  <2> QED BY <2>1, <2>3, <1>1, <1>2, <1>3
<1>5. ASSUME Cardinality(page) < PageSize PROVE page = Asked(w)
  <2> SUFFICES ASSUME NEW i \in Asked(w), i \notin page PROVE FALSE
    BY <1>1
  <2> DEFINE rest == Asked(w) \ page
  <2>1. IsFiniteSet(rest) /\ rest \subseteq Nat /\ rest # {}
    BY <1>1, FS_Subset
  <2>2. PICK m \in rest : \A y \in rest : m <= y
    BY <2>1, HasSmallest
  <2>3. before(m) \subseteq page
    <3>1. \A z \in Asked(w) : z \in Nat
      BY <1>1
    <3>2. \A z \in before(m) : z \notin rest
      BY <2>2, <3>1
    <3> QED BY <3>2
  <2>4. Cardinality(before(m)) <= Cardinality(page)
    BY <2>3, <1>1, FS_Subset
  <2>5. Cardinality(before(m)) \in Nat /\ Cardinality(page) \in Nat
    BY <1>1, <1>2, FS_CardinalityType
  <2> HIDE DEF before, page
  <2> QED BY <1>1, <1>3, <1>5, <2>2, <2>4, <2>5
<1>6. ASSUME Cardinality(page) = PageSize
      PROVE  Max(page) \in page /\ \A i \in Asked(w) : i <= Max(page) => i \in page
  <2>1. page # {}
    BY <1>1, <1>6, FS_EmptySet
  <2>2. Max(page) \in page
    BY <2>1, <1>1, HasLargest DEF Max
  <2>3. \A i \in Asked(w) : i \in Nat
    BY <1>1
  <2>4. Max(page) \in Nat
    BY <2>2, <2>3, <1>1
  <2> HIDE DEF page
  <2>5. \A i \in Asked(w) : i <= Max(page) => i = Max(page) \/ i < Max(page)
    BY <2>3, <2>4
  <2> QED BY <2>2, <2>5, <1>4
<1> QED BY <1>1, <1>5, <1>6

-----------------------------------------------------------------------------
(* What time, changes and writes do to what is late.                       *)

\* Time does not go back, and what becomes late is stamped at most Lag before now.
Progress ==
  /\ now <= now'
  /\ \A i \in Late' : \/ i \in Late /\ stamp'[i] = stamp[i]
                      \/ 0 <= stamp'[i] /\ now - Lag <= stamp'[i]

LEMMA WalkFields ==
  ASSUME NEW w \in WalkType
  PROVE  /\ w.id \in WalkIds \cup {"none"} /\ w.since \in Times \cup {None}
         /\ w.after \in {0} \cup Items /\ w.started \in 0 .. MaxTime
BY DEF WalkType

\* What was true of a walk and of a cursor stays true of it.
LEMMA StillSound ==
  ASSUME ConstantsType, PlainTypes, now' \in 0 .. MaxTime, stamp' \in [Items -> 0 .. MaxTime],
         Progress
  PROVE  Walks \subseteq Walks' /\ Cursors \subseteq Cursors'
<1>1. /\ Late \subseteq Items /\ Late' \subseteq Items
      /\ \A i \in Items : stamp[i] \in Int /\ stamp'[i] \in Int
      /\ now \in Int /\ now' \in Int /\ Overlap \in Int /\ Lag \in Int /\ Lag <= Overlap
      /\ MaxTime \in Int /\ now <= now'
  BY DEF Late, Due, PlainTypes, ConstantsType, Progress
<1>2. ASSUME NEW kind, NEW t \in Int, t <= 0 \/ t <= now - Lag, Covers(kind, t)
      PROVE  \A i \in Late' : KindOf[i] = kind => t <= stamp'[i]
  BY <1>1, <1>2 DEF Covers, Progress
<1>3. Times \subseteq Int
  BY <1>1 DEF Times
<1>4. ASSUME NEW w \in Walks PROVE w \in Walks'
  <2>1. /\ w \in WalkType /\ w.started \in Int /\ w.started <= now
        /\ w.since # None => w.since \in Int
    <3>1. w \in WalkType /\ w.started <= now
      BY DEF Walks
    <3>2. w.started \in 0 .. MaxTime /\ w.since \in Times \cup {None}
      BY <3>1, WalkFields
    <3>3. w.started \in Int
      BY <3>2, SMT
    <3>4. w.since # None => w.since \in Int
      BY <1>3, <3>2, Zenon
    <3> QED BY <3>1, <3>3, <3>4, Zenon
  <2>2. w.since # None =>
          /\ w.since <= 0 \/ w.since <= now - Lag
          /\ Covers(KindOfWalk(w.id), w.since)
    BY DEF Walks
  <2>3. w.since # None =>
          /\ w.since <= 0 \/ w.since <= now' - Lag
          /\ \A i \in Late' : KindOf[i] = KindOfWalk(w.id) => w.since <= stamp'[i]
    BY <1>1, <1>2, <2>1, <2>2
  <2>4. \A i \in Late' : KindOf[i] = KindOfWalk(w.id) /\ i <= w.after =>
          w.started - Overlap <= stamp'[i]
    BY <1>1, <2>1 DEF Walks, Progress
  <2> QED BY <1>1, <2>1, <2>3, <2>4 DEF Walks, Covers
<1>5. ASSUME NEW c \in Cursors PROVE c \in Cursors'
  <2>1. /\ c \in CursorType /\ c.pending \in Walks
        /\ c.since # None => c.since \in Int /\ c.since <= now - Overlap
                             /\ Covers("fixture", c.since)
        /\ c.playsSince # None => c.playsSince \in Int /\ c.playsSince <= now - Overlap
                             /\ Covers("plays", c.playsSince)
    BY <1>3 DEF Cursors, CursorType
  <2>2. /\ c.since # None => c.since <= now' - Overlap
             /\ \A i \in Late' : KindOf[i] = "fixture" => c.since <= stamp'[i]
        /\ c.playsSince # None => c.playsSince <= now' - Overlap
             /\ \A i \in Late' : KindOf[i] = "plays" => c.playsSince <= stamp'[i]
    BY <1>1, <1>2, <2>1
  <2> QED BY <1>4, <2>1, <2>2 DEF Cursors, Covers
<1> QED BY <1>4, <1>5

\* A step that writes nothing upstream and undoes no row is progress.
LEMMA Quiet ==
  ASSUME ConstantsType, PlainTypes, UNCHANGED <<now, upstream>>, Late' \subseteq Late
  PROVE  Progress
BY DEF Progress, upstream, PlainTypes

\* Applying a page leaves nothing of it late: fixtures are refused only for their league,
\* and plays that have no fixture are given up.
LEMMA Applied ==
  ASSUME ConstantsType, PlainTypes, skips \subseteq Twins, UNCHANGED upstream,
         NEW page \in SUBSET Items, Apply(page)
  PROVE  /\ row' \in [Items -> Nat] /\ known' \subseteq Leagues /\ known \subseteq known'
         /\ retired' = retired /\ orphaned' \subseteq Items
         /\ Late' \subseteq Late \ page
<1> DEFINE in == Landing(page)
<1>1. in \subseteq page /\ in \subseteq Items
  BY DEF Landing, Mapped
<1>2. /\ row' = [i \in Items |-> IF i \in in THEN ver[i] ELSE row[i]]
      /\ known' = known \cup (in \cap Leagues)
                    \cup {LeagueOf[i] : i \in {j \in in : KindOf[j] = "fixture"}}
      /\ orphaned' = (orphaned \ in) \cup {i \in page \ in : KindOf[i] = "plays"}
      /\ retired' = retired /\ ver' = ver
  BY DEF Apply, upstream
<1>3. row \in [Items -> Nat] /\ ver \in [Items -> Nat] /\ orphaned \subseteq Items
      /\ known \subseteq Leagues
  BY DEF PlainTypes
<1>4. {LeagueOf[i] : i \in {j \in in : KindOf[j] = "fixture"}} \subseteq Leagues
  BY <1>1 DEF ConstantsType
<1>5. \A i \in page \cap Due : KindOf[i] = "fixture" => i \in in
  BY DEF Due, LeftOut, Landing, Mapped, LandsFixture
<1>6. \A i \in page \cap Due : KindOf[i] = "fixture" \/ KindOf[i] = "plays"
  BY DEF Due
<1> HIDE DEF in
<1>7. \A i \in Due : Held(i) => row'[i] = ver[i] \/ (KindOf[i] = "plays" /\ i \in orphaned')
  <2> SUFFICES ASSUME NEW i \in Due, Held(i)
               PROVE  row'[i] = ver[i] \/ (KindOf[i] = "plays" /\ i \in orphaned')
    OBVIOUS
  <2>1. i \in Items
    BY DEF Due
  <2> QED BY <2>1, <1>2 DEF Held
<1>8. \A i \in page \cap Due : row'[i] = ver[i] \/ (KindOf[i] = "plays" /\ i \in orphaned')
  BY <1>1, <1>2, <1>5, <1>6
<1>9. Late' \subseteq Late \ page
  BY <1>2, <1>7, <1>8 DEF Late, Held, Due, LeftOut
<1> QED BY <1>1, <1>2, <1>3, <1>4, <1>9

\* What is late depends on the rows and upstream alone.
LEMMA SameLate ==
  ASSUME UNCHANGED <<upstream, row, orphaned>>
  PROVE  Late' = Late
BY DEF Late, Held, Due, LeftOut, upstream

\* The walk of the next request is sound, wherever it was taken up.
LEMMA CurrentIsSound ==
  ASSUME ConstantsType, IInv, Walking
  PROVE  Current \in Walks
<1>1. walk \in Walks /\ mem.pending \in Walks /\ todo \in Seq(Walks) /\ todo # <<>>
  BY DEF IInv, Cursors, Walking
<1>2. Head(todo) \in Walks
  BY <1>1, HeadTailProperties
<1>3. [Head(todo) EXCEPT !.after = 0, !.started = at] \in Walks
  <2> DEFINE h == Head(todo)
             w == [h EXCEPT !.after = 0, !.started = at]
  <2>1. h \in WalkType /\ w \in WalkType /\ w.since = h.since /\ w.id = h.id /\ w.after = 0
        /\ w.started = at
    BY <1>2 DEF Walks, WalkType, IInv, PlainTypes
  <2>2. \A i \in Late : ~(i <= 0)
    BY DEF Late, Due, ConstantsType
  <2>3. w \in Walks
    <3> HIDE DEF h, w
    <3>1. h \in Walks /\ at <= now
      BY <1>2 DEF h, IInv
    <3> QED BY <2>1, <2>2, <3>1 DEF Walks
  <2> QED BY <2>3
<1> QED BY <1>1, <1>2, <1>3 DEF Current

-----------------------------------------------------------------------------
(* What the steps of a pass leave behind is sound.                         *)

LEMMA NoWalkIsSound ==
  ASSUME ConstantsType, PlainTypes
  PROVE  /\ NoWalk \in Walks
         /\ \A id \in WalkIds : WalkOf(id, None) \in Walks
         /\ WalkOf("plays:since", 0) \in Walks
         /\ \A id \in WalkIds, t \in Times :
              t <= now - Overlap /\ Covers(KindOfWalk(id), t) => WalkOf(id, t) \in Walks
<1>1. /\ \A i \in Late : ~(i <= 0) /\ i \in Items
      /\ \A i \in Items : 0 <= stamp[i] /\ stamp[i] \in Int
      /\ now \in Nat /\ 0 <= now /\ 0 \in Times /\ 0 \in 0 .. MaxTime
      /\ Overlap \in Int /\ Lag \in Int /\ Lag <= Overlap /\ Times \subseteq Int
  BY DEF Late, Due, ConstantsType, PlainTypes, Times
<1>2. ASSUME NEW id \in WalkIds \cup {"none"}, NEW t \in Times \cup {None},
             t # None => /\ t <= 0 \/ t <= now - Lag
                         /\ Covers(KindOfWalk(id), t)
      PROVE  [id |-> id, since |-> t, after |-> 0, started |-> 0] \in Walks
  <2> DEFINE w == [id |-> id, since |-> t, after |-> 0, started |-> 0]
  <2>1. w \in WalkType /\ w.id = id /\ w.since = t /\ w.after = 0 /\ w.started = 0
    BY <1>1 DEF WalkType
  <2> HIDE DEF w
  <2>2. w \in Walks
    BY <1>1, <1>2, <2>1 DEF Walks
  <2> QED BY <2>2 DEF w
<1>4. NoWalk \in Walks
  BY <1>2 DEF NoWalk
<1>5. \A id \in WalkIds : WalkOf(id, None) \in Walks
  BY <1>2 DEF WalkOf
<1>6. \A k : Covers(k, 0)
  BY <1>1 DEF Covers
<1>7. WalkOf("plays:since", 0) \in Walks
  BY <1>1, <1>2, <1>6 DEF WalkIds, WalkOf
<1>8. ASSUME NEW id \in WalkIds, NEW t \in Times, t <= now - Overlap, Covers(KindOfWalk(id), t)
      PROVE  WalkOf(id, t) \in Walks
  <2>1. t <= now - Lag
    BY <1>1, <1>8
  <2> QED BY <1>2, <1>8, <2>1 DEF WalkOf
<1> QED BY <1>4, <1>5, <1>7, <1>8

LEMMA CursorFields ==
  ASSUME NEW c \in CursorType
  PROVE  /\ c.since \in Times \cup {None} /\ c.playsSince \in Times \cup {None}
         /\ c.pending \in WalkType /\ c.hour \in 0 .. MaxTime \div Hour
         /\ c.calls \in 0 .. Budget
BY DEF CursorType

\* What a step may write into a cursor.
LEMMA Edits ==
  ASSUME NEW c \in Cursors'
  PROVE  /\ \A h \in 0 .. MaxTime \div Hour, n \in 0 .. Budget :
              [c EXCEPT !.hour = h, !.calls = n] \in Cursors'
         /\ \A n \in 0 .. Budget : [c EXCEPT !.calls = n] \in Cursors'
         /\ \A w \in Walks' : [c EXCEPT !.pending = w] \in Cursors'
         /\ \A t \in Times : t <= now' - Overlap /\ Covers("fixture", t)' =>
              [c EXCEPT !.since = t] \in Cursors'
         /\ \A t \in Times : t <= now' - Overlap /\ Covers("plays", t)' =>
              [c EXCEPT !.playsSince = t] \in Cursors'
<1>1. c \in CursorType
  BY DEF Cursors
<1>2. /\ \A h \in 0 .. MaxTime \div Hour, n \in 0 .. Budget :
           [c EXCEPT !.hour = h, !.calls = n] \in CursorType
      /\ \A n \in 0 .. Budget : [c EXCEPT !.calls = n] \in CursorType
      /\ \A w \in WalkType : [c EXCEPT !.pending = w] \in CursorType
      /\ \A t \in Times : [c EXCEPT !.since = t] \in CursorType
      /\ \A t \in Times : [c EXCEPT !.playsSince = t] \in CursorType
  <2>1. \A h \in 0 .. MaxTime \div Hour, n \in 0 .. Budget :
          [c EXCEPT !.hour = h, !.calls = n] \in CursorType
    BY <1>1 DEF CursorType
  <2>2. \A n \in 0 .. Budget : [c EXCEPT !.calls = n] \in CursorType
    BY <1>1 DEF CursorType
  <2>3. \A w \in WalkType : [c EXCEPT !.pending = w] \in CursorType
    BY <1>1 DEF CursorType
  <2>4. \A t \in Times : [c EXCEPT !.since = t] \in CursorType
    BY <1>1 DEF CursorType
  <2>5. \A t \in Times : [c EXCEPT !.playsSince = t] \in CursorType
    BY <1>1 DEF CursorType
  <2> QED BY <2>1, <2>2, <2>3, <2>4, <2>5
<1>3. Walks' \subseteq WalkType
  BY DEF Walks
<1> QED BY <1>1, <1>2, <1>3 DEF Cursors, CursorType, Covers

\* What a page leaves late of the walk's kind is behind it by a change since it started,
\* or was asked for and is not on the page.
LEMMA Reached ==
  ASSUME ConstantsType, PlainTypes, NEW w \in Walks, NEW page,
         UNCHANGED stamp, Late' \subseteq Late \ page
  PROVE  \A i \in Late' : KindOf[i] = KindOfWalk(w.id) /\ (i \in Asked(w) => i \in page) =>
           w.started - Overlap <= stamp'[i]
<1> SUFFICES ASSUME NEW i \in Late', KindOf[i] = KindOfWalk(w.id), i \notin Asked(w)
             PROVE  w.started - Overlap <= stamp[i]
  OBVIOUS
<1>1. i \in Late /\ i \in Due /\ i \in Items /\ i \in Nat /\ stamp[i] \in Int
  BY DEF Late, Due, ConstantsType, PlainTypes
<1>2. w \in WalkType
  BY DEF Walks
<1>3. w.after \in Nat /\ w.since \in Times \cup {None}
  <2>1. w.after \in {0} \cup Items /\ w.since \in Times \cup {None}
    BY <1>2, WalkFields
  <2>2. \A j \in Items : j \in Nat
    BY DEF ConstantsType
  <2>3. w.after = 0 \/ w.after \in Items
    BY <2>1, Zenon
  <2>4. w.after \in Nat
    BY <2>2, <2>3
  <2> QED BY <2>1, <2>4
<1>4. w.since # None => w.since <= stamp[i]
  BY <1>1 DEF Walks, Covers
<1>5. w.since # None => w.since \in Int
  BY <1>3 DEF Times, ConstantsType
<1>6. w.id = "fixtures:all" => i \notin Old
  BY <1>1 DEF KindOfWalk, Due, LeftOut
<1>7. i <= w.after
  BY <1>1, <1>3, <1>4, <1>5, <1>6 DEF Asked
<1> QED BY <1>1, <1>7 DEF Walks

\* So a full page moves the walk to its last item, and a short one brings the cursor to
\* the walk's start, less the overlap.
LEMMA MovedOn ==
  ASSUME ConstantsType, PlainTypes, NEW w \in Walks, NEW m \in Items, NEW page,
         UNCHANGED <<now, stamp>>, Late' \subseteq Late \ page, Walks \subseteq Walks',
         \A i \in Asked(w) : i <= m => i \in page
  PROVE  [w EXCEPT !.after = m] \in Walks'
<1> DEFINE v == [w EXCEPT !.after = m]
<1>1. w \in WalkType /\ w \in Walks'
  BY DEF Walks
<1>2. v \in WalkType /\ v.id = w.id /\ v.since = w.since /\ v.after = m /\ v.started = w.started
  BY <1>1 DEF WalkType
<1>3. \A i \in Late' : KindOf[i] = KindOfWalk(w.id) /\ i <= m => w.started - Overlap <= stamp'[i]
  BY Reached
<1> HIDE DEF v
<1>4. v \in Walks'
  BY <1>1, <1>2, <1>3 DEF Walks
<1> QED BY <1>4 DEF v

LEMMA FinishedIsSound ==
  ASSUME ConstantsType, PlainTypes, NEW w \in Walks,
         UNCHANGED <<now, stamp>>, Late' \subseteq Late \ Asked(w),
         NoWalk \in Walks', Spent \in Cursors'
  PROVE  Finished(w) \in Cursors'
<1> DEFINE c == [Spent EXCEPT !.pending = NoWalk]
           t == w.started - Overlap
<1>1. c \in Cursors'
  BY Edits
<1>2. \A i \in Late' : KindOf[i] = KindOfWalk(w.id) => t <= stamp'[i]
  BY Reached
<1>3. t \in Times /\ t <= now' - Overlap
  <2>1. w \in WalkType /\ w.started <= now
    BY DEF Walks
  <2>2. w.started \in 0 .. MaxTime
    BY <2>1, WalkFields
  <2> QED BY <2>1, <2>2 DEF Times, ConstantsType, PlainTypes
<1>4. /\ c \in CursorType
      /\ [c EXCEPT !.since = c.since] = c /\ [c EXCEPT !.playsSince = c.playsSince] = c
  BY <1>1 DEF Cursors, CursorType
<1>5. \A old : Advanced(old, w.started) \in {old, t}
  BY DEF Advanced
<1> HIDE DEF c, t
<1>6. CASE KindOfWalk(w.id) = "fixture"
  <2>1. \A i \in Late' : KindOf[i] = "fixture" => t <= stamp'[i]
    BY <1>2, <1>6
  <2>2. [c EXCEPT !.since = t] \in Cursors'
    BY <1>1, <1>3, <2>1, Edits DEF Covers
  <2>3. Finished(w) = [c EXCEPT !.since = Advanced(c.since, w.started)]
    BY <1>6 DEF Finished, c
  <2> QED BY <1>1, <1>4, <1>5, <2>2, <2>3
<1>7. CASE KindOfWalk(w.id) = "plays"
  <2>1. \A i \in Late' : KindOf[i] = "plays" => t <= stamp'[i]
    BY <1>2, <1>7
  <2>2. [c EXCEPT !.playsSince = t] \in Cursors'
    BY <1>1, <1>3, <2>1, Edits DEF Covers
  <2>3. Finished(w) = [c EXCEPT !.playsSince = Advanced(c.playsSince, w.started)]
    BY <1>7 DEF Finished, c
  <2> QED BY <1>1, <1>4, <1>5, <2>2, <2>3
<1>8. CASE ~(KindOfWalk(w.id) = "fixture" \/ KindOfWalk(w.id) = "plays")
  BY <1>1, <1>8 DEF Finished, c
<1> QED BY <1>6, <1>7, <1>8

-----------------------------------------------------------------------------
(* The inductive invariant.                                                *)

LEMMA InvImpliesTypes == IInv => TypeOK
<1> SUFFICES ASSUME IInv PROVE TypeOK
  OBVIOUS
<1>1. Walks \subseteq WalkType /\ Cursors \subseteq CursorType
  BY DEF Walks, Cursors
<1>2. todo \in Seq(WalkType)
  BY <1>1, SeqMonotonic DEF IInv
<1> QED BY <1>1, <1>2 DEF IInv, TypeOK, PlainTypes

LEMMA InitInv ==
  ASSUME ConstantsType, Init
  PROVE  IInv
<1>1. PlainTypes
  <2>1. /\ now \in 0 .. MaxTime /\ changes \in 0 .. MaxChanges /\ faults \in 0 .. MaxFaults
        /\ at \in 0 .. MaxTime /\ owes \in BOOLEAN /\ 0 \in 0 .. MaxTime
    <3>1. MaxTime \in Nat /\ MaxChanges \in Nat /\ MaxFaults \in Nat
      BY DEF ConstantsType
    <3>2. now = 0 /\ changes = 0 /\ faults = 0 /\ at = 0 /\ owes = FALSE
      BY DEF Init
    <3>3. owes \in BOOLEAN
      BY <3>2, Zenon
    <3>4. \A m \in Nat : 0 \in 0 .. m
      BY SMT
    <3> QED BY <3>1, <3>2, <3>3, <3>4
  <2>2. ver \in [Items -> Nat] /\ row \in [Items -> Nat]
    BY DEF Init
  <2>3. stamp \in [Items -> 0 .. MaxTime]
    BY <2>1 DEF Init
  <2>4. /\ known \subseteq Leagues /\ retired \subseteq known /\ skips \subseteq known
        /\ pass \in Passes \cup {"saving", None} /\ orphaned \subseteq Items
    BY DEF Init
  <2> QED BY <2>1, <2>2, <2>3, <2>4 DEF PlainTypes
<1>2. NoWalk \in Walks
  BY <1>1, NoWalkIsSound
<1>3. 0 \in 0 .. MaxTime \div Hour /\ 0 \in 0 .. Budget
  BY DEF ConstantsType
<1>4. NoWalk \in WalkType
  BY <1>2 DEF Walks
<1>5. NeverSynced \in CursorType
  BY <1>3, <1>4 DEF NeverSynced, CursorType
<1>6. NeverSynced.since = None /\ NeverSynced.playsSince = None /\ NeverSynced.pending = NoWalk
  BY DEF NeverSynced
<1>7. NeverSynced \in Cursors
  BY <1>2, <1>5, <1>6 DEF Cursors
<1> QED BY <1>1, <1>2, <1>7 DEF IInv, Init, ConstantsType

\* What a step leaves alone stays sound.
LEMMA LeftAlone ==
  ASSUME ConstantsType, IInv, UNCHANGED <<now, upstream>>, Late' \subseteq Late
  PROVE  Walks \subseteq Walks' /\ Cursors \subseteq Cursors' /\ Seq(Walks) \subseteq Seq(Walks')
<1>1. now' \in 0 .. MaxTime /\ stamp' \in [Items -> 0 .. MaxTime]
  BY DEF IInv, PlainTypes, upstream
<1>2. Walks \subseteq Walks' /\ Cursors \subseteq Cursors'
  BY <1>1, Quiet, StillSound DEF IInv
<1> QED BY <1>2, SeqMonotonic

LEMMA QueueIsSound ==
  ASSUME ConstantsType, IInv, NEW kind \in Passes
  PROVE  Queue(kind, saved) \in Seq(Walks) /\ Queue(kind, saved) # <<>>
<1>1. /\ saved.pending \in Walks /\ PlainTypes
      /\ saved.since \in Times \cup {None} /\ saved.playsSince \in Times \cup {None}
      /\ saved.since # None => saved.since <= now - Overlap /\ Covers("fixture", saved.since)
      /\ saved.playsSince # None =>
           saved.playsSince <= now - Overlap /\ Covers("plays", saved.playsSince)
  BY CursorFields DEF IInv, Cursors
<1>2. FixturesSince(saved) \in Walks
  BY <1>1, NoWalkIsSound DEF FixturesSince, WalkIds, KindOfWalk
<1>3. PlaysSince(saved) \in Walks
  BY <1>1, NoWalkIsSound DEF PlaysSince, WalkIds, KindOfWalk
<1>4. Catalogue \in Seq(Walks) /\ Catalogue # <<>>
  BY <1>1, NoWalkIsSound DEF Catalogue, WalkIds
<1>5. WalkOf("fixtures:all", None) \in Walks /\ WalkOf("broadcast", None) \in Walks
  BY <1>1, NoWalkIsSound DEF WalkIds
<1>6. Specs(kind, saved) \in Seq(Walks) /\ Specs(kind, saved) # <<>>
  BY <1>2, <1>3, <1>4, <1>5 DEF Specs, Passes
<1>7. <<saved.pending>> \o Specs(kind, saved) \in Seq(Walks)
  BY <1>1, <1>6
<1>8. <<saved.pending>> \o Specs(kind, saved) # <<>>
  BY <1>1, <1>6
<1> HIDE DEF Specs
<1> QED BY <1>6, <1>7, <1>8 DEF Queue

LEMMA BeginKeeps ==
  ASSUME ConstantsType, IInv, NEW kind \in Passes, Begin(kind)
  PROVE  IInv'
<1>1. /\ pass' = kind /\ at' = now /\ walk' = NoWalk /\ skips' = retired
      /\ todo' = Queue(kind, saved)
      /\ UNCHANGED <<now, upstream, tables, saved, owes, faults>>
      /\ mem' = IF saved.hour = now \div Hour THEN saved
                ELSE [saved EXCEPT !.hour = now \div Hour, !.calls = 0]
  BY DEF Begin
<1>2. Late' = Late
  BY <1>1, SameLate DEF tables
<1>3. Walks \subseteq Walks' /\ Cursors \subseteq Cursors' /\ Seq(Walks) \subseteq Seq(Walks')
  BY <1>1, <1>2, LeftAlone
<1>4. PlainTypes'
  BY <1>1 DEF IInv, PlainTypes, upstream, tables
<1>5. todo' \in Seq(Walks') /\ todo' # <<>>
  BY <1>1, <1>3, QueueIsSound
<1>6. walk' \in Walks'
  BY <1>1, <1>3, NoWalkIsSound DEF IInv
<1>7. saved' \in Cursors'
  BY <1>1, <1>3 DEF IInv
<1>8. now \div Hour \in 0 .. MaxTime \div Hour /\ 0 \in 0 .. Budget
  BY DEF IInv, PlainTypes, ConstantsType
<1>9. mem' \in Cursors'
  BY <1>1, <1>7, <1>8, Edits
<1>10. at' <= now' /\ retired' \subseteq Twins /\ skips' \subseteq Twins
  BY <1>1 DEF IInv, PlainTypes, tables
<1> QED BY <1>4, <1>5, <1>6, <1>7, <1>9, <1>10 DEF IInv

\* The budget has room for one more request.
LEMMA SpentIsSound ==
  ASSUME ConstantsType, mem \in Cursors, mem.calls < Budget, Cursors \subseteq Cursors'
  PROVE  Spent \in Cursors'
<1>1. mem.calls + 1 \in 0 .. Budget
  BY CursorFields DEF Cursors, ConstantsType
<1> QED BY <1>1, Edits DEF Spent

\* What both kinds of page do.
LEMMA PageApplied ==
  ASSUME ConstantsType, IInv, Walking, mem.calls < Budget, Apply(PageOf(Current)),
         UNCHANGED <<now, upstream>>
  PROVE  /\ Current \in Walks /\ PageOf(Current) \subseteq Items
         /\ row' \in [Items -> Nat] /\ known' \subseteq Leagues /\ known \subseteq known'
         /\ retired' = retired /\ orphaned' \subseteq Items
         /\ Late' \subseteq Late \ PageOf(Current)
         /\ Walks \subseteq Walks' /\ Cursors \subseteq Cursors' /\ Seq(Walks) \subseteq Seq(Walks')
         /\ Spent \in Cursors'
<1>1. Current \in Walks /\ PageOf(Current) \subseteq Items
  BY CurrentIsSound, PagesAreOrdered
<1>2. /\ row' \in [Items -> Nat] /\ known' \subseteq Leagues /\ known \subseteq known'
      /\ retired' = retired /\ orphaned' \subseteq Items
      /\ Late' \subseteq Late \ PageOf(Current)
  BY <1>1, Applied DEF IInv
<1>3. Walks \subseteq Walks' /\ Cursors \subseteq Cursors' /\ Seq(Walks) \subseteq Seq(Walks')
  BY <1>2, LeftAlone
<1>4. Spent \in Cursors'
  BY <1>3, SpentIsSound DEF IInv
<1> QED BY <1>1, <1>2, <1>3, <1>4

LEMMA FullPageKeeps ==
  ASSUME ConstantsType, IInv, FullPage
  PROVE  IInv'
<1> DEFINE page == PageOf(Current)
           w == [Current EXCEPT !.after = Max(page)]
<1>1. /\ Walking /\ mem.calls < Budget /\ Cardinality(page) = PageSize /\ Apply(page)
      /\ walk' = w /\ mem' = Moved(w) /\ owes' = (owes \/ known' # known)
      /\ UNCHANGED <<now, upstream, saved, pass, at, todo, skips, faults>>
  BY DEF FullPage
<1>2. /\ Current \in Walks /\ page \subseteq Items
      /\ row' \in [Items -> Nat] /\ known' \subseteq Leagues /\ known \subseteq known'
      /\ retired' = retired /\ orphaned' \subseteq Items
      /\ Late' \subseteq Late \ page
      /\ Walks \subseteq Walks' /\ Cursors \subseteq Cursors' /\ Seq(Walks) \subseteq Seq(Walks')
      /\ Spent \in Cursors'
  BY <1>1, PageApplied
<1>3. Max(page) \in page /\ \A i \in Asked(Current) : i <= Max(page) => i \in page
  BY <1>1, PagesAreOrdered
<1> HIDE DEF page
<1>4. w \in Walks'
  BY <1>1, <1>2, <1>3, MovedOn DEF IInv, upstream
<1>5. PlainTypes'
  BY <1>1, <1>2 DEF IInv, PlainTypes, upstream
<1> HIDE DEF w
<1>6. mem' \in Cursors'
  BY <1>1, <1>2, <1>4, Edits DEF Moved
<1>7. saved' \in Cursors' /\ walk' \in Walks' /\ todo' \in Seq(Walks')
  BY <1>1, <1>2, <1>4 DEF IInv
<1>8. /\ at' <= now' /\ (pass' \in Passes => todo' # <<>>)
      /\ retired' \subseteq Twins /\ skips' \subseteq Twins
  BY <1>1, <1>2 DEF IInv
<1> QED BY <1>5, <1>6, <1>7, <1>8 DEF IInv

LEMMA LastPageKeeps ==
  ASSUME ConstantsType, IInv, LastPage
  PROVE  IInv'
<1> DEFINE page == PageOf(Current)
<1>1. /\ Walking /\ mem.calls < Budget /\ Cardinality(page) < PageSize /\ Apply(page)
      /\ mem' = Finished(Current) /\ walk' = NoWalk /\ todo' = Tail(todo)
      /\ pass' = IF Len(todo) = 1 THEN "saving" ELSE pass
      /\ owes' = (owes \/ known' # known \/ (Len(todo) = 1 /\ pass \in {"all", "catalogue"}))
      /\ UNCHANGED <<now, upstream, saved, at, skips, faults>>
  BY DEF LastPage
<1>2. /\ Current \in Walks /\ page \subseteq Items
      /\ row' \in [Items -> Nat] /\ known' \subseteq Leagues /\ known \subseteq known'
      /\ retired' = retired /\ orphaned' \subseteq Items
      /\ Late' \subseteq Late \ page
      /\ Walks \subseteq Walks' /\ Cursors \subseteq Cursors' /\ Seq(Walks) \subseteq Seq(Walks')
      /\ Spent \in Cursors'
  BY <1>1, PageApplied
<1>3. page = Asked(Current)
  BY <1>1, PagesAreOrdered
<1> HIDE DEF page
<1>4. NoWalk \in Walks'
  BY <1>2, NoWalkIsSound DEF IInv
<1>5. mem' \in Cursors'
  BY <1>1, <1>2, <1>3, <1>4, FinishedIsSound DEF IInv, upstream
<1>6. /\ todo \in Seq(Walks) /\ todo # <<>> /\ Len(todo) \in Nat
      /\ Tail(todo) \in Seq(Walks) /\ Len(Tail(todo)) = Len(todo) - 1
  BY <1>1, HeadTailProperties, LenProperties DEF IInv, Walking
<1>7. pass' \in Passes => todo' # <<>>
  <2>1. "saving" \notin Passes
    BY DEF Passes
  <2>2. Len(todo) # 1 => Tail(todo) # <<>>
    BY <1>6, EmptySeq
  <2> QED BY <1>1, <2>1, <2>2
<1>8. PlainTypes'
  BY <1>1, <1>2 DEF IInv, PlainTypes, upstream
<1>9. saved' \in Cursors' /\ walk' \in Walks' /\ todo' \in Seq(Walks')
  BY <1>1, <1>2, <1>4, <1>6 DEF IInv
<1>10. at' <= now' /\ retired' \subseteq Twins /\ skips' \subseteq Twins
  BY <1>1, <1>2 DEF IInv
<1> QED BY <1>5, <1>7, <1>8, <1>9, <1>10 DEF IInv

\* The steps that end a pass, or write nothing.
LEMMA ExhaustedKeeps ==
  ASSUME ConstantsType, IInv, Exhausted
  PROVE  IInv'
<1>1. /\ Walking /\ pass' = "saving" /\ todo' = <<>> /\ walk' = NoWalk
      /\ mem' = IF pass = "broadcast" THEN mem ELSE [mem EXCEPT !.pending = Current]
      /\ owes' = (owes \/ pass \in {"all", "catalogue"})
      /\ UNCHANGED <<now, upstream, tables, saved, at, skips, faults>>
  BY DEF Exhausted
<1>2. Late' = Late
  BY <1>1, SameLate DEF tables
<1>3. Walks \subseteq Walks' /\ Cursors \subseteq Cursors'
  BY <1>1, <1>2, LeftAlone
<1>4. walk' \in Walks' /\ todo' \in Seq(Walks') /\ saved' \in Cursors'
  BY <1>1, <1>3, NoWalkIsSound DEF IInv
<1>5. Current \in Walks'
  BY <1>1, <1>3, CurrentIsSound
<1>6. mem' \in Cursors'
  BY <1>1, <1>3, <1>5, Edits DEF IInv
<1>7. PlainTypes'
  BY <1>1 DEF IInv, PlainTypes, upstream, tables
<1>8. /\ at' <= now' /\ pass' \notin Passes
      /\ retired' \subseteq Twins /\ skips' \subseteq Twins
  BY <1>1 DEF IInv, tables, Passes
<1> QED BY <1>4, <1>6, <1>7, <1>8 DEF IInv

LEMMA PageFailsKeeps ==
  ASSUME ConstantsType, IInv, PageFails
  PROVE  IInv'
<1>1. /\ mem.calls < Budget /\ faults < MaxFaults /\ faults' = faults + 1
      /\ mem' = Spent /\ pass' = "saving" /\ todo' = <<>> /\ walk' = NoWalk /\ owes' = FALSE
      /\ UNCHANGED <<now, upstream, tables, saved, at, skips>>
  BY DEF PageFails
<1>2. Late' = Late
  BY <1>1, SameLate DEF tables
<1>3. Walks \subseteq Walks' /\ Cursors \subseteq Cursors'
  BY <1>1, <1>2, LeftAlone
<1>4. walk' \in Walks' /\ todo' \in Seq(Walks') /\ saved' \in Cursors'
  BY <1>1, <1>3, NoWalkIsSound DEF IInv
<1>5. mem' \in Cursors'
  BY <1>1, <1>3, SpentIsSound DEF IInv
<1>6. PlainTypes'
  <2>1. faults' \in 0 .. MaxFaults
    BY <1>1 DEF IInv, PlainTypes, ConstantsType
  <2> QED BY <1>1, <2>1 DEF IInv, PlainTypes, upstream, tables
<1>7. /\ at' <= now' /\ pass' \notin Passes
      /\ retired' \subseteq Twins /\ skips' \subseteq Twins
  BY <1>1 DEF IInv, tables, Passes
<1> QED BY <1>4, <1>5, <1>6, <1>7 DEF IInv

\* A pass that is over leaves the cursor row as it is, or as the pass left its copy.
LEMMA OverKeeps ==
  ASSUME ConstantsType, IInv, Over, UNCHANGED <<now, upstream, tables>>,
         saved' \in {saved, mem}, faults' \in 0 .. MaxFaults, owes' \in BOOLEAN
  PROVE  IInv'
<1>1. /\ pass' = None /\ at' = 0 /\ mem' = NeverSynced
      /\ todo' = <<>> /\ walk' = NoWalk /\ skips' = {}
  BY DEF Over
<1>2. Late' = Late
  BY SameLate DEF tables
<1>3. Walks \subseteq Walks' /\ Cursors \subseteq Cursors'
  BY <1>2, LeftAlone
<1>4. walk' \in Walks' /\ todo' \in Seq(Walks') /\ saved' \in Cursors'
  BY <1>1, <1>3, NoWalkIsSound DEF IInv
<1>5. NoWalk \in Walks' /\ NoWalk \in WalkType
  BY <1>3, NoWalkIsSound DEF IInv, Walks
<1>6. NeverSynced \in CursorType
  BY <1>5 DEF NeverSynced, CursorType, ConstantsType
<1>7. NeverSynced.since = None /\ NeverSynced.playsSince = None /\ NeverSynced.pending = NoWalk
  BY DEF NeverSynced
<1>8. mem' \in Cursors'
  BY <1>1, <1>5, <1>6, <1>7 DEF Cursors
<1>9. PlainTypes'
  BY <1>1 DEF IInv, PlainTypes, upstream, tables, ConstantsType
<1>10. /\ at' <= now' /\ pass' \notin Passes
       /\ retired' \subseteq Twins /\ skips' \subseteq Twins
  BY <1>1 DEF IInv, PlainTypes, tables, ConstantsType
<1> QED BY <1>4, <1>8, <1>9, <1>10 DEF IInv

LEMMA RetireKeeps ==
  ASSUME ConstantsType, IInv, Retire
  PROVE  IInv'
<1>1. /\ retired' = retired \cup (known \cap Twins) /\ owes' = FALSE
      /\ UNCHANGED <<now, upstream, row, known, orphaned, saved, running, faults>>
  BY DEF Retire
<1>2. Late' = Late
  BY <1>1, SameLate
<1>3. Walks \subseteq Walks' /\ Cursors \subseteq Cursors' /\ Seq(Walks) \subseteq Seq(Walks')
  BY <1>1, <1>2, LeftAlone
<1>4. /\ saved' \in Cursors' /\ mem' \in Cursors' /\ walk' \in Walks' /\ todo' \in Seq(Walks')
  BY <1>1, <1>3 DEF IInv, running
<1>5. PlainTypes'
  BY <1>1 DEF IInv, PlainTypes, upstream, running
<1>6. /\ at' <= now' /\ (pass' \in Passes => todo' # <<>>)
      /\ retired' \subseteq Twins /\ skips' \subseteq Twins
  BY <1>1 DEF IInv, running
<1> QED BY <1>4, <1>5, <1>6 DEF IInv

\* A change makes its item late, with a stamp no cursor and no walk has passed.
LEMMA ProgressKeeps ==
  ASSUME ConstantsType, IInv, Progress, UNCHANGED <<tables, saved, running, owes, faults>>,
         ver' \in [Items -> Nat], stamp' \in [Items -> 0 .. MaxTime],
         changes' \in 0 .. MaxChanges, now' \in 0 .. MaxTime
  PROVE  IInv'
<1>1. Walks \subseteq Walks' /\ Cursors \subseteq Cursors'
  BY StillSound DEF IInv
<1>2. Seq(Walks) \subseteq Seq(Walks')
  BY <1>1, SeqMonotonic
<1>3. PlainTypes'
  BY DEF IInv, PlainTypes, tables, running
<1>4. /\ saved' \in Cursors' /\ mem' \in Cursors' /\ walk' \in Walks' /\ todo' \in Seq(Walks')
  BY <1>1, <1>2 DEF IInv, running
<1>5. /\ at' <= now' /\ (pass' \in Passes => todo' # <<>>)
      /\ retired' \subseteq Twins /\ skips' \subseteq Twins
  BY DEF IInv, PlainTypes, running, tables, Progress
<1> QED BY <1>3, <1>4, <1>5 DEF IInv

LEMMA ChangeKeeps ==
  ASSUME ConstantsType, IInv, NEW i \in Items, Change(i)
  PROVE  IInv'
<1>1. /\ changes < MaxChanges /\ changes' = changes + 1
      /\ ver' = [ver EXCEPT ![i] = @ + 1]
      /\ UNCHANGED <<now, tables, saved, running, owes, faults>>
  BY DEF Change
<1>2. PICK t \in Max({0, now - Lag}) .. now : stamp' = [stamp EXCEPT ![i] = t]
  BY DEF Change
<1>3. /\ now \in Nat /\ now - Lag \in Int /\ changes \in 0 .. MaxChanges /\ now \in 0 .. MaxTime
      /\ MaxChanges \in Nat /\ MaxTime \in Nat
      /\ ver \in [Items -> Nat] /\ stamp \in [Items -> 0 .. MaxTime]
  BY DEF IInv, PlainTypes, ConstantsType
<1>4. 0 <= Max({0, now - Lag}) /\ now - Lag <= Max({0, now - Lag}) /\ Max({0, now - Lag}) \in Int
  <2> DEFINE S == {0, now - Lag}
  <2>1. \E x \in S : \A y \in S : x >= y
    BY <1>3
  <2>2. Max(S) \in S /\ \A y \in S : Max(S) >= y
    BY <2>1 DEF Max
  <2> QED BY <2>2, <1>3
<1>5. t \in 0 .. MaxTime /\ now - Lag <= t
  BY <1>3, <1>4
<1>6. \A j \in Late' : j # i => j \in Late
  BY <1>1, <1>3 DEF Late, Held, Due, LeftOut, tables
<1>7. Late' \subseteq Items
  BY DEF Late, Due
<1>8. Progress
  BY <1>1, <1>2, <1>3, <1>5, <1>6, <1>7 DEF Progress
<1>9. /\ ver' \in [Items -> Nat] /\ stamp' \in [Items -> 0 .. MaxTime]
      /\ changes' \in 0 .. MaxChanges /\ now' \in 0 .. MaxTime
  BY <1>1, <1>2, <1>3, <1>5
<1> QED BY <1>1, <1>8, <1>9, ProgressKeeps

LEMMA TickKeeps ==
  ASSUME ConstantsType, IInv, Tick
  PROVE  IInv'
<1>1. now < MaxTime /\ now' = now + 1
      /\ UNCHANGED <<upstream, tables, saved, running, owes, faults>>
  BY DEF Tick
<1>2. Late' = Late
  BY <1>1, SameLate DEF tables
<1>3. /\ now \in 0 .. MaxTime /\ MaxTime \in Nat
      /\ ver' \in [Items -> Nat] /\ stamp' \in [Items -> 0 .. MaxTime]
      /\ changes' \in 0 .. MaxChanges /\ stamp' = stamp
  BY <1>1 DEF IInv, PlainTypes, ConstantsType, upstream
<1>4. now' \in 0 .. MaxTime /\ now <= now'
  BY <1>1, <1>3
<1>5. Progress
  BY <1>2, <1>3, <1>4 DEF Progress
<1> QED BY <1>1, <1>3, <1>4, <1>5, ProgressKeeps

LEMMA StepInv ==
  ASSUME ConstantsType, IInv, [Next]_vars
  PROVE  IInv'
<1>1. ASSUME NEW kind \in Passes, Begin(kind) PROVE IInv'
  BY <1>1, BeginKeeps
<1>2. CASE FullPage
  BY <1>2, FullPageKeeps
<1>3. CASE LastPage
  BY <1>3, LastPageKeeps
<1>4. CASE Exhausted
  BY <1>4, ExhaustedKeeps
<1>5. CASE PageFails
  BY <1>5, PageFailsKeeps
<1>6. CASE SaveCursor
  BY <1>6, OverKeeps DEF SaveCursor, IInv, PlainTypes
<1>7. CASE Retire
  BY <1>7, RetireKeeps
<1>8. CASE Dies
  <2>1. faults' \in 0 .. MaxFaults
    BY <1>8 DEF Dies, IInv, PlainTypes, ConstantsType
  <2> QED BY <1>8, <2>1, OverKeeps DEF Dies
<1>9. ASSUME NEW i \in Items, Change(i) PROVE IInv'
  BY <1>9, ChangeKeeps
<1>10. CASE Tick
  BY <1>10, TickKeeps
<1>11. CASE UNCHANGED vars
  <2>1. UNCHANGED <<now, upstream, tables, saved, running, owes, faults>>
    BY <1>11 DEF vars
  <2>2. Late' = Late
    BY <2>1, SameLate DEF tables
  <2>3. Progress
    BY <2>1, <2>2, Quiet DEF IInv
  <2> QED BY <2>1, <2>3, ProgressKeeps DEF IInv, PlainTypes, upstream
<1> QED BY <1>1, <1>2, <1>3, <1>4, <1>5, <1>6, <1>7, <1>8, <1>9, <1>10, <1>11 DEF Next

-----------------------------------------------------------------------------
(* The theorems.                                                           *)

\* Every variable keeps its type, the parked walks among them.
THEOREM TypeCorrect == ASSUME ConstantsType PROVE Spec => []TypeOK
<1>1. Init => IInv
  BY InitInv
<1>2. IInv /\ [Next]_vars => IInv'
  BY StepInv
<1> QED BY <1>1, <1>2, InvImpliesTypes, PTL DEF Spec

\* The cursor never passes a change that no row has, for any items, page size, budget and
\* any lag within the overlap, however often walks are cut short, resumed or lost.
THEOREM NothingIsPassedBy == ASSUME ConstantsType PROVE Spec => []MirrorMissesNothing
<1>1. Init => IInv
  BY InitInv
<1>2. IInv /\ [Next]_vars => IInv'
  BY StepInv
<1>3. IInv => MirrorMissesNothing
  <2> SUFFICES ASSUME IInv PROVE MirrorMissesNothing
    OBVIOUS
  <2>1. /\ \A i \in Items : stamp[i] \in Int
        /\ saved.since # None => saved.since \in Int /\ Covers("fixture", saved.since)
        /\ saved.playsSince # None => saved.playsSince \in Int /\ Covers("plays", saved.playsSince)
    BY CursorFields DEF IInv, PlainTypes, Cursors, Times, ConstantsType
  <2>2. \A i \in Items : KindOf[i] = "fixture" /\ ~LeftOut(i) => i \in Late \/ row[i] = ver[i]
    BY DEF Late, Due, Held
  <2>3. \A i \in Items \ Unmapped : KindOf[i] = "plays" =>
          i \in Late \/ row[i] = ver[i] \/ i \in orphaned
    BY DEF Late, Due, Held
  <2> QED BY <2>1, <2>2, <2>3 DEF MirrorMissesNothing, Covers
<1> QED BY <1>1, <1>2, <1>3, PTL DEF Spec

-----------------------------------------------------------------------------
(* The direct pollers: Fixtures.                                           *)

\* A fixture is over for a poller, or in the table, only when it is over.
PollsInv ==
  /\ \A g \in Games : state[g] = "post" => truth[g] = "post"
  /\ \A p \in F!Pollers : seen[p] # None =>
       \A g \in DOMAIN seen[p].state : seen[p].state[g] = "post" => truth[g] = "post"

\* A log holds what was told, and all of it once it is closed.
LogsInv ==
  /\ \A g \in Games : log[g] <= played[g]
  /\ \A g \in final : truth[g] = "post" /\ log[g] = played[g] /\ g \in recapped

\* Of a fixture that was over when it was chosen, the tick has been told every play by the
\* time it writes them, has them in the log before the recap, and has both when it closes.
Ready(g, over) ==
  /\ g \in Games /\ got <= played[g]
  /\ over => /\ step # "fetch" => got = played[g]
             /\ step \in {"recap", "close"} => log[g] = played[g]
             /\ step = "close" => g \in recapped

TickInv ==
  /\ step # "idle" => due # <<>> /\ Ready(F!Game, F!Over)
  /\ \A i \in DOMAIN due : due[i].state = "post" => truth[due[i].game] = "post"

FixturesInv == F!TypeOK /\ PollsInv /\ LogsInv /\ TickInv

Turns == [game : Games, state : F!States]

-----------------------------------------------------------------------------

\* limit n gives a sequence of what it is taken from.
LEMMA FirstsAreSome ==
  ASSUME NEW some, NEW n, NEW order, NEW list \in F!Firsts(n, some, order)
  PROVE  list \in Seq(some)
<1>1. PICK k \in 0 .. n : list \in [1 .. k -> some]
  BY DEF F!Firsts
<1> QED BY <1>1

LEMMA LargerOfTwo == ASSUME NEW i \in Nat, NEW j \in Nat
                     PROVE  F!Max({i, j}) = IF i >= j THEN i ELSE j
  BY DEF F!Max

\* What is left when the first is done with.
LEMMA OneLess ==
  ASSUME NEW S, NEW q \in Seq(S), q # <<>>
  PROVE  /\ Head(q) \in S /\ Head(q) = q[1] /\ 1 \in DOMAIN q
         /\ Tail(q) \in Seq(S) /\ (Len(q) # 1 => Tail(q) # <<>>)
         /\ \A i \in DOMAIN Tail(q) : i + 1 \in DOMAIN q /\ Tail(q)[i] = q[i + 1]
<1>1. Len(q) \in Nat \ {0} /\ DOMAIN q = 1 .. Len(q)
  BY EmptySeq, LenProperties
<1>2. Tail(q) \in Seq(S) /\ Len(Tail(q)) = Len(q) - 1
      /\ \A i \in 1 .. Len(Tail(q)) : Tail(q)[i] = q[i + 1]
  BY HeadTailProperties
<1>3. DOMAIN Tail(q) = 1 .. Len(Tail(q))
  BY <1>2, LenProperties
<1>4. Len(q) # 1 => Tail(q) # <<>>
  BY <1>1, <1>2
<1>5. Head(q) = q[1] /\ Head(q) \in S
  BY HeadTailProperties
<1> QED BY <1>1, <1>2, <1>3, <1>4, <1>5

\* What Select takes are fixtures with the state they have.
LEMMA ChosenAsTheyAre ==
  ASSUME F!TypeOK, F!ConstantsType, F!Select
  PROVE  /\ due' \in Seq(Turns) /\ due' # <<>>
         /\ \A i \in DOMAIN due' : due'[i].state = state[due'[i].game]
<1>1. PICK live \in F!FirstLive(Limit - F!EndedShare) :
      \E ended \in F!Firsts(Limit - Len(live), F!EndedDue, F!NewestFirst) :
      \E only \in F!Firsts(Limit - Len(live) - Len(ended),
                        F!RecapDue \ (F!Range(live) \cup F!Range(ended)), F!NewestFirst) :
        LET all == live \o ended \o only
        IN  /\ all # <<>>
            /\ due' = [n \in DOMAIN all |-> [game |-> all[n], state |-> state[all[n]]]]
  BY DEF F!Select
<1>2. PICK ended \in F!Firsts(Limit - Len(live), F!EndedDue, F!NewestFirst) :
      \E only \in F!Firsts(Limit - Len(live) - Len(ended),
                        F!RecapDue \ (F!Range(live) \cup F!Range(ended)), F!NewestFirst) :
        LET all == live \o ended \o only
        IN  /\ all # <<>>
            /\ due' = [n \in DOMAIN all |-> [game |-> all[n], state |-> state[all[n]]]]
  BY <1>1
<1>3. PICK only \in F!Firsts(Limit - Len(live) - Len(ended),
                           F!RecapDue \ (F!Range(live) \cup F!Range(ended)), F!NewestFirst) :
        LET all == live \o ended \o only
        IN  /\ all # <<>>
            /\ due' = [n \in DOMAIN all |-> [game |-> all[n], state |-> state[all[n]]]]
  BY <1>2
<1> DEFINE all == live \o ended \o only
<1>4. live \in Seq(Games)
  BY FirstsAreSome DEF F!FirstLive, F!LiveDue, F!TypeOK
<1>5. ended \in Seq(Games)
  BY FirstsAreSome DEF F!EndedDue
<1>6. only \in Seq(Games)
  BY FirstsAreSome DEF F!RecapDue
<1>7. all \in Seq(Games)
  BY <1>4, <1>5, <1>6, ConcatProperties
<1>8. /\ all # <<>>
      /\ due' = [n \in DOMAIN all |-> [game |-> all[n], state |-> state[all[n]]]]
  BY <1>3
<1> HIDE DEF all
<1>9. Len(all) \in Nat \ {0} /\ DOMAIN all = 1 .. Len(all)
  BY <1>7, <1>8, EmptySeq, LenProperties
<1>10. \A n \in DOMAIN all : all[n] \in Games
  BY <1>7, <1>9, ElementOfSeq
<1>11. \A n \in DOMAIN all : [game |-> all[n], state |-> state[all[n]]] \in Turns
  BY <1>10 DEF F!TypeOK, Turns
<1>12. due' \in [1 .. Len(all) -> Turns]
  BY <1>8, <1>9, <1>11
<1>13. due' \in Seq(Turns) /\ 1 \in DOMAIN due'
  BY <1>9, <1>12
<1>14. due' # <<>>
  BY <1>13
<1> QED BY <1>8, <1>13, <1>14

\* What the tick does after a fixture, however it left it.
LEMMA TickGoesOn ==
  ASSUME F!ConstantsType, F!TypeOK, TickInv, step # "idle", F!Synced, F!NextDue
  PROVE  /\ due' \in Seq(Turns) /\ step' \in {"idle", "fetch"} /\ got' = 0
         /\ step' # "idle" => due' # <<>>
         /\ older' \subseteq Games \X Games
         /\ \A i \in DOMAIN due' : due'[i].state = "post" => truth[due'[i].game] = "post"
<1>1. due \in Seq(Turns) /\ due # <<>>
  BY DEF F!TypeOK, TickInv, Turns
<1>2. /\ Head(due) \in Turns /\ Tail(due) \in Seq(Turns) /\ (Len(due) # 1 => Tail(due) # <<>>)
      /\ \A i \in DOMAIN Tail(due) : i + 1 \in DOMAIN due /\ Tail(due)[i] = due[i + 1]
  BY <1>1, OneLess
<1>3. \A i \in DOMAIN due : due[i].state = "post" => truth[due[i].game] = "post"
  BY DEF TickInv
<1>4. due' = Tail(due) /\ got' = 0 /\ step' = IF Len(due) = 1 THEN "idle" ELSE "fetch"
  BY DEF F!NextDue
<1>5. \A i \in DOMAIN due' : due'[i].state = "post" => truth[due'[i].game] = "post"
  BY <1>2, <1>3, <1>4
<1>6. older' \subseteq Games \X Games
  BY <1>2 DEF F!Synced, F!TypeOK, F!Game, Turns
<1> QED BY <1>2, <1>4, <1>5, <1>6

-----------------------------------------------------------------------------

LEMMA InitFixtures == ASSUME F!ConstantsType, F!Init PROVE FixturesInv
<1>1. F!TypeOK
  <2>1. <<>> \in Seq([game : Games, state : F!States])
    OBVIOUS
  <2> QED BY <2>1 DEF F!Init, F!TypeOK, F!ConstantsType, F!States, F!ByStart
<1>2. PollsInv /\ LogsInv /\ TickInv
  BY DEF F!Init, PollsInv, LogsInv, TickInv
<1> QED BY <1>1, <1>2 DEF FixturesInv

LEMMA FixturesTyped ==
  ASSUME F!ConstantsType, F!TypeOK, TickInv, [F!Next]_(F!vars)
  PROVE F!TypeOK'
<1>1. ASSUME NEW p \in F!Pollers, F!Ask(p) PROVE F!TypeOK'
  <2>1. [state |-> [g \in Games \ dropped |-> truth[g]], listed |-> listed] \in F!Answers
    <3>1. /\ Games \ dropped \in SUBSET Games
          /\ [g \in Games \ dropped |-> truth[g]] \in [Games \ dropped -> F!States]
      BY DEF F!TypeOK
    <3>2. [g \in Games \ dropped |-> truth[g]]
            \in UNION {[some -> F!States] : some \in SUBSET Games}
      BY <3>1
    <3> QED BY <3>2 DEF F!Answers, F!TypeOK
  <2> QED BY <1>1, <2>1 DEF F!Ask, F!TypeOK, F!provider, F!scores, F!logs, F!tick
<1>2. ASSUME NEW p \in F!Pollers, F!Write(p) PROVE F!TypeOK'
  <2>1. seen[p] \in F!Answers
    BY <1>2 DEF F!Write, F!TypeOK
  <2>2. /\ DOMAIN seen[p].state \subseteq Games
        /\ \A g \in DOMAIN seen[p].state : seen[p].state[g] \in F!States
    BY <2>1 DEF F!Answers
  <2>3. state' \in [Games -> F!States]
    BY <1>2, <2>2 DEF F!Write, F!TypeOK
  <2>4. source' \in [Games -> {None, "espn", "thesportsdb"}]
    BY <1>2 DEF F!Write, F!TypeOK
  <2>5. fresh' \subseteq Games
    BY <1>2, <2>2 DEF F!Write, F!TypeOK
  <2>6. seen' \in [F!Pollers -> {None} \cup F!Answers]
    BY <1>2 DEF F!Write, F!TypeOK
  <2> QED BY <1>2, <2>3, <2>4, <2>5, <2>6 DEF F!Write, F!TypeOK, F!provider, F!logs, F!tick
<1>3. ASSUME NEW p \in F!Pollers, F!PollFails(p) PROVE F!TypeOK'
  BY <1>3 DEF F!PollFails, F!TypeOK, F!ConstantsType, F!provider, F!scores, F!logs, F!tick
<1>4. CASE F!Fill
  <2>1. CASE F!FillReads
    BY <2>1 DEF F!FillReads, F!TypeOK, F!ConstantsType, F!provider, F!scores, F!logs, F!tick
  <2>2. CASE F!FillWrites
    BY <2>2 DEF F!FillWrites, F!TypeOK, F!provider, F!logs, F!tick
  <2> QED BY <1>4, <2>1, <2>2 DEF F!Fill
<1>5. CASE F!Select
  <2>1. due' \in Seq([game : Games, state : F!States])
    BY <1>5, ChosenAsTheyAre DEF Turns
  <2> QED BY <1>5, <2>1 DEF F!Select, F!TypeOK, F!ConstantsType, F!provider, F!scores, F!logs
<1>6. CASE F!FetchPlays
  <2>1. F!Game \in Games
    BY <1>6 DEF F!FetchPlays, TickInv, Ready
  <2> QED BY <1>6, <2>1 DEF F!FetchPlays, F!TypeOK, F!provider, F!scores, F!logs
<1>7. CASE F!InsertPlays
  <2>1. F!Game \in Games
    BY <1>7 DEF F!InsertPlays, TickInv, Ready
  <2>2. log[F!Game] \in 0 .. MaxPlays /\ got \in 0 .. MaxPlays
    BY <2>1 DEF F!TypeOK
  <2>3. F!Max({log[F!Game], got}) \in 0 .. MaxPlays
    BY <2>2, LargerOfTwo
  <2>4. log' \in [Games -> 0 .. MaxPlays]
    BY <1>7, <2>3 DEF F!InsertPlays, F!TypeOK
  <2> QED BY <1>7, <2>4 DEF F!InsertPlays, F!TypeOK, F!provider, F!scores
<1>8. CASE F!SaveRecap
  <2>1. F!Game \in Games
    BY <1>8 DEF F!SaveRecap, TickInv, Ready
  <2> QED BY <1>8, <2>1 DEF F!SaveRecap, F!TypeOK, F!provider, F!scores
<1>9. CASE F!Close \/ F!PlaysFail
  <2>1. step # "idle" /\ F!Synced /\ F!NextDue
    BY <1>9 DEF F!Close, F!PlaysFail
  <2>2. /\ due' \in Seq([game : Games, state : F!States]) /\ step' \in {"idle", "fetch"}
        /\ got' = 0 /\ older' \subseteq Games \X Games
    BY <2>1, TickGoesOn DEF Turns
  <2>3. F!Game \in Games
    BY <2>1 DEF TickInv, Ready
  <2>4. final' \subseteq Games /\ failures' \in 0 .. MaxFaults
    <3>1. CASE F!Close
      BY <2>3, <3>1 DEF F!Close, F!TypeOK
    <3>2. CASE F!PlaysFail
      BY <3>2 DEF F!PlaysFail, F!TypeOK, F!ConstantsType
    <3> QED BY <1>9, <3>1, <3>2
  <2>5. UNCHANGED <<F!provider, F!scores, log, recapped, seen, filling>>
    BY <1>9 DEF F!Close, F!PlaysFail
  <2> QED BY <2>2, <2>4, <2>5 DEF F!TypeOK, F!ConstantsType, F!provider, F!scores
<1>10. CASE F!Dies
  <2>1. <<>> \in Seq([game : Games, state : F!States])
    OBVIOUS
  <2>2. due' = <<>> /\ step' = "idle" /\ got' = 0 /\ failures' \in 0 .. MaxFaults
    BY <1>10 DEF F!Dies, F!TypeOK, F!ConstantsType
  <2>3. UNCHANGED <<F!provider, F!scores, F!logs, seen, filling>>
    BY <1>10 DEF F!Dies
  <2> QED BY <2>1, <2>2, <2>3 DEF F!TypeOK, F!ConstantsType, F!provider, F!scores, F!logs
<1>11. ASSUME NEW g \in Games,
              F!Ages(g) \/ F!KickOff(g) \/ F!Whistle(g) \/ F!Lists(g)
              \/ F!StopsReturning(g) \/ F!StartPasses(g)
       PROVE F!TypeOK'
  BY <1>11 DEF F!Ages, F!KickOff, F!Whistle, F!Lists, F!StopsReturning, F!StartPasses, F!TypeOK,
      F!States,
               F!provider, F!scores, F!logs, F!tick
<1>12. ASSUME NEW g \in Games, F!Play(g) PROVE F!TypeOK'
  <2>1. played' \in [Games -> 0 .. MaxPlays]
    <3>1. played[g] \in 0 .. MaxPlays /\ played[g] < MaxPlays
      BY <1>12 DEF F!Play, F!TypeOK
    <3>2. played[g] + 1 \in 0 .. MaxPlays
      BY <3>1 DEF F!ConstantsType
    <3> QED BY <1>12, <3>2 DEF F!Play, F!TypeOK
  <2> QED BY <1>12, <2>1 DEF F!Play, F!TypeOK, F!scores, F!logs, F!tick
<1>13. CASE UNCHANGED F!vars
  BY <1>13 DEF F!vars, F!provider, F!scores, F!logs, F!tick, F!TypeOK
<1> QED
  BY <1>1, <1>2, <1>3, <1>4, <1>5, <1>6, <1>7, <1>8, <1>9, <1>10, <1>11, <1>12, <1>13
     DEF F!Next, F!Poll, F!PlaysTick

\* A step of the polls tells no fixture over that is not, and a step of the tick says nothing
\* of it.
LEMMA PollsKept == ASSUME F!TypeOK, PollsInv, [F!Next]_(F!vars) PROVE PollsInv'
<1> DEFINE Told(p) == seen[p] # None =>
             \A g \in DOMAIN seen[p].state : seen[p].state[g] = "post" => truth[g] = "post"
<1>1. /\ \A g \in Games : state[g] = "post" => truth[g] = "post"
      /\ \A p \in F!Pollers : Told(p)
  BY DEF PollsInv
<1>2. ASSUME NEW p \in F!Pollers, F!Ask(p) PROVE PollsInv'
  <2>1. seen' = [seen EXCEPT ![p] =
          [state |-> [g \in Games \ dropped |-> truth[g]], listed |-> listed]]
        /\ UNCHANGED <<truth, state>>
    BY <1>2 DEF F!Ask, F!provider, F!scores
  <2>2. Told(p)'
    BY <2>1 DEF F!TypeOK
  <2>3. \A q \in F!Pollers \ {p} : Told(q)'
    BY <1>1, <2>1 DEF F!TypeOK
  <2> QED BY <1>1, <2>1, <2>2, <2>3 DEF PollsInv
<1>3. ASSUME NEW p \in F!Pollers, F!Write(p) PROVE PollsInv'
  <2>1. Told(p) /\ seen[p] # None /\ seen[p] \in F!Answers
    BY <1>1, <1>3 DEF F!Write, F!TypeOK
  <2>2. /\ state' = [g \in Games |->
             IF g \in DOMAIN seen[p].state THEN seen[p].state[g] ELSE state[g]]
        /\ seen' = [seen EXCEPT ![p] = None] /\ truth' = truth
    BY <1>3 DEF F!Write, F!provider
  <2>3. \A g \in Games : state'[g] = "post" => truth'[g] = "post"
    BY <1>1, <2>1, <2>2
  <2>4. \A q \in F!Pollers : Told(q)'
    BY <1>1, <2>2 DEF F!TypeOK
  <2> QED BY <2>3, <2>4 DEF PollsInv
<1>4. ASSUME NEW p \in F!Pollers, F!PollFails(p) PROVE PollsInv'
  <2>1. seen' = [seen EXCEPT ![p] = None] /\ UNCHANGED <<truth, state>>
    BY <1>4 DEF F!PollFails, F!provider, F!scores
  <2>2. \A q \in F!Pollers : Told(q)'
    BY <1>1, <2>1 DEF F!TypeOK
  <2> QED BY <1>1, <2>1, <2>2 DEF PollsInv
<1>5. ASSUME NEW g \in Games, F!KickOff(g) \/ F!Whistle(g) PROVE PollsInv'
  <2>1. UNCHANGED <<state, seen>> /\ \A h \in Games : truth[h] = "post" => truth'[h] = "post"
    BY <1>5 DEF F!KickOff, F!Whistle, F!scores, F!TypeOK
  <2>2. \A p \in F!Pollers : seen[p] # None => DOMAIN seen[p].state \subseteq Games
    BY DEF F!TypeOK, F!Answers
  <2>3. \A p \in F!Pollers : Told(p)'
    BY <1>1, <2>1, <2>2
  <2> QED BY <1>1, <2>1, <2>3 DEF PollsInv
<1>6. CASE \/ F!Fill \/ F!PlaysTick \/ F!PlaysFail \/ F!Dies \/ UNCHANGED F!vars
           \/ \E g \in Games : F!Ages(g) \/ F!Play(g) \/ F!Lists(g)
                               \/ F!StopsReturning(g) \/ F!StartPasses(g)
  <2>1. UNCHANGED <<truth, state, seen>>
    BY <1>6 DEF F!Fill, F!FillReads, F!FillWrites, F!PlaysTick, F!Select, F!FetchPlays,
        F!InsertPlays, F!SaveRecap,
                F!Close, F!PlaysFail, F!Dies, F!Ages, F!Play, F!Lists, F!StopsReturning,
                F!StartPasses, F!vars,
                F!provider, F!scores
  <2> QED BY <1>1, <2>1 DEF PollsInv
<1> QED
  BY <1>2, <1>3, <1>4, <1>5, <1>6 DEF F!Next, F!Poll

\* A log grows towards what was told, and is closed when nothing more can be.
LEMMA LogsKept ==
  ASSUME F!ConstantsType, F!TypeOK, LogsInv, TickInv, [F!Next]_(F!vars)
  PROVE LogsInv'
<1> DEFINE Whole(g) == truth[g] = "post" /\ log[g] = played[g] /\ g \in recapped
<1>1. (\A g \in Games : log[g] <= played[g]) /\ (\A g \in final : Whole(g)) /\ final \subseteq Games
  BY DEF LogsInv, F!TypeOK
<1>2. CASE F!InsertPlays
  <2>1. F!Game \in Games /\ got <= played[F!Game] /\ got \in Nat
    BY <1>2 DEF F!InsertPlays, TickInv, Ready, F!TypeOK
  <2>2. log[F!Game] \in Nat /\ played[F!Game] \in Nat /\ log[F!Game] <= played[F!Game]
    BY <1>1, <2>1 DEF F!TypeOK
  <2>3. /\ F!Max({log[F!Game], got}) <= played[F!Game]
        /\ log[F!Game] = played[F!Game] => F!Max({log[F!Game], got}) = log[F!Game]
    BY <2>1, <2>2, LargerOfTwo
  <2>4. /\ log' = [log EXCEPT ![F!Game] = F!Max({log[F!Game], got})]
        /\ UNCHANGED <<truth, played, recapped, final>>
    BY <1>2 DEF F!InsertPlays, F!provider
  <2>5. \A g \in Games : log'[g] = IF g = F!Game THEN F!Max({log[F!Game], got}) ELSE log[g]
    BY <2>4 DEF F!TypeOK
  <2>6. \A g \in Games : log'[g] <= played'[g]
    BY <1>1, <2>3, <2>4, <2>5
  <2>7. \A g \in final' : Whole(g)'
    BY <1>1, <2>3, <2>4, <2>5
  <2> QED BY <2>6, <2>7 DEF LogsInv
<1>3. CASE F!SaveRecap
  <2>1. recapped \subseteq recapped' /\ UNCHANGED <<truth, played, log, final>>
    BY <1>3 DEF F!SaveRecap, F!provider
  <2> QED BY <1>1, <2>1 DEF LogsInv
<1>4. CASE F!Close
  <2>1. F!Over => Whole(F!Game)
    BY <1>4 DEF F!Close, TickInv, Ready, F!Over, F!Game, F!TypeOK
  <2>2. /\ final' = IF F!Over THEN final \cup {F!Game} ELSE final
        /\ UNCHANGED <<truth, played, log, recapped>>
    BY <1>4 DEF F!Close, F!provider
  <2> QED BY <1>1, <2>1, <2>2 DEF LogsInv
<1>5. ASSUME NEW g \in Games, F!Play(g) PROVE LogsInv'
  <2>1. /\ truth[g] = "in" /\ played' = [played EXCEPT ![g] = played[g] + 1]
        /\ UNCHANGED <<truth, log, recapped, final>>
    BY <1>5 DEF F!Play, F!logs
  <2>2. g \notin final
    BY <1>1, <2>1
  <2>3. \A h \in Games : played'[h] = IF h = g THEN played[h] + 1 ELSE played[h]
    BY <2>1 DEF F!TypeOK
  <2>4. log[g] \in Nat /\ played[g] \in Nat
    BY DEF F!TypeOK
  <2>5. \A h \in Games : log'[h] <= played'[h]
    BY <1>1, <2>1, <2>3, <2>4
  <2> QED BY <1>1, <2>1, <2>2, <2>3, <2>5 DEF LogsInv
<1>6. ASSUME NEW g \in Games, F!KickOff(g) \/ F!Whistle(g) PROVE LogsInv'
  <2>1. /\ UNCHANGED <<played, log, recapped, final>>
        /\ \A h \in Games : truth[h] = "post" => truth'[h] = "post"
    BY <1>6 DEF F!KickOff, F!Whistle, F!logs, F!TypeOK
  <2> QED BY <1>1, <2>1 DEF LogsInv
<1>7. CASE \/ F!Poll \/ F!Fill \/ F!Select \/ F!FetchPlays \/ F!PlaysFail \/ F!Dies
           \/ UNCHANGED F!vars
           \/ \E g \in Games : F!Ages(g) \/ F!Lists(g) \/ F!StopsReturning(g) \/ F!StartPasses(g)
  <2>1. UNCHANGED <<truth, played, log, recapped, final>>
    BY <1>7 DEF F!Poll, F!Ask, F!Write, F!PollFails, F!Fill, F!FillReads, F!FillWrites,
        F!Select, F!FetchPlays,
                F!PlaysFail, F!Dies, F!Ages, F!Lists, F!StopsReturning, F!StartPasses, F!vars,
                F!provider, F!logs
  <2> QED BY <1>1, <2>1 DEF LogsInv
<1> QED
  BY <1>2, <1>3, <1>4, <1>5, <1>6, <1>7 DEF F!Next, F!PlaysTick

LEMMA TickKept ==
  ASSUME F!ConstantsType, F!TypeOK, PollsInv, LogsInv, TickInv, [F!Next]_(F!vars)
  PROVE TickInv'
<1> DEFINE Ends == \A i \in DOMAIN due : due[i].state = "post" => truth[due[i].game] = "post"
<1>1. Ends /\ (step # "idle" => due # <<>> /\ Ready(F!Game, F!Over))
  BY DEF TickInv
<1>2. due \in Seq(Turns)
  BY DEF F!TypeOK, Turns
<1>3. due # <<>> => /\ F!Game = due[1].game /\ (F!Over <=> due[1].state = "post")
                    /\ 1 \in DOMAIN due /\ F!Game \in Games
  <2> SUFFICES ASSUME due # <<>>
               PROVE  /\ F!Game = due[1].game /\ (F!Over <=> due[1].state = "post")
                      /\ 1 \in DOMAIN due /\ F!Game \in Games
    OBVIOUS
  <2>1. Head(due) \in Turns /\ Head(due) = due[1] /\ 1 \in DOMAIN due
    BY <1>2, OneLess
  <2> QED BY <2>1 DEF F!Game, F!Over, Turns
<1>4. CASE F!Select
  <2>1. /\ due' \in Seq(Turns) /\ due' # <<>>
        /\ \A i \in DOMAIN due' : due'[i].state = state[due'[i].game]
    BY <1>4, ChosenAsTheyAre
  <2>2. \A i \in DOMAIN due' : due'[i].game \in Games
    <3>1. \A i \in DOMAIN due' : due'[i] \in Turns
      BY <2>1
    <3> QED BY <3>1 DEF Turns
  <2>3. UNCHANGED <<truth, played>> /\ step' = "fetch" /\ got' = 0
    BY <1>4 DEF F!Select, F!provider
  <2>4. Ends'
    BY <2>1, <2>2, <2>3 DEF PollsInv
  <2>5. F!Game' \in Games
    <3>1. Head(due') \in Turns
      BY <2>1, OneLess
    <3> QED BY <3>1 DEF F!Game, Turns
  <2>6. got' <= played'[F!Game']
    BY <2>3, <2>5 DEF F!TypeOK
  <2>7. Ready(F!Game, F!Over)'
    BY <2>3, <2>5, <2>6 DEF Ready
  <2> QED BY <2>1, <2>4, <2>7 DEF TickInv
<1>5. CASE F!FetchPlays
  <2>1. /\ step = "fetch" /\ got' = played[F!Game] /\ step' = "insert"
        /\ UNCHANGED <<due, truth, played, log, recapped>>
    BY <1>5 DEF F!FetchPlays, F!provider, F!logs
  <2>2. F!Game' = F!Game /\ F!Over' = F!Over
    BY <2>1 DEF F!Game, F!Over
  <2>3. Ready(F!Game, F!Over)'
    BY <1>1, <1>3, <2>1, <2>2 DEF Ready, F!TypeOK
  <2> QED BY <1>1, <2>1, <2>3 DEF TickInv
<1>6. CASE F!InsertPlays
  <2>1. /\ step = "insert" /\ step' \in {"recap", "close"} /\ (F!Over => step' = "recap")
        /\ log' = [log EXCEPT ![F!Game] = F!Max({log[F!Game], got})]
        /\ UNCHANGED <<due, got, truth, played, recapped>>
    BY <1>6 DEF F!InsertPlays, F!provider
  <2>2. F!Game' = F!Game /\ F!Over' = F!Over
    BY <2>1 DEF F!Game, F!Over
  <2>3. Ready(F!Game, F!Over) /\ F!Game \in Games
    BY <1>1, <1>3, <2>1
  <2>4. log[F!Game] \in Nat /\ got \in Nat /\ log[F!Game] <= played[F!Game]
        /\ played[F!Game] \in Nat
    BY <2>3 DEF F!TypeOK, LogsInv
  <2>5. F!Over => log'[F!Game] = played[F!Game]
    <3>1. F!Over => got = played[F!Game]
      BY <2>1, <2>3 DEF Ready
    <3>2. log'[F!Game] = F!Max({log[F!Game], got})
      BY <2>1, <2>3 DEF F!TypeOK
    <3>3. F!Max({log[F!Game], got}) = IF log[F!Game] >= got THEN log[F!Game] ELSE got
      BY <2>4, LargerOfTwo
    <3> QED BY <2>4, <3>1, <3>2, <3>3
  <2>6. Ready(F!Game, F!Over)'
    BY <2>1, <2>2, <2>3, <2>5 DEF Ready
  <2> QED BY <1>1, <2>1, <2>6 DEF TickInv
<1>7. CASE F!SaveRecap
  <2>1. /\ step = "recap" /\ recapped' = recapped \cup {F!Game} /\ step' = "close"
        /\ UNCHANGED <<due, got, truth, played, log>>
    BY <1>7 DEF F!SaveRecap, F!provider
  <2>2. F!Game' = F!Game /\ F!Over' = F!Over
    BY <2>1 DEF F!Game, F!Over
  <2>3. Ready(F!Game, F!Over)'
    BY <1>1, <2>1, <2>2 DEF Ready
  <2> QED BY <1>1, <2>1, <2>3 DEF TickInv
<1>8. CASE F!Close \/ F!PlaysFail
  <2>1. step # "idle" /\ F!Synced /\ F!NextDue /\ UNCHANGED <<truth, played>>
    BY <1>8 DEF F!Close, F!PlaysFail, F!provider
  <2>2. /\ due' \in Seq(Turns) /\ step' \in {"idle", "fetch"} /\ got' = 0
        /\ step' # "idle" => due' # <<>>
        /\ Ends'
    <3>1. \A i \in DOMAIN due' : due'[i].state = "post" => truth[due'[i].game] = "post"
      BY <2>1, TickGoesOn
    <3> QED BY <2>1, <3>1, TickGoesOn
  <2>3. ASSUME due' # <<>> PROVE Ready(F!Game, F!Over)'
    <3>1. F!Game' \in Games
      <4>1. Head(due') \in Turns
        BY <2>2, <2>3, OneLess
      <4> QED BY <4>1 DEF F!Game, Turns
    <3>2. got' <= played'[F!Game']
      BY <2>1, <2>2, <3>1 DEF F!TypeOK
    <3>3. step' = "idle" => FALSE
      <4>1. due' = Tail(due) /\ (step' = "idle" => Len(due) = 1)
        BY <2>1 DEF F!NextDue
      <4>2. Len(due) = 1 => Tail(due) = <<>>
        <5>1. due # <<>>
          BY <1>1, <2>1
        <5>2. Tail(due) \in Seq(Turns) /\ Len(Tail(due)) = Len(due) - 1
          BY <1>2, <5>1, HeadTailProperties
        <5>3. ASSUME NEW rest \in Seq(Turns), Len(rest) = 0 PROVE rest = <<>>
          BY <5>3, EmptySeq
        <5>4. Len(due) = 1 => Len(Tail(due)) = 0
          BY <5>2
        <5> QED BY <5>2, <5>3, <5>4
      <4> QED BY <2>3, <4>1, <4>2
    <3> QED BY <2>2, <3>1, <3>2, <3>3 DEF Ready
  <2> QED BY <2>2, <2>3 DEF TickInv
<1>9. CASE F!Dies
  <2>1. due' = <<>> /\ step' = "idle"
    BY <1>9 DEF F!Dies
  <2> QED BY <2>1 DEF TickInv
<1>10. ASSUME NEW g \in Games, F!Play(g) PROVE TickInv'
  <2>1. /\ truth[g] = "in" /\ played' = [played EXCEPT ![g] = played[g] + 1]
        /\ UNCHANGED <<due, step, got, truth, log, recapped>>
    BY <1>10 DEF F!Play, F!logs, F!tick
  <2>2. F!Game' = F!Game /\ F!Over' = F!Over
    BY <2>1 DEF F!Game, F!Over
  <2>3. ASSUME step # "idle" PROVE Ready(F!Game, F!Over)'
    <3>1. Ready(F!Game, F!Over) /\ F!Game \in Games /\ (F!Over => truth[F!Game] = "post")
      BY <1>1, <1>3, <2>3
    <3>2. F!Over => played'[F!Game] = played[F!Game]
      BY <2>1, <3>1 DEF F!TypeOK
    <3>3. got \in Nat /\ played[F!Game] \in Nat /\ played'[F!Game] >= played[F!Game]
          /\ played'[F!Game] \in Nat
      BY <2>1, <3>1 DEF F!TypeOK
    <3>4. got <= played'[F!Game]
      BY <3>1, <3>3 DEF Ready
    <3> QED BY <2>1, <2>2, <3>1, <3>2, <3>4 DEF Ready
  <2> QED BY <1>1, <2>1, <2>3 DEF TickInv
<1>11. ASSUME NEW g \in Games, F!KickOff(g) \/ F!Whistle(g) PROVE TickInv'
  <2>1. /\ \A h \in Games : truth[h] = "post" => truth'[h] = "post"
        /\ UNCHANGED <<due, step, got, played, log, recapped>>
    BY <1>11 DEF F!KickOff, F!Whistle, F!logs, F!tick, F!TypeOK
  <2>2. F!Game' = F!Game /\ F!Over' = F!Over
    BY <2>1 DEF F!Game, F!Over
  <2>3. \A i \in DOMAIN due : due[i].game \in Games
    <3>1. \A i \in DOMAIN due : due[i] \in Turns
      BY <1>2
    <3> QED BY <3>1 DEF Turns
  <2>4. Ends'
    BY <1>1, <2>1, <2>3
  <2> QED BY <1>1, <2>1, <2>2, <2>4 DEF TickInv, Ready
<1>12. CASE \/ F!Poll \/ F!Fill \/ UNCHANGED F!vars
            \/ \E g \in Games : F!Ages(g) \/ F!Lists(g) \/ F!StopsReturning(g) \/ F!StartPasses(g)
  <2>1. UNCHANGED <<due, step, got, truth, played, log, recapped>>
    BY <1>12 DEF F!Poll, F!Ask, F!Write, F!PollFails, F!Fill, F!FillReads, F!FillWrites, F!Ages,
        F!Lists,
                 F!StopsReturning, F!StartPasses, F!vars, F!provider, F!logs, F!tick
  <2>2. F!Game' = F!Game /\ F!Over' = F!Over
    BY <2>1 DEF F!Game, F!Over
  <2> QED BY <1>1, <2>1, <2>2 DEF TickInv, Ready
<1> QED
  BY <1>4, <1>5, <1>6, <1>7, <1>8, <1>9, <1>10, <1>11, <1>12 DEF F!Next, F!PlaysTick

-----------------------------------------------------------------------------

LEMMA FixturesInvariance == ASSUME F!ConstantsType PROVE F!Spec => []FixturesInv
<1>1. F!Init => FixturesInv
  BY InitFixtures
<1>2. FixturesInv /\ [F!Next]_(F!vars) => FixturesInv'
  BY FixturesTyped, PollsKept, LogsKept, TickKept DEF FixturesInv
<1> QED BY <1>1, <1>2, PTL DEF F!Spec

\* Type correctness: what the pollers were told, the scores, the logs and what the plays tick
\* has in hand keep their types, and what the tick reads is a fixture each time.
THEOREM FeedTypesCorrect == ASSUME F!ConstantsType PROVE F!Spec => []F!TypeOK
<1>1. FixturesInv => F!TypeOK
  BY DEF FixturesInv
<1> QED BY <1>1, FixturesInvariance, PTL

\* ClosedIsComplete: whatever sweep and live tick write over each other while the plays tick
\* reads, a log that markPlaysFinal has closed has every play that was told, and its recap.
THEOREM ClosedLogsAreWhole == ASSUME F!ConstantsType PROVE F!Spec => []F!ClosedIsComplete
<1>1. FixturesInv => F!ClosedIsComplete
  BY DEF FixturesInv, LogsInv, F!ClosedIsComplete
<1> QED BY <1>1, FixturesInvariance, PTL

\* ListingNeverUndone: a fill that was long in coming takes no listing from ESPN, whatever
\* the pollers wrote since it looked.
THEOREM ListingsStay == ASSUME F!ConstantsType PROVE F!Spec => F!ListingNeverUndone
<1> DEFINE Stays == \A g \in Games : source[g] = "espn" => source'[g] = "espn"
<1>1. F!TypeOK /\ [F!Next]_(F!vars) => [Stays]_source
  <2> SUFFICES ASSUME F!TypeOK, [F!Next]_(F!vars), source' # source PROVE Stays
    OBVIOUS
  <2>1. (\E p \in F!Pollers : F!Write(p)) \/ F!FillWrites
    BY DEF F!Next, F!Poll, F!Ask, F!PollFails, F!Ages, F!Fill, F!FillReads, F!PlaysTick,
        F!Select, F!FetchPlays,
           F!InsertPlays, F!SaveRecap, F!Close, F!PlaysFail, F!Dies, F!KickOff, F!Play,
           F!Whistle, F!Lists,
           F!StopsReturning, F!StartPasses, F!vars, F!scores
  <2>2. ASSUME NEW p \in F!Pollers, F!Write(p) PROVE Stays
    BY <2>2 DEF F!Write
  <2>3. CASE F!FillWrites
    BY <2>3 DEF F!FillWrites, F!Missing, F!ConstantsType
  <2> QED BY <2>1, <2>2, <2>3
<1>2. F!Spec => []F!TypeOK
  BY FeedTypesCorrect
<1> HIDE DEF Stays
<1>3. F!Spec => [][Stays]_source
  BY <1>1, <1>2, PTL DEF F!Spec
<1> QED BY <1>3 DEF F!ListingNeverUndone, Stays
=============================================================================
