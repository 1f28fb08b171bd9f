-------------------------------- MODULE Ranking --------------------------------
(***************************************************************************)
(* Which entries of a reader's lists are said to carry a fixture: the      *)
(* words the rows are narrowed by in the database, and the tiers they are  *)
(* ranked into.  A name is a sequence of words as normaliseTeam leaves     *)
(* them; the word lists of the code are here by the members an instance    *)
(* uses.  What an entry really is (of, series) is known to the provider    *)
(* and to the properties alone.                                            *)
(***************************************************************************)
EXTENDS Naturals, Sequences, SequencesExt, FiniteSets

CONSTANTS
  Games,      \* fixtures: [home, away, event, league, abbr, sport]; one-sided: home = <<>>
  Markers,    \* leagueSportMarkers: [abbr, sport]
  Titles,     \* entries: [words, lang, dated, blank, of, series]
  Languages,  \* config.playlists.languages
  None

VARIABLES
  fixture, list,      \* what is asked, of which entries
  matches,            \* the entries offered as carrying it, best first
  competition         \* those offered as carrying the series

vars == <<fixture, list, matches, competition>>

-----------------------------------------------------------------------------
(* Words.                                                                  *)

OneLetter == {"1"}
Short == OneLetter \cup {"07", "f1", "li", "na", "wu", "di"}  \* under three letters
UnderFour == Short \cup {"mlb", "nfl", "epl", "ucl", "wta", "psg"}
Stop == {"hd", "live", "event", "grand", "prix"}
CountryAdjective == {"english", "dutch"}
SportWords == {"football", "soccer", "baseball", "racing"}
GenericLeague == {"league", "major", "premier", "national"} \cup SportWords
Discriminators == {"city", "united"}

Tokens(name) == ToSet(name) \ (Short \cup Stop)
Found(t, name) == Tokens(name) \cap ToSet(t.words)

\* A run of whole words.
Says(t, name) ==
  /\ name # <<>>
  /\ \E i \in 0 .. Len(t.words) - Len(name) : \A k \in DOMAIN name : t.words[i + k] = name[k]
\* hasWhole looks for no name under four letters, with its spaces.
Brief(name) ==
  \/ Len(name) = 1 /\ name[1] \in UnderFour
  \/ Len(name) = 2 /\ ToSet(name) \subseteq OneLetter
HasWhole(t, name) == Says(t, name) /\ ~Brief(name)

SportsIn(words) == {IF w = "soccer" THEN "football" ELSE w : w \in words \cap SportWords}
\* Only a title that names a sport can contradict ours.
ClashesOnSport(t, g) ==
  LET ours == SportsIn(ToSet(g.league) \cup {g.sport})
      named == SportsIn(ToSet(t.words))
  IN ours # {} /\ named # {} /\ named \cap ours = {}

\* leagueSignals: the words that name the league, and the phrases of its name.
LeagueWords(g) ==
  ((Tokens(g.league) \cup Tokens(g.abbr)) \ (GenericLeague \cup CountryAdjective))
    \cup (IF Len(g.abbr) = 1 THEN ToSet(g.abbr) \ GenericLeague ELSE {})
LeaguePhrases(g) ==
  UNION {UNION {{SubSeq(n, i, j) : i \in 1 .. j - 1} : j \in DOMAIN n} : n \in {g.league, g.abbr}}
LeagueSignals(g) == {<<w>> : w \in LeagueWords(g)} \cup LeaguePhrases(g)

\* Names and titles are words.
ConstantsType ==
  /\ \A t \in Titles : t.words \in Seq(STRING)
  /\ \A g \in Games : g.home \in Seq(STRING) /\ g.away \in Seq(STRING)

-----------------------------------------------------------------------------
(* The rows asked for, and their ranking.                                  *)

\* Mutation: a phrase of the league's name is asked for by none of its words.
MatchTermsByWord(g) ==
  {<<w>> : w \in Tokens(g.home) \cup Tokens(g.away) \cup Tokens(g.event) \cup LeagueWords(g)}
MatchTerms(g) ==
  {<<w>> : w \in Tokens(g.home) \cup Tokens(g.away) \cup Tokens(g.event)} \cup LeagueSignals(g)
Narrowed(L, g) == {t \in L : \E term \in MatchTerms(g) : Says(t, term)}

\* An entry's own word on itself: a recording, or a language the reader does not want.
Considered(t) == ~t.dated /\ (t.lang # None => t.lang \in Languages)

\* The title has a word that tells this club's family apart, and it is not this club's.
Contradicts(t, name) ==
  /\ Found(t, name) # Tokens(name)
  /\ \E w \in ToSet(t.words) \cap Discriminators : w \notin Tokens(name)

\* Mutation: a tag of another sport says nothing.
ForeignNever(t, g) == FALSE
\* namesForeignCompetition: the title is tagged as of another sport, and not as ours.
Foreign(t, g) ==
  /\ g.sport # None
  /\ \E l \in Markers : l.sport # g.sport /\ Says(t, <<l.abbr>>)
  /\ ~\E s \in LeagueSignals(g) \cup {g.abbr} : Says(t, s)

Certain(t, g) ==
  IF g.home # <<>> THEN HasWhole(t, g.home) /\ HasWhole(t, g.away) ELSE Found(t, g.event) # {}

\* A word for each side that is not the other's.
Likely(t, g) ==
  LET h == Found(t, g.home)
      a == Found(t, g.away)
  IN /\ ~Certain(t, g)
     /\ h \ a # {} /\ a \ h # {}
     /\ ~Contradicts(t, g.home) /\ ~Contradicts(t, g.away)
     /\ ~ClashesOnSport(t, g) /\ ~Foreign(t, g)

\* The entry is for the series: it names the league, and no other sport.
OfCompetition(t, g) ==
  /\ ~Certain(t, g) /\ ~Likely(t, g)
  /\ ~t.blank /\ (\E s \in LeagueSignals(g) : Says(t, s)) /\ ~ClashesOnSport(t, g)

Score(t, g) ==
  IF ~Certain(t, g) THEN Cardinality(Found(t, g.home)) + Cardinality(Found(t, g.away))
  ELSE IF g.home # <<>> THEN 100 + Cardinality(Tokens(g.home)) + Cardinality(Tokens(g.away))
  ELSE 50 + Cardinality(Found(t, g.event))

\* By score, the plainest title first; equals in any order.
InRank(S, g) ==
  {s \in SetToSeqs(S) : \A i, j \in DOMAIN s : i < j =>
     \/ Score(s[i], g) > Score(s[j], g)
     \/ Score(s[i], g) = Score(s[j], g) /\ Len(s[i].words) <= Len(s[j].words)}

Rank(L, g) ==
  LET seen == {t \in L : Considered(t)} IN
  [matches : {c \o l : c \in InRank({t \in seen : Certain(t, g)}, g),
                       l \in InRank({t \in seen : Likely(t, g)}, g)},
   competition : {{t \in seen : OfCompetition(t, g)}}]

\* ownChannelsFor: one page, of lists of two entries at most.
Ask(g, L) ==
  /\ list = {}
  /\ \E r \in Rank(Narrowed(L, g), g) :
       /\ fixture' = g /\ list' = L
       /\ matches' = r.matches /\ competition' = r.competition

Init == fixture = None /\ list = {} /\ matches = <<>> /\ competition = {}
Next == \E g \in Games, s, t \in Titles : Ask(g, {s, t})
Spec == Init /\ [][Next]_vars

-----------------------------------------------------------------------------
(* Properties.                                                             *)

TypeOK ==
  /\ fixture \in Games \cup {None} /\ list \subseteq Titles
  /\ matches \in Seq(Titles) /\ competition \subseteq Titles

\* A side has a word to ask the database for: not so "Li Na" v "Wu Di".
HasTerms(g) == g.home = <<>> \/ Tokens(g.home) \cup Tokens(g.away) # {}

\* "a word the ranker would have matched but the query never asked for is a channel the
\* reader is silently not offered": what the ranking of everything offers, the narrowed offers,
\* unless both sides are called by words too short or too plain to be asked for, of which only
\* the entries of the series are sure to be found.
NarrowingLosesNothing ==
  list # {} =>
    /\ \A r \in Rank(list, fixture) : r.competition = competition
    /\ HasTerms(fixture) =>
         \E r \in Rank(list, fixture) : r.matches = matches /\ r.competition = competition

\* An entry of another game is offered only where nothing on it says so: never one of the
\* same sport, nor one that carries its competition's tag; and no channel of another sport's
\* series is offered for ours.
OtherGamesStayOut ==
  /\ \A t \in ToSet(matches) : t.of # {} /\ fixture \notin t.of =>
       \A g \in t.of : g.sport # fixture.sport /\ ~Says(t, g.abbr)
  /\ \A t \in competition : t.series # None => t.series = fixture.sport

InFull(t, g) == g.home # <<>> /\ Says(t, g.home) /\ Says(t, g.away)
HasEveryWord(t, g) == Found(t, g.home) = Tokens(g.home) /\ Found(t, g.away) = Tokens(g.away)
\* Nothing that lacks a word of either side comes before an entry that names both in full, and
\* nothing that does not name them in full does, unless a name is too short to be looked for
\* whole; and no recording comes at all.
RightOneFirst ==
  /\ \A t \in ToSet(matches) \cup competition : ~t.dated
  /\ \A i, j \in DOMAIN matches : i < j /\ InFull(matches[j], fixture) =>
       /\ HasEveryWord(matches[i], fixture)
       /\ InFull(matches[i], fixture) \/ Brief(fixture.home) \/ Brief(fixture.away)
=============================================================================
