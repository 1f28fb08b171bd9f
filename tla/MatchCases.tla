------------------------------ MODULE MatchCases ------------------------------
(***************************************************************************)
(* Fixtures and entries to rank, and listings and channels to compare: the *)
(* cases the comments of m3u.js and broadcasters.js argue about.           *)
(***************************************************************************)
EXTENDS Naturals, Sequences

CONSTANT None

Game(home, away, league, abbr, sport) ==
  [home |-> home, away |-> away, event |-> away \o home, league |-> league, abbr |-> <<abbr>>,
   sport |-> sport]
premier == <<"english", "premier", "league">>
derby == Game(<<"manchester", "united">>, <<"arsenal">>, premier, "epl", "football")
final == Game(<<"real", "madrid">>, <<"psg">>, <<"champions", "league">>, "ucl", "football")
open == Game(<<"li", "na">>, <<"wu", "di">>, <<"wta", "tour">>, "wta", "tennis")
RankedGames == {
  Game(<<"louis", "cardinals">>, <<"baltimore", "orioles">>, <<"major", "league", "baseball">>,
       "mlb", "baseball"),
  Game(<<"arizona", "cardinals">>, <<"baltimore", "ravens">>,
       <<"national", "football", "league">>, "nfl", "football"),
  derby, final, open,
  Game(<<"manchester", "city">>, <<"arsenal">>, premier, "epl", "football"),
  [home |-> <<>>, away |-> <<>>, event |-> <<"dutch", "grand", "prix">>,
   league |-> <<"formula", "1">>, abbr |-> <<"f1">>, sport |-> "racing"]}
RankedMarkers == {[abbr |-> g.abbr[1], sport |-> g.sport] : g \in RankedGames}

\* How a provider titles a game: each side in full or by one of its longer words, tagged or not.
Sides(n) == {n} \cup ({<<n[i]>> : i \in DOMAIN n} \ {<<"li">>, <<"na">>, <<"wu">>, <<"di">>})
Renderings(g) ==
  IF g.home = <<>> THEN {g.abbr \o g.event, g.event}
  ELSE {tag \o h \o a : tag \in {<<>>, g.abbr \o <<"07">>}, h \in Sides(g.home),
                        a \in Sides(g.away)}
Entry(words, series) ==
  [words |-> words, lang |-> None, dated |-> FALSE, blank |-> FALSE,
   of |-> {g \in RankedGames : words \in Renderings(g)}, series |-> series]
RankedTitles ==
  UNION {{Entry(w, None) : w \in Renderings(g)} : g \in RankedGames}
    \cup {Entry(g.league \o <<"hd">>, g.sport) : g \in RankedGames}
    \cup {Entry(<<"major", "league", "soccer">>, "football"),
          Entry(<<"premier", "league">>, "football"),
          [Entry(<<"madrid", "real", "psg">>, None) EXCEPT !.of = {final}],
          [Entry(<<"nfl", "07">>, "football") EXCEPT !.blank = TRUE],
          [Entry(derby.home \o derby.away, None) EXCEPT !.dated = TRUE],
          [Entry(derby.home \o derby.away, None) EXCEPT !.lang = "nl"]}

-----------------------------------------------------------------------------
usa == <<"u", "s", "a">>
nbc == <<"n", "b", "c">>
cnbc == <<"c", "n", "b", "c">>
mlb == <<"m", "l", "b">>
golf == <<"g", "o", "l", "f">>
wmaq == <<"w", "m", "a", "q">>
net == <<"n", "e", "t">>
tv == <<"t", "v">>
hd == <<"h", "d">>
il == <<"i", "l">>
east == <<"e", "a", "s", "t">>
sports == <<"s", "p", "o", "r", "t", "s">>
calif == <<"c", "a", "l", "i", "f">>
chica == <<"c", "h", "i", "c", "a">>
mid == <<"m", "i", "d">>
atl == <<"a", "t", "l">>
marqu == <<"m", "a", "r", "q", "u">>

Listing(name, is) == [name |-> name, is |-> is]
ListedNames == {
  Listing(<<nbc>>, "nbc"), Listing(<<nbc, sports, <<"c", "a">>>>, "nbc california"),
  Listing(<<usa, net>>, "usa"), Listing(<<mlb, tv>>, "mlb"),
  Listing(<<<<"m", "a", "s", "n">>>>, "masn"), Listing(<<<<"c", "h", "s", "n">>>>, "chsn"),
  Listing(<<marqu, sports, net>>, "marquee")}

Filed(label, name, is) == [label |-> label, name |-> name, blank |-> FALSE, is |-> is]
FiledTitles == {
  Filed(<<usa>>, <<nbc, hd>>, "nbc"), Filed(<<il>>, <<nbc, wmaq>>, "nbc"),
  [Filed(<<usa>>, <<nbc>>, "nbc") EXCEPT !.blank = TRUE],
  Filed(<<usa>>, <<nbc, sports, calif>>, "nbc california"),
  Filed(<<>>, <<nbc, sports, chica>>, "nbc chicago"),
  Filed(<<usa>>, <<nbc, golf>>, "golf"), Filed(<<usa>>, <<cnbc>>, "cnbc"),
  Filed(<<usa>>, <<mlb, net, hd>>, "mlb"), Filed(<<sports>>, <<mlb>>, "mlb"),
  Filed(<<usa>>, <<usa, hd>>, "usa"), Filed(<<usa>>, <<usa, east>>, "usa"),
  Filed(<<>>, <<mid, atl, sports, net>>, "masn"),
  Filed(<<>>, <<marqu, sports, net>>, "marquee"),
  Filed(<<usa>>, <<chica, sports, net>>, "chsn"),
  Filed(<<>>, <<chica, sports \o net>>, "chsn")}
GenericWords == {net, tv}
VariantWords == {hd, east}
=============================================================================
