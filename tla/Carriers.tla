------------------------------- MODULE Carriers -------------------------------
(***************************************************************************)
(* A broadcaster that a listing names, in the reader's own channels.  A    *)
(* word is a sequence of letters, a name a sequence of words; an entry has *)
(* the shelf its provider filed it under and its own name.  What a listing *)
(* means and an entry is (is) is known to the properties alone.  Digits    *)
(* that stand for letters are not read here.                               *)
(***************************************************************************)
EXTENDS Integers, Sequences, SequencesExt, FiniteSets, Folds

CONSTANTS
  Listings,   \* [name, is]
  Titles,     \* [label, name, blank, is]
  Generic,    \* words that say a thing is a channel: tv, net, network
  Variants,   \* words for another feed of it, and quality tags
  Digits,     \* the letters that are digits
  None

VARIABLES listing, list, own, network

vars == <<listing, list, own, network>>

Literal == 3
Spelled == 2
Guessed == 1

-----------------------------------------------------------------------------
(* broadcasters.js: what an abbreviation stands for.                       *)

IsSubsequence(s, l) ==
  FoldLeft(LAMBDA i, c : IF i < Len(s) /\ s[i + 1] = c THEN i + 1 ELSE i, 0, l) = Len(s)

ShortensTo(s, l) ==
  /\ Len(s) \in 1 .. Len(l) - 1 /\ s[1] = l[1]
  /\ ~(Len(s) >= 3 /\ IsPrefix(s, l) /\ Len(l) - Len(s) <= 2)
  /\ IF Len(s) < 3 THEN IsPrefix(s, l) ELSE IsSubsequence(s, l)
Stands(s, l) == s = l \/ ShortensTo(s, l)

\* One word for a run of words, cut into one piece for each.
RECURSIVE InitialismOf(_, _)
InitialismOf(word, words) ==
  /\ Len(words) \in 1 .. 4 /\ Len(word) >= Len(words)
  /\ IF Len(words) = 1 THEN Stands(word, words[1])
     ELSE \E take \in 1 .. Len(word) - Len(words) + 1 :
            /\ Stands(SubSeq(word, 1, take), words[1])
            /\ InitialismOf(SubSeq(word, take + 1, Len(word)), Tail(words))

FirstLetters(word, words) ==
  Len(word) = Len(words) /\ \A i \in DOMAIN words : words[i][1] = word[i]

\* Word for word, and the last of the listing for all that is left.
Aligns(listed, name) ==
  LET n == Len(listed)
      rest == SubSeq(name, n, Len(name))
      tail == listed[n]
  IN IF \/ n > Len(name)
        \/ \E i \in 1 .. n - 1 : ~Stands(listed[i], name[i])
        \/ n = 1 /\ Len(rest) > 1 /\ (Len(tail) < 3 \/ rest[1] = tail)
        \/ ~InitialismOf(tail, rest)
     THEN 0 ELSE IF Len(rest) = 1 \/ FirstLetters(tail, rest) THEN Spelled ELSE Guessed

Max2(a, b) == IF a < b THEN b ELSE a
Without(words, S) == SelectSeq(words, LAMBDA w : w \notin S)

\* broadcastWords: glued tails come apart, and the tags at the end go.
SplitGlued(w) ==
  LET tails == {g \in Generic : Len(w) > Len(g) + 2 /\ IsSuffix(g, w)} IN
  IF tails = {} THEN <<w>>
  ELSE LET g == CHOOSE g \in tails : TRUE IN <<SubSeq(w, 1, Len(w) - Len(g)), g>>
BroadcastWords(name) ==
  LET words == FlattenSeq([i \in DOMAIN name |-> SplitGlued(name[i])])
      kept == {1} \cup {i \in DOMAIN words : words[i] \notin Variants}
      last == CHOOSE i \in kept : \A j \in kept : j <= i
  IN SubSeq(words, 1, last)

Compare(listed, name) ==
  LET a == Without(listed, Generic)
      b == Without(name, Generic)
  IN IF a # <<>> /\ a = b THEN Spelled
     ELSE Max2(Aligns(listed, name), IF b = name \/ b = <<>> THEN 0 ELSE Aligns(listed, b))
SpellsOut(listed, name) == Compare(BroadcastWords(listed), BroadcastWords(name))

-----------------------------------------------------------------------------
(* nameMatchRank.                                                          *)

CallSign(w) == w[1] \in {"k", "w"} /\ Len(w) \in 3 .. 6 /\ ToSet(w) \cap Digits = {}
StationMark(w) == (ToSet(w) \subseteq Digits /\ Len(w) <= 3) \/ CallSign(w) \/ Len(w) <= 2

\* A name under four letters has to lead the channel's own, with only the station behind it.
LeadsStation(needle, t) ==
  LET words == Without(t.name, Variants)
      \* A country's shorthand may come before it.
      at == {i \in DOMAIN words : words[i] = needle /\ \A j \in 1 .. i - 1 : Len(words[j]) <= 2}
  IN at # {} /\ LET i == CHOOSE i \in at : \A j \in at : i <= j
                    rest == ToSet(SubSeq(words, i + 1, Len(words)))
                IN (\A w \in rest : StationMark(w)) \/ (\E w \in rest : CallSign(w))

\* Mutation: the shelf is part of the name.
SaysShelved(t, name) == ToSet(Without(name, Variants)) \subseteq ToSet(t.label \o t.name)
\* The entry's own name, with nothing of the shelf.
Says(t, name) == ToSet(Without(name, Variants)) \subseteq ToSet(t.name)

NameMatchRank(t, name) ==
  LET guess == SpellsOut(name, t.name) IN
  CASE t.blank -> 0
    [] ~t.blank /\ Len(name) = 1 /\ Len(name[1]) < 4 ->
         IF LeadsStation(name[1], t) THEN Literal ELSE guess
    [] OTHER ->
         IF Says(t, name) THEN Literal
         ELSE IF ToSet(name) \subseteq ToSet(t.label \o t.name) THEN Max2(Guessed, guess)
         ELSE guess

-----------------------------------------------------------------------------
(* The pages.                                                              *)

Letters(t) == FoldLeft(LAMBDA n, w : n + Len(w), 0, t.label \o t.name)
First3(s) == SubSeq(s, 1, IF Len(s) < 3 THEN Len(s) ELSE 3)

\* marketsWithOwnChannels: only the surest reading, the plainest title first, three at most.
OwnChannels(S, name) ==
  LET ranked == {t \in S : NameMatchRank(t, name) > 0}
      best == {t \in ranked : \A u \in ranked : NameMatchRank(u, name) <= NameMatchRank(t, name)}
  IN First3(SetToSortSeq(best, LAMBDA t, u : Letters(t) < Letters(u)))

\* The network tier of a shared list: the surest first, three at most.
Network(S, name) ==
  First3(SetToSortSeq({t \in S : NameMatchRank(t, name) > 0}, LAMBDA t, u :
    \/ NameMatchRank(t, name) > NameMatchRank(u, name)
    \/ NameMatchRank(t, name) = NameMatchRank(u, name) /\ Letters(t) < Letters(u)))

Ask(l, S) ==
  /\ list = {}
  /\ listing' = l /\ list' = S
  /\ own' = OwnChannels(S, l.name) /\ network' = Network(S, l.name)

Init == listing = None /\ list = {} /\ own = <<>> /\ network = <<>>
Next == \E l \in Listings, s, t \in Titles : Ask(l, {s, t})
Spec == Init /\ [][Next]_vars

-----------------------------------------------------------------------------
(* Properties.                                                             *)

TypeOK ==
  /\ listing \in Listings \cup {None} /\ list \subseteq Titles
  /\ own \in Seq(Titles) /\ network \in Seq(Titles)

\* No reading that claims to be sure names another channel; and where the list has the
\* channel named, surely read, no other is offered with it.
TrueChannelOnly ==
  /\ \A t \in ToSet(own) : t.is # listing.is => NameMatchRank(t, listing.name) = Guessed
  /\ \A t \in list : t.is = listing.is /\ NameMatchRank(t, listing.name) >= Spelled =>
       /\ \A u \in ToSet(own) : u.is = listing.is
       /\ network[1].is = listing.is

\* "the letters are cut into one run per word and every run has to begin its word": the
\* search finds a cut exactly where there is one.
Cut(word, words) ==
  \E c \in [0 .. Len(words) -> 0 .. Len(word)] :
    /\ c[0] = 0 /\ c[Len(words)] = Len(word)
    /\ \A i \in DOMAIN words :
         c[i - 1] < c[i] /\ Stands(SubSeq(word, c[i - 1] + 1, c[i]), words[i])
CutsFound ==
  \A t \in list : Len(t.name) <= 4 =>
    \A w \in ToSet(listing.name) : InitialismOf(w, t.name) <=> Cut(w, t.name)
=============================================================================
