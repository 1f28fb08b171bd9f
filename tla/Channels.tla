------------------------------- MODULE Channels -------------------------------
(***************************************************************************)
(* Which entries of a line are offered for a fixture, to its owner and to  *)
(* the readers it is open to, and what is known of whether they play: the  *)
(* verdicts left by the probes of the check routes and of the .m3u         *)
(* download, one request each, and by the player's own request.  The       *)
(* entries are those a term of the fixture finds; which of them fit it,    *)
(* Ranking decides.                                                        *)
(***************************************************************************)
EXTENDS Naturals, Sequences, SequencesExt, FiniteSets

CONSTANTS
  Lists,      \* a sequence: the owner's lists, in the order chosen
  Rows,       \* ids of user_playlist_channels; within a list, in position order
  ListOf,     \* the list of each
  Fits,       \* the rows that the ranking would offer
  Stored,     \* rows there before we look; the others come with later imports
  Viewers,    \* readers a list may be opened to
  Slots,      \* what the provider answers for each to begin with
  Header,     \* the content type a row's server declares
  Checks,     \* requests at a time
  Window,     \* limit of playlistCandidates
  PerLine,    \* PER_LINE
  MaxTried,   \* max of firstLiveChannel
  MaxChanges, \* bound: imports, openings and closings, and slots that turn
  None

\* What the composing module and the proofs assume of them.
ConstantsType ==
  /\ ListOf \in [Rows -> ToSet(Lists)] /\ Stored \subseteq Rows /\ Fits \subseteq Rows
  /\ Slots \in [Rows -> {"stream", "page", "silent", "gone", "busy"}]
  /\ Header \in [Rows -> {"video", "hls", "html", "other"}]
  /\ None \notin BOOLEAN /\ MaxChanges \in Nat

Answers == {"stream", "page", "silent", "gone", "busy"}
Plays == {"play", "playShared"}
OfViewers == {"shared", "playShared"}
NoCheck == [kind |-> "own", row |-> None, rest |-> <<>>, saw |-> None, heard |-> None]

VARIABLES
  slot,           \* what the provider answers for a row
  stored,         \* the rows there are
  retired,        \* rows an import took away; an id never comes back
  verdict,        \* is_live
  due,            \* rows whose checked_at is longer ago than CHANNEL_RECHECK_HOURS
  admitted,       \* who each list is open to, by share_audience and the grants; None: closed
  pc, check,      \* where a request is, and its locals
  basis,          \* ghost: what the probe that wrote a verdict had seen of the slot
  changes

rowVars == <<stored, retired, verdict, due, basis>>
vars == <<slot, rowVars, admitted, pc, check, changes>>

Init ==
  /\ changes = 0
  /\ slot = Slots
  /\ stored = Stored /\ retired = {}
  /\ verdict = [r \in Rows |-> None] /\ due = {}
  /\ admitted = [l \in ToSet(Lists) |-> None]
  /\ pc = [c \in Checks |-> "idle"] /\ check = [c \in Checks |-> NoCheck]
  /\ basis = [r \in Rows |-> None]

-----------------------------------------------------------------------------
(* What is offered.                                                        *)

\* Unchecked is not dead, and a no counts only while it is recent.
Offerable(r) == r \in stored /\ (verdict[r] # FALSE \/ r \in due)

InOrder(S) == SetToSortSeq(S, <)
First(n, s) == SubSeq(s, 1, IF n < Len(s) THEN n ELSE Len(s))

\* Mutation: the window goes to whoever comes first.
ShareAll == Window
\* Each list has half of the window for itself.
Share == IF Window < 2 THEN 1 ELSE Window \div 2

\* The window is of the rows a term finds, before anything is ranked.
Candidates ==
  First(Window, FlattenSeq([i \in DOMAIN Lists |->
    First(Share, InOrder({r \in Rows : ListOf[r] = Lists[i] /\ Offerable(r)}))]))

\* ownChannelsFor: at most PerLine rows of a list that fit, in the order of the ranking.
Ranked == ToSet(Candidates) \cap Fits
Offered ==
  SelectSeq(Candidates, LAMBDA r :
    r \in Fits /\ Cardinality({q \in Ranked : ListOf[q] = ListOf[r] /\ q < r}) < PerLine)

\* sharedChannelById: the list is open, and to this reader.
LetIn(v, r) == r \in stored /\ admitted[ListOf[r]] # None /\ v \in admitted[ListOf[r]]

-----------------------------------------------------------------------------
(* A probe, and the player's request.                                      *)

Idle(c) == pc' = [pc EXCEPT ![c] = "idle"] /\ check' = [check EXCEPT ![c] = NoCheck]
Ask(c, locals) ==
  /\ pc' = [pc EXCEPT ![c] = "asked"]
  /\ check' = [check EXCEPT ![c] = [locals EXCEPT !.saw = None, !.heard = None]]
Quiet == UNCHANGED <<slot, rowVars, admitted, changes>>

\* GET /my/channels/:id/check: the slots are looked at first, and the row read after.  (A
\* line in use is one more reason not to ask.)
CheckOwn(c, r) ==
  /\ pc[c] = "idle"
  /\ pc' = [pc EXCEPT ![c] = "looking"]
  /\ check' = [check EXCEPT ![c] = [NoCheck EXCEPT !.row = r]]
  /\ Quiet
LookUp(c) ==
  /\ pc[c] = "looking"
  /\ IF check[c].row \in stored THEN Ask(c, check[c]) ELSE Idle(c)
  /\ Quiet

\* GET /shared/:id/check, by a reader who is let in when the row is read.
CheckShared(c, v, r) ==
  /\ pc[c] = "idle" /\ LetIn(v, r)
  /\ Ask(c, [NoCheck EXCEPT !.kind = "shared", !.row = r])
  /\ Quiet

\* GET /events/:id/playlist.m3u: the one asked for, then the others in their order.
Download(c, first) ==
  LET order == <<first>> \o SelectSeq(Offered, LAMBDA r : r # first) IN
  /\ pc[c] = "idle" /\ first \in ToSet(Offered)
  /\ Ask(c, [NoCheck EXCEPT !.kind = "download", !.row = first,
                            !.rest = First(MaxTried - 1, Tail(order))])
  /\ Quiet

\* GET /my/channels/:id/stream.ts and /events/:id/stream.ts, and GET /shared/:id/stream.ts:
\* openStream asks once, and what it asks for is what is played.  (The slots are StreamSlots'.)
Play(c, r) ==
  /\ pc[c] = "idle" /\ r \in stored
  /\ Ask(c, [NoCheck EXCEPT !.kind = "play", !.row = r])
  /\ Quiet
PlayShared(c, v, r) ==
  /\ pc[c] = "idle" /\ LetIn(v, r)
  /\ Ask(c, [NoCheck EXCEPT !.kind = "playShared", !.row = r])
  /\ Quiet

Heard(c, saw, live, definitive) ==
  /\ pc' = [pc EXCEPT ![c] = "heard"]
  /\ check' = [check EXCEPT ![c].saw = saw, ![c].heard = [live |-> live, definitive |-> definitive]]

\* A status that says the slot is gone, or one that says nothing of it.
Refused(c) ==
  LET answer == slot[check[c].row] IN
  /\ pc[c] = "asked" /\ answer \in {"gone", "busy"}
  /\ Heard(c, answer, FALSE, answer = "gone")
  /\ Quiet

\* A probe reads the body whatever was declared.  The player's request does so only if the
\* type is unknown: it believes html, and refuses a playlist because the page cannot play it.
Headers(c) ==
  LET answer == slot[check[c].row]
      declared == Header[check[c].row]
  IN
  /\ pc[c] = "asked" /\ answer \in {"stream", "page", "silent"}
  /\ \/ /\ check[c].kind \notin Plays \/ declared = "other"
        /\ pc' = [pc EXCEPT ![c] = "reading"] /\ check' = [check EXCEPT ![c].saw = answer]
     \/ /\ check[c].kind \in Plays /\ declared \in {"video", "html"}
        /\ Heard(c, "declared", declared = "video", TRUE)
     \/ /\ check[c].kind \in Plays /\ declared = "hls"
        /\ Heard(c, "unplayable", FALSE, TRUE)
  /\ Quiet

\* Nothing conclusive in the body: the declared type is all that is left.
ByHeader(c, saw) ==
  LET declared == Header[check[c].row] IN
  Heard(c, saw, declared \in {"video", "hls"}, declared # "other")

Body(c) ==
  /\ pc[c] = "reading"
  /\ IF check[c].saw = "silent" THEN ByHeader(c, "declared")
     ELSE Heard(c, check[c].saw, check[c].saw = "stream", TRUE)
  /\ Quiet

\* The time is over, or the reader has left: before the headers it is no verdict.  In the
\* body firstBytes catches it, and nothing read is looked at as if it were all there is.
CutShort(c) ==
  /\ \/ pc[c] = "asked" /\ Heard(c, None, FALSE, FALSE)
     \/ pc[c] = "reading" /\ ByHeader(c, "cut")
  /\ Quiet

\* Mutation: a verdict has two values.
ToStoreEither(heard) == heard.live
\* verdictToStore: a yes and a definite no are facts about the slot, the rest is not.
ToStore(heard) == IF heard.live THEN TRUE ELSE IF heard.definitive THEN FALSE ELSE None

\* markChannelChecked and markSharedChannelChecked.
MayMark(c) ==
  LET r == check[c].row IN
  r \in stored /\ (check[c].kind \in OfViewers => admitted[ListOf[r]] # None)

\* firstLiveChannel stops at the first that plays.
Go(c) ==
  IF check[c].heard.live \/ check[c].rest = <<>> THEN Idle(c)
  ELSE Ask(c, [check[c] EXCEPT !.row = Head(check[c].rest), !.rest = Tail(check[c].rest)])

Record(c) ==
  /\ pc[c] = "heard"
  /\ IF MayMark(c)
     THEN /\ verdict' = [verdict EXCEPT ![check[c].row] = ToStore(check[c].heard)]
          /\ due' = due \ {check[c].row}
          /\ basis' = [basis EXCEPT ![check[c].row] = check[c].saw]
     ELSE UNCHANGED <<verdict, due, basis>>
  /\ Go(c)
  /\ UNCHANGED <<slot, stored, retired, admitted, changes>>

\* The write fails and nobody is told; nor is anything written of a player whose reader left.
RecordFails(c) == pc[c] = "heard" /\ Go(c) /\ Quiet

-----------------------------------------------------------------------------
(* Around it.                                                              *)

Change == changes < MaxChanges /\ changes' = changes + 1

Turn(r) ==
  /\ Change
  /\ \E a \in Answers \ {slot[r]} : slot' = [slot EXCEPT ![r] = a]
  /\ UNCHANGED <<rowVars, admitted, pc, check>>

\* replacePlaylistChannels: all the rows of the list go and others come.
Import(l) ==
  LET old == {r \in stored : ListOf[r] = l}
      new == {r \in Rows \ (stored \cup retired) : ListOf[r] = l}
  IN /\ Change
     /\ stored' = (stored \ old) \cup new /\ retired' = retired \cup old
     /\ UNCHANGED <<slot, verdict, due, basis, admitted, pc, check>>

\* setPlaylistSharing and the grants.
Open(l) ==
  /\ Change
  /\ \E to \in {None} \cup SUBSET Viewers : admitted' = [admitted EXCEPT ![l] = to]
  /\ UNCHANGED <<slot, rowVars, pc, check>>

\* The interval passes since a row was found dead.
FallDue(r) ==
  /\ verdict[r] = FALSE /\ r \notin due
  /\ due' = due \cup {r}
  /\ UNCHANGED <<slot, stored, retired, verdict, basis, admitted, pc, check, changes>>

Next ==
  \/ \E c \in Checks :
       \/ \E r \in Rows : CheckOwn(c, r) \/ Download(c, r) \/ Play(c, r)
       \/ \E v \in Viewers, r \in Rows : CheckShared(c, v, r) \/ PlayShared(c, v, r)
       \/ LookUp(c) \/ Refused(c) \/ Headers(c) \/ Body(c) \/ CutShort(c)
       \/ Record(c) \/ RecordFails(c)
  \/ \E r \in Rows : Turn(r) \/ FallDue(r)
  \/ \E l \in ToSet(Lists) : Import(l) \/ Open(l)

Spec == Init /\ [][Next]_vars

-----------------------------------------------------------------------------
(* Properties.                                                             *)

TypeOK ==
  /\ changes \in 0 .. MaxChanges
  /\ slot \in [Rows -> Answers]
  /\ stored \subseteq Rows /\ retired \subseteq Rows \ stored
  /\ verdict \in [Rows -> BOOLEAN \cup {None}]
  /\ due \subseteq {r \in Rows : verdict[r] = FALSE}
  /\ \A l \in ToSet(Lists) : admitted[l] = None \/ admitted[l] \subseteq Viewers
  /\ pc \in [Checks -> {"idle", "looking", "asked", "reading", "heard"}]

\* A row is hidden for an answer that says its slot is dead, and shown as verified because it
\* streamed: a busy line, silence, an unknown type, and a request that ended before the
\* headers leave no verdict.  Where the body says nothing the declared type counts, also if a
\* timeout or the reader's leaving is why it says nothing, which probe.js:238-242 means to
\* rule out; and the player's request hides what only this page cannot play.
VerdictsEarned ==
  \A r \in Rows :
    /\ verdict[r] = FALSE =>
         \/ basis[r] \in {"page", "gone"}
         \/ basis[r] \in {"declared", "cut"} /\ Header[r] = "html"
         \/ basis[r] = "unplayable" /\ Header[r] = "hls"
    /\ verdict[r] = TRUE =>
         \/ basis[r] = "stream"
         \/ basis[r] \in {"declared", "cut"} /\ Header[r] \in {"video", "hls"}

\* A list has a row that fits among those of it that its own share of the window holds.
Reaches(l) ==
  \E r \in Fits : /\ ListOf[r] = l /\ Offerable(r)
                 /\ Cardinality({q \in Rows : ListOf[q] = l /\ Offerable(q) /\ q < r}) < Share

\* With two lists, neither keeps the other from the answer, however many of its rows a term
\* finds: only its own rows may fill its share without fitting.
EveryLineSpeaks ==
  Len(Lists) <= 2 =>
    \A l \in ToSet(Lists) : Reaches(l) => \E q \in ToSet(Offered) : ListOf[q] = l
=============================================================================
