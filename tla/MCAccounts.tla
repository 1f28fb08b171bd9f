------------------------------ MODULE MCAccounts ------------------------------
(***************************************************************************)
(* Small instances of the parts of an account that share no rows with each *)
(* other, from the ways into it to the channels it is offered: a behaviour *)
(* is of one of them, the subject, while the others stay as they begin.    *)
(***************************************************************************)
EXTENDS Naturals, TLC, MatchCases

CONSTANTS c1, q1, q2, p1, p2, p3, x1, x2, y1, y2, k1, k2, m1, m2, m3, a1, a2, sub,
  owner, home

VARIABLES
  subject,
  link, mailOf, carries, address, identity, sessions, claims, usedBy, days, signInPc,
  signInAt, signInFaults, broken,
  backoffNow, seen, entry, working, lastLock,
  guessesNow, current, guessesChanges, attempts, guessesPc, guess, hash, matched, begun,
  since, tested, atOnce,
  issued, live, counter, signed, step, passkeysAt, entered, raced, passkeysCrossed,
  mailNow, rows, mailed, mailPc, mailAt, mailFaults, mailTogether, unwritten,
  peopleNow, follows, blocks, messages, comments, peoplePc, peopleAt, peopleCrossed,
  peopleTogether,
  slot, stored, retired, verdict, due, admitted, offersPc, check, basis, offersChanges,
  fixture, rankingList, matches, competition,
  listing, carriersList, own, network

signInVars == <<link, mailOf, carries, address, identity, sessions, claims, usedBy, days,
    signInPc, signInAt, signInFaults, broken>>
backoffVars == <<backoffNow, seen, entry, working, lastLock>>
guessesVars == <<guessesNow, current, guessesChanges, attempts, guessesPc, guess, hash,
    matched, begun, since, tested, atOnce>>
passkeysVars == <<issued, live, counter, signed, step, passkeysAt, entered, raced,
    passkeysCrossed>>
mailVars == <<mailNow, rows, mailed, mailPc, mailAt, mailFaults, mailTogether, unwritten>>
peopleVars == <<peopleNow, follows, blocks, messages, comments, peoplePc, peopleAt,
    peopleCrossed, peopleTogether>>
offersVars == <<slot, stored, retired, verdict, due, admitted, offersPc, check, basis,
    offersChanges>>
rankingVars == <<fixture, rankingList, matches, competition>>
carriersVars == <<listing, carriersList, own, network>>

OwnLists == <<"one", "two">>
OwnRows == 1 :> "one" @@ 2 :> "one" @@ 3 :> "one" @@ 4 :> "two"
RowSlots == 1 :> "page" @@ 2 :> "stream" @@ 3 :> "busy" @@ 4 :> "silent"
RowHeaders == 1 :> "html" @@ 2 :> "hls" @@ 3 :> "video" @@ 4 :> "other"
OwnMail == y1 :> m3 @@ y2 :> home

SignIn == INSTANCE SignIn WITH Requests <- {q1, q2}, Links <- {k1, k2}, Mails <- {m1, m2},
  Subs <- {sub}, Owner <- owner, Fresh <- {a1, a2}, Home <- home, MaxFaults <- 1,
  pc <- signInPc, at <- signInAt, faults <- signInFaults

Backoff == INSTANCE Backoff WITH Callers <- {p1, p2, p3}, Free <- 1, BaseLock <- 1,
  MaxLock <- 4, Decay <- 5, Longest <- 5, MaxTracked <- 1, MaxAtOnce <- 2, MaxTime <- 8,
  now <- backoffNow

Guesses == INSTANCE Guesses WITH Tries <- {p1, p2, p3}, MaxFailures <- 1, Window <- 1,
  MaxTime <- 2, MaxChanges <- 1, now <- guessesNow, changes <- guessesChanges,
  pc <- guessesPc

Passkeys == INSTANCE Passkeys WITH Checks <- {p1, p2, p3}, Credentials <- {c1},
  MaxIssued <- 2, at <- passkeysAt, crossed <- passkeysCrossed

InviteMail == INSTANCE InviteMail WITH Submissions <- {q1, q2}, Readers <- {y1, y2},
  Mails <- {m1, m2, m3}, OwnMail <- OwnMail, DailyLimit <- 1, MaxPer <- 1, Day <- 1,
  Quiet <- 2, MaxTime <- 4, MaxFaults <- 1, now <- mailNow, pc <- mailPc, at <- mailAt,
  faults <- mailFaults, together <- mailTogether

People == INSTANCE People WITH Requests <- {p1, p2, p3}, Readers <- {x1, x2},
  MessageRate <- 1, CommentRate <- 1, History <- 1, ThreadLimit <- 1, MaxTime <- 2,
  now <- peopleNow, pc <- peoplePc, at <- peopleAt, crossed <- peopleCrossed,
  together <- peopleTogether

Channels == INSTANCE Channels WITH Lists <- OwnLists, Rows <- 1 .. 4, ListOf <- OwnRows,
  Fits <- 2 .. 4, Stored <- 1 .. 4, Slots <- RowSlots, Header <- RowHeaders,
  Viewers <- {y1}, Checks <- {c1}, Window <- 3, PerLine <- 1, MaxTried <- 2,
  MaxChanges <- 1, pc <- offersPc, changes <- offersChanges

Ranking == INSTANCE Ranking WITH Games <- RankedGames, Markers <- RankedMarkers,
  Titles <- RankedTitles, Languages <- {"en"}, list <- rankingList

Carriers == INSTANCE Carriers WITH Listings <- ListedNames, Titles <- FiledTitles,
  Generic <- GenericWords, Variants <- VariantWords, Digits <- {"1"}, list <- carriersList

ASSUME PartsConstants ==
  /\ SignIn!ConstantsType /\ Passkeys!ConstantsType /\ Guesses!ConstantsType
  /\ InviteMail!ConstantsType /\ People!ConstantsType /\ Channels!ConstantsType
  /\ Ranking!ConstantsType

Init ==
  /\ subject \in {"signIn", "backoff", "guesses", "passkeys", "mail", "people", "offers",
       "ranking", "carriers"}
  /\ SignIn!Init
  /\ Backoff!Init
  /\ Guesses!Init
  /\ Passkeys!Init
  /\ InviteMail!Init
  /\ People!Init
  /\ Channels!Init
  /\ Ranking!Init
  /\ Carriers!Init

Next ==
  \/ subject = "signIn" /\ SignIn!Next /\ UNCHANGED <<subject, backoffVars, guessesVars,
       passkeysVars, mailVars, peopleVars, offersVars, rankingVars, carriersVars>>
  \/ subject = "backoff" /\ Backoff!Next /\ UNCHANGED <<subject, signInVars, guessesVars,
       passkeysVars, mailVars, peopleVars, offersVars, rankingVars, carriersVars>>
  \/ subject = "guesses" /\ Guesses!Next /\ UNCHANGED <<subject, signInVars, backoffVars,
       passkeysVars, mailVars, peopleVars, offersVars, rankingVars, carriersVars>>
  \/ subject = "passkeys" /\ Passkeys!Next /\ UNCHANGED <<subject, signInVars, backoffVars,
       guessesVars, mailVars, peopleVars, offersVars, rankingVars, carriersVars>>
  \/ subject = "mail" /\ InviteMail!Next /\ UNCHANGED <<subject, signInVars, backoffVars,
       guessesVars, passkeysVars, peopleVars, offersVars, rankingVars, carriersVars>>
  \/ subject = "people" /\ People!Next /\ UNCHANGED <<subject, signInVars, backoffVars,
       guessesVars, passkeysVars, mailVars, offersVars, rankingVars, carriersVars>>
  \/ subject = "offers" /\ Channels!Next /\ UNCHANGED <<subject, signInVars, backoffVars,
       guessesVars, passkeysVars, mailVars, peopleVars, rankingVars, carriersVars>>
  \/ subject = "ranking" /\ Ranking!Next /\ UNCHANGED <<subject, signInVars, backoffVars,
       guessesVars, passkeysVars, mailVars, peopleVars, offersVars, carriersVars>>
  \/ subject = "carriers" /\ Carriers!Next /\ UNCHANGED <<subject, signInVars, backoffVars,
       guessesVars, passkeysVars, mailVars, peopleVars, offersVars, rankingVars>>

vars == <<subject, signInVars, backoffVars, guessesVars, passkeysVars, mailVars,
    peopleVars, offersVars, rankingVars, carriersVars>>

Spec == Init /\ [][Next]_vars

\* The types of the part that moves.
TypeOK ==
  /\ subject = "signIn" => SignIn!TypeOK
  /\ subject = "backoff" => Backoff!TypeOK
  /\ subject = "guesses" => Guesses!TypeOK
  /\ subject = "passkeys" => Passkeys!TypeOK
  /\ subject = "mail" => InviteMail!TypeOK
  /\ subject = "people" => People!TypeOK
  /\ subject = "offers" => Channels!TypeOK
  /\ subject = "ranking" => Ranking!TypeOK
  /\ subject = "carriers" => Carriers!TypeOK


\* No session without what it takes: a link, a password or a challenge of one's own; an
\* arrival is paid for once; and no account is left that nobody can enter.
SessionsEarned ==
  /\ SignIn!OneSessionPerLink /\ SignIn!RewardsOnce /\ SignIn!NobodyLockedOut
  /\ Guesses!NoPasswordNoEntry
  /\ Passkeys!ChallengeUsedOnce

\* Every limit holds, however requests interleave.
LimitsKept ==
  /\ Backoff!MapBounded /\ Guesses!GuessesBounded
  /\ InviteMail!MailLimits /\ People!RatesKept

\* A block ends the relationship in both directions, and a conversation is read where it is
\* opened and only there.
ReadersApart == People!BlockedDoNotFollow /\ People!ThreadsRead

\* A channel is hidden or shown as verified for what it answered, and every line has its say.
ChannelsHonest ==
  subject = "offers" => Channels!VerdictsEarned /\ Channels!EveryLineSpeaks

\* What is offered for a fixture is of it, nothing of it is left out, and the surest comes first.
MatchesHonest ==
  /\ subject = "ranking" =>
       Ranking!NarrowingLosesNothing /\ Ranking!OtherGamesStayOut /\ Ranking!RightOneFirst
  /\ subject = "carriers" => Carriers!TrueChannelOnly /\ Carriers!CutsFound

\* A CoinPay account never changes hands, the counter of a passkey never goes back, and a
\* lock is earned and served in full.
NothingReversed ==
  /\ SignIn!BindingNeverMoves
  /\ Passkeys!CounterAdvances
  /\ Backoff!LocksHold

Alike == Permutations({p1, p2, p3}) \cup Permutations({x1, x2})
=============================================================================
