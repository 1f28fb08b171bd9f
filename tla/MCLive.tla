-------------------------------- MODULE MCLive --------------------------------
(***************************************************************************)
(* Small instances of the parts with something that must eventually        *)
(* happen: a behaviour is of one of them, the subject, under the fairness  *)
(* of that part, while the others stay as they begin.                      *)
(***************************************************************************)
EXTENDS Naturals, TLC

CONSTANTS None, a1, b1, p1, q1, q2, k1, k2

VARIABLES
  subject,
  gone, row, job, claimsAttempts, stalls, adds, owner, serving, claimsPc, targets, channel,
  pending, rejected, acked, received, claimsDropped,
  fanoutNow, lastScan, fanoutDue, pre, moves, follows, changes, fo, foDue, foEnd,
  fanoutAttempts, cursor, bt, page, btEnd, told, since, matched, fanouts, standing,
  chosen, panel, slots, slotsPc, press, allow, left, aborted, linked, conn,
  cacheNow, cached, size, expires, held, inFlight, fetching, settled, waiting,
  saleNow, session, owed, lapsed, status, sold, seats, terms, commissions, salePc, doing,
  event, began, gets, crashes, together,
  truth, played, listed, pollsDropped, soon, state, log, source, fresh, older, final,
  recapped, seen, filling, pollsDue, step, got, faults

claimsVars == <<gone, row, job, claimsAttempts, stalls, adds, owner, serving, claimsPc,
    targets, channel, pending, rejected, acked, received, claimsDropped>>
fanoutVars == <<fanoutNow, lastScan, fanoutDue, pre, moves, follows, changes, fo, foDue,
    foEnd, fanoutAttempts, cursor, bt, page, btEnd, told, since, matched, fanouts, standing>>
slotsVars == <<chosen, panel, slots, slotsPc, press, allow, left, aborted, linked, conn>>
cacheVars == <<cacheNow, cached, size, expires, held, inFlight, fetching, settled, waiting>>
saleVars == <<saleNow, session, owed, lapsed, status, sold, seats, terms, commissions,
    salePc, doing, event, began, gets, crashes, together>>
pollsVars == <<truth, played, listed, pollsDropped, soon, state, log, source, fresh, older,
    final, recapped, seen, filling, pollsDue, step, got, faults>>

OnePage == p1 :> {a1}
OnceAdded == p1 :> 1
BuyerOf == k1 :> a1
KindOf == k1 :> "pass"

DeliveryClaims == INSTANCE DeliveryClaims WITH Users <- {a1}, Jobs <- {p1},
  Page <- OnePage, Slots <- {q1, q2}, MaxAttempts <- 2, MaxStalls <- 1,
  MaxAdds <- OnceAdded, Crashes <- TRUE, Faults <- TRUE, AckLoss <- FALSE,
  attempts <- claimsAttempts, pc <- claimsPc, dropped <- claimsDropped

ReminderFanout == INSTANCE ReminderFanout WITH MaxUser <- 3, BatchSize <- 2, Lookback <- 3,
  MaxLateness <- 1, ScanEvery <- 2, KeepCompleted <- 3, MaxAttempts <- 2, FirstDue <- 1,
  MaxTime <- 3, MaxMoves <- 0, MaxFollows <- 1, Unfollows <- FALSE, Outages <- TRUE,
  now <- fanoutNow, due <- fanoutDue, attempts <- fanoutAttempts

StreamSlots == INSTANCE StreamSlots WITH Requests <- {a1, b1}, Viewers <- {b1},
  MaxLine <- 1, Ceiling <- 2, Sniffs <- TRUE, Leaves <- TRUE, pc <- slotsPc

UpstreamCache == INSTANCE UpstreamCache WITH Keys <- {k1, k2}, Manifests <- {k1},
  Readers <- {a1, b1}, ManifestTtl <- 1, SegmentTtl <- 2, MaxBytes <- 2, MaxSize <- 2,
  MaxTime <- 3, now <- cacheNow

Settlement == INSTANCE Settlement WITH Payments <- {k1}, Handlers <- {q1, q2},
  Users <- {a1}, BuyerOf <- BuyerOf, KindOf <- KindOf, Invited <- {a1}, Capacity <- 1,
  Term <- 1, Started <- {}, Abandoned <- {k1}, Forwarded <- {k1}, MaxTime <- 0,
  MaxCrashes <- 1, now <- saleNow, pc <- salePc

Fixtures == INSTANCE Fixtures WITH Games <- {1, 2}, Begun <- {1, 2}, Silent <- {},
  EspnLists <- {}, SportsdbLists <- {}, Limit <- 2, MaxPlays <- 1, MaxFaults <- 0,
  MaxDrops <- 0, dropped <- pollsDropped, due <- pollsDue

ASSUME PollsConstants == Fixtures!ConstantsType /\ UpstreamCache!ConstantsType

Init ==
  /\ subject \in {"claims", "fanout", "slots", "cache", "sale", "polls"}
  /\ DeliveryClaims!Init
  /\ ReminderFanout!Init
  /\ StreamSlots!Init
  /\ UpstreamCache!Init
  /\ Settlement!Init
  /\ Fixtures!Init
  /\ subject # "slots" => chosen = panel /\ panel = 1
  /\ subject # "fanout" => follows = {}

Next ==
  \/ subject = "claims" /\ DeliveryClaims!Next /\ UNCHANGED <<subject, fanoutVars,
       slotsVars, cacheVars, saleVars, pollsVars>>
  \/ subject = "fanout" /\ ReminderFanout!Next /\ UNCHANGED <<subject, claimsVars,
       slotsVars, cacheVars, saleVars, pollsVars>>
  \/ subject = "slots" /\ StreamSlots!Next /\ UNCHANGED <<subject, claimsVars, fanoutVars,
       cacheVars, saleVars, pollsVars>>
  \/ subject = "cache" /\ UpstreamCache!Next /\ UNCHANGED <<subject, claimsVars,
       fanoutVars, slotsVars, saleVars, pollsVars>>
  \/ subject = "sale" /\ Settlement!Next /\ UNCHANGED <<subject, claimsVars, fanoutVars,
       slotsVars, cacheVars, pollsVars>>
  \/ subject = "polls" /\ Fixtures!Next /\ UNCHANGED <<subject, claimsVars, fanoutVars,
       slotsVars, cacheVars, saleVars>>

vars == <<subject, claimsVars, fanoutVars, slotsVars, cacheVars, saleVars, pollsVars>>

\* The fairness of each part, which asks something only where it is the subject: see the
\* parts for what justifies it.
Of(part, A) == subject = part /\ A
Fairness ==
  /\ \A s \in {q1, q2} : WF_claimsVars(Of("claims", DeliveryClaims!Execution(s)))
  /\ WF_claimsVars(Of("claims", DeliveryClaims!Backoff(p1)))
  /\ WF_claimsVars(Of("claims", DeliveryClaims!Abandoned(p1) /\ DeliveryClaims!Stalled(p1)))
  /\ SF_claimsVars(Of("claims", \E s \in {q1, q2} : DeliveryClaims!Take(s, p1)))
  /\ WF_fanoutVars(Of("fanout", ReminderFanout!StartFanout))
  /\ WF_fanoutVars(Of("fanout", ReminderFanout!PageFollowers))
  /\ WF_fanoutVars(Of("fanout", ReminderFanout!Backoff))
  /\ \A a \in 0 .. 3 : WF_fanoutVars(Of("fanout", ReminderFanout!RunBatch(a)))
  /\ \A r \in {a1, b1} :
       /\ WF_slotsVars(Of("slots", StreamSlots!ReadAllowance(r)))
       /\ WF_slotsVars(Of("slots", StreamSlots!TurnAway(r)))
       /\ WF_slotsVars(Of("slots", StreamSlots!Claim(r)))
       /\ WF_slotsVars(Of("slots",
            (slotsPc[r] = "connecting" \/ r \notin conn) /\ StreamSlots!OpenFails(r)))
       /\ WF_slotsVars(Of("slots", StreamSlots!Stream(r)))
       /\ WF_slotsVars(Of("slots", (r \in left \/ r \notin conn) /\ StreamSlots!Teardown(r)))
  /\ \A k \in {k1, k2} :
       /\ WF_cacheVars(Of("cache",
            UpstreamCache!Fail(k) \/ \E bytes \in 1 .. 2 : UpstreamCache!Answer(k, bytes)))
       /\ WF_cacheVars(Of("cache", UpstreamCache!Settle(k)))
  /\ \A h \in {q1, q2} : WF_saleVars(Of("sale", Settlement!Step(h)))
  /\ SF_saleVars(Of("sale",
        \E h \in {q1, q2}, e \in Settlement!SETTLED : Settlement!Receive(h, k1, e)))
  /\ WF_pollsVars(Of("polls", Fixtures!Ask("sweep")))
  /\ WF_pollsVars(Of("polls", Fixtures!Write("sweep")))
  /\ WF_pollsVars(Of("polls", Fixtures!Write("live")))
  /\ WF_pollsVars(Of("polls", Fixtures!PlaysTick))

Spec == Init /\ [][Next]_vars /\ Fairness

\* Every job ends, through deaths, stalls, faults and backoff.
JobsEnd == DeliveryClaims!JobsEnd

\* Whoever follows throughout a fan-out is told, over full and short pages.
StandingFollowersTold == ReminderFanout!StandingFollowersTold

\* A reader who has gone gives the slot back, but for one whose sniff hears nobody.
GoneGivesBack == StreamSlots!GoneGivesBack

\* A request in flight does not stay there.
FetchesEnd == UpstreamCache!FetchesEnd

\* Money that arrived buys its term.
PaidIsGranted == Settlement!PaidIsGranted

\* Every play that is told reaches the log.
PlaysLand == Fixtures!PlaysLand

\* The subscription never pulls a thing twice at once, and what is held fits.
CacheSound == UpstreamCache!OneFetchPerKey /\ UpstreamCache!CacheBounded
=============================================================================
