------------------------------ MODULE Settlement ------------------------------
(***************************************************************************)
(* From a checkout to access: createCheckout, the CoinPay webhook and      *)
(* settleWebhook's transaction with the three grants it may run (a seat at *)
(* a fixture, a membership, a live TV pass) and the commission.  Handlers  *)
(* are webhook requests in progress.  Their transactions run at Postgres's *)
(* READ COMMITTED: a statement sees what was committed when it began, a    *)
(* row that was updated is locked until the commit, and writes are applied *)
(* at the commit.                                                          *)
(***************************************************************************)
EXTENDS Integers, FiniteSets

CONSTANTS
  Payments,    \* checkouts
  Handlers,    \* webhook requests the site handles at a time
  Users,       \* readers
  BuyerOf,     \* [Payments -> Users]
  KindOf,      \* [Payments -> {"seat", "membership", "pass"}]: metadata.kind
  Invited,     \* readers with a row in invite_claims
  Capacity,    \* seats of the one offer
  Term,        \* length of a term
  Started,     \* payments already made, their webhook still to come, when we look first
  None,        \* no payment
  Abandoned,   \* bound: payments of which an attempt is abandoned and expires
  Forwarded,   \* bound: payments whose money is forwarded while we look
  MaxTime,     \* bound: the clock stops here
  MaxCrashes   \* bound: how many requests die

Kinds == {"seat", "membership", "pass"}

ASSUME PaymentsType == /\ BuyerOf \in [Payments -> Users]
                       /\ KindOf \in [Payments -> Kinds]
                       /\ Invited \subseteq Users
                       /\ {Started, Abandoned, Forwarded} \subseteq SUBSET Payments
                       /\ None \notin Payments
ASSUME NumbersType == /\ Capacity \in Nat \ {0} /\ Term \in Nat \ {0}
                      /\ MaxTime \in Nat /\ MaxCrashes \in Nat

VARIABLES
  now,
  session,      \* CoinPay's checkout session and our answer to the buyer
  owed,         \* webhooks CoinPay sends until it gets a 200
  lapsed,       \* payments whose abandoned attempt has expired
  status,       \* payments.status, "absent" before the row exists
  sold,         \* stream_offers.sold
  seats,        \* entitlements.payment_id, per reader, or None
  terms,        \* rows of memberships and live_passes
  commissions,  \* referral_commissions.payment_id
  pc,           \* where a handler is
  doing,        \* the payment its webhook names
  event,        \* and what happened to it
  began,        \* now() of its transaction: when it began
  gets,         \* its uncommitted writes, and whether something was granted
  crashes,
  together      \* ghost: pairs of one reader's payments, each granted before the other committed

external == <<session, owed, lapsed>>
rows     == <<status, sold, seats, terms, commissions>>
request  == <<pc, doing, event, began, gets>>
vars     == <<now, external, rows, request, crashes, together>>

Events == {"expired", "confirmed", "forwarded"}
SETTLED == {"confirmed", "forwarded"}
Stages == {"idle", "update", "seat", "entitle", "term", "commit", "answer"}
TermRows == [payment : Payments, from : Nat, to : Nat]
Writes == [seat : BOOLEAN, entitlement : BOOLEAN, terms : SUBSET TermRows, granted : BOOLEAN]
Nothing == [seat |-> FALSE, entitlement |-> FALSE, terms |-> {}, granted |-> FALSE]

Init ==
  /\ now = 0 /\ crashes = 0 /\ together = {}
  /\ session = [p \in Payments |-> IF p \in Started THEN "paid" ELSE "none"]
  /\ owed = [p \in Payments |-> IF p \in Started THEN {"confirmed"} ELSE {}]
  /\ lapsed = {}
  /\ status = [p \in Payments |-> IF p \in Started THEN "pending" ELSE "absent"]
  /\ sold = 0 /\ terms = {} /\ commissions = {}
  /\ seats = [u \in Users |-> None]
  /\ pc = [h \in Handlers |-> "idle"]
  /\ doing = [h \in Handlers |-> None]
  /\ event = [h \in Handlers |-> "expired"]
  /\ began = [h \in Handlers |-> 0]
  /\ gets = [h \in Handlers |-> Nothing]

-----------------------------------------------------------------------------
(* The checkout, and what CoinPay does with it.                            *)

\* POST /api/checkout/sessions answered with a session.
OpenSession(p) ==
  /\ session[p] = "none"
  /\ session' = [session EXCEPT ![p] = "opened"]
  /\ UNCHANGED <<now, owed, lapsed, rows, request, crashes, together>>

\* The pending row, and only then the redirect.
RecordPending(p) ==
  /\ session[p] = "opened"
  /\ session' = [session EXCEPT ![p] = "offered"]
  /\ status' = [status EXCEPT ![p] = IF @ = "absent" THEN "pending" ELSE @]
  /\ UNCHANGED <<now, owed, lapsed, sold, seats, terms, commissions, request, crashes, together>>

CheckoutDies(p) ==
  /\ session[p] = "opened" /\ crashes < MaxCrashes
  /\ session' = [session EXCEPT ![p] = "lost"]
  /\ crashes' = crashes + 1
  /\ UNCHANGED <<now, owed, lapsed, rows, request, together>>

\* One attempt of a session was abandoned and expires, whatever became of the others.
AttemptExpires(p) ==
  /\ session[p] # "none" /\ p \in Abandoned \ lapsed
  /\ lapsed' = lapsed \cup {p}
  /\ owed' = [owed EXCEPT ![p] = @ \cup {"expired"}]
  /\ UNCHANGED <<now, session, rows, request, crashes, together>>

BuyerPays(p) ==
  /\ session[p] = "offered"
  /\ session' = [session EXCEPT ![p] = "paid"]
  /\ owed' = [owed EXCEPT ![p] = @ \cup {"confirmed"}]
  /\ UNCHANGED <<now, lapsed, rows, request, crashes, together>>

\* The second settling event of the same payment.
MoneyForwarded(p) ==
  /\ session[p] = "paid" /\ p \in Forwarded
  /\ session' = [session EXCEPT ![p] = "forwarded"]
  /\ owed' = [owed EXCEPT ![p] = @ \cup {"forwarded"}]
  /\ UNCHANGED <<now, lapsed, rows, request, crashes, together>>

-----------------------------------------------------------------------------
(* One webhook: the transaction of settleWebhook.                          *)

Uncommitted(h) == pc[h] \in Stages \ {"idle", "update", "answer"}
Locked(p, h) == \E g \in Handlers \ {h} : doing[g] = p /\ Uncommitted(g)

Goto(h, stage) == pc' = [pc EXCEPT ![h] = stage]
Write(h, writes) == gets' = [gets EXCEPT ![h] = writes]
Local(h, stage, writes) ==
  /\ Goto(h, stage) /\ Write(h, writes)
  /\ UNCHANGED <<now, external, rows, doing, event, began, crashes>>

\* CoinPay delivers, or delivers again: it does not wait for the last attempt.
Receive(h, p, e) ==
  /\ pc[h] = "idle" /\ e \in owed[p]
  /\ Goto(h, "update")
  /\ doing' = [doing EXCEPT ![h] = p]
  /\ event' = [event EXCEPT ![h] = e]
  /\ began' = [began EXCEPT ![h] = now]
  /\ UNCHANGED <<now, external, rows, gets, crashes, together>>

FirstGrant(p) == IF KindOf[p] = "seat" THEN "seat" ELSE "term"

\* Mutation: what expired once is not taken up again.
UpdatePending(h) ==
  LET p == doing[h] IN
  /\ pc[h] = "update" /\ ~Locked(p, h)
  /\ IF event[h] \in SETTLED /\ status[p] = "pending"
     THEN Local(h, FirstGrant(p), Nothing)
     ELSE Local(h, "commit", Nothing)
  /\ UNCHANGED together

\* update payments set status ... returning: waits for whoever holds the row.
UpdatePayment(h) ==
  LET p == doing[h] IN
  /\ pc[h] = "update" /\ ~Locked(p, h)
  /\ IF event[h] \in SETTLED /\ status[p] # "absent"
     THEN Local(h, FirstGrant(p), Nothing)
     ELSE Local(h, "commit", Nothing)
  /\ UNCHANGED together

\* Mutation: capacity checked on a row that nobody locks.
ClaimOfferSeatUnlocked(h) ==
  /\ pc[h] = "seat"
  /\ CASE \E u \in Users : seats[u] = doing[h] ->
            Local(h, "commit", [gets[h] EXCEPT !.granted = TRUE])
       [] sold < Capacity -> Local(h, "entitle", [gets[h] EXCEPT !.seat = TRUE])
       [] OTHER -> Local(h, "commit", gets[h])
  /\ UNCHANGED together

\* grantStreamSeat up to the entitlement: a payment that has bought its seat is
\* answered as before; claimOfferSeat updates where sold < capacity, on a row that
\* others wait for.  (Only the holder of the payment's row can change the first.)
ClaimOfferSeat(h) ==
  LET held == \E u \in Users : seats[u] = doing[h] IN
  /\ pc[h] = "seat"
  /\ held \/ \A g \in Handlers : ~gets[g].seat
  /\ CASE held -> Local(h, "commit", [gets[h] EXCEPT !.granted = TRUE])
       [] ~held /\ sold < Capacity -> Local(h, "entitle", [gets[h] EXCEPT !.seat = TRUE])
       [] OTHER -> Local(h, "commit", gets[h])
  /\ UNCHANGED together

\* insert into entitlements ... on conflict (user_id, event_id) do nothing.
GrantEntitlement(h) ==
  LET u == BuyerOf[doing[h]] IN
  /\ pc[h] = "entitle"
  /\ \A g \in Handlers : gets[g].entitlement => BuyerOf[doing[g]] # u
  /\ Local(h, "commit", [gets[h] EXCEPT !.granted = TRUE, !.entitlement = (seats[u] = None)])
  /\ UNCHANGED together

\* The terms of one reader in one of the two tables.
TermsOf(p) == {t \in terms : BuyerOf[t.payment] = BuyerOf[p] /\ KindOf[t.payment] = KindOf[p]}
StartOf(p, at) == IF \E t \in TermsOf(p) : t.to > at
                  THEN CHOOSE n \in {t.to : t \in TermsOf(p)} : \A t \in TermsOf(p) : t.to <= n
                  ELSE at

\* Payments whose own term is granted and not committed yet, of the same reader.
Beside(h) == {g \in Handlers \ {h} : /\ gets[g].terms # {}
                                     /\ BuyerOf[doing[g]] = BuyerOf[doing[h]]
                                     /\ KindOf[doing[g]] = KindOf[doing[h]]}

\* Mutation: a renewal restarts instead of stacking.
GrantTermFromNow(h) ==
  LET p == doing[h] IN
  /\ pc[h] = "term"
  /\ IF \E t \in terms : t.payment = p
     THEN Local(h, "commit", [gets[h] EXCEPT !.granted = (KindOf[p] # "pass")])
     ELSE Local(h, "commit", [gets[h] EXCEPT !.granted = TRUE,
            !.terms = {[payment |-> p, from |-> began[h], to |-> began[h] + Term]}])
  /\ together' = together \cup {{p, doing[g]} : g \in Beside(h)}

\* grantMembership, grantLivePass: the start is read from what is committed.  A
\* repeated membership answers as it did the first time, a repeated pass with null.
GrantTerm(h) ==
  LET p == doing[h]
      s == StartOf(p, began[h])
  IN
  /\ pc[h] = "term"
  /\ IF \E t \in terms : t.payment = p
     THEN Local(h, "commit", [gets[h] EXCEPT !.granted = (KindOf[p] # "pass")])
     ELSE Local(h, "commit", [gets[h] EXCEPT !.granted = TRUE,
            !.terms = {[payment |-> p, from |-> s, to |-> s + Term]}])
  /\ together' = IF \E t \in terms : t.payment = p
                 THEN together
                 ELSE together \cup {{p, doing[g]} : g \in Beside(h)}

\* creditReferral, after a grant and in its transaction: on conflict do nothing.
CreditReferral(p, granted) ==
  IF granted /\ BuyerOf[p] \in Invited THEN commissions \cup {p} ELSE commissions

\* Mutation: the last webhook has the last word.
StatusAfterLast(p, e) ==
  IF status[p] = "absent" THEN "absent" ELSE IF e \in SETTLED THEN "settled" ELSE "unsettled"

\* Mutation: the provider's own word is written down.
StatusAfterWord(p, e) ==
  IF status[p] \in {"absent", "settled"} THEN status[p]
  ELSE IF e \in SETTLED THEN "settled" ELSE e

\* A settled row never goes back.
StatusAfter(p, e) ==
  IF status[p] \in {"absent", "settled"} THEN status[p]
  ELSE IF e \in SETTLED THEN "settled" ELSE "unsettled"

Commit(h) ==
  LET p == doing[h]
      w == gets[h]
  IN
  /\ pc[h] = "commit"
  /\ Goto(h, "answer") /\ Write(h, Nothing)
  /\ status' = [status EXCEPT ![p] = StatusAfter(p, event[h])]
  /\ sold' = IF w.seat THEN sold + 1 ELSE sold
  /\ seats' = IF w.entitlement THEN [seats EXCEPT ![BuyerOf[p]] = p] ELSE seats
  /\ terms' = terms \cup w.terms
  /\ commissions' = CreditReferral(p, w.granted)
  /\ UNCHANGED <<now, external, doing, event, began, crashes, together>>

\* The 200 that ends CoinPay's retries.
Answer(h) ==
  /\ pc[h] = "answer"
  /\ Goto(h, "idle")
  /\ doing' = [doing EXCEPT ![h] = None]
  /\ owed' = [owed EXCEPT ![doing[h]] = @ \ {event[h]}]
  /\ UNCHANGED <<now, session, lapsed, rows, event, began, gets, crashes, together>>

\* What was granted beside a transaction that is rolled back was granted beside nothing.
Undone(h) == IF gets[h].terms = {} THEN together
             ELSE {pair \in together : doing[h] \notin pair}

\* The process dies, the database fails or the answer is lost: uncommitted writes are
\* rolled back, and CoinPay will try again.
RequestDies(h) ==
  /\ pc[h] # "idle" /\ crashes < MaxCrashes
  /\ crashes' = crashes + 1
  /\ Goto(h, "idle") /\ Write(h, Nothing)
  /\ doing' = [doing EXCEPT ![h] = None]
  /\ together' = Undone(h)
  /\ UNCHANGED <<now, external, rows, event, began>>

Tick ==
  /\ now < MaxTime
  /\ now' = now + 1
  /\ UNCHANGED <<external, rows, request, crashes, together>>

Step(h) == \/ UpdatePayment(h) \/ ClaimOfferSeat(h) \/ GrantEntitlement(h)
           \/ GrantTerm(h) \/ Commit(h) \/ Answer(h)

Next ==
  \/ \E p \in Payments : OpenSession(p) \/ RecordPending(p) \/ CheckoutDies(p)
                         \/ AttemptExpires(p) \/ BuyerPays(p) \/ MoneyForwarded(p)
  \/ \E h \in Handlers, p \in Payments, e \in Events : Receive(h, p, e)
  \/ \E h \in Handlers : Step(h) \/ RequestDies(h)
  \/ Tick

Spec == Init /\ [][Next]_vars

\* Requests go on, and CoinPay repeats what was not answered with a 200.
Fairness ==
  /\ \A h \in Handlers : WF_vars(Step(h))
  /\ \A p \in Payments : SF_vars(\E h \in Handlers, e \in SETTLED : Receive(h, p, e))

FairSpec == Spec /\ Fairness

-----------------------------------------------------------------------------
(* Properties.                                                             *)

TypeOK ==
  /\ now \in 0 .. MaxTime /\ crashes \in 0 .. MaxCrashes
  /\ together \subseteq SUBSET Payments
  /\ session \in [Payments -> {"none", "opened", "lost", "offered", "paid", "forwarded"}]
  /\ owed \in [Payments -> SUBSET Events] /\ lapsed \subseteq Payments
  /\ status \in [Payments -> {"absent", "pending", "unsettled", "settled"}]
  /\ sold \in Nat /\ seats \in [Users -> Payments \cup {None}]
  /\ terms \subseteq TermRows /\ commissions \subseteq Payments
  /\ pc \in [Handlers -> Stages] /\ doing \in [Handlers -> Payments \cup {None}]
  /\ event \in [Handlers -> Events] /\ began \in [Handlers -> 0 .. MaxTime]
  /\ gets \in [Handlers -> Writes]

Seats == {p \in Payments : KindOf[p] = "seat"}
Settled == {p \in Payments : status[p] = "settled"}
Given == {p \in Payments : (\E u \in Users : seats[u] = p) \/ (\E t \in terms : t.payment = p)}

\* Nobody pays twice for the fixture: what happens otherwise is OneSeatPerPayment.
NoRebuy == \A p, q \in Seats : BuyerOf[p] = BuyerOf[q] => p = q

\* A seat is counted exactly when somebody holds it, whatever is repeated, raced or
\* rolled back: a fixture neither sells out early nor sells a seat twice.
SeatsGivenOut == NoRebuy => sold = Cardinality({u \in Users : seats[u] # None})

\* "the last seat go[es] to exactly one buyer" (claimOfferSeat).
NoOversell == sold <= Capacity

\* The fixture's seats are counted right and never oversold.
SeatsRight == SeatsGivenOut /\ NoOversell

\* "A payment that already bought its seat must not claim a second one"
\* (grantStreamSeat), whoever bought it.
OneSeatPerPayment == sold <= Cardinality(Settled \cap Seats)

Overlap(t, s) == t.from < s.to /\ s.from < t.to
Rivals(t, s) == /\ t # s
                /\ BuyerOf[t.payment] = BuyerOf[s.payment]
                /\ KindOf[t.payment] = KindOf[s.payment]

\* A renewal stacks onto every term that is committed, through deaths, repeats and webhooks
\* in any order: two terms of a reader overlap only if each was granted before the other was
\* committed, by transactions that both committed.  That these overlap is TermsNeverOverlap.
TermsStack ==
  \A t, s \in terms : Rivals(t, s) /\ Overlap(t, s) => {t.payment, s.payment} \in together

\* "the start is computed in the statement so two concurrent webhooks cannot both read the
\* same one" (grantLivePass), and grant no "two overlapping years" (grantMembership).
TermsNeverOverlap == \A t, s \in terms : Rivals(t, s) => ~Overlap(t, s)

\* Money that arrived buys its term, through deaths at any step and webhooks in any
\* order: a row is there before anybody can pay, and CoinPay repeats until it is told.
PaidIsGranted == \A p \in Payments \ Seats : session[p] \in {"paid", "forwarded"} ~> p \in Given

\* The rows implement the promise: given at most once, and the introduction
\* credited in the step that gives, or never.
Promise == INSTANCE PaidOnce WITH
  Introduced <- {p \in Payments : BuyerOf[p] \in Invited},
  paid <- Settled, given <- Given, credited <- commissions
ImplementsPaidOnce == Promise!Spec
=============================================================================
