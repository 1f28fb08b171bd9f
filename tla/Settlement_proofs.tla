--------------------------- MODULE Settlement_proofs ---------------------------
(***************************************************************************)
(* Theorems about the two ways to a term.  It is paid for, Settlement: for *)
(* any set of payments, readers and requests in progress, seats are never  *)
(* oversold and counted right, the terms of a reader follow each other,    *)
(* and the rows implement the promise of PaidOnce.  Or it is free days for *)
(* a code or an invite, Credits: for any codes, invites and quotas, they   *)
(* are given for what was spent, once, and for nothing else.               *)
(***************************************************************************)
EXTENDS Settlement, FiniteSetTheorems, TLAPS

CONSTANTS Requests, New, Codes, LiveCodes, MaxRedemptions, Invites, Quotas, MaxFaults

VARIABLES live, code, redeemed, invite, quota, new, given, step, job, lost, most, faults

\* The codes and the invites, for the same readers; `given` are the terms they give.
C == INSTANCE Credits WITH terms <- given, pc <- step


-----------------------------------------------------------------------------
(* The invariant, part by part.                                            *)

\* A transaction is about one payment, whose row it alone has locked, and it starts with
\* nothing written.
OneWriter ==
  /\ \A h \in Handlers : pc[h] # "idle" => doing[h] \in Payments
  /\ \A g, h \in Handlers :
       Uncommitted(g) /\ Uncommitted(h) /\ doing[g] = doing[h] => g = h
  /\ \A h \in Handlers : pc[h] \notin {"entitle", "commit"} => gets[h] = Nothing

\* Grants follow money: whoever grants, or has granted, knows the payment to be on record
\* and its webhook to settle it.
OnlyPaid ==
  \A h \in Handlers :
    /\ pc[h] \in {"seat", "entitle", "term"} \/ gets[h].granted =>
         event[h] \in SETTLED /\ status[doing[h]] # "absent"
    /\ gets[h].entitlement \/ gets[h].terms # {} => gets[h].granted

\* What kind of payment is at what.
KindsApart ==
  /\ \A h \in Handlers :
       /\ pc[h] \in {"seat", "entitle"} \/ gets[h].seat => KindOf[doing[h]] = "seat"
       /\ pc[h] = "term" \/ gets[h].terms # {} => KindOf[doing[h]] # "seat"
  /\ \A u \in Users : seats[u] # None => KindOf[seats[u]] = "seat" /\ BuyerOf[seats[u]] = u
  /\ \A t \in terms : KindOf[t.payment] # "seat"

\* The offer's row: one transaction at a time takes a seat, there is room for it until it
\* commits, and its payment has none yet.
SeatRow ==
  /\ \A g, h \in Handlers : gets[g].seat /\ gets[h].seat => g = h
  /\ \A h \in Handlers :
       /\ gets[h].seat => sold < Capacity /\ \A u \in Users : seats[u] # doing[h]
       /\ pc[h] = "entitle" => gets[h].seat
       /\ gets[h].entitlement => gets[h].seat /\ seats[BuyerOf[doing[h]]] = None
       /\ NoRebuy /\ gets[h].seat /\ pc[h] = "commit" => gets[h].entitlement

SeatCount == IsFiniteSet({u \in Users : seats[u] # None}) /\ SeatsRight

SeatInv == SeatRow /\ SeatCount

\* A payment's term, written or about to be, is its only one, and one of a reader's terms
\* ends last.
TermRowsInv ==
  /\ \A h \in Handlers :
       gets[h].terms # {} =>
         /\ \E w \in gets[h].terms : gets[h].terms = {w} /\ w.payment = doing[h]
         /\ \A t \in terms : t.payment # doing[h]
  /\ \A t, s \in terms : t.payment = s.payment => t = s
  /\ \A p \in Payments : TermsOf(p) # {} =>
       \E t \in TermsOf(p) : \A s \in TermsOf(p) : s.to <= t.to

\* Two terms of a reader follow each other, or were granted at once: also those about to be
\* committed, against the committed ones and among themselves.
StackInv ==
  /\ TermsStack
  /\ \A h \in Handlers : \A w \in gets[h].terms, t \in terms :
       Rivals(t, w) /\ Overlap(t, w) => {t.payment, w.payment} \in together
  /\ \A g, h \in Handlers : \A v \in gets[g].terms, w \in gets[h].terms :
       g # h /\ BuyerOf[v.payment] = BuyerOf[w.payment] /\ KindOf[v.payment] = KindOf[w.payment]
         => {v.payment, w.payment} \in together

\* What was given has earned its commission, and what is granted gives or has been given.
CreditInv ==
  /\ \A p \in Given : BuyerOf[p] \in Invited => p \in commissions
  /\ \A h \in Handlers : NoRebuy /\ gets[h].granted =>
       gets[h].entitlement \/ gets[h].terms # {} \/ doing[h] \in Given

IInv == /\ TypeOK /\ OneWriter /\ OnlyPaid /\ KindsApart
        /\ SeatInv /\ TermRowsInv /\ StackInv /\ CreditInv

-----------------------------------------------------------------------------
(* What the steps leave alone.                                             *)

\* The checkout, CoinPay and the clock: nothing a transaction reads, but that rows appear.
Elsewhere ==
  /\ UNCHANGED <<sold, seats, terms, commissions, request, together>>
  /\ \A p \in Payments : status'[p] # status[p] => status[p] = "absent" /\ status'[p] = "pending"

LEMMA ElsewhereSteps ==
  ASSUME TypeOK
  PROVE  /\ \A p \in Payments : OpenSession(p) \/ RecordPending(p) \/ CheckoutDies(p)
                               \/ AttemptExpires(p) \/ BuyerPays(p) \/ MoneyForwarded(p) =>
                                    Elsewhere
         /\ Tick => Elsewhere
         /\ UNCHANGED vars => Elsewhere
<1>1. ASSUME NEW p \in Payments, OpenSession(p) \/ CheckoutDies(p) \/ AttemptExpires(p)
                                 \/ BuyerPays(p) \/ MoneyForwarded(p)
      PROVE  Elsewhere
  BY <1>1 DEF OpenSession, CheckoutDies, AttemptExpires, BuyerPays, MoneyForwarded, rows,
      request,
              Elsewhere
<1>2. ASSUME NEW p \in Payments, RecordPending(p) PROVE Elsewhere
  BY <1>2 DEF RecordPending, request, Elsewhere, TypeOK
<1>3. ASSUME Tick \/ UNCHANGED vars PROVE Elsewhere
  BY <1>3 DEF Tick, vars, rows, request, Elsewhere
<1> QED BY <1>1, <1>2, <1>3

\* A request whose transaction ends without a commit, or that has been answered.
Dropped(h) ==
  /\ pc' = [pc EXCEPT ![h] = "idle"] /\ doing' = [doing EXCEPT ![h] = None]
  /\ gets' = [gets EXCEPT ![h] = Nothing]
  /\ together' = Undone(h)
  /\ UNCHANGED <<status, sold, seats, terms, commissions, event, began>>

LEMMA DroppedSteps ==
  ASSUME TypeOK, OneWriter, NEW h \in Handlers, Answer(h) \/ RequestDies(h) PROVE Dropped(h)
<1>1. CASE Answer(h)
  <2>1. gets[h] = Nothing
    BY <1>1 DEF Answer, OneWriter
  <2>2. gets' = gets /\ [gets EXCEPT ![h] = Nothing] = gets
    BY <1>1, <2>1 DEF Answer, TypeOK
  <2>3. Undone(h) = together
    BY <2>1 DEF Undone, Nothing
  <2> QED BY <1>1, <2>2, <2>3 DEF Answer, Dropped, Goto, rows
<1>2. CASE RequestDies(h)
  BY <1>2 DEF RequestDies, Dropped, Goto, Write, rows
<1> QED BY <1>1, <1>2

\* A statement inside a transaction touches its own writes only.
Statement(h) ==
  /\ UNCHANGED <<now, status, sold, seats, terms, commissions, doing, event, began>>
  /\ \A g \in Handlers \ {h} : pc'[g] = pc[g] /\ gets'[g] = gets[g]

LEMMA UpdateStatement ==
  ASSUME TypeOK, NEW h \in Handlers, UpdatePayment(h)
  PROVE  /\ Statement(h) /\ pc[h] = "update" /\ gets'[h] = Nothing /\ together' = together
         /\ \/ /\ pc'[h] = FirstGrant(doing[h])
               /\ event[h] \in SETTLED /\ status[doing[h]] # "absent"
            \/ pc'[h] = "commit"
  BY DEF UpdatePayment, Local, Goto, Write, rows, Statement, TypeOK

SeatHeld(p) == \E u \in Users : seats[u] = p
TermHeld(p) == \E t \in terms : t.payment = p

LEMMA SeatStatement ==
  ASSUME TypeOK, OneWriter, NEW h \in Handlers, ClaimOfferSeat(h)
  PROVE  /\ Statement(h) /\ pc[h] = "seat" /\ together' = together
         /\ gets'[h].terms = {} /\ ~gets'[h].entitlement
         /\ \/ /\ pc'[h] = "commit" /\ ~gets'[h].seat
               /\ gets'[h].granted => SeatHeld(doing[h])
            \/ /\ pc'[h] = "entitle" /\ gets'[h].seat /\ ~gets'[h].granted
               /\ sold < Capacity /\ ~SeatHeld(doing[h]) /\ \A g \in Handlers : ~gets[g].seat
<1>1. gets[h] = Nothing
  BY DEF ClaimOfferSeat, OneWriter
<1>2. \/ gets'[h] = [Nothing EXCEPT !.granted = TRUE] /\ SeatHeld(doing[h]) /\ pc'[h] = "commit"
      \/ /\ gets'[h] = [Nothing EXCEPT !.seat = TRUE] /\ pc'[h] = "entitle"
         /\ sold < Capacity /\ ~SeatHeld(doing[h]) /\ \A g \in Handlers : ~gets[g].seat
      \/ gets'[h] = Nothing /\ pc'[h] = "commit"
  BY <1>1 DEF ClaimOfferSeat, Local, Goto, Write, SeatHeld, TypeOK
<1>3. Statement(h) /\ pc[h] = "seat" /\ together' = together
  BY DEF ClaimOfferSeat, Local, Goto, Write, rows, Statement, TypeOK
<1> QED BY <1>2, <1>3 DEF Nothing

LEMMA EntitlementStatement ==
  ASSUME TypeOK, OneWriter, KindsApart, NEW h \in Handlers, GrantEntitlement(h)
  PROVE  /\ Statement(h) /\ pc[h] = "entitle" /\ pc'[h] = "commit" /\ together' = together
         /\ gets'[h].granted /\ (gets'[h].seat <=> gets[h].seat) /\ gets'[h].terms = {}
         /\ gets'[h].entitlement <=> seats[BuyerOf[doing[h]]] = None
<1>1. gets[h].terms = {} /\ gets[h] \in Writes
  BY DEF GrantEntitlement, KindsApart, TypeOK
<1>2. gets'[h] =
        [gets[h] EXCEPT !.granted = TRUE, !.entitlement = (seats[BuyerOf[doing[h]]] = None)]
  BY DEF GrantEntitlement, Local, Write, TypeOK
<1>3. Statement(h) /\ pc[h] = "entitle" /\ pc'[h] = "commit" /\ together' = together
  BY DEF GrantEntitlement, Local, Goto, Write, rows, Statement, TypeOK
<1> QED BY <1>1, <1>2, <1>3 DEF Writes

TermRow(p, s) == [payment |-> p, from |-> s, to |-> s + Term]

LEMMA TermStatement ==
  ASSUME TypeOK, OneWriter, NEW h \in Handlers, GrantTerm(h)
  PROVE  /\ Statement(h) /\ pc[h] = "term" /\ pc'[h] = "commit"
         /\ ~gets'[h].seat /\ ~gets'[h].entitlement
         /\ \/ TermHeld(doing[h]) /\ gets'[h].terms = {} /\ together' = together
            \/ /\ ~TermHeld(doing[h]) /\ gets'[h].granted
               /\ gets'[h].terms = {TermRow(doing[h], StartOf(doing[h], began[h]))}
               /\ together' = together \cup {{doing[h], doing[g]} : g \in Beside(h)}
<1>1. gets[h] = Nothing
  BY DEF GrantTerm, OneWriter
<1>2. \/ /\ TermHeld(doing[h]) /\ together' = together
         /\ gets'[h] = [Nothing EXCEPT !.granted = (KindOf[doing[h]] # "pass")]
      \/ /\ ~TermHeld(doing[h])
         /\ together' = together \cup {{doing[h], doing[g]} : g \in Beside(h)}
         /\ gets'[h] = [Nothing EXCEPT !.granted = TRUE,
                                       !.terms = {TermRow(doing[h], StartOf(doing[h], began[h]))}]
  BY <1>1 DEF GrantTerm, Local, Write, TermHeld, TermRow, TypeOK
<1>3. Statement(h) /\ pc[h] = "term" /\ pc'[h] = "commit"
  BY DEF GrantTerm, Local, Goto, Write, rows, Statement, TypeOK
<1> HIDE DEF TermRow
<1> QED BY <1>2, <1>3 DEF Nothing

-----------------------------------------------------------------------------
(* Type correctness.                                                       *)

LEMMA WritesAreTyped ==
  /\ Nothing \in Writes
  /\ \A w \in Writes, b, c \in BOOLEAN, T \in SUBSET TermRows :
       /\ [w EXCEPT !.granted = b] \in Writes
       /\ [w EXCEPT !.seat = b] \in Writes
       /\ [w EXCEPT !.granted = b, !.entitlement = c] \in Writes
       /\ [w EXCEPT !.granted = b, !.terms = T] \in Writes
  BY DEF Nothing, Writes

\* A term starts where the reader's last one ends, or now.
LEMMA StartIsAfterAll ==
  ASSUME TypeOK, TermRowsInv, NEW p \in Payments, NEW at \in Nat
  PROVE  /\ StartOf(p, at) \in Nat
         /\ \A t \in TermsOf(p) : t.to <= StartOf(p, at)
<1>0. TermsOf(p) \subseteq terms /\ \A t \in TermsOf(p) : t.to \in Nat
  BY DEF TypeOK, TermsOf, TermRows
<1>1. CASE \E t \in TermsOf(p) : t.to > at
  <2> DEFINE ends == {t.to : t \in TermsOf(p)}
             last == CHOOSE n \in ends : \A t \in TermsOf(p) : t.to <= n
  <2>1. \E n \in ends : \A t \in TermsOf(p) : t.to <= n
    BY <1>1 DEF TermRowsInv
  <2>2. last \in ends /\ \A t \in TermsOf(p) : t.to <= last
    BY <2>1
  <2>3. StartOf(p, at) = last
    BY <1>1 DEF StartOf
  <2> QED BY <1>0, <2>2, <2>3
<1>2. CASE ~ \E t \in TermsOf(p) : t.to > at
  <2>1. StartOf(p, at) = at
    BY <1>2 DEF StartOf
  <2> QED BY <1>0, <1>2, <2>1
<1> QED BY <1>1, <1>2

LEMMA GrantTermKeepsTypes ==
  ASSUME TypeOK, OneWriter, TermRowsInv, NEW h \in Handlers, GrantTerm(h)
  PROVE  TypeOK'
<1> DEFINE p == doing[h]
           s == StartOf(p, began[h])
           w == [payment |-> p, from |-> s, to |-> s + Term]
<1>1. p \in Payments /\ began[h] \in Nat
  BY NumbersType DEF OneWriter, GrantTerm, TypeOK
<1>2. s \in Nat
  BY <1>1, StartIsAfterAll
<1>3. w \in TermRows
  BY <1>1, <1>2, NumbersType DEF TermRows
<1>4. gets'[h] \in Writes
  <2> HIDE DEF w
  <2>1. \/ gets'[h] = [gets[h] EXCEPT !.granted = (KindOf[p] # "pass")]
        \/ gets'[h] = [gets[h] EXCEPT !.granted = TRUE, !.terms = {w}]
    BY DEF GrantTerm, Local, Write, TypeOK, w
  <2>2. {w} \in SUBSET TermRows /\ gets[h] \in Writes
    BY <1>3 DEF TypeOK
  <2> QED BY <2>1, <2>2, WritesAreTyped
<1>5. gets' \in [Handlers -> Writes]
  BY <1>4 DEF GrantTerm, Local, Write, TypeOK
<1>6. \A g \in Beside(h) : doing[g] \in Payments
  <2> SUFFICES ASSUME NEW g \in Handlers, gets[g].terms # {} PROVE doing[g] \in Payments
    BY DEF Beside
  <2> QED BY DEF OneWriter, Nothing
<1>7. together' \subseteq SUBSET Payments
  BY <1>1, <1>6 DEF GrantTerm, TypeOK
<1>8. pc' \in [Handlers -> Stages]
  BY DEF GrantTerm, Local, Goto, Stages, TypeOK
<1> QED BY <1>5, <1>7, <1>8 DEF GrantTerm, Local, external, rows, TypeOK

LEMMA NextKeepsTypes == TypeOK /\ OneWriter /\ TermRowsInv /\ [Next]_vars => TypeOK'
<1> SUFFICES ASSUME TypeOK, OneWriter, TermRowsInv, [Next]_vars PROVE TypeOK'
  OBVIOUS
<1> USE PaymentsType, NumbersType
<1>0. \A p \in Payments : \A e \in {"expired", "confirmed", "forwarded"} :
         /\ owed[p] \cup {e} \in SUBSET Events
         /\ owed[p] \ {e} \in SUBSET Events
  BY DEF TypeOK, Events
<1>1. ASSUME NEW p \in Payments, OpenSession(p) \/ BuyerPays(p) \/ MoneyForwarded(p)
      PROVE  TypeOK'
  <2>1. session' \in [Payments -> {"none", "opened", "lost", "offered", "paid", "forwarded"}]
    BY <1>1 DEF OpenSession, BuyerPays, MoneyForwarded, TypeOK
  <2>2. owed' \in [Payments -> SUBSET Events]
    BY <1>0, <1>1 DEF OpenSession, BuyerPays, MoneyForwarded, TypeOK
  <2> QED BY <1>1, <2>1, <2>2 DEF OpenSession, BuyerPays, MoneyForwarded, rows, request, TypeOK
<1>2. ASSUME NEW p \in Payments, RecordPending(p) \/ CheckoutDies(p) \/ AttemptExpires(p)
      PROVE  TypeOK'
  <2>1. session' \in [Payments -> {"none", "opened", "lost", "offered", "paid", "forwarded"}]
    BY <1>2 DEF RecordPending, CheckoutDies, AttemptExpires, TypeOK
  <2>2. owed' \in [Payments -> SUBSET Events] /\ lapsed' \subseteq Payments
    BY <1>0, <1>2 DEF RecordPending, CheckoutDies, AttemptExpires, TypeOK
  <2>3. status' \in [Payments -> {"absent", "pending", "unsettled", "settled"}]
    BY <1>2 DEF RecordPending, CheckoutDies, AttemptExpires, TypeOK, rows
  <2>4. crashes' \in 0 .. MaxCrashes
    <3>1. crashes \in 0 .. MaxCrashes
      BY DEF TypeOK
    <3> QED BY <1>2, <3>1 DEF RecordPending, CheckoutDies, AttemptExpires, TypeOK
  <2> QED BY <1>2, <2>1, <2>2, <2>3, <2>4
        DEF RecordPending, CheckoutDies, AttemptExpires, rows, request, TypeOK
<1>3. ASSUME NEW h \in Handlers, NEW p \in Payments, NEW e \in Events, Receive(h, p, e)
      PROVE  TypeOK'
  BY <1>3 DEF Receive, Goto, external, rows, TypeOK, Stages
<1>4. ASSUME NEW h \in Handlers, NEW w \in Writes, NEW stage \in Stages, Local(h, stage, w),
             UNCHANGED together
      PROVE  TypeOK'
  BY <1>4 DEF Local, Goto, Write, external, rows, TypeOK
<1>5. ASSUME NEW h \in Handlers, UpdatePayment(h) PROVE TypeOK'
  <2>1. FirstGrant(doing[h]) \in Stages /\ "commit" \in Stages
    BY DEF FirstGrant, Stages
  <2> QED BY <1>4, <1>5, <2>1, WritesAreTyped DEF UpdatePayment
<1>6. ASSUME NEW h \in Handlers, ClaimOfferSeat(h) \/ GrantEntitlement(h) PROVE TypeOK'
  <2>1. gets[h] \in Writes /\ "commit" \in Stages /\ "entitle" \in Stages
    BY DEF TypeOK, Stages
  <2>2. CASE ClaimOfferSeat(h)
    <3>1. PICK w \in Writes, stage \in Stages : Local(h, stage, w)
      BY <2>1, <2>2, WritesAreTyped DEF ClaimOfferSeat
    <3> QED BY <1>4, <2>2, <3>1 DEF ClaimOfferSeat
  <2>3. CASE GrantEntitlement(h)
    <3>1. (seats[BuyerOf[doing[h]]] = None) \in BOOLEAN
      OBVIOUS
    <3>2. [gets[h] EXCEPT !.granted = TRUE, !.entitlement = (seats[BuyerOf[doing[h]]] = None)]
            \in Writes
      BY <2>1, <3>1, WritesAreTyped
    <3> QED BY <1>4, <2>1, <2>3, <3>2 DEF GrantEntitlement
  <2> QED BY <1>6, <2>2, <2>3
<1>7. ASSUME NEW h \in Handlers, GrantTerm(h) PROVE TypeOK'
  BY <1>7, GrantTermKeepsTypes
<1>8. ASSUME NEW h \in Handlers, Commit(h) PROVE TypeOK'
  <2>1. doing[h] \in Payments
    BY <1>8 DEF Commit, OneWriter
  <2>2. status' \in [Payments -> {"absent", "pending", "unsettled", "settled"}]
    BY <1>8, <2>1 DEF Commit, StatusAfter, TypeOK
  <2>3. sold' \in Nat /\ commissions' \subseteq Payments
    BY <1>8, <2>1 DEF Commit, CreditReferral, TypeOK
  <2>4. seats' \in [Users -> Payments \cup {None}]
    BY <1>8, <2>1 DEF Commit, TypeOK
  <2>5. terms' \subseteq TermRows
    <3>1. gets[h].terms \subseteq TermRows
      BY DEF TypeOK, Writes
    <3> QED BY <1>8, <3>1 DEF Commit, TypeOK
  <2>6. pc' \in [Handlers -> Stages] /\ gets' \in [Handlers -> Writes]
    BY <1>8, WritesAreTyped DEF Commit, Goto, Write, TypeOK, Stages
  <2> QED BY <1>8, <2>2, <2>3, <2>4, <2>5, <2>6 DEF Commit, external, TypeOK
<1>9. ASSUME NEW h \in Handlers, Answer(h) \/ RequestDies(h) PROVE TypeOK'
  <2>1. pc' \in [Handlers -> Stages] /\ doing' \in [Handlers -> Payments \cup {None}]
    BY <1>9 DEF Answer, RequestDies, Goto, TypeOK, Stages
  <2>2. gets' \in [Handlers -> Writes]
    <3>1. Nothing \in Writes
      BY WritesAreTyped
    <3> QED BY <1>9, <3>1 DEF Answer, RequestDies, Write, TypeOK
  <2>3. owed' \in [Payments -> SUBSET Events]
    <3>1. doing[h] \in Payments /\ event[h] \in {"expired", "confirmed", "forwarded"}
      BY <1>9 DEF Answer, RequestDies, OneWriter, TypeOK, Events
    <3> QED BY <1>0, <1>9, <3>1 DEF Answer, RequestDies, external, TypeOK
  <2>4. crashes' \in 0 .. MaxCrashes
    <3>1. crashes \in 0 .. MaxCrashes
      BY DEF TypeOK
    <3> QED BY <1>9, <3>1 DEF Answer, RequestDies
  <2>5. together' \subseteq together
    BY <1>9 DEF Answer, RequestDies, Undone
  <2> QED BY <1>9, <2>1, <2>2, <2>3, <2>4, <2>5 DEF Answer, RequestDies, external, rows, TypeOK
<1>10. CASE Tick
  <2>1. now' \in 0 .. MaxTime
    BY <1>10 DEF Tick, TypeOK
  <2> QED BY <1>10, <2>1 DEF Tick, external, rows, request, TypeOK
<1>11. CASE UNCHANGED vars
  BY <1>11 DEF vars, external, rows, request, TypeOK
<1> QED BY <1>1, <1>2, <1>3, <1>4, <1>5, <1>6, <1>7, <1>8, <1>9, <1>10, <1>11 DEF Next, Step

-----------------------------------------------------------------------------
(* Each part is preserved.                                                 *)

\* A webhook taken up.
Received(h) ==
  /\ pc[h] = "idle" /\ pc'[h] = "update" /\ doing'[h] \in Payments
  /\ \A g \in Handlers \ {h} : pc'[g] = pc[g] /\ doing'[g] = doing[g] /\ event'[g] = event[g]
  /\ UNCHANGED <<status, sold, seats, terms, commissions, gets, together>>

\* The kinds of step that the parts of the invariant tell apart.
LEMMA StepsAre ==
  ASSUME TypeOK, OneWriter, [Next]_vars
  PROVE  Elsewhere \/ \E h \in Handlers :
           \/ Received(h) \/ Dropped(h) \/ UpdatePayment(h) \/ ClaimOfferSeat(h)
           \/ GrantEntitlement(h) \/ GrantTerm(h) \/ Commit(h)
<1>1. ASSUME NEW h \in Handlers, NEW p \in Payments, NEW e \in Events, Receive(h, p, e)
      PROVE  Received(h)
  BY <1>1 DEF Receive, Received, Goto, rows, TypeOK
<1> QED BY <1>1, ElsewhereSteps, DroppedSteps DEF Next, Step

LEMMA OneWriterKept == ASSUME TypeOK, OneWriter, KindsApart, [Next]_vars PROVE OneWriter'
<1>1. CASE Elsewhere
  BY <1>1 DEF Elsewhere, request, OneWriter, Uncommitted
<1>2. ASSUME NEW h \in Handlers, Received(h) PROVE OneWriter'
  <2>1. ~Uncommitted(h)'
    BY <1>2 DEF Received, Uncommitted
  <2>2. gets'[h] = Nothing
    BY <1>2 DEF Received, OneWriter
  <2> QED BY <1>2, <2>1, <2>2 DEF Received, OneWriter, Uncommitted
<1>3. ASSUME NEW h \in Handlers, Dropped(h) PROVE OneWriter'
  <2>1. ~Uncommitted(h)' /\ pc'[h] = "idle" /\ gets'[h] = Nothing
    BY <1>3 DEF Dropped, Uncommitted, TypeOK
  <2>2. \A g \in Handlers \ {h} : pc'[g] = pc[g] /\ doing'[g] = doing[g] /\ gets'[g] = gets[g]
    BY <1>3 DEF Dropped, TypeOK
  <2> QED BY <2>1, <2>2 DEF OneWriter, Uncommitted
<1>4. ASSUME NEW h \in Handlers, UpdatePayment(h) PROVE OneWriter'
  <2>1. \A g \in Handlers \ {h} : Uncommitted(g) => doing[g] # doing[h]
    BY <1>4 DEF UpdatePayment, Locked
  <2> QED BY <1>4, <2>1, UpdateStatement DEF Statement, OneWriter, Uncommitted
<1>5. ASSUME NEW h \in Handlers, ClaimOfferSeat(h) \/ GrantEntitlement(h) \/ GrantTerm(h)
      PROVE  OneWriter'
  <2>1. Statement(h) /\ pc[h] \in {"seat", "entitle", "term"} /\ pc'[h] \in {"entitle", "commit"}
    BY <1>5, SeatStatement, EntitlementStatement, TermStatement
  <2> QED BY <2>1 DEF Statement, OneWriter, Uncommitted, Stages
<1>6. ASSUME NEW h \in Handlers, Commit(h) PROVE OneWriter'
  <2>1. pc'[h] = "answer" /\ gets'[h] = Nothing /\ doing' = doing /\ pc[h] = "commit"
    BY <1>6 DEF Commit, Goto, Write, TypeOK
  <2>2. \A g \in Handlers \ {h} : pc'[g] = pc[g] /\ gets'[g] = gets[g]
    BY <1>6 DEF Commit, Goto, Write, TypeOK
  <2> QED BY <2>1, <2>2 DEF OneWriter, Uncommitted
<1> QED BY <1>1, <1>2, <1>3, <1>4, <1>5, <1>6, StepsAre

\* What a commit does to the rows and to the request itself.
LEMMA CommitStep ==
  ASSUME TypeOK, OneWriter, NEW h \in Handlers, Commit(h)
  PROVE  /\ pc[h] = "commit" /\ doing[h] \in Payments
         /\ pc'[h] = "answer" /\ gets'[h] = Nothing
         /\ \A g \in Handlers \ {h} : pc'[g] = pc[g] /\ gets'[g] = gets[g]
         /\ UNCHANGED <<doing, event, began, together>>
         /\ status' = [status EXCEPT ![doing[h]] = StatusAfter(doing[h], event[h])]
         /\ sold' = IF gets[h].seat THEN sold + 1 ELSE sold
         /\ seats' = IF gets[h].entitlement THEN [seats EXCEPT ![BuyerOf[doing[h]]] = doing[h]]
                                            ELSE seats
         /\ terms' = terms \cup gets[h].terms
         /\ commissions' = CreditReferral(doing[h], gets[h].granted)
  BY DEF Commit, Goto, Write, OneWriter, TypeOK

LEMMA OnlyPaidKept ==
  ASSUME TypeOK, OneWriter, KindsApart, OnlyPaid, [Next]_vars PROVE OnlyPaid'
<1>0. \A h \in Handlers : gets[h].granted \/ pc[h] \in {"seat", "entitle", "term"} =>
                            doing[h] \in Payments
  BY DEF OneWriter, Nothing
<1>1. CASE Elsewhere
  BY <1>0, <1>1 DEF Elsewhere, request, OnlyPaid
<1>2. ASSUME NEW h \in Handlers, Received(h) PROVE OnlyPaid'
  <2>1. gets[h] = Nothing
    BY <1>2 DEF Received, OneWriter
  <2> QED BY <1>2, <2>1 DEF Received, OnlyPaid, Nothing
<1>3. ASSUME NEW h \in Handlers, Dropped(h) PROVE OnlyPaid'
  <2>1. pc'[h] = "idle" /\ gets'[h] = Nothing
    BY <1>3 DEF Dropped, TypeOK
  <2>2. \A g \in Handlers \ {h} : pc'[g] = pc[g] /\ doing'[g] = doing[g] /\ gets'[g] = gets[g]
    BY <1>3 DEF Dropped, TypeOK
  <2> QED BY <1>3, <2>1, <2>2 DEF Dropped, OnlyPaid, Nothing
<1>4. ASSUME NEW h \in Handlers, UpdatePayment(h) PROVE OnlyPaid'
  BY <1>4, UpdateStatement DEF Statement, OnlyPaid, Nothing
<1>5. ASSUME NEW h \in Handlers, ClaimOfferSeat(h) \/ GrantEntitlement(h) \/ GrantTerm(h)
      PROVE  OnlyPaid'
  <2>1. Statement(h) /\ pc[h] \in {"seat", "entitle", "term"}
    BY <1>5, SeatStatement, EntitlementStatement, TermStatement
  <2>2. gets'[h].entitlement \/ gets'[h].terms # {} => gets'[h].granted
    BY <1>5, SeatStatement, EntitlementStatement, TermStatement
  <2> QED BY <2>1, <2>2 DEF Statement, OnlyPaid
<1>6. ASSUME NEW h \in Handlers, Commit(h) PROVE OnlyPaid'
  <2>1. \A p \in Payments : status[p] # "absent" => status'[p] # "absent"
    BY <1>6, CommitStep DEF StatusAfter, TypeOK
  <2> QED BY <1>0, <1>6, <2>1, CommitStep DEF OnlyPaid, Nothing
<1> QED BY <1>1, <1>2, <1>3, <1>4, <1>5, <1>6, StepsAre

LEMMA KindsApartKept ==
  ASSUME TypeOK, OneWriter, SeatInv, TermRowsInv, KindsApart, [Next]_vars
  PROVE  KindsApart'
<1>1. CASE Elsewhere
  BY <1>1 DEF Elsewhere, request, KindsApart
<1>2. ASSUME NEW h \in Handlers, Received(h) PROVE KindsApart'
  <2>1. gets[h] = Nothing
    BY <1>2 DEF Received, OneWriter
  <2> QED BY <1>2, <2>1 DEF Received, KindsApart, Nothing
<1>3. ASSUME NEW h \in Handlers, Dropped(h) PROVE KindsApart'
  <2>1. pc'[h] = "idle" /\ gets'[h] = Nothing
    BY <1>3 DEF Dropped, TypeOK
  <2>2. \A g \in Handlers \ {h} : pc'[g] = pc[g] /\ doing'[g] = doing[g] /\ gets'[g] = gets[g]
    BY <1>3 DEF Dropped, TypeOK
  <2> QED BY <1>3, <2>1, <2>2 DEF Dropped, KindsApart, Nothing
<1>4. ASSUME NEW h \in Handlers, UpdatePayment(h) PROVE KindsApart'
  BY <1>4, UpdateStatement DEF Statement, KindsApart, Nothing, FirstGrant
<1>5. ASSUME NEW h \in Handlers, ClaimOfferSeat(h) \/ GrantEntitlement(h) PROVE KindsApart'
  <2>1. Statement(h) /\ pc[h] \in {"seat", "entitle"} /\ gets'[h].terms = {}
        /\ pc'[h] \in {"entitle", "commit"}
    BY <1>5, SeatStatement, EntitlementStatement
  <2> QED BY <2>1 DEF Statement, KindsApart
<1>6. ASSUME NEW h \in Handlers, GrantTerm(h) PROVE KindsApart'
  BY <1>6, TermStatement DEF Statement, KindsApart
<1>7. ASSUME NEW h \in Handlers, Commit(h) PROVE KindsApart'
  <2> USE CommitStep, <1>7
  <2>1. \A t \in gets[h].terms : t.payment = doing[h] /\ KindOf[doing[h]] # "seat"
    BY DEF TermRowsInv, KindsApart
  <2>2. \A t \in terms' : KindOf[t.payment] # "seat"
    BY <2>1 DEF KindsApart
  <2>3. ASSUME NEW u \in Users, seats'[u] # None
        PROVE  KindOf[seats'[u]] = "seat" /\ BuyerOf[seats'[u]] = u
    BY <2>3 DEF KindsApart, SeatInv, SeatRow, TypeOK
  <2> QED BY <2>2, <2>3 DEF KindsApart, Nothing
<1> QED BY <1>1, <1>2, <1>3, <1>4, <1>5, <1>6, <1>7, StepsAre

\* If nobody pays twice, a payment that has no seat yet is of a reader who has none.
LEMMA NoSeatNoRow ==
  ASSUME TypeOK, KindsApart, NoRebuy, NEW p \in Payments, KindOf[p] = "seat", ~SeatHeld(p)
  PROVE  seats[BuyerOf[p]] = None
<1> SUFFICES ASSUME seats[BuyerOf[p]] # None PROVE FALSE
  OBVIOUS
<1> DEFINE u == BuyerOf[p]
<1>1. u \in Users /\ seats[u] \in Payments
  BY PaymentsType DEF TypeOK
<1>2. KindOf[seats[u]] = "seat" /\ BuyerOf[seats[u]] = u
  BY <1>1 DEF KindsApart
<1>3. seats[u] = p
  BY <1>1, <1>2 DEF NoRebuy, Seats
<1> QED BY <1>1, <1>3 DEF SeatHeld

LEMMA SeatInvKept ==
  ASSUME TypeOK, OneWriter, KindsApart, SeatInv, [Next]_vars PROVE SeatInv'
<1>0. \A h \in Handlers : gets[h].seat \/ gets[h].entitlement => doing[h] \in Payments
  BY DEF OneWriter, Nothing
<1>1. CASE Elsewhere
  BY <1>1 DEF Elsewhere, request, SeatInv, SeatRow, SeatCount, SeatsRight, SeatsGivenOut,
      NoOversell
<1>2. ASSUME NEW h \in Handlers, Received(h) PROVE SeatInv'
  <2>1. gets[h] = Nothing
    BY <1>2 DEF Received, OneWriter
  <2>2. SeatRow'
    BY <1>2, <2>1 DEF Received, SeatInv, SeatRow, Nothing
  <2>3. SeatCount'
    BY <1>2 DEF Received, SeatInv, SeatCount, SeatsRight, SeatsGivenOut, NoOversell
  <2> QED BY <2>2, <2>3 DEF SeatInv
<1>3. ASSUME NEW h \in Handlers, Dropped(h) PROVE SeatInv'
  <2>1. pc'[h] = "idle" /\ gets'[h] = Nothing
    BY <1>3 DEF Dropped, TypeOK
  <2>2. \A g \in Handlers \ {h} : pc'[g] = pc[g] /\ doing'[g] = doing[g] /\ gets'[g] = gets[g]
    BY <1>3 DEF Dropped, TypeOK
  <2>3. SeatRow'
    BY <1>3, <2>1, <2>2 DEF Dropped, SeatInv, SeatRow, Nothing
  <2>4. SeatCount'
    BY <1>3 DEF Dropped, SeatInv, SeatCount, SeatsRight, SeatsGivenOut, NoOversell
  <2> QED BY <2>3, <2>4 DEF SeatInv
<1>4. ASSUME NEW h \in Handlers, Statement(h), SeatRow' PROVE SeatInv'
  BY <1>4 DEF Statement, SeatInv, SeatCount, SeatsRight, SeatsGivenOut, NoOversell
<1>5. ASSUME NEW h \in Handlers, UpdatePayment(h) PROVE SeatInv'
  <2>1. pc'[h] # "entitle"
    BY <1>5, UpdateStatement DEF FirstGrant
  <2>2. SeatRow'
    BY <1>5, <2>1, UpdateStatement DEF Statement, SeatInv, SeatRow, Nothing
  <2> QED BY <1>4, <1>5, <2>2, UpdateStatement
<1>6. ASSUME NEW h \in Handlers, ClaimOfferSeat(h) PROVE SeatInv'
  <2>1. SeatRow'
    BY <1>6, SeatStatement DEF Statement, SeatInv, SeatRow, SeatHeld
  <2> QED BY <1>4, <1>6, <2>1, SeatStatement
<1>7. ASSUME NEW h \in Handlers, GrantEntitlement(h) PROVE SeatInv'
  <2>1. /\ gets[h].seat /\ doing[h] \in Payments /\ KindOf[doing[h]] = "seat"
        /\ ~SeatHeld(doing[h])
    BY <1>0, <1>7, EntitlementStatement DEF SeatInv, SeatRow, KindsApart, SeatHeld
  <2>2. NoRebuy => seats[BuyerOf[doing[h]]] = None
    BY <2>1, NoSeatNoRow
  <2>3. /\ Statement(h) /\ gets'[h].seat
        /\ gets'[h].entitlement <=> seats[BuyerOf[doing[h]]] = None
    BY <1>7, <2>1, EntitlementStatement
  <2>4. SeatRow'
    BY <2>1, <2>2, <2>3 DEF Statement, SeatInv, SeatRow
  <2> QED BY <1>4, <2>3, <2>4
<1>8. ASSUME NEW h \in Handlers, GrantTerm(h) PROVE SeatInv'
  <2>1. SeatRow'
    BY <1>8, TermStatement DEF Statement, SeatInv, SeatRow
  <2> QED BY <1>4, <1>8, <2>1, TermStatement
<1>9. ASSUME NEW h \in Handlers, Commit(h) PROVE SeatInv'
  <2> DEFINE p == doing[h]
             u == BuyerOf[p]
             Taken == {v \in Users : seats[v] # None}
  <2> USE CommitStep, <1>9
  <2>0. p \in Payments /\ u \in Users /\ p # None /\ sold \in Nat /\ Capacity \in Nat
    BY PaymentsType, NumbersType DEF TypeOK
  <2>1. CASE ~gets[h].seat
    <3>1. ~gets[h].entitlement /\ sold' = sold /\ seats' = seats
      BY <2>1 DEF SeatInv, SeatRow
    <3>2. SeatRow'
      BY <2>1, <3>1 DEF SeatInv, SeatRow, Nothing
    <3>3. SeatCount'
      BY <3>1 DEF SeatInv, SeatCount, SeatsRight, SeatsGivenOut, NoOversell
    <3> QED BY <3>2, <3>3 DEF SeatInv
  <2>2. CASE gets[h].seat
    <3>1. \A g \in Handlers : ~gets'[g].seat /\ ~gets'[g].entitlement /\ pc'[g] # "entitle"
      BY <2>2 DEF SeatInv, SeatRow, Nothing
    <3>2. SeatRow'
      BY <3>1 DEF SeatRow
    <3>3. sold < Capacity /\ sold' = sold + 1
      BY <2>2 DEF SeatInv, SeatRow
    <3>4. NoOversell'
      BY <2>0, <3>3 DEF NoOversell
    <3>5. CASE gets[h].entitlement
      <4>1. seats[u] = None /\ seats' = [seats EXCEPT ![u] = p]
        BY <3>5 DEF SeatInv, SeatRow
      <4>2. {v \in Users : seats'[v] # None} = Taken \cup {u}
        BY <2>0, <4>1 DEF TypeOK
      <4>3. IsFiniteSet(Taken) /\ u \notin Taken
        BY <4>1 DEF SeatInv, SeatCount
      <4>4. IsFiniteSet(Taken \cup {u}) /\ Cardinality(Taken \cup {u}) = Cardinality(Taken) + 1
        BY <4>3, FS_AddElement
      <4>5. SeatsGivenOut'
        BY <3>3, <4>2, <4>4 DEF SeatInv, SeatCount, SeatsRight, SeatsGivenOut, NoRebuy
      <4> QED BY <3>2, <3>4, <4>2, <4>4, <4>5 DEF SeatInv, SeatCount, SeatsRight
    <3>6. CASE ~gets[h].entitlement
      <4>1. ~NoRebuy /\ seats' = seats
        BY <2>2, <3>6 DEF SeatInv, SeatRow
      <4> QED BY <3>2, <3>4, <4>1
            DEF SeatInv, SeatCount, SeatsRight, SeatsGivenOut, NoRebuy
    <3> QED BY <3>5, <3>6
  <2> QED BY <2>1, <2>2
<1> QED BY <1>1, <1>2, <1>3, <1>5, <1>6, <1>7, <1>8, <1>9, StepsAre

\* One of a reader's terms ends last, also after one more.
LEMMA LastOfMore ==
  ASSUME NEW old \in SUBSET TermRows, NEW w \in TermRows,
         old # {} => \E t \in old : \A r \in old : r.to <= t.to
  PROVE  \E t \in old \cup {w} : \A r \in old \cup {w} : r.to <= t.to
<1>0. \A t \in old \cup {w} : t.to \in Nat
  BY DEF TermRows
<1>1. CASE old = {}
  BY <1>0, <1>1
<1>2. CASE old # {}
  <2>1. PICK t \in old : \A r \in old : r.to <= t.to
    BY <1>2
  <2>2. CASE w.to <= t.to
    BY <2>1, <2>2
  <2>3. CASE t.to < w.to
    <3>1. \A r \in old : r.to <= w.to
      BY <1>0, <2>1, <2>3
    <3> QED BY <1>0, <3>1
  <2> QED BY <1>0, <2>1, <2>2, <2>3
<1> QED BY <1>1, <1>2

LEMMA TermRowsKept ==
  ASSUME TypeOK, OneWriter, KindsApart, TermRowsInv, [Next]_vars PROVE TermRowsInv'
<1>1. CASE Elsewhere
  BY <1>1 DEF Elsewhere, request, TermRowsInv, TermsOf
<1>2. ASSUME NEW h \in Handlers, Received(h) PROVE TermRowsInv'
  <2>1. gets[h].terms = {}
    BY <1>2 DEF Received, OneWriter, Nothing
  <2> QED BY <1>2, <2>1 DEF Received, TermRowsInv, TermsOf
<1>3. ASSUME NEW h \in Handlers, Dropped(h) PROVE TermRowsInv'
  <2>1. gets'[h].terms = {}
    BY <1>3 DEF Dropped, TypeOK, Nothing
  <2>2. \A g \in Handlers \ {h} : doing'[g] = doing[g] /\ gets'[g] = gets[g]
    BY <1>3 DEF Dropped, TypeOK
  <2> QED BY <1>3, <2>1, <2>2 DEF Dropped, TermRowsInv, TermsOf
<1>4. ASSUME NEW h \in Handlers, Statement(h), gets'[h].terms = {} PROVE TermRowsInv'
  BY <1>4 DEF Statement, TermRowsInv, TermsOf
<1>5. ASSUME NEW h \in Handlers, UpdatePayment(h) \/ ClaimOfferSeat(h) PROVE TermRowsInv'
  <2>1. Statement(h) /\ gets'[h].terms = {}
    BY <1>5, UpdateStatement, SeatStatement DEF Nothing
  <2> QED BY <1>4, <2>1
<1>6. ASSUME NEW h \in Handlers, GrantEntitlement(h) PROVE TermRowsInv'
  BY <1>4, <1>6, EntitlementStatement
<1>7. ASSUME NEW h \in Handlers, GrantTerm(h) PROVE TermRowsInv'
  <2>1. CASE gets'[h].terms = {}
    BY <1>4, <1>7, <2>1, TermStatement
  <2>2. CASE gets'[h].terms # {}
    <3> DEFINE w == TermRow(doing[h], StartOf(doing[h], began[h]))
    <3>1. w.payment = doing[h]
      BY DEF TermRow
    <3> HIDE DEF w
    <3>2. Statement(h) /\ ~TermHeld(doing[h]) /\ gets'[h].terms = {w}
      BY <1>7, <2>2, TermStatement DEF w
    <3> QED BY <3>1, <3>2 DEF Statement, TermHeld, TermRowsInv, TermsOf
  <2> QED BY <2>1, <2>2
<1>8. ASSUME NEW h \in Handlers, Commit(h) PROVE TermRowsInv'
  <2> USE CommitStep, <1>8
  <2>1. CASE gets[h].terms = {}
    BY <2>1 DEF TermRowsInv, TermsOf, Nothing
  <2>2. CASE gets[h].terms # {}
    <3>1. PICK w \in gets[h].terms : gets[h].terms = {w} /\ w.payment = doing[h]
      BY <2>2 DEF TermRowsInv
    <3>2. w \in TermRows /\ terms \subseteq TermRows /\ terms' = terms \cup {w}
      BY <3>1 DEF TypeOK, Writes
    <3>3. \A t \in terms : t.payment # doing[h]
      BY <2>2 DEF TermRowsInv
    <3>4. ASSUME NEW g \in Handlers, gets'[g].terms # {}
          PROVE  /\ \E v \in gets'[g].terms : gets'[g].terms = {v} /\ v.payment = doing'[g]
                 /\ \A t \in terms' : t.payment # doing'[g]
      <4>1. g # h /\ gets'[g] = gets[g] /\ doing' = doing
        BY <3>4 DEF Nothing
      <4>2. Uncommitted(g) /\ Uncommitted(h)
        BY <2>2, <3>4, <4>1 DEF OneWriter, Nothing, Uncommitted, Stages
      <4>3. doing[g] # doing[h]
        BY <4>1, <4>2 DEF OneWriter
      <4> QED BY <3>1, <3>2, <3>4, <4>1, <4>3 DEF TermRowsInv
    <3>5. \A t, r \in terms' : t.payment = r.payment => t = r
      BY <3>1, <3>2, <3>3 DEF TermRowsInv
    <3>6. ASSUME NEW p \in Payments, TermsOf(p)' # {}
          PROVE  \E t \in TermsOf(p)' : \A r \in TermsOf(p)' : r.to <= t.to
      <4>1. CASE BuyerOf[w.payment] = BuyerOf[p] /\ KindOf[w.payment] = KindOf[p]
        <5>1. TermsOf(p)' = TermsOf(p) \cup {w}
          BY <3>2, <4>1 DEF TermsOf
        <5>2. TermsOf(p) # {} => \E t \in TermsOf(p) : \A r \in TermsOf(p) : r.to <= t.to
          BY DEF TermRowsInv
        <5>3. TermsOf(p) \in SUBSET TermRows
          BY <3>2 DEF TermsOf
        <5> DEFINE old == TermsOf(p)
        <5> HIDE DEF old
        <5>4. \E t \in old \cup {w} : \A r \in old \cup {w} : r.to <= t.to
          BY <3>2, <5>2, <5>3, LastOfMore DEF old
        <5> QED BY <5>1, <5>4 DEF old
      <4>2. CASE ~(BuyerOf[w.payment] = BuyerOf[p] /\ KindOf[w.payment] = KindOf[p])
        <5>1. TermsOf(p)' = TermsOf(p)
          BY <3>2, <4>2 DEF TermsOf
        <5> QED BY <3>6, <5>1 DEF TermRowsInv
      <4> QED BY <4>1, <4>2
    <3> QED BY <3>4, <3>5, <3>6 DEF TermRowsInv
  <2> QED BY <2>1, <2>2
<1> QED BY <1>1, <1>2, <1>3, <1>5, <1>6, <1>7, <1>8, StepsAre

LEMMA StackInvKept ==
  ASSUME TypeOK, OneWriter, KindsApart, TermRowsInv, StackInv, [Next]_vars
  PROVE  StackInv'
<1>1. CASE Elsewhere
  BY <1>1 DEF Elsewhere, request, StackInv, TermsStack
<1>2. ASSUME NEW h \in Handlers, Received(h) PROVE StackInv'
  BY <1>2 DEF Received, StackInv, TermsStack
<1>3. ASSUME NEW h \in Handlers, Dropped(h) PROVE StackInv'
  <2>1. gets'[h].terms = {} /\ \A g \in Handlers \ {h} : gets'[g] = gets[g]
    BY <1>3 DEF Dropped, TypeOK, Nothing
  <2>2. CASE gets[h].terms = {}
    <3>1. together' = together
      BY <1>3, <2>2 DEF Dropped, Undone
    <3> QED BY <1>3, <2>1, <3>1 DEF Dropped, StackInv, TermsStack
  <2>3. CASE gets[h].terms # {}
    <3>1. \A pair \in together : doing[h] \notin pair => pair \in together'
      BY <1>3, <2>3 DEF Dropped, Undone
    <3>2. \A t \in terms : t.payment # doing[h]
      BY <2>3 DEF TermRowsInv
    <3>3. ASSUME NEW g \in Handlers \ {h}, NEW v \in gets[g].terms PROVE v.payment # doing[h]
      <4>1. v.payment = doing[g]
        BY <3>3 DEF TermRowsInv
      <4>2. Uncommitted(g) /\ Uncommitted(h)
        BY <2>3, <3>3 DEF OneWriter, Nothing, Uncommitted, Stages
      <4> QED BY <3>3, <4>1, <4>2 DEF OneWriter
    <3>4. TermsStack'
      BY <1>3, <3>1, <3>2 DEF Dropped, StackInv, TermsStack
    <3>5. ASSUME NEW g \in Handlers, NEW v \in gets'[g].terms, NEW t \in terms',
                 Rivals(t, v), Overlap(t, v)
          PROVE  {t.payment, v.payment} \in together'
      <4>1. g \in Handlers \ {h} /\ v \in gets[g].terms /\ t \in terms
        BY <1>3, <2>1, <3>5 DEF Dropped
      <4> QED BY <3>1, <3>2, <3>3, <3>5, <4>1 DEF StackInv
    <3>6. ASSUME NEW f \in Handlers, NEW g \in Handlers, f # g,
                 NEW v \in gets'[f].terms, NEW r \in gets'[g].terms,
                 BuyerOf[v.payment] = BuyerOf[r.payment], KindOf[v.payment] = KindOf[r.payment]
          PROVE  {v.payment, r.payment} \in together'
      <4>1. /\ f \in Handlers \ {h} /\ v \in gets[f].terms
            /\ g \in Handlers \ {h} /\ r \in gets[g].terms
        BY <2>1, <3>6
      <4> QED BY <3>1, <3>3, <3>6, <4>1 DEF StackInv
    <3> QED BY <3>4, <3>5, <3>6 DEF StackInv
  <2> QED BY <2>2, <2>3
<1>4. ASSUME NEW h \in Handlers, Statement(h), gets'[h].terms = {}, together' = together
      PROVE  StackInv'
  BY <1>4 DEF Statement, StackInv, TermsStack
<1>5. ASSUME NEW h \in Handlers, UpdatePayment(h) \/ ClaimOfferSeat(h) \/ GrantEntitlement(h)
      PROVE  StackInv'
  <2>1. Statement(h) /\ gets'[h].terms = {} /\ together' = together
    BY <1>5, UpdateStatement, SeatStatement, EntitlementStatement DEF Nothing
  <2> QED BY <1>4, <2>1
<1>6. ASSUME NEW h \in Handlers, GrantTerm(h) PROVE StackInv'
  <2>1. CASE TermHeld(doing[h])
    BY <1>4, <1>6, <2>1, TermStatement
  <2>2. CASE ~TermHeld(doing[h])
    <3> DEFINE p == doing[h]
               s == StartOf(p, began[h])
               w == TermRow(p, s)
    <3>1. /\ Statement(h) /\ gets'[h].terms = {w}
          /\ together' = together \cup {{p, doing[g]} : g \in Beside(h)}
      BY <1>6, <2>2, TermStatement
    <3>2. p \in Payments /\ began[h] \in Nat
      BY <1>6, TermStatement, NumbersType DEF OneWriter, TypeOK
    <3>3. s \in Nat /\ \A t \in TermsOf(p) : t.to <= s
      BY <3>2, StartIsAfterAll
    <3>4. w.payment = p /\ w.from = s
      BY DEF TermRow
    <3> HIDE DEF w, s
    <3>5. ASSUME NEW t \in terms, Rivals(t, w), Overlap(t, w) PROVE FALSE
      <4>1. t \in TermsOf(p) /\ t.to \in Nat
        BY <3>4, <3>5 DEF Rivals, TermsOf, TypeOK, TermRows
      <4>2. s < t.to
        BY <3>4, <3>5 DEF Overlap
      <4> QED BY <3>3, <4>1, <4>2
    <3>6. ASSUME NEW g \in Handlers \ {h}, NEW v \in gets[g].terms,
                 BuyerOf[v.payment] = BuyerOf[p], KindOf[v.payment] = KindOf[p]
          PROVE  {v.payment, p} \in together'
      <4>1. v.payment = doing[g]
        BY DEF TermRowsInv
      <4>2. g \in Beside(h)
        BY <3>6, <4>1 DEF Beside
      <4>3. {p, doing[g]} = {v.payment, p}
        BY <4>1
      <4> QED BY <3>1, <4>2, <4>3
    <3>7. TermsStack'
      BY <3>1 DEF Statement, StackInv, TermsStack
    <3>8. ASSUME NEW g \in Handlers, NEW v \in gets'[g].terms, NEW t \in terms',
                 Rivals(t, v), Overlap(t, v)
          PROVE  {t.payment, v.payment} \in together'
      <4>1. CASE g = h
        BY <3>1, <3>5, <3>8, <4>1 DEF Statement
      <4>2. CASE g # h
        BY <3>1, <3>8, <4>2 DEF Statement, StackInv
      <4> QED BY <4>1, <4>2
    <3>9. ASSUME NEW f \in Handlers, NEW g \in Handlers, f # g,
                 NEW v \in gets'[f].terms, NEW r \in gets'[g].terms,
                 BuyerOf[v.payment] = BuyerOf[r.payment], KindOf[v.payment] = KindOf[r.payment]
          PROVE  {v.payment, r.payment} \in together'
      <4>1. CASE f # h /\ g # h
        BY <3>1, <3>9, <4>1 DEF Statement, StackInv
      <4>2. CASE g = h
        <5>1. r = w /\ v \in gets[f].terms
          BY <3>1, <3>9, <4>2 DEF Statement
        <5> QED BY <3>4, <3>6, <3>9, <4>2, <5>1
      <4>3. CASE f = h
        <5>1. v = w /\ r \in gets[g].terms
          BY <3>1, <3>9, <4>3 DEF Statement
        <5>2. {r.payment, p} \in together'
          BY <3>4, <3>6, <3>9, <4>3, <5>1
        <5>3. {r.payment, p} = {v.payment, r.payment}
          BY <3>4, <5>1
        <5> QED BY <5>2, <5>3
      <4> QED BY <4>1, <4>2, <4>3
    <3> QED BY <3>7, <3>8, <3>9 DEF StackInv
  <2> QED BY <2>1, <2>2
<1>7. ASSUME NEW h \in Handlers, Commit(h) PROVE StackInv'
  <2>1. /\ terms' = terms \cup gets[h].terms /\ together' = together /\ gets'[h].terms = {}
        /\ \A g \in Handlers \ {h} : gets'[g] = gets[g]
    BY <1>7, CommitStep DEF Nothing
  <2>2. \A v, w \in gets[h].terms : v = w
    BY DEF TermRowsInv
  <2>3. \A t \in gets[h].terms, v \in terms : Rivals(t, v) /\ Overlap(t, v) =>
            /\ Rivals(v, t) /\ Overlap(v, t)
            /\ {v.payment, t.payment} = {t.payment, v.payment}
    BY DEF Rivals, Overlap
  <2>4. TermsStack'
    BY <2>1, <2>2, <2>3 DEF StackInv, TermsStack, Rivals
  <2>5. ASSUME NEW g \in Handlers, NEW v \in gets'[g].terms, NEW t \in terms',
               Rivals(t, v), Overlap(t, v)
        PROVE  {t.payment, v.payment} \in together'
    <3>1. g # h /\ v \in gets[g].terms
      BY <2>1, <2>5
    <3>2. CASE t \in terms
      BY <2>1, <2>5, <3>1, <3>2 DEF StackInv
    <3>3. CASE t \in gets[h].terms
      BY <2>1, <2>5, <3>1, <3>3 DEF StackInv, Rivals
    <3> QED BY <2>1, <3>2, <3>3
  <2>6. ASSUME NEW f \in Handlers, NEW g \in Handlers, f # g,
               NEW v \in gets'[f].terms, NEW r \in gets'[g].terms,
               BuyerOf[v.payment] = BuyerOf[r.payment], KindOf[v.payment] = KindOf[r.payment]
        PROVE  {v.payment, r.payment} \in together'
    BY <2>1, <2>6 DEF StackInv
  <2> QED BY <2>4, <2>5, <2>6 DEF StackInv
<1> QED BY <1>1, <1>2, <1>3, <1>5, <1>6, <1>7, StepsAre

\* A commit gives what was granted and takes nothing from anybody.
LEMMA CommitGives ==
  ASSUME TypeOK, OneWriter, SeatInv, TermRowsInv, NEW h \in Handlers, Commit(h)
  PROVE  Given' = Given \cup (IF gets[h].entitlement \/ gets[h].terms # {} THEN {doing[h]} ELSE {})
<1> USE CommitStep
<1> DEFINE p == doing[h]
           u == BuyerOf[p]
<1>0. p \in Payments /\ u \in Users /\ None \notin Payments
  BY PaymentsType
<1>1. \A q \in Payments : (\E v \in Users : seats'[v] = q) <=>
        SeatHeld(q) \/ (gets[h].entitlement /\ q = p)
  <2>1. CASE gets[h].entitlement
    <3>1. seats' = [seats EXCEPT ![u] = p] /\ seats[u] = None
      BY <2>1 DEF SeatInv, SeatRow
    <3> QED BY <1>0, <2>1, <3>1 DEF SeatHeld, TypeOK
  <2>2. CASE ~gets[h].entitlement
    BY <2>2 DEF SeatHeld
  <2> QED BY <2>1, <2>2
<1>2. \A q \in Payments : (\E t \in terms' : t.payment = q) <=>
        TermHeld(q) \/ (gets[h].terms # {} /\ q = p)
  BY DEF TermHeld, TermRowsInv
<1> QED BY <1>0, <1>1, <1>2 DEF Given, SeatHeld, TermHeld

LEMMA CreditInvKept ==
  ASSUME TypeOK, OneWriter, OnlyPaid, KindsApart, SeatInv, TermRowsInv, CreditInv, [Next]_vars
  PROVE  CreditInv'
<1>1. CASE Elsewhere
  BY <1>1 DEF Elsewhere, request, CreditInv, Given, NoRebuy
<1>2. ASSUME NEW h \in Handlers, Received(h) PROVE CreditInv'
  <2>1. ~gets[h].granted
    BY <1>2 DEF Received, OneWriter, Nothing
  <2> QED BY <1>2, <2>1 DEF Received, CreditInv, Given, NoRebuy
<1>3. ASSUME NEW h \in Handlers, Dropped(h) PROVE CreditInv'
  <2>1. ~gets'[h].granted /\ \A g \in Handlers \ {h} : gets'[g] = gets[g] /\ doing'[g] = doing[g]
    BY <1>3 DEF Dropped, TypeOK, Nothing
  <2> QED BY <1>3, <2>1 DEF Dropped, CreditInv, Given, NoRebuy
<1>4. ASSUME NEW h \in Handlers, Statement(h),
             NoRebuy /\ gets'[h].granted =>
               gets'[h].entitlement \/ gets'[h].terms # {} \/ doing[h] \in Given
      PROVE  CreditInv'
  BY <1>4 DEF Statement, CreditInv, Given, NoRebuy
<1>5. ASSUME NEW h \in Handlers, UpdatePayment(h) PROVE CreditInv'
  BY <1>4, <1>5, UpdateStatement DEF Nothing
<1>6. ASSUME NEW h \in Handlers, ClaimOfferSeat(h) PROVE CreditInv'
  <2>1. doing[h] \in Payments
    BY <1>6, SeatStatement DEF OneWriter
  <2>2. Statement(h) /\ (gets'[h].granted => doing[h] \in Given)
    BY <1>6, <2>1, SeatStatement DEF Given, SeatHeld
  <2> QED BY <1>4, <2>2
<1>7. ASSUME NEW h \in Handlers, GrantEntitlement(h) PROVE CreditInv'
  <2>1. /\ gets[h].seat /\ doing[h] \in Payments /\ KindOf[doing[h]] = "seat"
        /\ ~SeatHeld(doing[h])
    BY <1>7, EntitlementStatement DEF OneWriter, SeatInv, SeatRow, KindsApart, SeatHeld
  <2>2. NoRebuy => seats[BuyerOf[doing[h]]] = None
    BY <2>1, NoSeatNoRow
  <2> QED BY <1>4, <1>7, <2>2, EntitlementStatement
<1>8. ASSUME NEW h \in Handlers, GrantTerm(h) PROVE CreditInv'
  <2>1. doing[h] \in Payments
    BY <1>8, TermStatement DEF OneWriter
  <2>2. Statement(h) /\ (gets'[h].terms # {} \/ doing[h] \in Given)
    BY <1>8, <2>1, TermStatement DEF Given, TermHeld
  <2> QED BY <1>4, <2>2
<1>9. ASSUME NEW h \in Handlers, Commit(h) PROVE CreditInv'
  <2> USE CommitStep, <1>9
  <2>1. Given' = Given \cup (IF gets[h].entitlement \/ gets[h].terms # {} THEN {doing[h]} ELSE {})
    BY CommitGives
  <2>2. \A p \in Given' : BuyerOf[p] \in Invited => p \in commissions'
    BY <2>1 DEF CreditInv, OnlyPaid, CreditReferral
  <2>3. ASSUME NEW g \in Handlers, NoRebuy, gets'[g].granted
        PROVE  gets'[g].entitlement \/ gets'[g].terms # {} \/ doing'[g] \in Given'
    <3>1. g # h /\ gets'[g] = gets[g] /\ doing'[g] = doing[g]
      BY <2>3 DEF Nothing
    <3> QED BY <2>1, <2>3, <3>1 DEF CreditInv
  <2> QED BY <2>2, <2>3 DEF CreditInv, NoRebuy
<1> QED BY <1>1, <1>2, <1>3, <1>5, <1>6, <1>7, <1>8, <1>9, StepsAre

-----------------------------------------------------------------------------
(* Theorems.                                                               *)

LEMMA InitInvariant == Init => IInv
<1> SUFFICES ASSUME Init PROVE IInv
  OBVIOUS
<1> USE DEF Init
<1>1. TypeOK
  <2>1. status \in [Payments -> {"absent", "pending", "unsettled", "settled"}]
        /\ session \in [Payments -> {"none", "opened", "lost", "offered", "paid", "forwarded"}]
    OBVIOUS
  <2>2. owed \in [Payments -> SUBSET Events]
    BY DEF Events
  <2>3. now \in 0 .. MaxTime /\ crashes \in 0 .. MaxCrashes /\ began \in [Handlers -> 0 .. MaxTime]
    BY NumbersType
  <2>4. gets \in [Handlers -> Writes]
    BY WritesAreTyped
  <2> QED BY <2>1, <2>2, <2>3, <2>4 DEF TypeOK, Stages, Events
<1>2. OneWriter /\ OnlyPaid /\ KindsApart
  BY DEF OneWriter, OnlyPaid, KindsApart, Uncommitted, Nothing
<1>3. SeatInv
  <2>1. {u \in Users : seats[u] # None} = {}
    OBVIOUS
  <2>2. IsFiniteSet({}) /\ Cardinality({}) = 0
    BY FS_EmptySet
  <2>3. SeatRow
    BY DEF SeatRow, Nothing
  <2>4. SeatCount
    BY <2>1, <2>2, NumbersType DEF SeatCount, SeatsRight, SeatsGivenOut, NoOversell
  <2> QED BY <2>3, <2>4 DEF SeatInv
<1>4. TermRowsInv /\ StackInv
  BY DEF TermRowsInv, StackInv, TermsStack, TermsOf, Nothing
<1>5. CreditInv
  BY PaymentsType DEF CreditInv, Given, Nothing
<1> QED BY <1>1, <1>2, <1>3, <1>4, <1>5 DEF IInv

LEMMA Invariance == Spec => []IInv
<1>1. IInv /\ [Next]_vars => IInv'
  <2> SUFFICES ASSUME IInv, [Next]_vars PROVE IInv'
    OBVIOUS
  <2> USE DEF IInv
  <2>1. TypeOK' /\ OneWriter' /\ OnlyPaid' /\ KindsApart'
    BY NextKeepsTypes, OneWriterKept, OnlyPaidKept, KindsApartKept
  <2>2. SeatInv' /\ TermRowsInv'
    BY SeatInvKept, TermRowsKept
  <2>3. StackInv' /\ CreditInv'
    BY StackInvKept, CreditInvKept
  <2> QED BY <2>1, <2>2, <2>3
<1> QED BY <1>1, InitInvariant, PTL DEF Spec

\* Type correctness of settleWebhook's tables and of the requests in progress.
THEOREM TypeCorrect == Spec => []TypeOK
<1>1. IInv => TypeOK
  BY DEF IInv
<1> QED BY <1>1, Invariance, PTL

\* claimOfferSeat and grantEntitlement: however webhooks are repeated, raced or rolled back,
\* no more seats are sold than there are, and, where nobody pays twice for the fixture,
\* exactly those somebody holds.
THEOREM SeatsAreRight == Spec => []SeatsRight
<1>1. IInv => SeatsRight
  BY DEF IInv, SeatInv, SeatCount
<1> QED BY <1>1, Invariance, PTL

\* grantMembership and grantLivePass: two terms of one reader that overlap were each granted
\* before the other was committed; onto what is committed a renewal stacks, through deaths and
\* repeats, and a transaction that was rolled back excuses nothing.
THEOREM TermsAreStacked == Spec => []TermsStack
<1>1. IInv => TermsStack
  BY DEF IInv, StackInv
<1> QED BY <1>1, Invariance, PTL

\* Every step of the rows is a step of the promise or none.
LEMMA StepKeepsPromise ==
  ASSUME NoRebuy, IInv, [Next]_vars
  PROVE  Promise!Next \/ UNCHANGED <<Settled, Given, commissions>>
<1> USE DEF IInv
<1>1. CASE Elsewhere
  <2>1. Settled' = Settled
    BY <1>1 DEF Elsewhere, Settled
  <2> QED BY <1>1, <2>1 DEF Elsewhere, Given
<1>2. ASSUME NEW h \in Handlers, Received(h) \/ Dropped(h) \/ UpdatePayment(h) \/ ClaimOfferSeat(h)
                                 \/ GrantEntitlement(h) \/ GrantTerm(h)
      PROVE  UNCHANGED <<Settled, Given, commissions>>
  <2>1. UNCHANGED <<status, seats, terms, commissions>>
    BY <1>2, UpdateStatement, SeatStatement, EntitlementStatement, TermStatement
       DEF Received, Dropped, Statement
  <2> QED BY <2>1 DEF Settled, Given
<1>3. ASSUME NEW h \in Handlers, Commit(h)
      PROVE  Promise!Next \/ UNCHANGED <<Settled, Given, commissions>>
  <2> USE CommitStep, <1>3
  <2> DEFINE p == doing[h]
             Introduced == {q \in Payments : BuyerOf[q] \in Invited}
  <2>0. p \in Payments
    OBVIOUS
  <2>1. CASE gets[h].entitlement \/ gets[h].terms # {}
    <3>1. gets[h].granted /\ event[h] \in SETTLED /\ status[p] # "absent"
      BY <2>1 DEF OnlyPaid
    <3>2. Settled' = Settled \cup {p}
      BY <3>1 DEF Settled, StatusAfter, TypeOK
    <3>3. p \notin Given
      <4>1. ASSUME NEW u \in Users PROVE seats[u] # p
        BY <2>0, <2>1, PaymentsType DEF SeatInv, SeatRow, KindsApart
      <4>2. ASSUME NEW t \in terms PROVE t.payment # p
        BY <2>1 DEF SeatInv, SeatRow, KindsApart, TermRowsInv
      <4> QED BY <4>1, <4>2 DEF Given
    <3>4. Given' = Given \cup {p}
      BY <2>1, CommitGives
    <3>5. commissions' = commissions \cup ({p} \cap Introduced)
      BY <3>1 DEF CreditReferral
    <3>6. Promise!Give(p)
      BY <3>2, <3>3, <3>4, <3>5 DEF Promise!Give
    <3> QED BY <2>0, <3>6 DEF Promise!Next
  <2>2. CASE ~(gets[h].entitlement \/ gets[h].terms # {})
    <3>1. Given' = Given
      BY <2>2, CommitGives
    <3>2. commissions' = commissions
      BY <2>0, <2>2 DEF CreditInv, CreditReferral
    <3>3. Settled' = Settled \/ Settled' = Settled \cup {p}
      BY SMTT(20) DEF Settled, StatusAfter, TypeOK
    <3>4. CASE Settled' = Settled \cup {p}
      <4>1. Promise!Take(p)
        BY <3>1, <3>2, <3>4 DEF Promise!Take
      <4> QED BY <2>0, <4>1 DEF Promise!Next
    <3> QED BY <3>1, <3>2, <3>3, <3>4
  <2> QED BY <2>1, <2>2
<1> QED BY <1>1, <1>2, <1>3, StepsAre

\* settleWebhook and creditReferral together: money that arrived buys its thing at most once,
\* and the commission is earned in the very step that gives, provided that nobody pays twice
\* for the same fixture (a second payment for a seat is granted without a row of its own).
THEOREM Refinement == NoRebuy => (Spec => ImplementsPaidOnce)
<1> SUFFICES ASSUME NoRebuy PROVE Spec => ImplementsPaidOnce
  OBVIOUS
<1>1. Init => Promise!Init
  BY PaymentsType DEF Init, Promise!Init, Settled, Given
<1>2. IInv /\ [Next]_vars => [Promise!Next]_(Promise!vars)
  BY StepKeepsPromise DEF Promise!vars
<1>3. Spec => Promise!Spec
  BY <1>1, <1>2, Invariance, PTL DEF Spec, Promise!Spec
<1> QED BY <1>3 DEF ImplementsPaidOnce
-----------------------------------------------------------------------------
(* The codes and the invites: Credits.                                     *)

\* Its Cardinality and IsFiniteSet, instanced, are those the theorems are about.
LEMMA SameCount ==
  ASSUME NEW S
  PROVE  C!Cardinality(S) = Cardinality(S) /\ (C!IsFiniteSet(S) <=> IsFiniteSet(S))
BY DEF C!Cardinality, Cardinality, C!IsFiniteSet, IsFiniteSet

\* A request that has taken an invite and is about its two grants.
Sides == {"invitee", "inviter"}

Of(t, side, i) == t.ref = <<side, i>>

\* What a request has in hand, by the way it came and how far it got.
InHand == \A r \in Requests :
  LET its == job[r] IN
  /\ step[r] \in {"redeeming", "granting"} =>
       its.user \in Users /\ its.of \in Codes /\ its.table = C!TableOf(its.of)
       /\ C!Usable(its.table)
  /\ step[r] = "granting" => <<its.of, its.user>> \in redeemed
  /\ step[r] \in {"revoking", "accepting"} \cup Sides => its.user \in Users /\ its.of \in Invites
  /\ step[r] \in Sides => /\ its.table \in {"live", "premium"}
                          /\ invite[its.of].usedBy = its.user /\ invite[its.of].inviter # None

\* What days are for, and what is owed in days.
EarnedInv ==
  /\ \A t \in given, c \in Codes : Of(t, "code", c) =>
       <<c, t.user>> \in redeemed /\ t.table = C!TableOf(c)
  /\ \A t \in given, i \in Invites :
       /\ Of(t, "invitee", i) => invite[i].usedBy = t.user
       /\ Of(t, "inviter", i) => invite[i].inviter = t.user /\ invite[i].usedBy # None
  /\ \A i \in Invites : invite[i].usedBy # None => invite[i].inviter # None
  /\ \A l \in lost, c \in Codes : Of(l, "code", c) => <<c, l.user>> \in redeemed
  /\ \A t, s \in given : t.user = s.user /\ t.ref = s.ref => t = s

\* One request is about an invite's grants, and those are not made yet.
SidesInv ==
  /\ \A r \in Requests, t \in given :
       /\ step[r] = "invitee" => ~Of(t, "invitee", job[r].of)
       /\ step[r] \in Sides => ~Of(t, "inviter", job[r].of)
  /\ \A r, q \in Requests : step[r] \in Sides /\ step[q] \in Sides /\ job[r].of = job[q].of
                            => r = q

\* An invite that was used keeps its place.
QuotaInv == \A u \in Users : quota[u] <= most[u] /\ Cardinality(C!Held(u)) <= most[u]

CreditsInv == C!TypeOK /\ InHand /\ EarnedInv /\ SidesInv /\ QuotaInv /\ C!SpentIsGranted
              /\ C!BothSidesGranted

-----------------------------------------------------------------------------
(* What a step may do.                                                     *)

CreditStages == {"idle", "redeeming", "granting", "revoking", "accepting", "invitee", "inviter"}
Jobs == [user : Users \cup {None}, of : Codes \cup Invites \cup {None},
         table : {"live", "premium", None}]

Asks(r) == \E u \in Users :
  \/ \E c \in Codes : C!RedeemCode(r, u, c)
  \/ \E i \in Invites : C!ReadInvite(r, u, i) \/ C!AcceptInvite(r, u, i)
Acts(r) ==
  \/ Asks(r) \/ C!Redeem(r) \/ C!Grant(r) \/ C!GrantFails(r)
  \/ C!RevokeInvite(r) \/ C!RedeemInvite(r) \/ C!GrantSide(r) \/ C!SideFails(r)
Apart ==
  \/ \E c \in Codes : C!Mint(c) \/ C!RevokeCode(c)
  \/ \E l \in lost : C!GrantByHand(l)
  \/ \E u \in Users, i \in Invites : C!CreateInvite(u, i)
  \/ \E u \in Users, n \in Quotas : C!SetQuota(u, n)
  \/ \E i \in Invites : C!ExpireInvite(i)
  \/ UNCHANGED C!vars

LEMMA CreditStepsAre ==
  ASSUME [C!Next]_(C!vars)
  PROVE Apart \/ C!Deploy \/ \E r \in Requests : Acts(r)
BY DEF C!Next, Apart, Asks, Acts

LEMMA GotoIs ==
  ASSUME C!TypeOK, NEW r \in Requests, NEW at \in CreditStages, NEW j \in Jobs, C!Goto(r, at, j)
  PROVE  /\ step' \in [Requests -> CreditStages] /\ job' \in [Requests -> Jobs]
         /\ step'[r] = at /\ job'[r] = j
         /\ \A q \in Requests \ {r} : step'[q] = step[q] /\ job'[q] = job[q]
BY DEF C!TypeOK, C!Goto, CreditStages, Jobs

LEMMA NoJobIs == C!NoJob \in Jobs
BY DEF C!NoJob, Jobs

LEMMA TableIs == \A c : C!TableOf(c) \in {"live", "premium"}
BY DEF C!TableOf

\* A request that acts changes nothing of another.
LEMMA ActsIs ==
  ASSUME C!TypeOK, InHand, NEW r \in Requests, Acts(r)
  PROVE  /\ step' \in [Requests -> CreditStages] /\ job' \in [Requests -> Jobs]
         /\ \A q \in Requests \ {r} : step'[q] = step[q] /\ job'[q] = job[q]
         /\ live' = live /\ code' = code /\ quota' = quota /\ most' = most
<1> DEFINE Good == /\ step' \in [Requests -> CreditStages] /\ job' \in [Requests -> Jobs]
                   /\ \A q \in Requests \ {r} : step'[q] = step[q] /\ job'[q] = job[q]
<1>0. job \in [Requests -> Jobs] /\ step \in [Requests -> CreditStages]
  BY DEF C!TypeOK, Jobs, CreditStages
<1>1. ASSUME NEW at \in CreditStages, NEW j \in Jobs, C!Goto(r, at, j) PROVE Good
  BY <1>1, GotoIs
<1>2. ASSUME C!End(r) PROVE Good
  BY <1>1, <1>2, NoJobIs DEF C!End, CreditStages
<1>3. ASSUME UNCHANGED C!requests PROVE Good
  BY <1>0, <1>3 DEF C!requests
<1>4. ASSUME Asks(r) PROVE Good
  <2>1. PICK u \in Users : \/ \E c \in Codes : C!RedeemCode(r, u, c)
                           \/ \E i \in Invites : C!ReadInvite(r, u, i) \/ C!AcceptInvite(r, u, i)
    BY <1>4 DEF Asks
  <2>2. ASSUME NEW c \in Codes, C!RedeemCode(r, u, c) PROVE Good
    <3>1. [user |-> u, of |-> c, table |-> C!TableOf(c)] \in Jobs
      BY TableIs DEF Jobs
    <3> QED
      BY <1>1, <1>3, <2>2, <3>1 DEF C!RedeemCode, CreditStages
  <2>3. ASSUME NEW i \in Invites, C!ReadInvite(r, u, i) \/ C!AcceptInvite(r, u, i) PROVE Good
    <3>1. [C!NoJob EXCEPT !.user = u, !.of = i] \in Jobs
      BY DEF Jobs, C!NoJob
    <3> QED
      BY <1>1, <2>3, <3>1 DEF C!ReadInvite, C!AcceptInvite, CreditStages
  <2> QED
    BY <2>1, <2>2, <2>3
<1>5. ASSUME C!Redeem(r) PROVE Good
  BY <1>0, <1>1, <1>2, <1>5 DEF C!Redeem, CreditStages
<1>6. ASSUME C!RedeemInvite(r) PROVE Good
  <2>1. [job[r] EXCEPT !.table = IF live THEN "live" ELSE "premium"] \in Jobs
    <3>1. job[r] \in Jobs
      BY <1>0
    <3> QED
      BY <3>1 DEF Jobs
  <2> QED
    BY <1>1, <1>2, <1>6, <2>1 DEF C!RedeemInvite, CreditStages
<1>7. ASSUME C!GrantSide(r) \/ C!SideFails(r) PROVE Good
  <2>1. C!AfterSide(r)
    BY <1>7 DEF C!GrantSide, C!SideFails
  <2> QED
    BY <1>0, <1>1, <1>2, <2>1 DEF C!AfterSide, CreditStages
<1>8. Good
  BY <1>2, <1>4, <1>5, <1>6, <1>7 DEF Acts, C!Grant, C!GrantFails, C!RevokeInvite
<1>9. live' = live /\ code' = code /\ quota' = quota /\ most' = most
  BY DEF Acts, Asks, C!RedeemCode, C!ReadInvite, C!AcceptInvite, C!Redeem, C!Grant,
      C!GrantFails,
         C!RevokeInvite, C!RedeemInvite, C!GrantSide, C!SideFails, C!packages
<1> QED
  BY <1>8, <1>9

LEMMA ApartIs ==
  ASSUME Apart
  PROVE  /\ UNCHANGED <<C!requests, live, redeemed, lost, new>>
         /\ given' = given \/ \E l \in lost : C!GrantByHand(l)
BY DEF Apart, C!Mint, C!RevokeCode, C!GrantByHand, C!CreateInvite, C!SetQuota, C!ExpireInvite,
    C!vars, C!packages

\* How an invite changes: it is made, withdrawn, used or over.
InviteMoves(i) ==
  \/ invite'[i] = invite[i]
  \/ /\ invite[i] = C!NoInvite
     /\ \E u \in Users : Cardinality(C!Held(u)) < quota[u] /\ UNCHANGED <<quota, most>>
                         /\ invite'[i] = [C!NoInvite EXCEPT !.inviter = u]
  \/ invite'[i] = [invite[i] EXCEPT !.revoked = TRUE]
  \/ invite'[i] = [invite[i] EXCEPT !.expired = TRUE]
  \/ /\ invite[i].usedBy = None /\ ~invite[i].revoked
     /\ \E u \in Users : /\ invite[i].inviter \notin {None, u}
                         /\ invite'[i] = [invite[i] EXCEPT !.usedBy = u]

Invitations == [inviter : Users \cup {None}, usedBy : Users \cup {None},
                revoked : BOOLEAN, expired : BOOLEAN]

\* One invite at a time.
LEMMA InvitesMove ==
  ASSUME C!TypeOK, InHand, [C!Next]_(C!vars)
  PROVE  /\ invite' \in [Invites -> Invitations]
         /\ \A i \in Invites : InviteMoves(i)
         /\ invite' = invite \/ \E i \in Invites : \A k \in Invites \ {i} : invite'[k] = invite[k]
<1> DEFINE Good == /\ invite' \in [Invites -> Invitations]
                   /\ \A i \in Invites : InviteMoves(i)
                   /\ invite' = invite
                      \/ \E i \in Invites : \A k \in Invites \ {i} : invite'[k] = invite[k]
<1>0. invite \in [Invites -> Invitations]
  BY DEF C!TypeOK, Invitations
<1>1. ASSUME invite' = invite PROVE Good
  BY <1>0, <1>1 DEF InviteMoves
<1>2. ASSUME NEW i \in Invites, NEW n \in Invitations, invite' = [invite EXCEPT ![i] = n],
             InviteMoves(i)
      PROVE  Good
  BY <1>0, <1>2 DEF InviteMoves
<1>3. ASSUME NEW u \in Users, NEW i \in Invites, C!CreateInvite(u, i) PROVE Good
  <2> DEFINE n == [C!NoInvite EXCEPT !.inviter = u]
  <2>1. n \in Invitations
    BY DEF Invitations, C!NoInvite
  <2>2. invite[i] = C!NoInvite /\ invite' = [invite EXCEPT ![i] = n]
        /\ Cardinality(C!Held(u)) < quota[u] /\ UNCHANGED <<quota, most>>
    BY <1>3, SameCount DEF C!CreateInvite
  <2>3. InviteMoves(i)
    BY <1>0, <2>2 DEF InviteMoves
  <2> HIDE DEF n
  <2> QED
    BY <1>2, <2>1, <2>2, <2>3
<1>4. ASSUME NEW i \in Invites, C!ExpireInvite(i) PROVE Good
  <2> DEFINE n == [invite[i] EXCEPT !.expired = TRUE]
  <2>1. n \in Invitations
    BY <1>0 DEF Invitations
  <2>2. invite' = [invite EXCEPT ![i] = n]
    BY <1>4 DEF C!ExpireInvite
  <2>3. InviteMoves(i)
    BY <1>0, <2>2 DEF InviteMoves
  <2> HIDE DEF n
  <2> QED
    BY <1>2, <2>1, <2>2, <2>3
<1>5. ASSUME NEW r \in Requests, C!RevokeInvite(r) PROVE Good
  <2>0. PICK i \in Invites : i = job[r].of
    BY <1>5 DEF InHand, C!RevokeInvite
  <2> DEFINE n == [invite[i] EXCEPT !.revoked = TRUE]
  <2>1. n \in Invitations
    BY <1>0 DEF Invitations
  <2>2. invite' = [invite EXCEPT ![i] = n]
    BY <1>5, <2>0 DEF C!RevokeInvite
  <2>3. InviteMoves(i)
    BY <1>0, <2>2 DEF InviteMoves
  <2> HIDE DEF n
  <2> QED
    BY <1>2, <2>1, <2>2, <2>3
<1>6. ASSUME NEW r \in Requests, C!RedeemInvite(r) PROVE Good
  <2>0. PICK i \in Invites, u \in Users : i = job[r].of /\ u = job[r].user
    BY <1>6 DEF InHand, C!RedeemInvite
  <2> DEFINE n == [invite[i] EXCEPT !.usedBy = u]
  <2>1. n \in Invitations
    BY <1>0 DEF Invitations
  <2>2. \/ invite' = invite
        \/ /\ invite' = [invite EXCEPT ![i] = n] /\ invite[i].usedBy = None /\ ~invite[i].revoked
           /\ invite[i].inviter \notin {None, u}
    BY <1>6, <2>0 DEF C!RedeemInvite
  <2>3. invite' # invite => InviteMoves(i)
    BY <1>0, <2>2 DEF InviteMoves
  <2> HIDE DEF n
  <2> QED
    BY <1>1, <1>2, <2>1, <2>2, <2>3
<1>7. \/ invite' = invite
      \/ \E u \in Users, i \in Invites : C!CreateInvite(u, i)
      \/ \E i \in Invites : C!ExpireInvite(i)
      \/ \E r \in Requests : C!RevokeInvite(r) \/ C!RedeemInvite(r)
  BY CreditStepsAre DEF Acts, Asks, Apart, C!Mint, C!RevokeCode, C!RedeemCode, C!Redeem,
      C!Grant, C!GrantFails,
    C!GrantByHand, C!ReadInvite, C!AcceptInvite, C!GrantSide, C!SideFails, C!SetQuota, C!Deploy,
    C!vars, C!packages
<1> QED
  BY <1>1, <1>3, <1>4, <1>5, <1>6, <1>7

\* Who invited and who was invited stay, and what was spent, granted or lost is not taken back.
LEMMA OnlyGrows ==
  ASSUME C!TypeOK, InHand, [C!Next]_(C!vars)
  PROVE  /\ redeemed \subseteq redeemed' /\ given \subseteq given' /\ lost \subseteq lost'
         /\ \A i \in Invites : /\ invite[i].inviter # None
                                  => invite'[i].inviter = invite[i].inviter
                               /\ invite[i].usedBy # None => invite'[i].usedBy = invite[i].usedBy
<1>1. redeemed \subseteq redeemed' /\ given \subseteq given' /\ lost \subseteq lost'
  BY CreditStepsAre DEF Acts, Asks, Apart, C!Mint, C!RevokeCode, C!RedeemCode, C!Redeem,
      C!Grant, C!GrantFails,
    C!GrantByHand, C!CreateInvite, C!ReadInvite, C!RevokeInvite, C!ExpireInvite, C!AcceptInvite,
    C!RedeemInvite, C!GrantSide, C!SideFails, C!SetQuota, C!Deploy, C!Granted, C!vars, C!packages
<1>2. invite \in [Invites -> Invitations]
  BY DEF C!TypeOK, Invitations
<1>3. ASSUME NEW i \in Invites
      PROVE  /\ invite[i].inviter # None => invite'[i].inviter = invite[i].inviter
             /\ invite[i].usedBy # None => invite'[i].usedBy = invite[i].usedBy
  <2>1. invite[i] \in Invitations /\ InviteMoves(i)
    BY <1>2, InvitesMove
  <2>2. /\ invite[i] = C!NoInvite => invite[i].inviter = None /\ invite[i].usedBy = None
        /\ \A u : /\ [invite[i] EXCEPT !.usedBy = u].inviter = invite[i].inviter
                  /\ [invite[i] EXCEPT !.revoked = u].inviter = invite[i].inviter
                  /\ [invite[i] EXCEPT !.expired = u].inviter = invite[i].inviter
                  /\ [invite[i] EXCEPT !.revoked = u].usedBy = invite[i].usedBy
                  /\ [invite[i] EXCEPT !.expired = u].usedBy = invite[i].usedBy
    BY <2>1 DEF Invitations, C!NoInvite
  <2> QED
    BY <2>1, <2>2 DEF InviteMoves
<1> QED
  BY <1>1, <1>3

-----------------------------------------------------------------------------
(* Types, and what a request has in hand.                                  *)

\* What a request is about to grant, or loses, is a reader's and for a reason.
LEMMA SideTyped ==
  ASSUME C!TypeOK, InHand, NEW r \in Requests, step[r] \in Sides
  PROVE  C!SideOf(r) \in Users /\ <<step[r], job[r].of>> \in C!Refs
         /\ job[r].table \in {"live", "premium"}
<1>1. job[r].of \in Invites /\ job[r].user \in Users /\ job[r].table \in {"live", "premium"}
      /\ invite[job[r].of].inviter # None
  BY DEF InHand
<1>2. invite \in [Invites -> Invitations]
  BY DEF C!TypeOK, Invitations
<1>3. invite[job[r].of].inviter \in Users
  BY <1>1, <1>2 DEF Invitations
<1> QED
  BY <1>1, <1>3 DEF C!SideOf, Sides, C!Refs

LEMMA CodeTyped ==
  ASSUME C!TypeOK, InHand, NEW r \in Requests, step[r] = "granting"
  PROVE  /\ job[r].user \in Users /\ job[r].of \in Codes /\ job[r].table = C!TableOf(job[r].of)
         /\ <<"code", job[r].of>> \in C!Refs /\ <<job[r].of, job[r].user>> \in redeemed
BY DEF InHand, C!Refs

LEMMA CodeLossTyped ==
  ASSUME C!TypeOK, InHand, NEW r \in Requests, step[r] = "granting"
  PROVE  [user |-> job[r].user, ref |-> <<"code", job[r].of>>] \in [user : Users, ref : C!Refs]
<1>1. job[r].user \in Users /\ <<"code", job[r].of>> \in C!Refs
  BY CodeTyped
<1> QED
  BY <1>1

LEMMA OwedTyped ==
  ASSUME C!TypeOK, InHand, NEW r \in Requests
  PROVE  C!Owed(r) \subseteq [user : Users, ref : C!Refs]
<1>1. CASE step[r] = "granting"
  <2>1. C!Owed(r) = {[user |-> job[r].user, ref |-> <<"code", job[r].of>>]}
    BY <1>1 DEF C!Owed
  <2> QED
    BY <1>1, <2>1, CodeLossTyped
<1>2. CASE step[r] \in Sides
  <2>1. /\ job[r].of \in Invites /\ job[r].user \in Users
        /\ invite[job[r].of].inviter \in Users
    <3>1. invite \in [Invites -> Invitations]
      BY DEF C!TypeOK, Invitations
    <3> QED
      BY <1>2, <3>1 DEF InHand, Invitations
  <2>2. <<"invitee", job[r].of>> \in C!Refs /\ <<"inviter", job[r].of>> \in C!Refs
    BY <2>1 DEF C!Refs
  <2> QED
    BY <1>2, <2>1, <2>2 DEF C!Owed, Sides
<1>3. CASE step[r] \notin Sides \cup {"granting"}
  BY <1>3 DEF C!Owed, Sides
<1> QED
  BY <1>1, <1>2, <1>3

LEMMA CreditTypesKept ==
  ASSUME C!ConstantsType, C!TypeOK, InHand, [C!Next]_(C!vars)
  PROVE  C!TypeOK'
<1> DEFINE Terms == [user : Users, table : {"live", "premium"}, ref : C!Refs]
           Losses == [user : Users, ref : C!Refs]
<1>1. step' \in [Requests -> CreditStages] /\ job' \in [Requests -> Jobs]
  <2>1. step \in [Requests -> CreditStages] /\ job \in [Requests -> Jobs]
    BY DEF C!TypeOK, CreditStages, Jobs
  <2>2. CASE Apart
    BY <2>1, <2>2, ApartIs DEF C!requests
  <2>3. CASE C!Deploy
    BY <2>3, NoJobIs DEF C!Deploy, CreditStages
  <2> QED
    BY <2>2, <2>3, ActsIs, CreditStepsAre
<1>2. invite' \in [Invites -> Invitations]
  BY InvitesMove
<1>3. live' \in BOOLEAN /\ new' \subseteq Users
      /\ code' \in [Codes -> {"none", "open", "expired", "revoked"}]
  <2>1. live \in BOOLEAN /\ new \subseteq Users
        /\ code \in [Codes -> {"none", "open", "expired", "revoked"}]
    BY DEF C!TypeOK
  <2> QED
    BY <2>1, CreditStepsAre DEF Acts, Asks, Apart, C!Mint, C!RevokeCode, C!RedeemCode, C!Redeem,
        C!Grant,
      C!GrantFails, C!GrantByHand, C!CreateInvite, C!ReadInvite, C!RevokeInvite, C!ExpireInvite,
      C!AcceptInvite, C!RedeemInvite, C!GrantSide, C!SideFails, C!SetQuota, C!Deploy, C!vars,
      C!packages
<1>4. quota' \in [Users -> Quotas] /\ most' \in [Users -> Quotas]
  <2>1. quota \in [Users -> Quotas] /\ most \in [Users -> Quotas]
    BY DEF C!TypeOK
  <2> QED
    BY <2>1, CreditStepsAre DEF Acts, Asks, Apart, C!Mint, C!RevokeCode, C!RedeemCode, C!Redeem,
        C!Grant,
      C!GrantFails, C!GrantByHand, C!CreateInvite, C!ReadInvite, C!RevokeInvite, C!ExpireInvite,
      C!AcceptInvite, C!RedeemInvite, C!GrantSide, C!SideFails, C!SetQuota, C!Deploy, C!vars,
      C!packages
<1>5. redeemed' \subseteq Codes \X Users
  <2>1. redeemed \subseteq Codes \X Users
    BY DEF C!TypeOK
  <2>2. ASSUME NEW r \in Requests, C!Redeem(r) PROVE redeemed' \subseteq Codes \X Users
    BY <2>1, <2>2 DEF C!Redeem, InHand
  <2>3. redeemed' = redeemed \/ \E r \in Requests : C!Redeem(r)
    BY CreditStepsAre, ApartIs DEF Acts, Asks, C!RedeemCode, C!Grant, C!GrantFails,
        C!ReadInvite, C!RevokeInvite,
      C!AcceptInvite, C!RedeemInvite, C!GrantSide, C!SideFails, C!Deploy, C!packages
  <2> QED
    BY <2>1, <2>2, <2>3
<1>6. given' \subseteq Terms
  <2>1. given \subseteq Terms
    BY DEF C!TypeOK
  <2>2. ASSUME NEW r \in Requests, C!Grant(r) PROVE given' \subseteq Terms
    <3>1. /\ job[r].user \in Users /\ job[r].table \in {"live", "premium"}
          /\ <<"code", job[r].of>> \in C!Refs
      BY <2>2, CodeTyped, TableIs DEF C!Grant
    <3> QED
      BY <2>1, <2>2, <3>1 DEF C!Grant, C!Granted
  <2>3. ASSUME NEW r \in Requests, C!GrantSide(r) PROVE given' \subseteq Terms
    <3>1. C!SideOf(r) \in Users /\ job[r].table \in {"live", "premium"}
          /\ <<step[r], job[r].of>> \in C!Refs
      BY <2>3, SideTyped DEF C!GrantSide, Sides
    <3> QED
      BY <2>1, <2>3, <3>1 DEF C!GrantSide, C!Granted
  <2>4. ASSUME NEW l \in lost, C!GrantByHand(l) PROVE given' \subseteq Terms
    <3>1. l \in Losses
      BY DEF C!TypeOK
    <3>2. C!TableOf(l.ref[2]) \in {"live", "premium"} /\ l.user \in Users /\ l.ref \in C!Refs
      BY <3>1, TableIs
    <3> QED
      BY <2>1, <2>4, <3>2 DEF C!GrantByHand, C!Granted
  <2>5. \/ given' = given
        \/ \E r \in Requests : C!Grant(r) \/ C!GrantSide(r)
        \/ \E l \in lost : C!GrantByHand(l)
    BY CreditStepsAre, ApartIs DEF Acts, Asks, C!RedeemCode, C!Redeem, C!GrantFails,
        C!ReadInvite, C!RevokeInvite,
      C!AcceptInvite, C!RedeemInvite, C!SideFails, C!Deploy, C!packages
  <2> QED
    BY <2>1, <2>2, <2>3, <2>4, <2>5
<1>7. lost' \subseteq Losses
  <2>1. lost \subseteq Losses
    BY DEF C!TypeOK
  <2>2. ASSUME NEW r \in Requests, C!GrantFails(r) PROVE lost' \subseteq Losses
    BY <2>1, <2>2, CodeLossTyped DEF C!GrantFails
  <2>3. ASSUME NEW r \in Requests, C!SideFails(r) PROVE lost' \subseteq Losses
    BY <2>1, <2>3, SideTyped DEF C!SideFails, Sides
  <2>4. ASSUME C!Deploy PROVE lost' \subseteq Losses
    BY <2>1, <2>4, OwedTyped DEF C!Deploy
  <2>5. lost' = lost \/ C!Deploy \/ \E r \in Requests : C!GrantFails(r) \/ C!SideFails(r)
    BY CreditStepsAre, ApartIs DEF Acts, Asks, C!RedeemCode, C!Redeem, C!Grant, C!ReadInvite,
        C!RevokeInvite,
      C!AcceptInvite, C!RedeemInvite, C!GrantSide, C!packages
  <2> QED
    BY <2>1, <2>2, <2>3, <2>4, <2>5
<1>8. faults' \in 0 .. MaxFaults
  <2>1. faults \in 0 .. MaxFaults /\ MaxFaults \in Nat
    BY DEF C!TypeOK, C!ConstantsType
  <2>2. faults' = faults \/ (faults < MaxFaults /\ faults' = faults + 1)
    BY CreditStepsAre DEF Acts, Asks, Apart, C!Mint, C!RevokeCode, C!RedeemCode, C!Redeem,
        C!Grant,
      C!GrantFails, C!GrantByHand, C!CreateInvite, C!ReadInvite, C!RevokeInvite, C!ExpireInvite,
      C!AcceptInvite, C!RedeemInvite, C!GrantSide, C!SideFails, C!SetQuota, C!Deploy, C!Fault,
      C!vars
  <2> QED
    BY <2>1, <2>2
<1> QED
  BY <1>1, <1>2, <1>3, <1>4, <1>5, <1>6, <1>7, <1>8 DEF C!TypeOK, CreditStages, Jobs,
      Invitations

LEMMA InHandKept ==
  ASSUME C!ConstantsType, C!TypeOK, InHand, [C!Next]_(C!vars)
  PROVE  InHand'
<1> DEFINE Right(r) ==
      LET its == job[r] IN
      /\ step[r] \in {"redeeming", "granting"} =>
           its.user \in Users /\ its.of \in Codes /\ its.table = C!TableOf(its.of)
           /\ C!Usable(its.table)
      /\ step[r] = "granting" => <<its.of, its.user>> \in redeemed
      /\ step[r] \in {"revoking", "accepting"} \cup Sides => its.user \in Users
         /\ its.of \in Invites
      /\ step[r] \in Sides => /\ its.table \in {"live", "premium"}
                              /\ invite[its.of].usedBy = its.user /\ invite[its.of].inviter # None
<1>0. step \in [Requests -> CreditStages] /\ job \in [Requests -> Jobs]
      /\ \A r \in Requests : Right(r)
  BY DEF C!TypeOK, CreditStages, Jobs, InHand
<1>1. ASSUME NEW r \in Requests, step'[r] = step[r], job'[r] = job[r], live' = live
      PROVE Right(r)'
  <2>1. Right(r)
    BY <1>0
  <2>2. \A t : C!Usable(t)' = C!Usable(t)
    BY <1>1 DEF C!Usable
  <2>3. step[r] \in Sides => /\ job[r].of \in Invites /\ job[r].user \in Users
                             /\ invite[job[r].of].usedBy # None
    BY <2>1 DEF C!ConstantsType
  <2> QED
    BY <1>1, <2>1, <2>2, <2>3, OnlyGrows
<1>2. ASSUME NEW r \in Requests, Asks(r) PROVE Right(r)'
  <2>0. PICK u \in Users : \/ \E c \in Codes : C!RedeemCode(r, u, c)
                           \/ \E i \in Invites : C!ReadInvite(r, u, i) \/ C!AcceptInvite(r, u, i)
    BY <1>2 DEF Asks
  <2>1. ASSUME NEW c \in Codes, C!RedeemCode(r, u, c) PROVE Right(r)'
    <3>1. CASE UNCHANGED C!requests
      BY <1>1, <2>1, <3>1 DEF C!RedeemCode, C!requests
    <3>2. CASE C!Usable(C!TableOf(c))
               /\ C!Goto(r, "redeeming", [user |-> u, of |-> c, table |-> C!TableOf(c)])
      <4>1. step'[r] = "redeeming" /\ job'[r] = [user |-> u, of |-> c, table |-> C!TableOf(c)]
        BY <1>0, <3>2 DEF C!Goto
      <4>2. C!Usable(C!TableOf(c))'
        BY <2>1, <3>2 DEF C!RedeemCode, C!Usable
      <4> QED
        BY <4>1, <4>2 DEF Sides
    <3> QED
      BY <2>1, <3>1, <3>2 DEF C!RedeemCode
  <2>2. ASSUME NEW i \in Invites, C!ReadInvite(r, u, i) \/ C!AcceptInvite(r, u, i) PROVE Right(r)'
    <3>1. step'[r] \in {"revoking", "accepting"} /\ job'[r].user = u /\ job'[r].of = i
      BY <1>0, <2>2 DEF C!ReadInvite, C!AcceptInvite, C!Goto, C!NoJob
    <3> QED
      BY <3>1 DEF Sides
  <2> QED
    BY <2>0, <2>1, <2>2
<1>3. ASSUME NEW r \in Requests, step'[r] = "idle" PROVE Right(r)'
  BY <1>3 DEF Sides
<1>4. ASSUME NEW r \in Requests, C!End(r) PROVE Right(r)'
  BY <1>0, <1>3, <1>4 DEF C!End, C!Goto
<1>5. ASSUME NEW r \in Requests, C!Redeem(r) PROVE Right(r)'
  <2>1. CASE C!End(r)
    BY <1>4, <2>1
  <2>2. CASE redeemed' = redeemed \cup {<<job[r].of, job[r].user>>}
             /\ C!Goto(r, "granting", job[r])
    <3>1. step'[r] = "granting" /\ job'[r] = job[r] /\ step[r] = "redeeming" /\ live' = live
      BY <1>0, <1>5, <2>2 DEF C!Goto, C!Redeem
    <3>2. Right(r) /\ \A t : C!Usable(t)' = C!Usable(t)
      BY <1>0, <3>1 DEF C!Usable
    <3> QED
      BY <2>2, <3>1, <3>2 DEF Sides
  <2> QED
    BY <1>5, <2>1, <2>2 DEF C!Redeem
<1>6. ASSUME NEW r \in Requests, C!RedeemInvite(r) PROVE Right(r)'
  <2>0. PICK i \in Invites, u \in Users : i = job[r].of /\ u = job[r].user
    BY <1>6 DEF C!RedeemInvite, InHand
  <2>1. CASE C!End(r)
    BY <1>4, <2>1
  <2>2. CASE /\ invite[i].inviter \notin {None, u}
             /\ invite' = [invite EXCEPT ![i].usedBy = u]
             /\ C!Goto(r, "invitee", [job[r] EXCEPT !.table = IF live THEN "live" ELSE "premium"])
    <3>1. job[r] \in Jobs /\ invite[i] \in Invitations /\ invite \in [Invites -> Invitations]
      BY <1>0 DEF C!TypeOK, Invitations
    <3>2. /\ step'[r] = "invitee" /\ job'[r].table \in {"live", "premium"}
          /\ job'[r].user = u /\ job'[r].of = i
      BY <1>0, <2>0, <2>2, <3>1 DEF C!Goto, Jobs
    <3>3. invite'[i].usedBy = u /\ invite'[i].inviter = invite[i].inviter
      BY <2>2, <3>1 DEF Invitations
    <3> QED
      BY <2>2, <3>2, <3>3 DEF Sides
  <2> QED
    BY <1>6, <2>0, <2>1, <2>2 DEF C!RedeemInvite
<1>7. ASSUME NEW r \in Requests, C!GrantSide(r) \/ C!SideFails(r) PROVE Right(r)'
  <2>1. CASE C!End(r)
    BY <1>4, <2>1
  <2>2. CASE step[r] = "invitee" /\ C!Goto(r, "inviter", job[r])
    <3>1. step'[r] = "inviter" /\ job'[r] = job[r] /\ invite' = invite
      BY <1>0, <1>7, <2>2 DEF C!Goto, C!GrantSide, C!SideFails, C!packages
    <3> QED
      BY <1>0, <2>2, <3>1 DEF Sides
  <2> QED
    BY <1>7, <2>1, <2>2 DEF C!GrantSide, C!SideFails, C!AfterSide
<1>8. ASSUME NEW r \in Requests, Acts(r), NEW q \in Requests PROVE Right(q)'
  <2>1. Right(r)'
    BY <1>2, <1>4, <1>5, <1>6, <1>7, <1>8 DEF Acts, C!Grant, C!GrantFails, C!RevokeInvite
  <2> QED
    BY <1>1, <1>8, <2>1, ActsIs
<1>9. ASSUME NEW q \in Requests, Apart \/ C!Deploy PROVE Right(q)'
  BY <1>1, <1>3, <1>9, ApartIs DEF C!Deploy, C!requests
<1>10. \A q \in Requests : Right(q)'
  BY <1>8, <1>9, CreditStepsAre
<1> QED
  BY <1>10 DEF InHand

-----------------------------------------------------------------------------
(* What was spent is granted, or owed.                                     *)

LEMMA SideOfIs ==
  ASSUME NEW r \in Requests, step[r] \in Sides
  PROVE  C!Owed(r) = IF step[r] = "invitee"
                   THEN {[user |-> C!SideOf(r), ref |-> <<step[r], job[r].of>>],
                         [user |-> invite[job[r].of].inviter, ref |-> <<"inviter", job[r].of>>]}
                   ELSE {[user |-> C!SideOf(r), ref |-> <<step[r], job[r].of>>]}
BY DEF C!Owed, C!SideOf, Sides

LEMMA HasGranted ==
  ASSUME NEW user, NEW table, NEW ref, given' = C!Granted(user, table, ref)
  PROVE  C!Has(user, ref)'
<1>1. [user |-> user, table |-> table, ref |-> ref] \in given'
  BY DEF C!Granted
<1> QED
  BY <1>1 DEF C!Has

\* What a request owes it goes on to grant, unless it fails or dies.
LEMMA OwedGoes ==
  ASSUME C!ConstantsType, C!TypeOK, InHand, [C!Next]_(C!vars), NEW r \in Requests,
         NEW d \in C!Owed(r)
  PROVE  d \in C!Owed(r)' \/ d \in lost' \/ C!Has(d.user, d.ref)'
<1> DEFINE Good == d \in C!Owed(r)' \/ d \in lost' \/ C!Has(d.user, d.ref)'
<1>0. step \in [Requests -> CreditStages] /\ job \in [Requests -> Jobs]
  BY DEF C!TypeOK, CreditStages, Jobs
<1>1. step[r] \in Sides \cup {"granting"}
  BY DEF C!Owed, Sides
<1>2. ASSUME step[r] \in Sides, job'[r] = job[r]
      PROVE  /\ invite'[job[r].of].inviter = invite[job[r].of].inviter
             /\ invite[job[r].of].usedBy = job[r].user
  BY <1>2, OnlyGrows DEF InHand
<1>3. ASSUME step'[r] = step[r], job'[r] = job[r] PROVE Good
  BY <1>1, <1>2, <1>3 DEF C!Owed, Sides
<1>4. CASE Apart
  BY <1>3, <1>4, ApartIs DEF C!requests
<1>5. CASE C!Deploy
  BY <1>5 DEF C!Deploy
<1>6. ASSUME NEW q \in Requests \ {r}, Acts(q) PROVE Good
  BY <1>3, <1>6, ActsIs
<1>7. CASE Acts(r)
  <2>1. CASE step[r] = "granting"
    <3>1. d = [user |-> job[r].user, ref |-> <<"code", job[r].of>>]
      BY <2>1 DEF C!Owed
    <3>2. C!Grant(r) \/ C!GrantFails(r)
      BY <1>7, <2>1 DEF Acts, Asks, C!RedeemCode, C!ReadInvite, C!AcceptInvite, C!Redeem,
          C!RevokeInvite,
        C!RedeemInvite, C!GrantSide, C!SideFails
    <3>3. CASE C!Grant(r)
      BY <3>1, <3>3, HasGranted DEF C!Grant
    <3> QED
      BY <3>1, <3>2, <3>3 DEF C!GrantFails
  <2>2. CASE step[r] \in Sides
    <3>1. C!GrantSide(r) \/ C!SideFails(r)
      BY <1>7, <2>2 DEF Acts, Asks, C!RedeemCode, C!ReadInvite, C!AcceptInvite, C!Redeem,
          C!RevokeInvite,
        C!RedeemInvite, C!Grant, C!GrantFails, Sides
    <3>2. CASE d = [user |-> C!SideOf(r), ref |-> <<step[r], job[r].of>>]
      <4>1. CASE C!GrantSide(r)
        BY <3>2, <4>1, HasGranted DEF C!GrantSide
      <4> QED
        BY <3>1, <3>2, <4>1 DEF C!SideFails
    <3>3. CASE /\ step[r] = "invitee"
               /\ d = [user |-> invite[job[r].of].inviter, ref |-> <<"inviter", job[r].of>>]
      <4>1. C!Goto(r, "inviter", job[r])
        BY <3>1, <3>3 DEF C!GrantSide, C!SideFails, C!AfterSide
      <4>2. step'[r] = "inviter" /\ job'[r] = job[r]
        BY <1>0, <4>1 DEF C!Goto
      <4>3. invite'[job[r].of].inviter = invite[job[r].of].inviter
        BY <1>2, <2>2, <4>2
      <4> QED
        BY <3>3, <4>2, <4>3 DEF C!Owed
    <3> QED
      BY <2>2, <3>2, <3>3, SideOfIs
  <2> QED
    BY <1>1, <2>1, <2>2
<1> QED
  BY <1>4, <1>5, <1>6, <1>7, CreditStepsAre

\* What has been granted or is owed stays so.
LEMMA DueStays ==
  ASSUME C!ConstantsType, C!TypeOK, InHand, [C!Next]_(C!vars), NEW user, NEW ref,
         C!Has(user, ref) \/ [user |-> user, ref |-> ref] \in C!Due
  PROVE  C!Has(user, ref)' \/ [user |-> user, ref |-> ref] \in C!Due'
<1>1. CASE C!Has(user, ref)
  BY <1>1, OnlyGrows DEF C!Has
<1>2. CASE [user |-> user, ref |-> ref] \in lost
  BY <1>2, OnlyGrows DEF C!Due
<1>3. ASSUME NEW r \in Requests, [user |-> user, ref |-> ref] \in C!Owed(r)
      PROVE  C!Has(user, ref)' \/ [user |-> user, ref |-> ref] \in C!Due'
  <2> DEFINE d == [user |-> user, ref |-> ref]
  <2>1. d.user = user /\ d.ref = ref /\ d \in C!Owed(r)
    BY <1>3
  <2> HIDE DEF d
  <2>2. d \in C!Owed(r)' \/ d \in lost' \/ C!Has(user, ref)'
    BY <2>1, OwedGoes
  <2>3. d \in C!Due' \/ C!Has(user, ref)'
    BY <2>2 DEF C!Due
  <2> QED
    BY <2>3 DEF d
<1> QED
  BY <1>1, <1>2, <1>3 DEF C!Due

LEMMA SpentKept ==
  ASSUME C!ConstantsType, C!TypeOK, InHand, C!SpentIsGranted, [C!Next]_(C!vars)
  PROVE  C!SpentIsGranted'
<1>1. ASSUME NEW x \in redeemed'
      PROVE  \/ C!Has(x[2], <<"code", x[1]>>)'
             \/ [user |-> x[2], ref |-> <<"code", x[1]>>] \in C!Due'
  <2>1. CASE x \in redeemed
    BY <2>1, DueStays DEF C!SpentIsGranted
  <2>2. CASE x \notin redeemed
    <3>1. PICK r \in Requests : C!Redeem(r)
      BY <2>2, CreditStepsAre, ApartIs DEF Acts, Asks, C!RedeemCode, C!Grant, C!GrantFails,
          C!ReadInvite,
        C!RevokeInvite, C!AcceptInvite, C!RedeemInvite, C!GrantSide, C!SideFails, C!Deploy,
        C!packages
    <3>2. x = <<job[r].of, job[r].user>> /\ C!Goto(r, "granting", job[r])
      BY <1>1, <2>2, <3>1 DEF C!Redeem
    <3>3. step'[r] = "granting" /\ job'[r] = job[r]
      BY <3>2 DEF C!TypeOK, C!Goto
    <3>4. [user |-> x[2], ref |-> <<"code", x[1]>>] \in C!Owed(r)'
      BY <3>2, <3>3 DEF C!Owed
    <3> QED
      BY <3>4 DEF C!Due
  <2> QED
    BY <2>1, <2>2
<1> QED
  BY <1>1 DEF C!SpentIsGranted

LEMMA BothKept ==
  ASSUME C!ConstantsType, C!TypeOK, InHand, EarnedInv, C!BothSidesGranted, [C!Next]_(C!vars)
  PROVE  C!BothSidesGranted'
<1>1. ASSUME NEW i \in Invites, invite'[i].usedBy # None
      PROVE  /\ \/ C!Has(invite[i].usedBy, <<"invitee", i>>)'
                \/ [user |-> invite'[i].usedBy, ref |-> <<"invitee", i>>] \in C!Due'
             /\ \/ C!Has(invite[i].inviter, <<"inviter", i>>)'
                \/ [user |-> invite'[i].inviter, ref |-> <<"inviter", i>>] \in C!Due'
  <2>1. CASE invite[i].usedBy # None
    <3>1. invite'[i].usedBy = invite[i].usedBy /\ invite'[i].inviter = invite[i].inviter
      BY <2>1, OnlyGrows DEF EarnedInv
    <3>2. PICK u, v : u = invite[i].usedBy /\ v = invite[i].inviter
      OBVIOUS
    <3>3. /\ C!Has(u, <<"invitee", i>>)' \/ [user |-> u, ref |-> <<"invitee", i>>] \in C!Due'
          /\ C!Has(v, <<"inviter", i>>)' \/ [user |-> v, ref |-> <<"inviter", i>>] \in C!Due'
      BY <2>1, <3>2, DueStays DEF C!BothSidesGranted
    <3> QED
      BY <3>1, <3>2, <3>3
  <2>2. CASE invite[i].usedBy = None
    <3>1. PICK r \in Requests : C!RedeemInvite(r) /\ job[r].of = i
      <4>1. invite' # invite
        BY <1>1, <2>2
      <4>2. \/ \E u \in Users, k \in Invites : C!CreateInvite(u, k)
            \/ \E k \in Invites : C!ExpireInvite(k)
            \/ \E r \in Requests : C!RevokeInvite(r) \/ C!RedeemInvite(r)
        BY <4>1, CreditStepsAre DEF Acts, Asks, Apart, C!Mint, C!RevokeCode, C!RedeemCode,
            C!Redeem, C!Grant,
          C!GrantFails, C!GrantByHand, C!ReadInvite, C!AcceptInvite, C!GrantSide, C!SideFails,
          C!SetQuota,
          C!Deploy, C!vars, C!packages
      <4>3. invite \in [Invites -> Invitations]
        BY DEF C!TypeOK, Invitations
      <4>4. ASSUME NEW u \in Users, NEW k \in Invites, C!CreateInvite(u, k) PROVE FALSE
        BY <1>1, <2>2, <4>3, <4>4 DEF C!CreateInvite, C!NoInvite, Invitations
      <4>5. ASSUME NEW k \in Invites, C!ExpireInvite(k) PROVE FALSE
        BY <1>1, <2>2, <4>3, <4>5 DEF C!ExpireInvite, Invitations
      <4>6. ASSUME NEW r \in Requests, C!RevokeInvite(r) PROVE FALSE
        BY <1>1, <2>2, <4>3, <4>6 DEF C!RevokeInvite, Invitations
      <4>7. ASSUME NEW r \in Requests, C!RedeemInvite(r) PROVE job[r].of = i
        BY <1>1, <2>2, <4>3, <4>7 DEF C!RedeemInvite, Invitations
      <4> QED
        BY <4>2, <4>4, <4>5, <4>6, <4>7
    <3>2. step'[r] = "invitee" /\ job'[r].of = i
      <4>1. C!Goto(r, "invitee", [job[r] EXCEPT !.table = IF live THEN "live" ELSE "premium"])
        BY <1>1, <2>2, <3>1 DEF C!RedeemInvite
      <4>2. job[r] \in Jobs
        BY DEF C!TypeOK, Jobs
      <4> QED
        BY <3>1, <4>1, <4>2 DEF C!TypeOK, C!Goto, Jobs
    <3>3. InHand'
      BY InHandKept
    <3>4. invite'[i].usedBy = job'[r].user
      BY <3>2, <3>3 DEF InHand, Sides
    <3>5. C!Owed(r)' = {[user |-> invite'[i].usedBy, ref |-> <<"invitee", i>>],
                      [user |-> invite'[i].inviter, ref |-> <<"inviter", i>>]}
      BY <3>2, <3>4 DEF C!Owed
    <3> QED
      BY <3>5 DEF C!Due
  <2> QED
    BY <2>1, <2>2
<1> QED
  BY <1>1 DEF C!BothSidesGranted

-----------------------------------------------------------------------------
(* What is granted was earned, once.                                       *)

\* The three ways to a term.
LEMMA DaysCome ==
  ASSUME C!TypeOK, InHand, [C!Next]_(C!vars)
  PROVE  \/ given' = given
         \/ \E r \in Requests : C!Grant(r) \/ C!GrantSide(r)
         \/ \E l \in lost : C!GrantByHand(l)
BY CreditStepsAre, ApartIs DEF Acts, Asks, C!RedeemCode, C!Redeem, C!GrantFails, C!ReadInvite,
    C!RevokeInvite,
  C!AcceptInvite, C!RedeemInvite, C!SideFails, C!Deploy, C!packages

\* A new term is for a code that was redeemed, or a side of the invite in hand.
LEMMA NewDays ==
  ASSUME C!ConstantsType, C!TypeOK, InHand, EarnedInv, [C!Next]_(C!vars), NEW t \in given',
         t \notin given
  PROVE  /\ \A x \in given : x \in given'
         /\ \A x \in given' : x \in given \/ x = t
         /\ \/ \E c \in Codes : /\ Of(t, "code", c) /\ <<c, t.user>> \in redeemed
                                /\ t = [user |-> t.user, table |-> C!TableOf(c),
                                   ref |-> <<"code", c>>]
                                /\ \A q \in Requests : step'[q] \in Sides => step'[q] = step[q]
                                                       /\ job'[q] = job[q]
            \/ \E r \in Requests : /\ C!GrantSide(r) /\ Of(t, step[r], job[r].of)
                                      /\ t.user = C!SideOf(r)
<1>0. step \in [Requests -> CreditStages] /\ job \in [Requests -> Jobs]
  BY DEF C!TypeOK, CreditStages, Jobs
<1>1. ASSUME NEW r \in Requests, C!Grant(r)
      PROVE  /\ \A x \in given : x \in given'
             /\ \A x \in given' : x \in given \/ x = t
             /\ \E c \in Codes : /\ Of(t, "code", c) /\ <<c, t.user>> \in redeemed
                                 /\ t = [user |-> t.user, table |-> C!TableOf(c),
                                    ref |-> <<"code", c>>]
                                 /\ \A q \in Requests : step'[q] \in Sides => step'[q] = step[q]
                                                        /\ job'[q] = job[q]
  <2>1. PICK c \in Codes : c = job[r].of /\ job[r].table = C!TableOf(c)
                           /\ <<c, job[r].user>> \in redeemed
    BY <1>1, CodeTyped DEF C!Grant
  <2>2. given' = given \cup {[user |-> job[r].user, table |-> C!TableOf(c),
        ref |-> <<"code", c>>]}
    BY <1>1, <2>1 DEF C!Grant, C!Granted
  <2>3. t = [user |-> job[r].user, table |-> C!TableOf(c), ref |-> <<"code", c>>]
    BY <2>2
  <2>4. step'[r] = "idle" /\ \A q \in Requests \ {r} : step'[q] = step[q] /\ job'[q] = job[q]
    BY <1>0, <1>1 DEF C!Grant, C!End, C!Goto
  <2>5. \A q \in Requests : step'[q] \in Sides => step'[q] = step[q] /\ job'[q] = job[q]
    BY <2>4 DEF Sides
  <2> QED
    BY <2>1, <2>2, <2>3, <2>5 DEF Of
<1>2. ASSUME NEW l \in lost, C!GrantByHand(l)
      PROVE  /\ \A x \in given : x \in given'
             /\ \A x \in given' : x \in given \/ x = t
             /\ \E c \in Codes : /\ Of(t, "code", c) /\ <<c, t.user>> \in redeemed
                                 /\ t = [user |-> t.user, table |-> C!TableOf(c),
                                    ref |-> <<"code", c>>]
                                 /\ \A q \in Requests : step'[q] \in Sides => step'[q] = step[q]
                                                        /\ job'[q] = job[q]
  <2>0. l.ref \in C!Refs /\ l.ref[1] = "code"
    BY <1>2 DEF C!TypeOK, C!GrantByHand
  <2>1. PICK c \in Codes : l.ref = <<"code", c>>
    BY <2>0 DEF C!Refs
  <2>2. <<c, l.user>> \in redeemed
    BY <2>1 DEF EarnedInv, Of
  <2>3. given' = given \cup {[user |-> l.user, table |-> C!TableOf(c), ref |-> <<"code", c>>]}
    BY <1>2, <2>1 DEF C!GrantByHand, C!Granted
  <2>4. t = [user |-> l.user, table |-> C!TableOf(c), ref |-> <<"code", c>>]
    BY <2>3
  <2> QED
    BY <1>2, <2>2, <2>3, <2>4 DEF Of, C!GrantByHand, C!requests
<1>3. ASSUME NEW r \in Requests, C!GrantSide(r)
      PROVE  /\ \A x \in given : x \in given'
             /\ \A x \in given' : x \in given \/ x = t
             /\ Of(t, step[r], job[r].of) /\ t.user = C!SideOf(r)
  BY <1>3 DEF C!GrantSide, C!Granted, Of
<1> QED
  BY <1>1, <1>2, <1>3, DaysCome

LEMMA EarnedKept ==
  ASSUME C!ConstantsType, C!TypeOK, InHand, EarnedInv, SidesInv, [C!Next]_(C!vars)
  PROVE  EarnedInv'
<1>0. \A t \in given : t.user \in Users
  BY DEF C!TypeOK
<1>1. ASSUME NEW t \in given'
      PROVE  /\ \A c \in Codes : Of(t, "code", c) => <<c, t.user>> \in redeemed'
                                 /\ t.table = C!TableOf(c)
             /\ \A i \in Invites :
                  /\ Of(t, "invitee", i) => invite'[i].usedBy = t.user
                  /\ Of(t, "inviter", i) => invite'[i].inviter = t.user
                     /\ invite'[i].usedBy # None
  <2>1. CASE t \in given
    <3>1. /\ \A c \in Codes : Of(t, "code", c) => <<c, t.user>> \in redeemed
                              /\ t.table = C!TableOf(c)
          /\ \A i \in Invites :
               /\ Of(t, "invitee", i) => invite[i].usedBy = t.user
               /\ Of(t, "inviter", i) => invite[i].inviter = t.user /\ invite[i].usedBy # None
      BY <2>1 DEF EarnedInv
    <3>2. t.user # None
      BY <1>0, <2>1 DEF C!ConstantsType
    <3> QED
      BY <3>1, <3>2, OnlyGrows
  <2>2. CASE t \notin given
    <3>1. ASSUME NEW c \in Codes, Of(t, "code", c), <<c, t.user>> \in redeemed,
                 t.table = C!TableOf(c)
          PROVE  /\ \A d \in Codes : Of(t, "code", d) => <<d, t.user>> \in redeemed'
                                     /\ t.table = C!TableOf(d)
                 /\ \A i \in Invites : ~Of(t, "invitee", i) /\ ~Of(t, "inviter", i)
      BY <3>1, OnlyGrows DEF Of
    <3>2. ASSUME NEW r \in Requests, C!GrantSide(r), Of(t, step[r], job[r].of),
                 t.user = C!SideOf(r)
          PROVE  /\ \A c \in Codes : ~Of(t, "code", c)
                 /\ \A i \in Invites :
                      /\ Of(t, "invitee", i) => invite'[i].usedBy = t.user
                      /\ Of(t, "inviter", i) => invite'[i].inviter = t.user
                         /\ invite'[i].usedBy # None
      <4>1. step[r] \in Sides /\ invite' = invite
        BY <3>2 DEF C!GrantSide, Sides, C!packages
      <4>2. invite[job[r].of].usedBy = job[r].user /\ job[r].user # None
        BY <4>1 DEF InHand, C!ConstantsType
      <4> QED
        BY <3>2, <4>1, <4>2 DEF Of, C!SideOf, Sides
    <3>3. CASE \E r \in Requests : C!GrantSide(r) /\ Of(t, step[r], job[r].of)
                                   /\ t.user = C!SideOf(r)
      BY <3>2, <3>3
    <3>4. CASE \E c \in Codes : /\ Of(t, "code", c) /\ <<c, t.user>> \in redeemed
                                /\ t = [user |-> t.user, table |-> C!TableOf(c),
                                       ref |-> <<"code", c>>]
      <4>1. PICK c \in Codes : /\ Of(t, "code", c) /\ <<c, t.user>> \in redeemed
                               /\ t = [user |-> t.user, table |-> C!TableOf(c),
                                      ref |-> <<"code", c>>]
        BY <3>4
      <4>2. t.table = C!TableOf(c)
        BY <4>1
      <4> QED
        BY <3>1, <4>1, <4>2
    <3> QED
      BY <2>2, <3>3, <3>4, NewDays
  <2> QED
    BY <2>1, <2>2
<1>2. ASSUME NEW i \in Invites, invite'[i].usedBy # None PROVE invite'[i].inviter # None
  <2>1. invite[i] \in Invitations /\ InviteMoves(i)
    BY InvitesMove DEF C!TypeOK, Invitations
  <2>2. CASE invite[i].usedBy # None
    BY <2>2, OnlyGrows DEF EarnedInv
  <2>3. CASE invite[i].usedBy = None
    <3>1. /\ \A u : /\ [C!NoInvite EXCEPT !.inviter = u].usedBy = None
                    /\ [invite[i] EXCEPT !.usedBy = u].inviter = invite[i].inviter
                    /\ [invite[i] EXCEPT !.revoked = u].usedBy = invite[i].usedBy
                    /\ [invite[i] EXCEPT !.expired = u].usedBy = invite[i].usedBy
      BY <2>1 DEF Invitations, C!NoInvite
    <3>2. \E u \in Users : /\ invite[i].inviter \notin {None, u}
                           /\ invite'[i] = [invite[i] EXCEPT !.usedBy = u]
      BY <1>2, <2>1, <2>3, <3>1 DEF InviteMoves
    <3> QED
      BY <3>1, <3>2
  <2> QED
    BY <2>2, <2>3
<1>3. ASSUME NEW l \in lost', NEW c \in Codes, Of(l, "code", c)
      PROVE <<c, l.user>> \in redeemed'
  <2>1. CASE l \in lost
    BY <1>3, <2>1, OnlyGrows DEF EarnedInv
  <2>2. ASSUME NEW r \in Requests, l \in C!Owed(r) PROVE <<c, l.user>> \in redeemed'
    <3>1. step[r] = "granting" /\ l = [user |-> job[r].user, ref |-> <<"code", job[r].of>>]
      BY <1>3, <2>2 DEF C!Owed, Of
    <3>2. c = job[r].of /\ l.user = job[r].user
      BY <1>3, <3>1 DEF Of
    <3> QED
      BY <3>1, <3>2, CodeTyped, OnlyGrows
  <2>3. ASSUME NEW r \in Requests, C!SideFails(r), l \notin lost PROVE FALSE
    <3>1. l.ref = <<step[r], job[r].of>> /\ step[r] # "code"
      BY <1>3, <2>3 DEF C!SideFails
    <3> QED
      BY <1>3, <3>1 DEF Of
  <2>4. ASSUME NEW r \in Requests, C!GrantFails(r), l \notin lost PROVE l \in C!Owed(r)
    BY <2>4 DEF C!GrantFails, C!Owed
  <2>5. lost' = lost \/ C!Deploy \/ \E r \in Requests : C!GrantFails(r) \/ C!SideFails(r)
    BY CreditStepsAre, ApartIs DEF Acts, Asks, C!RedeemCode, C!Redeem, C!Grant, C!ReadInvite,
        C!RevokeInvite,
      C!AcceptInvite, C!RedeemInvite, C!GrantSide, C!packages
  <2>6. C!Deploy /\ l \notin lost => \E r \in Requests : l \in C!Owed(r)
    BY DEF C!Deploy
  <2> QED
    BY <2>1, <2>2, <2>3, <2>4, <2>5, <2>6
<1>4. ASSUME NEW t \in given', NEW s \in given', t.user = s.user, t.ref = s.ref PROVE t = s
  <2>1. ASSUME NEW x \in given', NEW y \in given, x \notin given, x.user = y.user, x.ref = y.ref
        PROVE  x = y
    <3>1. ASSUME NEW c \in Codes, Of(x, "code", c),
                 x = [user |-> x.user, table |-> C!TableOf(c), ref |-> <<"code", c>>]
          PROVE  x = y
      <4>1. Of(y, "code", c) /\ y.table = C!TableOf(c)
        BY <2>1, <3>1 DEF EarnedInv, Of
      <4>2. y \in [user : Users, table : {"live", "premium"}, ref : C!Refs]
        BY DEF C!TypeOK
      <4>3. y = [user |-> y.user, table |-> y.table, ref |-> y.ref]
        BY <4>2
      <4> QED
        BY <2>1, <3>1, <4>1, <4>3 DEF Of
    <3>2. ASSUME NEW r \in Requests, C!GrantSide(r), Of(x, step[r], job[r].of) PROVE FALSE
      <4>1. step[r] \in Sides /\ Of(y, step[r], job[r].of)
        BY <2>1, <3>2 DEF C!GrantSide, Sides, Of
      <4> QED
        BY <4>1 DEF SidesInv, Sides
    <3> QED
      BY <2>1, <3>1, <3>2, NewDays
  <2>2. CASE t \in given /\ s \in given
    BY <1>4, <2>2 DEF EarnedInv
  <2>3. CASE t \notin given /\ s \notin given
    BY <2>3, NewDays
  <2> QED
    BY <1>4, <2>1, <2>2, <2>3
<1> QED
  BY <1>1, <1>2, <1>3, <1>4 DEF EarnedInv

\* A request comes to the sides of an invite when it is the one that uses it.
LEMMA SideComes ==
  ASSUME C!ConstantsType, C!TypeOK, InHand, [C!Next]_(C!vars), NEW r \in Requests,
         step'[r] \in Sides
  PROVE  \/ step[r] \in Sides /\ job'[r] = job[r] /\ step'[r] = step[r]
         \/ step[r] = "invitee" /\ job'[r] = job[r] /\ step'[r] = "inviter"
         \/ /\ C!RedeemInvite(r) /\ job[r].of \in Invites /\ job'[r].of = job[r].of
            /\ invite[job[r].of].usedBy = None
<1>0. step \in [Requests -> CreditStages] /\ job \in [Requests -> Jobs]
  BY DEF C!TypeOK, CreditStages, Jobs
<1>1. CASE Apart
  BY <1>1, ApartIs DEF C!requests
<1>2. CASE C!Deploy
  BY <1>2 DEF C!Deploy, Sides
<1>3. ASSUME NEW q \in Requests \ {r}, Acts(q)
      PROVE  step[r] \in Sides /\ job'[r] = job[r] /\ step'[r] = step[r]
  BY <1>3, ActsIs
<1>4. CASE Acts(r)
  <2>1. ~C!End(r)
    BY <1>0 DEF C!End, C!Goto, Sides
  <2>2. CASE Asks(r)
    <3>1. UNCHANGED C!requests \/ \E j : C!Goto(r, "redeeming", j) \/ C!Goto(r, "revoking", j)
          \/ C!Goto(r, "accepting", j)
      BY <2>2 DEF Asks, C!RedeemCode, C!ReadInvite, C!AcceptInvite
    <3> QED
      BY <1>0, <3>1 DEF C!Goto, Sides, C!requests
  <2>3. CASE C!Redeem(r)
    BY <1>0, <2>1, <2>3 DEF C!Redeem, C!Goto, Sides
  <2>4. CASE C!RedeemInvite(r)
    <3>1. /\ job[r].of \in Invites /\ invite[job[r].of].usedBy = None
          /\ C!Goto(r, "invitee", [job[r] EXCEPT !.table = IF live THEN "live" ELSE "premium"])
      BY <2>1, <2>4 DEF C!RedeemInvite, InHand
    <3>2. job'[r].of = job[r].of
      <4>1. job[r] \in Jobs
        BY <1>0
      <4> QED
        BY <1>0, <3>1, <4>1 DEF C!Goto, Jobs
    <3> QED
      BY <2>4, <3>1, <3>2
  <2>5. CASE C!GrantSide(r) \/ C!SideFails(r)
    <3>1. step[r] = "invitee" /\ C!Goto(r, "inviter", job[r])
      BY <2>1, <2>5 DEF C!GrantSide, C!SideFails, C!AfterSide
    <3> QED
      BY <1>0, <3>1 DEF C!Goto
  <2> QED
    BY <1>4, <2>1, <2>2, <2>3, <2>4, <2>5 DEF Acts, C!Grant, C!GrantFails, C!RevokeInvite
<1> QED
  BY <1>1, <1>2, <1>3, <1>4, CreditStepsAre

LEMMA SidesKept ==
  ASSUME C!ConstantsType, C!TypeOK, InHand, EarnedInv, SidesInv, [C!Next]_(C!vars)
  PROVE  SidesInv'
<1>1. ASSUME NEW r \in Requests, NEW q \in Requests, step'[r] \in Sides, step'[q] \in Sides,
             job'[r].of = job'[q].of
      PROVE  r = q
  <2>1. ASSUME NEW x \in Requests, NEW y \in Requests, x # y, C!RedeemInvite(x),
               invite[job[x].of].usedBy = None, step[y] \in Sides, job[y].of = job[x].of
        PROVE  FALSE
    BY <2>1 DEF InHand, C!ConstantsType
  <2>2. ASSUME NEW x \in Requests, NEW y \in Requests, x # y, C!RedeemInvite(x),
               C!RedeemInvite(y),
               step'[y] \in Sides
        PROVE  FALSE
    <3>1. step'[y] = step[y]
      BY <2>2, ActsIs DEF Acts
    <3> QED
      BY <2>2, <3>1 DEF C!RedeemInvite, Sides
  <2>3. step[r] \in Sides \/ C!RedeemInvite(r)
    BY <1>1, SideComes DEF Sides
  <2>4. step[q] \in Sides \/ C!RedeemInvite(q)
    BY <1>1, SideComes DEF Sides
  <2>5. CASE step[r] \in Sides /\ step[q] \in Sides
    <3>1. job'[r] = job[r] /\ job'[q] = job[q]
      BY <1>1, <2>5, SideComes DEF C!RedeemInvite, Sides
    <3> QED
      BY <1>1, <2>5, <3>1 DEF SidesInv
  <2>6. ASSUME NEW x \in Requests, NEW y \in Requests, x # y, C!RedeemInvite(x),
               step[y] \in Sides,
               step'[x] \in Sides, step'[y] \in Sides, job'[x].of = job'[y].of
        PROVE  FALSE
    <3>1. job'[y] = job[y]
      BY <2>6, SideComes DEF C!RedeemInvite, Sides
    <3>2. job'[x].of = job[x].of /\ invite[job[x].of].usedBy = None
      BY <2>6, SideComes DEF C!RedeemInvite, Sides
    <3> QED
      BY <2>1, <2>6, <3>1, <3>2
  <2> QED
    BY <1>1, <2>2, <2>3, <2>4, <2>5, <2>6
<1>2. ASSUME NEW r \in Requests, NEW t \in given', step'[r] \in Sides
      PROVE  /\ step'[r] = "invitee" => ~Of(t, "invitee", job'[r].of)
             /\ ~Of(t, "inviter", job'[r].of)
  <2>1. CASE t \in given
    <3>1. CASE step[r] \in Sides
      <4>1. job'[r] = job[r] /\ (step'[r] = "invitee" => step[r] = "invitee")
        BY <1>2, <3>1, SideComes DEF C!RedeemInvite, Sides
      <4> QED
        BY <2>1, <3>1, <4>1 DEF SidesInv
    <3>2. CASE C!RedeemInvite(r) /\ step[r] \notin Sides
      <4>1. PICK i \in Invites : i = job'[r].of /\ invite[i].usedBy = None
        BY <1>2, <3>2, SideComes DEF Sides
      <4>2. t.user # None
        BY <2>1 DEF C!TypeOK, C!ConstantsType
      <4> QED
        BY <2>1, <4>1, <4>2 DEF EarnedInv
    <3> QED
      BY <1>2, <3>1, <3>2, SideComes DEF Sides
  <2>2. CASE t \notin given
    <3>1. ASSUME NEW c \in Codes, Of(t, "code", c)
          PROVE  ~Of(t, "invitee", job'[r].of) /\ ~Of(t, "inviter", job'[r].of)
      BY <3>1 DEF Of
    <3>2. ASSUME NEW q \in Requests, C!GrantSide(q), Of(t, step[q], job[q].of)
          PROVE  /\ step'[r] = "invitee" => ~Of(t, "invitee", job'[r].of)
                 /\ ~Of(t, "inviter", job'[r].of)
      <4>0. step[q] \in Sides
        BY <3>2 DEF C!GrantSide, Sides
      <4>1. CASE q = r
        <5>1. step'[r] = "inviter" /\ step[r] = "invitee" /\ job'[r] = job[r]
          <6>1. step'[r] = "idle"
                \/ (step'[r] = "inviter" /\ step[r] = "invitee" /\ job'[r] = job[r])
            BY <3>2, <4>1 DEF C!GrantSide, C!AfterSide, C!End, C!Goto, C!TypeOK
          <6> QED
            BY <1>2, <6>1 DEF Sides
        <5> QED
          BY <3>2, <4>1, <5>1 DEF Of
      <4>2. CASE q # r
        <5>1. step'[r] = step[r] /\ job'[r] = job[r]
          BY <3>2, <4>2, ActsIs DEF Acts
        <5>2. job[r].of # job[q].of
          BY <1>2, <4>0, <4>2, <5>1 DEF SidesInv
        <5> QED
          BY <3>2, <5>1, <5>2 DEF Of
      <4> QED
        BY <4>1, <4>2
    <3> QED
      BY <2>2, <3>1, <3>2, NewDays
  <2> QED
    BY <2>1, <2>2
<1> QED
  BY <1>1, <1>2 DEF SidesInv, Sides

-----------------------------------------------------------------------------
(* Quotas, and the theorems.                                               *)

LEMMA HeldIs ==
  ASSUME C!ConstantsType, NEW u
  PROVE  /\ IsFiniteSet(C!Held(u)) /\ Cardinality(C!Held(u)) \in Nat
         /\ \A some \in SUBSET C!Held(u) : Cardinality(some) <= Cardinality(C!Held(u))
<1>1. C!Held(u) \subseteq Invites
  BY DEF C!Held
<1>2. IsFiniteSet(C!Held(u))
  BY <1>1, SameCount, FS_Subset DEF C!ConstantsType
<1> QED
  BY <1>2, FS_Subset, FS_CardinalityType

LEMMA QuotaKept ==
  ASSUME C!ConstantsType, C!TypeOK, InHand, QuotaInv, [C!Next]_(C!vars)
  PROVE  QuotaInv'
<1>0. /\ quota \in [Users -> Quotas] /\ most \in [Users -> Quotas] /\ Quotas \subseteq Nat
      /\ invite \in [Invites -> Invitations]
  BY DEF C!TypeOK, C!ConstantsType, Invitations
<1>1. ASSUME NEW u \in Users
      PROVE  /\ quota'[u] <= most'[u] /\ most[u] <= most'[u]
             /\ quota'[u] \in Nat /\ most'[u] \in Nat /\ quota[u] \in Nat /\ most[u] \in Nat
             /\ quota[u] <= most[u]
  <2>0. quota[u] \in Nat /\ most[u] \in Nat /\ quota[u] <= most[u]
    BY <1>0 DEF QuotaInv
  <2>1. CASE quota' = quota /\ most' = most
    BY <2>0, <2>1
  <2>2. ASSUME NEW v \in Users, NEW n \in Quotas, C!SetQuota(v, n)
        PROVE  /\ quota'[u] <= most'[u] /\ most[u] <= most'[u]
               /\ quota'[u] \in Nat /\ most'[u] \in Nat
    <3>1. quota' = [quota EXCEPT ![v] = n] /\ n \in Nat
          /\ most' = [most EXCEPT ![v] = IF n > most[v] THEN n ELSE most[v]]
      BY <1>0, <2>2 DEF C!SetQuota
    <3> QED
      BY <1>0, <2>0, <3>1
  <2>3. (quota' = quota /\ most' = most) \/ \E v \in Users, n \in Quotas : C!SetQuota(v, n)
    BY CreditStepsAre, ActsIs DEF Apart, C!Mint, C!RevokeCode, C!GrantByHand, C!CreateInvite,
        C!ExpireInvite,
      C!Deploy, C!vars, C!packages
  <2> QED
    BY <2>0, <2>1, <2>2, <2>3
<1>2. ASSUME NEW u \in Users, NEW i \in Invites
      PROVE  \/ i \in C!Held(u)' => i \in C!Held(u)
             \/ /\ Cardinality(C!Held(u)) < quota[u] /\ UNCHANGED <<quota, most>>
  <2>0. /\ i \in C!Held(u) <=> invite[i].inviter = u
           /\ (~invite[i].revoked \/ invite[i].usedBy # None)
        /\ i \in C!Held(u)' <=>
             invite'[i].inviter = u /\ (~invite'[i].revoked \/ invite'[i].usedBy # None)
    BY DEF C!Held
  <2>1. invite[i] \in Invitations /\ InviteMoves(i)
    BY <1>0, InvitesMove
  <2>2. \A v : /\ [invite[i] EXCEPT !.usedBy = v].inviter = invite[i].inviter
               /\ [invite[i] EXCEPT !.usedBy = v].revoked = invite[i].revoked
               /\ [invite[i] EXCEPT !.usedBy = v].usedBy = v
               /\ [invite[i] EXCEPT !.revoked = v].inviter = invite[i].inviter
               /\ [invite[i] EXCEPT !.revoked = v].usedBy = invite[i].usedBy
               /\ [invite[i] EXCEPT !.revoked = v].revoked = v
               /\ [invite[i] EXCEPT !.expired = v].inviter = invite[i].inviter
               /\ [invite[i] EXCEPT !.expired = v].usedBy = invite[i].usedBy
               /\ [invite[i] EXCEPT !.expired = v].revoked = invite[i].revoked
               /\ [C!NoInvite EXCEPT !.inviter = v].inviter = v
    BY <2>1 DEF Invitations, C!NoInvite
  <2>3. CASE invite'[i] = invite[i]
    BY <2>0, <2>3
  <2>4. CASE /\ invite[i] = C!NoInvite
             /\ \E v \in Users : /\ Cardinality(C!Held(v)) < quota[v] /\ UNCHANGED <<quota, most>>
                                 /\ invite'[i] = [C!NoInvite EXCEPT !.inviter = v]
    <3>1. PICK v \in Users : /\ Cardinality(C!Held(v)) < quota[v] /\ UNCHANGED <<quota, most>>
                             /\ invite'[i] = [C!NoInvite EXCEPT !.inviter = v]
      BY <2>4
    <3>2. invite'[i].inviter = v
      BY <2>2, <3>1
    <3> QED
      BY <2>0, <3>1, <3>2
  <2>5. CASE invite'[i] = [invite[i] EXCEPT !.revoked = TRUE]
    <3>1. invite'[i].inviter = invite[i].inviter /\ invite'[i].usedBy = invite[i].usedBy
      BY <2>1, <2>5 DEF Invitations
    <3>2. invite'[i].revoked
      BY <2>1, <2>5 DEF Invitations
    <3> QED
      BY <2>0, <3>1, <3>2
  <2>6. CASE invite'[i] = [invite[i] EXCEPT !.expired = TRUE]
    <3>1. /\ invite'[i].inviter = invite[i].inviter /\ invite'[i].usedBy = invite[i].usedBy
          /\ invite'[i].revoked = invite[i].revoked
      BY <2>1, <2>6 DEF Invitations
    <3> QED
      BY <2>0, <3>1
  <2>7. CASE /\ invite[i].usedBy = None /\ ~invite[i].revoked
             /\ \E v \in Users : invite'[i] = [invite[i] EXCEPT !.usedBy = v]
    <3>1. invite'[i].inviter = invite[i].inviter
      BY <2>2, <2>7
    <3> QED
      BY <2>0, <2>7, <3>1
  <2> QED
    BY <2>1, <2>3, <2>4, <2>5, <2>6, <2>7 DEF InviteMoves
<1>3. ASSUME NEW u \in Users PROVE Cardinality(C!Held(u))' <= most'[u]
  <2>0. /\ C!Held(u) \subseteq Invites /\ C!Held(u)' \subseteq Invites
        /\ Cardinality(C!Held(u)) <= most[u]
    BY DEF C!Held, QuotaInv
  <2>1. CASE C!Held(u)' \subseteq C!Held(u)
    <3>1. Cardinality(C!Held(u)') <= Cardinality(C!Held(u)) /\ Cardinality(C!Held(u)') \in Nat
          /\ Cardinality(C!Held(u)) \in Nat
      BY <2>1, HeldIs, FS_Subset, FS_CardinalityType
    <3> QED
      BY <1>1, <2>0, <3>1
  <2>2. CASE ~(C!Held(u)' \subseteq C!Held(u))
    <3>1. PICK i \in Invites : i \in C!Held(u)' /\ i \notin C!Held(u)
      BY <2>0, <2>2
    <3>2. Cardinality(C!Held(u)) < quota[u] /\ UNCHANGED <<quota, most>>
      BY <1>2, <3>1
    <3>3. C!Held(u)' \subseteq C!Held(u) \cup {i}
      <4>1. PICK k \in Invites : \A j \in Invites \ {k} : invite'[j] = invite[j]
        BY InvitesMove
      <4>2. ASSUME NEW j \in Invites \ {k} PROVE j \in C!Held(u)' <=> j \in C!Held(u)
        BY <4>1, <4>2 DEF C!Held
      <4> QED
        BY <2>0, <3>1, <4>2
    <3>4. /\ Cardinality(C!Held(u) \cup {i}) = Cardinality(C!Held(u)) + 1
          /\ IsFiniteSet(C!Held(u) \cup {i})
      BY <3>1, HeldIs, FS_AddElement
    <3>5. /\ Cardinality(C!Held(u)') <= Cardinality(C!Held(u) \cup {i})
          /\ Cardinality(C!Held(u)') \in Nat
      BY <3>3, <3>4, FS_Subset, FS_CardinalityType
    <3>6. Cardinality(C!Held(u)) \in Nat
      BY HeldIs
    <3> QED
      BY <1>1, <3>2, <3>4, <3>5, <3>6
  <2> QED
    BY <2>1, <2>2
<1> QED
  BY <1>1, <1>3 DEF QuotaInv

LEMMA CreditsInit == ASSUME C!ConstantsType, C!Init PROVE CreditsInv
<1>1. C!Default \in Quotas
  BY DEF C!Default, C!ConstantsType
<1>2. C!NoInvite \in Invitations
  BY DEF C!NoInvite, Invitations
<1>3. /\ step = [r \in Requests |-> "idle"] /\ job = [r \in Requests |-> C!NoJob]
      /\ invite = [i \in Invites |-> C!NoInvite] /\ given = {} /\ lost = {} /\ redeemed = {}
  BY DEF C!Init
<1>4. C!TypeOK
  <2>1. job \in [Requests -> Jobs] /\ invite \in [Invites -> Invitations]
    BY <1>2, <1>3, NoJobIs
  <2> QED
    BY <1>1, <1>3, <2>1 DEF C!Init, C!TypeOK, C!ConstantsType, Jobs, Invitations
<1>5. InHand
  BY <1>3 DEF InHand, Sides
<1>6. \A i \in Invites : invite[i].usedBy = None /\ invite[i].inviter = None
  BY <1>3 DEF C!NoInvite
<1>7. EarnedInv /\ SidesInv /\ C!SpentIsGranted /\ C!BothSidesGranted
  BY <1>3, <1>6 DEF EarnedInv, SidesInv, C!SpentIsGranted, C!BothSidesGranted, Sides
<1>8. QuotaInv
  <2>1. ASSUME NEW u \in Users PROVE Cardinality(C!Held(u)) = 0
    <3>1. C!Held(u) = {}
      BY <1>6, <2>1 DEF C!Held, C!ConstantsType
    <3> QED
      BY <3>1, FS_EmptySet
  <2> QED
    BY <1>1, <2>1 DEF C!Init, QuotaInv, C!ConstantsType
<1> QED
  BY <1>4, <1>5, <1>7, <1>8 DEF CreditsInv

LEMMA CreditsInvariance == ASSUME C!ConstantsType PROVE C!Spec => []CreditsInv
<1>1. ASSUME CreditsInv, [C!Next]_(C!vars) PROVE CreditsInv'
  BY <1>1, CreditTypesKept, InHandKept, EarnedKept, SidesKept, QuotaKept, SpentKept,
      BothKept DEF CreditsInv
<1> QED
  BY <1>1, CreditsInit, PTL DEF C!Spec

\* TypeOK of Credits: every step keeps the codes, invites, quotas and terms, and what a
\* request has in hand, of their types.
THEOREM CreditTypesCorrect == ASSUME C!ConstantsType PROVE C!Spec => []C!TypeOK
<1>1. CreditsInv => C!TypeOK
  BY DEF CreditsInv
<1> QED
  BY <1>1, CreditsInvariance, PTL

\* SpentIsGranted and BothSidesGranted of Credits: what a code or an invite was spent on is
\* days its readers have, unless the grant failed or died, and one grant that fails takes
\* no other with it.
THEOREM NothingIsSpentForNothing ==
  ASSUME C!ConstantsType PROVE C!Spec => [](C!SpentIsGranted /\ C!BothSidesGranted)
<1>1. CreditsInv => C!SpentIsGranted /\ C!BothSidesGranted
  BY DEF CreditsInv
<1> QED
  BY <1>1, CreditsInvariance, PTL

\* TermsEarned of Credits: every term is for a code its reader redeemed or a side of an
\* invite that was accepted, and is granted once, however often somebody adds it by hand.
THEOREM DaysAreEarned == ASSUME C!ConstantsType PROVE C!Spec => []C!TermsEarned
<1>1. ASSUME CreditsInv PROVE C!TermsEarned
  <2>1. ASSUME NEW t \in given
        PROVE  CASE t.ref[1] = "code"    -> <<t.ref[2], t.user>> \in redeemed
                 [] t.ref[1] = "invitee" -> invite[t.ref[2]].usedBy = t.user
                 [] t.ref[1] = "inviter" -> /\ invite[t.ref[2]].inviter = t.user
                                            /\ invite[t.ref[2]].usedBy # None
    <3>0. t.ref \in C!Refs
      BY <1>1 DEF CreditsInv, C!TypeOK
    <3>1. ASSUME NEW c \in Codes, t.ref = <<"code", c>> PROVE <<c, t.user>> \in redeemed
      BY <1>1, <3>1 DEF CreditsInv, EarnedInv, Of
    <3>2. ASSUME NEW i \in Invites, t.ref = <<"invitee", i>> PROVE invite[i].usedBy = t.user
      BY <1>1, <3>2 DEF CreditsInv, EarnedInv, Of
    <3>3. ASSUME NEW i \in Invites, t.ref = <<"inviter", i>>
          PROVE  invite[i].inviter = t.user /\ invite[i].usedBy # None
      BY <1>1, <3>3 DEF CreditsInv, EarnedInv, Of
    <3>4. CASE \E c \in Codes : t.ref = <<"code", c>>
      BY <3>1, <3>4
    <3>5. CASE \E i \in Invites : t.ref = <<"invitee", i>>
      BY <3>2, <3>5
    <3>6. CASE \E i \in Invites : t.ref = <<"inviter", i>>
      BY <3>3, <3>6
    <3>7. \/ \E c \in Codes : t.ref = <<"code", c>>
          \/ \E i \in Invites : t.ref = <<"invitee", i>>
          \/ \E i \in Invites : t.ref = <<"inviter", i>>
      BY <3>0 DEF C!Refs
    <3> QED
      BY <3>4, <3>5, <3>6, <3>7
  <2>2. \A t, s \in given : t.user = s.user /\ t.ref = s.ref => t = s
    BY <1>1 DEF CreditsInv, EarnedInv
  <2> QED
    BY <2>1, <2>2 DEF C!TermsEarned
<1> QED
  BY <1>1, CreditsInvariance, PTL

\* InvitesScarce of Credits: an invite that was accepted keeps its place, although it may be
\* accepted while it is being withdrawn (revokeInvite), so that nobody brings in more
\* accounts than the largest quota they had.
THEOREM InvitesAreScarce == ASSUME C!ConstantsType PROVE C!Spec => []C!InvitesScarce
<1>1. ASSUME CreditsInv PROVE C!InvitesScarce
  <2>1. ASSUME NEW u \in Users
        PROVE  Cardinality({i \in Invites : invite[i].inviter = u
               /\ invite[i].usedBy # None}) <= most[u]
    <3> DEFINE used == {i \in Invites : invite[i].inviter = u /\ invite[i].usedBy # None}
    <3>1. used \subseteq C!Held(u)
      BY DEF C!Held
    <3>2. /\ Cardinality(used) <= Cardinality(C!Held(u)) /\ Cardinality(used) \in Nat
          /\ Cardinality(C!Held(u)) \in Nat
      BY <3>1, HeldIs, FS_Subset, FS_CardinalityType
    <3>3. Cardinality(C!Held(u)) <= most[u] /\ most[u] \in Nat
      BY <1>1 DEF CreditsInv, QuotaInv, C!TypeOK, C!ConstantsType
    <3> QED
      BY <3>2, <3>3
  <2> QED
    BY <2>1, SameCount DEF C!InvitesScarce
<1> QED
  BY <1>1, CreditsInvariance, PTL

\* LiveSpentWhereUsable of Credits: the unit of a code is looked at before it is spent, and
\* a deploy that switches passes off takes the request with it.
THEOREM LiveIsUsable == ASSUME C!ConstantsType PROVE C!Spec => []C!LiveSpentWhereUsable
<1>1. CreditsInv => C!LiveSpentWhereUsable
  BY DEF CreditsInv, InHand, C!LiveSpentWhereUsable
<1> QED
  BY <1>1, CreditsInvariance, PTL
=============================================================================
