---------------------------------- MODULE Push ----------------------------------
(***************************************************************************)
(* The notification toggle: pages of one browser, whose one subscription   *)
(* they share, the permission the reader gives or takes back anywhere, the *)
(* rows the server keeps, and everything that can answer late or never.    *)
(***************************************************************************)
EXTENDS Naturals

CONSTANTS
  Pages,
  Users,
  None,
  MaxPresses,   \* bound: presses of the button
  MaxEndpoints, \* bound: subscriptions the push service hands out
  MaxSettings,  \* bound: changes of the permission, and of who is signed in
  MaxFaults     \* bound: calls that are late, refused or never answered

Endpoints == 1 .. MaxEndpoints

\* What the composing module and the proofs assume of them.
ConstantsType ==
  /\ None \notin Users /\ "disabled" \notin Users /\ None \notin Endpoints
  /\ MaxEndpoints \in Nat

VARIABLES
  permission,    \* Notification.permission
  sub, minted,   \* the subscription of the browser, and those handed out
  who,           \* the account that is signed in
  row,           \* push_subscriptions: whose, or None, or "disabled"
  pc, repaint,   \* what a page's press awaits, and whether paint() does
  current, shown, \* what paint() last found, and whether it showed the button
  holding,       \* the subscription a press is about
  late, posted,  \* subscribes past their deadline, and saves nobody waits for
  excused,       \* ghost: subscriptions no page is left to store or drop
  presses, settings, faults

page == <<pc, repaint, current, shown, holding>>
bounds == <<presses, settings, faults>>
vars == <<permission, sub, minted, who, row, page, late, posted, excused, bounds>>

Init ==
  /\ permission = "default" /\ sub = None /\ minted = 0
  /\ who \in Users /\ row = [e \in Endpoints |-> None]
  /\ pc = [p \in Pages |-> "idle"] /\ repaint = [p \in Pages |-> FALSE]
  /\ current = [p \in Pages |-> None] /\ shown = [p \in Pages |-> TRUE]
  /\ holding = [p \in Pages |-> None]
  /\ late = {} /\ posted = {} /\ excused = {}
  /\ presses = 0 /\ settings = 0 /\ faults = 0

Goes(p, from, to) == pc[p] = from /\ pc' = [pc EXCEPT ![p] = to]

\* The button is given back before paint() has read anything.
Ends(p, from) == Goes(p, from, "idle") /\ repaint' = [repaint EXCEPT ![p] = TRUE]

Fault == faults < MaxFaults /\ faults' = faults + 1

-----------------------------------------------------------------------------
(* The browser and its reader.                                             *)

\* Taking the permission back drops the subscription.
Permit(answer) ==
  /\ settings < MaxSettings /\ settings' = settings + 1
  /\ answer # permission /\ permission' = answer
  /\ sub' = IF answer = "granted" THEN sub ELSE None
  /\ UNCHANGED <<minted, who, row, page, late, posted, excused, presses, faults>>

\* A session ends, and another may begin.
SignsIn(user) ==
  /\ settings < MaxSettings /\ settings' = settings + 1
  /\ user # who /\ who' = user
  /\ UNCHANGED <<permission, sub, minted, row, page, late, posted, excused, presses, faults>>

\* subscribe() hands back the subscription there is.
Subscribed ==
  /\ permission = "granted"
  /\ IF sub # None THEN UNCHANGED <<sub, minted>>
     ELSE minted < MaxEndpoints /\ minted' = minted + 1 /\ sub' = minted + 1

-----------------------------------------------------------------------------
(* A page.                                                                 *)

\* A read that does not come within its deadline is no subscription.
Paint(p) ==
  /\ repaint[p] /\ repaint' = [repaint EXCEPT ![p] = FALSE]
  /\ current' = [current EXCEPT ![p] = IF permission = "denied" THEN None ELSE sub]
  /\ shown' = [shown EXCEPT ![p] = permission # "denied"]
  /\ UNCHANGED <<permission, sub, minted, who, row, pc, holding, late, posted, excused, bounds>>

PaintExpires(p) ==
  /\ repaint[p] /\ repaint' = [repaint EXCEPT ![p] = FALSE] /\ Fault
  /\ current' = [current EXCEPT ![p] = None]
  /\ shown' = [shown EXCEPT ![p] = permission # "denied"]
  /\ UNCHANGED <<permission, sub, minted, who, row, pc, holding, late, posted, excused,
                 presses, settings>>

ComesBack(p) ==
  /\ pc[p] = "idle" /\ ~repaint[p] /\ repaint' = [repaint EXCEPT ![p] = TRUE]
  /\ UNCHANGED <<permission, sub, minted, who, row, pc, current, shown, holding, late,
                 posted, excused, bounds>>

Press(p) ==
  /\ presses < MaxPresses /\ presses' = presses + 1 /\ shown[p]
  /\ Goes(p, "idle", IF current[p] # None THEN "dropping" ELSE "asking")
  /\ holding' = [holding EXCEPT ![p] = current[p]]
  /\ UNCHANGED <<permission, sub, minted, who, row, repaint, current, shown, late, posted,
                 excused, settings, faults>>

\* Turning off: the browser's subscription goes, whichever it is, and the row of the one
\* the page knew.
Drop(p) ==
  /\ Goes(p, "dropping", "forgetting") /\ sub' = None
  /\ UNCHANGED <<permission, minted, who, row, repaint, current, shown, holding, late,
                 posted, excused, bounds>>

DropFails(p) ==
  /\ Ends(p, "dropping") /\ Fault
  /\ UNCHANGED <<permission, sub, minted, who, row, current, shown, holding, late, posted,
                 excused, presses, settings>>

\* Only a row of the account that is signed in; nobody looks at the answer.
Forget(p) ==
  LET e == holding[p] IN
  /\ Ends(p, "forgetting")
  /\ row' = IF who # None /\ row[e] = who THEN [row EXCEPT ![e] = None] ELSE row
  /\ UNCHANGED <<permission, sub, minted, who, current, shown, holding, late, posted,
                 excused, bounds>>

ForgetFails(p) ==
  /\ Ends(p, "forgetting") /\ Fault
  /\ UNCHANGED <<permission, sub, minted, who, row, current, shown, holding, late, posted,
                 excused, presses, settings>>

\* Turning on.  The answer may be given anywhere, and is noticed.
Answered(p) ==
  /\ permission # "default"
  /\ IF permission = "granted" THEN Goes(p, "asking", "subscribing") /\ UNCHANGED repaint
     ELSE Ends(p, "asking")
  /\ UNCHANGED <<permission, sub, minted, who, row, current, shown, holding, late, posted,
                 excused, bounds>>

\* The prompt was waved away, or its deadline came.
NotAnswered(p) ==
  /\ permission = "default" /\ Ends(p, "asking")
  /\ UNCHANGED <<permission, sub, minted, who, row, current, shown, holding, late, posted,
                 excused, bounds>>

Subscribes(p) ==
  /\ Goes(p, "subscribing", "saving") /\ Subscribed
  /\ holding' = [holding EXCEPT ![p] = sub']
  /\ UNCHANGED <<permission, who, row, repaint, current, shown, late, posted, excused, bounds>>

SubscribeFails(p) ==
  /\ Ends(p, "subscribing")
  /\ IF permission = "granted" THEN Fault ELSE UNCHANGED faults
  /\ UNCHANGED <<permission, sub, minted, who, row, current, shown, holding, late, posted,
                 excused, presses, settings>>

\* The call goes on; what it has brought by now is taken.
SubscribeExpires(p) ==
  /\ Goes(p, "subscribing", "reading") /\ Fault
  /\ late' = late \cup {p}
  /\ UNCHANGED <<permission, sub, minted, who, row, repaint, current, shown, holding, posted,
                 excused, presses, settings>>

LateSubscribe(p) ==
  /\ p \in late /\ late' = late \ {p}
  /\ \/ Subscribed /\ excused' = IF sub = None THEN excused \cup {sub'} ELSE excused
     \/ UNCHANGED <<sub, minted, excused>>
  /\ UNCHANGED <<permission, who, row, page, posted, bounds>>

ReadBack(p) ==
  /\ IF sub = None THEN Ends(p, "reading") /\ UNCHANGED holding
     ELSE /\ Goes(p, "reading", "saving") /\ UNCHANGED repaint
          /\ holding' = [holding EXCEPT ![p] = sub]
  /\ UNCHANGED <<permission, sub, minted, who, row, current, shown, late, posted, excused,
                 bounds>>

\* savePushSubscription: the row is the account's now, and enabled.
Saved(e) == IF who = None THEN row ELSE [row EXCEPT ![e] = who]

Save(p) ==
  /\ who # None /\ Ends(p, "saving") /\ row' = Saved(holding[p])
  /\ UNCHANGED <<permission, sub, minted, who, current, shown, holding, late, posted,
                 excused, bounds>>

\* Mutation: a redirect to the sign-in page reads as success.
RedirectIsSuccess(p) == Ends(p, "saving")

\* Redirected, or not stored.
Refused(p) == Goes(p, "saving", "undoing") /\ UNCHANGED repaint

NotSaved(p) ==
  /\ Refused(p)
  /\ IF who = None THEN UNCHANGED faults ELSE Fault
  /\ UNCHANGED <<permission, sub, minted, who, row, current, shown, holding, late, posted,
                 excused, presses, settings>>

\* No answer in time; what was posted may arrive yet.
SaveExpires(p) ==
  /\ Goes(p, "saving", "undoing") /\ Fault
  /\ posted' = posted \cup {holding[p]}
  /\ UNCHANGED <<permission, sub, minted, who, row, repaint, current, shown, holding, late,
                 excused, presses, settings>>

LateSave(e) ==
  /\ e \in posted /\ posted' = posted \ {e} /\ row' = Saved(e)
  /\ UNCHANGED <<permission, sub, minted, who, page, late, excused, bounds>>

\* The browser is not left subscribed to what the server never stored.
Undo(p) ==
  /\ Ends(p, "undoing") /\ sub' = None
  /\ UNCHANGED <<permission, minted, who, row, current, shown, holding, late, posted,
                 excused, bounds>>

UndoFails(p) ==
  /\ Ends(p, "undoing") /\ Fault
  /\ excused' = excused \cup {sub}
  /\ UNCHANGED <<permission, sub, minted, who, row, current, shown, holding, late, posted,
                 presses, settings>>

\* A page that is left, and opened again: what it was doing is nobody's, and there is no
\* button before the first paint.
Leave(p) ==
  /\ Fault
  /\ pc' = [pc EXCEPT ![p] = "idle"] /\ repaint' = [repaint EXCEPT ![p] = TRUE]
  /\ shown' = [shown EXCEPT ![p] = FALSE]
  /\ late' = IF pc[p] = "subscribing" THEN late \cup {p} ELSE late
  /\ excused' = IF pc[p] \in {"saving", "undoing"} THEN excused \cup {holding[p]} ELSE excused
  /\ posted' = IF pc[p] = "saving" THEN posted \cup {holding[p]} ELSE posted
  /\ UNCHANGED <<permission, sub, minted, who, row, current, holding, presses, settings>>

\* The worker is told that an endpoint is gone.
Gone(e) ==
  /\ e # sub /\ row[e] \in Users /\ row' = [row EXCEPT ![e] = "disabled"]
  /\ UNCHANGED <<permission, sub, minted, who, page, late, posted, excused, bounds>>

Next ==
  \/ \E answer \in {"granted", "denied"} : Permit(answer)
  \/ \E user \in Users \cup {None} : SignsIn(user)
  \/ \E p \in Pages :
       \/ Paint(p) \/ PaintExpires(p) \/ ComesBack(p) \/ Press(p)
       \/ Drop(p) \/ DropFails(p) \/ Forget(p) \/ ForgetFails(p)
       \/ Answered(p) \/ NotAnswered(p)
       \/ Subscribes(p) \/ SubscribeFails(p) \/ SubscribeExpires(p) \/ LateSubscribe(p)
       \/ ReadBack(p) \/ Save(p) \/ NotSaved(p) \/ SaveExpires(p) \/ Undo(p) \/ UndoFails(p)
       \/ Leave(p)
  \/ \E e \in Endpoints : LateSave(e) \/ Gone(e)

Spec == Init /\ [][Next]_vars

-----------------------------------------------------------------------------
TypeOK ==
  /\ permission \in {"default", "granted", "denied"}
  /\ minted \in 0 .. MaxEndpoints /\ sub \in 1 .. minted \cup {None}
  /\ who \in Users \cup {None} /\ row \in [Endpoints -> Users \cup {None, "disabled"}]
  /\ pc \in [Pages -> {"idle", "asking", "subscribing", "reading", "saving", "undoing",
                       "dropping", "forgetting"}]
  /\ current \in [Pages -> Endpoints \cup {None}] /\ holding \in [Pages -> Endpoints \cup {None}]
  /\ late \subseteq Pages /\ posted \subseteq Endpoints

\* The browser is not left subscribed to something no row is about, unless a page was left
\* in the middle, or a subscription came when its deadline had passed.
SubscribedIsStored ==
  (sub # None /\ sub \notin excused /\ row[sub] \notin Users) =>
    \E p \in Pages : pc[p] \in {"saving", "undoing"} /\ holding[p] = sub
=============================================================================
