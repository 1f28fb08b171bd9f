-------------------------------- MODULE InviteMail --------------------------------
(***************************************************************************)
(* sendInvites: mail to strangers on a reader's behalf, ten a day, and     *)
(* nobody again within the month.  The limits are counted before the mail  *)
(* goes and the mail is written down after it went, so what several        *)
(* submissions at once may send is a matter of how they interleave.        *)
(***************************************************************************)
EXTENDS Integers, FiniteSets

CONSTANTS
  Submissions,    \* posts of the form, each handled once
  Readers,        \* who posts
  Mails,          \* addresses
  OwnMail,        \* [Readers -> Mails]
  None,
  DailyLimit,     \* DAILY_SEND_LIMIT
  MaxPer,         \* MAX_PER_SUBMISSION
  Day, Quiet,     \* 24 hours, and REINVITE_QUIET_DAYS
  MaxTime,        \* bound: the clock stops here
  MaxFaults       \* bound: mails refused, rows not written, processes that die

\* What the composing module and the proofs assume of them.
ConstantsType ==
  /\ DailyLimit \in Nat /\ MaxPer \in Nat /\ Day \in Nat /\ Quiet \in Nat
  /\ MaxTime \in Nat /\ Quiet <= MaxTime /\ MaxFaults \in Nat

VARIABLES
  now,
  rows,       \* invite_sends
  mailed,     \* what went out: by whom, to whom, when, and a number for each
  pc, at,     \* where a submission is: reader, addresses left, allowance, address in hand
  faults,
  together,   \* ghost: readers with two submissions under way at once, and addresses
              \* that two submissions were about to mail at once
  unwritten   \* ghost: mails that went and were not written down

vars == <<now, rows, mailed, pc, at, faults, together, unwritten>>

Nothing == [reader |-> None, left |-> {}, allowance |-> 0, mail |-> None]
Since(log, t) == {s \in log : s.at > t}

Init ==
  /\ now = Quiet /\ rows = {} /\ mailed = {}
  /\ pc = [s \in Submissions |-> "idle"] /\ at = [s \in Submissions |-> Nothing]
  /\ faults = 0 /\ together = {} /\ unwritten = {}

Goto(s, label) == pc' = [pc EXCEPT ![s] = label]
Busy(s) == pc[s] \notin {"idle", "done"}
Mailing(s) == pc[s] \in {"send", "record"}

Post(s, r, addresses) ==
  /\ pc[s] = "idle" /\ addresses # {}
  /\ at' = [at EXCEPT ![s] = [Nothing EXCEPT !.reader = r, !.left = addresses]]
  /\ Goto(s, IF Cardinality(addresses) <= MaxPer THEN "count" ELSE "done")
  /\ together' = IF \E u \in Submissions : Busy(u) /\ at[u].reader = r
                 THEN together \cup {r} ELSE together
  /\ UNCHANGED <<now, rows, mailed, faults, unwritten>>

\* invitesSentSince; the code of the link is minted if there is none yet.
Count(s) ==
  LET sent == Cardinality({m \in Since(rows, now - Day) : m.reader = at[s].reader}) IN
  /\ pc[s] = "count"
  /\ at' = [at EXCEPT ![s].allowance = DailyLimit - sent]
  /\ Goto(s, IF sent >= DailyLimit THEN "done" ELSE "next")
  /\ UNCHANGED <<now, rows, mailed, faults, together, unwritten>>

\* The next of the first `remaining` addresses; invitedRecently, by anybody.
NextAddress(s) ==
  /\ pc[s] = "next"
  /\ IF at[s].left = {} \/ at[s].allowance = 0
     THEN Goto(s, "done") /\ UNCHANGED <<at, together>>
     ELSE \E m \in at[s].left :
            LET skip == \/ m = OwnMail[at[s].reader]
                        \/ \E n \in Since(rows, now - Quiet) : n.mail = m
            IN /\ at' = [at EXCEPT ![s].left = @ \ {m}, ![s].allowance = @ - 1, ![s].mail = m]
               /\ Goto(s, IF skip THEN "next" ELSE "send")
               /\ together' = IF ~skip /\ \E u \in Submissions : Mailing(u) /\ at[u].mail = m
                              THEN together \cup {m} ELSE together
  /\ UNCHANGED <<now, rows, mailed, faults, unwritten>>

\* The mailer: it refuses, and the address is skipped, or the mail is gone.
Send(s) ==
  /\ pc[s] = "send"
  /\ \/ /\ mailed' = mailed \cup {[reader |-> at[s].reader, mail |-> at[s].mail, at |-> now,
                                   n |-> Cardinality(mailed)]}
        /\ Goto(s, "record") /\ UNCHANGED faults
     \/ /\ faults < MaxFaults /\ faults' = faults + 1
        /\ Goto(s, "next") /\ UNCHANGED mailed
  /\ UNCHANGED <<now, rows, at, together, unwritten>>

\* recordInviteSend; if it fails, the loop goes on.
Record(s) ==
  /\ pc[s] = "record"
  /\ \/ /\ rows' = rows \cup {[reader |-> at[s].reader, mail |-> at[s].mail, at |-> now,
                               n |-> Cardinality(rows)]}
        /\ UNCHANGED <<faults, unwritten>>
     \/ /\ faults < MaxFaults /\ faults' = faults + 1
        /\ unwritten' = unwritten \cup {at[s].reader, at[s].mail}
        /\ UNCHANGED rows
  /\ Goto(s, "next")
  /\ UNCHANGED <<now, mailed, at, together>>

Dies(s) ==
  /\ Busy(s) /\ faults < MaxFaults
  /\ faults' = faults + 1
  /\ unwritten' = IF pc[s] = "record" THEN unwritten \cup {at[s].reader, at[s].mail} ELSE unwritten
  /\ Goto(s, "done")
  /\ UNCHANGED <<now, rows, mailed, at, together>>

Tick ==
  /\ now < MaxTime /\ now' = now + 1
  /\ UNCHANGED <<rows, mailed, pc, at, faults, together, unwritten>>

Next ==
  \/ \E s \in Submissions :
       \/ \E r \in Readers, addresses \in SUBSET Mails : Post(s, r, addresses)
       \/ Count(s) \/ NextAddress(s) \/ Send(s) \/ Record(s) \/ Dies(s)
  \/ Tick

Spec == Init /\ [][Next]_vars

-----------------------------------------------------------------------------

Mail == [reader : Readers, mail : Mails, at : Int, n : Nat]
TypeOK ==
  /\ now \in Quiet .. MaxTime /\ rows \subseteq Mail /\ mailed \subseteq Mail
  /\ pc \in [Submissions -> {"idle", "count", "next", "send", "record", "done"}]
  /\ at \in [Submissions -> [reader : Readers \cup {None}, left : SUBSET Mails,
                             allowance : Int, mail : Mails \cup {None}]]
  /\ faults \in 0 .. MaxFaults /\ together \subseteq Readers \cup Mails
  /\ unwritten \subseteq Readers \cup Mails

\* "an open relay with our domain on the envelope" it is not: in any day a reader's
\* mails stay within the limit, through refusals, deaths, the passing of time and whatever
\* others post meanwhile, unless two submissions of their own overlapped (both count
\* before either mails) or a mail of theirs could not be written down.
DailyLimitKept ==
  \A r \in Readers \ (together \cup unwritten) :
    Cardinality({m \in Since(mailed, now - Day) : m.reader = r}) <= DailyLimit

\* "A month of quiet after anybody invites an address": nobody is mailed twice in it,
\* whoever asks and however the submissions overlap, unless two of them had that very
\* address in hand between the look and the row, or a mail to it was not written down.
Pestered(m, n) == m.mail = n.mail /\ m.n < n.n /\ n.at - m.at < Quiet
MonthOfQuiet ==
  \A m, n \in mailed : Pestered(m, n) => m.mail \in together \cup unwritten

\* What strangers are spared.
MailLimits == DailyLimitKept /\ MonthOfQuiet
=============================================================================
