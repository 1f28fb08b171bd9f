--------------------------------- MODULE Guesses ---------------------------------
(***************************************************************************)
(* The password of one account, with any number of requests at it at once: *)
(* verifyPassword counts, reads, hashes and records in statements of its   *)
(* own.                                                                    *)
(***************************************************************************)
EXTENDS Integers, FiniteSets, Sequences

CONSTANTS
  Tries,        \* requests with a password, each handled once
  MaxFailures,  \* MAX_FAILURES
  Window,       \* WINDOW_MINUTES
  MaxTime,      \* bound: the clock stops here
  MaxChanges    \* bound: how often the password is set or removed

\* What the composing module and the proofs assume of them.
ConstantsType ==
  MaxFailures \in Nat /\ Window \in Int /\ MaxTime \in Nat \ {0} /\ MaxChanges \in Nat

VARIABLES
  now,
  current,    \* users.password_hash: a generation, 0 when there is none
  changes,
  attempts,   \* login_attempts: when, and whether it was right
  pc, guess,  \* where a try is, and the password it brings
  hash,       \* the hash it has read
  matched,    \* whether that was its password
  begun,    \* what began a session: the password brought, and what the account's had
              \* been from the count on
  since,      \* ghost: what the account's password has been since a try was counted
  tested,     \* ghost: guesses that were hashed: when, and whether they were right
  atOnce      \* ghost: how many tries were under way at once, at most

ghosts == <<since, tested, atOnce>>
trying == <<current, changes, attempts, pc, guess, hash, matched, begun, ghosts>>
vars == <<now, trying>>

Generations == 0 .. MaxChanges + 1

Init ==
  /\ now = 1 /\ current = 1 /\ changes = 0 /\ attempts = <<>>
  /\ pc = [t \in Tries |-> "idle"] /\ guess = [t \in Tries |-> 0]
  /\ hash = [t \in Tries |-> 0] /\ matched = [t \in Tries |-> FALSE]
  /\ begun = {} /\ since = [t \in Tries |-> {}] /\ tested = <<>> /\ atOnce = 0

-----------------------------------------------------------------------------
(* verifyPassword, and the password of the account.                        *)

Goto(t, label) == pc' = [pc EXCEPT ![t] = label]

UnderWay(t) == pc[t] \in {"read", "verify", "record"}
InHand == {t \in Tries : UnderWay(t)}

\* The wrong ones of a log in the window, since the last right one.
WrongIn(log) ==
  {i \in DOMAIN log : /\ ~log[i].ok /\ log[i].at > now - Window
                      /\ \A j \in DOMAIN log : log[j].ok => j < i}

\* Mutation: off by one.
MayGuessOneMore == Cardinality(WrongIn(attempts)) <= MaxFailures

\* recentFailedLogins, against MAX_FAILURES.
MayGuess == Cardinality(WrongIn(attempts)) < MaxFailures

\* The count comes first, and nothing is charged for being refused.
Count(t, g) ==
  /\ pc[t] = "idle"
  /\ guess' = [guess EXCEPT ![t] = g]
  /\ Goto(t, IF MayGuess THEN "read" ELSE "done")
  /\ since' = [since EXCEPT ![t] = {current}]
  /\ atOnce' = IF MayGuess /\ Cardinality(InHand) = atOnce THEN atOnce + 1 ELSE atOnce
  /\ UNCHANGED <<now, current, changes, attempts, hash, matched, begun, tested>>

\* getUserForPassword, or the decoy when there is no hash.
ReadHash(t) ==
  /\ pc[t] = "read"
  /\ hash' = [hash EXCEPT ![t] = current]
  /\ Goto(t, "verify")
  /\ UNCHANGED <<now, current, changes, attempts, guess, matched, begun, ghosts>>

\* The decoy never authenticates anything.
Verify(t) ==
  /\ pc[t] = "verify"
  /\ matched' = [matched EXCEPT ![t] = hash[t] # 0 /\ guess[t] = hash[t]]
  /\ tested' = Append(tested, [at |-> now, ok |-> matched'[t]])
  /\ Goto(t, "record")
  /\ UNCHANGED <<now, current, changes, attempts, guess, hash, begun, since, atOnce>>

Record(t) ==
  /\ pc[t] = "record"
  /\ attempts' = Append(attempts, [at |-> now, ok |-> matched[t]])
  /\ Goto(t, IF matched[t] THEN "session" ELSE "done")
  /\ UNCHANGED <<now, current, changes, guess, hash, matched, begun, ghosts>>

Begin(t) ==
  /\ pc[t] = "session"
  /\ begun' = begun \cup {[brought |-> guess[t], been |-> since[t]]}
  /\ Goto(t, "done")
  /\ UNCHANGED <<now, current, changes, attempts, guess, hash, matched, ghosts>>

\* /api/auth/password/set, from inside a session: a new one, or none.
ChangePassword(removed) ==
  /\ changes < MaxChanges /\ changes' = changes + 1
  /\ removed => current # 0
  /\ current' = IF removed THEN 0 ELSE changes + 2
  /\ since' = [t \in Tries |-> IF UnderWay(t) THEN since[t] \cup {current'} ELSE since[t]]
  /\ UNCHANGED <<now, attempts, pc, guess, hash, matched, begun, tested, atOnce>>

Tick == now < MaxTime /\ now' = now + 1 /\ UNCHANGED <<trying>>

Next ==
  \/ \E t \in Tries : \/ \E g \in Generations : Count(t, g)
                      \/ ReadHash(t) \/ Verify(t) \/ Record(t) \/ Begin(t)
  \/ \E removed \in BOOLEAN : ChangePassword(removed)
  \/ Tick

Spec == Init /\ [][Next]_vars

-----------------------------------------------------------------------------
(* Properties.                                                             *)

TypeOK ==
  /\ now \in 1 .. MaxTime /\ current \in Generations /\ changes \in 0 .. MaxChanges
  /\ attempts \in Seq([at : 1 .. MaxTime, ok : BOOLEAN])
  /\ tested \in Seq([at : 1 .. MaxTime, ok : BOOLEAN]) /\ atOnce \in Nat
  /\ pc \in [Tries -> {"idle", "read", "verify", "record", "session", "done"}]
  /\ guess \in [Tries -> Generations] /\ hash \in [Tries -> Generations]
  /\ matched \in [Tries -> BOOLEAN]
  /\ since \in [Tries -> SUBSET Generations]
  /\ begun \subseteq [brought : Generations, been : SUBSET Generations]

\* "How many wrong guesses an address gets before it is made to wait": what is hashed in
\* a window and wrong, since what was right, stays within the limit while tries come one
\* after another.  The count is read before the guess is charged and a right guess clears
\* it when it is recorded, so what overlaps is held to less: each of the tries that are
\* under way at once may pass on a count the others have yet to add to, and each may
\* clear it late.
GuessesBounded ==
  Cardinality(WrongIn(tested)) <= atOnce * MaxFailures + (atOnce * (atOnce - 1)) \div 2

\* An account is entered with a password that was its own at some point of the try, however
\* the password is set, changed and removed under it: with one that was changed before the
\* try came in nobody enters, and where there is none, with none.
NoPasswordNoEntry == \A e \in begun : e.brought # 0 /\ e.brought \in e.been
=============================================================================
