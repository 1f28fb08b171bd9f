--------------------------------- MODULE Passkeys ---------------------------------
(***************************************************************************)
(* Passkeys of one browser: a challenge is put in Redis under the id in    *)
(* the browser's one cookie, taken (a get, and then a del) by whichever    *)
(* request answers it, and a credential is stored or a session begun.      *)
(***************************************************************************)
EXTENDS Naturals

CONSTANTS
  Checks,      \* requests that answer a challenge, each handled once
  Credentials, \* what the authenticator holds
  None,
  MaxIssued    \* bound: challenges

\* What the composing module and the proofs assume of them.
ConstantsType == None \notin Nat /\ MaxIssued \in Nat

VARIABLES
  issued,    \* challenges given out; the cookie names the last
  live,      \* those in Redis
  counter,   \* passkeys.counter of a stored credential, or None
  signed,    \* how often the authenticator has signed with it
  step, at,  \* where a check is, and the challenge, the response and the row it holds
  entered,   \* sessions: the check and its challenge
  raced,     \* ghost: challenges two checks were taking at once
  crossed    \* ghost: credentials two checks were answering with at once

vars == <<issued, live, counter, signed, step, at, entered, raced, crossed>>

Blank == [challenge |-> 0, credential |-> None, count |-> 0]

Init ==
  /\ issued = 0 /\ live = {}
  /\ counter = [c \in Credentials |-> None] /\ signed = [c \in Credentials |-> 0]
  /\ step = [k \in Checks |-> "idle"] /\ at = [k \in Checks |-> Blank]
  /\ entered = {} /\ raced = {} /\ crossed = {}

Goto(k, label) == step' = [step EXCEPT ![k] = label]

\* stashChallenge, for either ceremony.
Stash ==
  /\ issued < MaxIssued /\ issued' = issued + 1
  /\ live' = live \cup {issued'}
  /\ UNCHANGED <<counter, signed, step, at, entered, raced, crossed>>

\* Redis forgets it after five minutes.
Forget(ch) ==
  /\ ch \in live /\ live' = live \ {ch}
  /\ UNCHANGED <<issued, counter, signed, step, at, entered, raced, crossed>>

\* The browser answers a challenge it was given, the first time with a new credential,
\* or submits an answer again; the request may take its time.
Sign(k, ch, c) ==
  /\ step[k] = "idle" /\ ch \in 1 .. issued
  /\ signed' = [signed EXCEPT ![c] = @ + 1]
  /\ at' = [at EXCEPT ![k] = [challenge |-> ch, credential |-> c, count |-> signed'[c]]]
  /\ Goto(k, "sent")
  /\ UNCHANGED <<issued, live, counter, entered, raced, crossed>>
Resend(k, j) ==
  /\ step[k] = "idle" /\ step[j] # "idle" /\ at[j].challenge # 0
  /\ at' = [at EXCEPT ![k] = at[j]]
  /\ Goto(k, "sent")
  /\ UNCHANGED <<issued, live, counter, signed, entered, raced, crossed>>

\* takeChallenge: the get.
GetChallenge(k) ==
  LET ch == at[k].challenge
      busy == {j \in Checks : step[j] \in {"del", "answer", "touch"}}
  IN
  /\ step[k] = "sent"
  /\ at' = [at EXCEPT ![k].challenge = IF ch \in live THEN ch ELSE 0]
  /\ raced' = IF \E j \in busy : step[j] = "del" /\ at[j].challenge = ch
              THEN raced \cup {ch} ELSE raced
  /\ crossed' = IF \E j \in busy : at[j].credential = at[k].credential
                THEN crossed \cup {at[k].credential} ELSE crossed
  /\ Goto(k, "del")
  /\ UNCHANGED <<issued, live, counter, signed, entered>>

\* Mutation: the challenge lives until it is forgotten.
KeepChallenge(k) ==
  /\ step[k] = "del"
  /\ Goto(k, IF at[k].challenge = 0 THEN "done" ELSE "answer")
  /\ UNCHANGED <<issued, live, counter, signed, at, entered, raced, crossed>>

\* The del, and a refusal if there was nothing to get.
DelChallenge(k) ==
  /\ step[k] = "del"
  /\ live' = live \ {at[k].challenge}
  /\ Goto(k, IF at[k].challenge = 0 THEN "done" ELSE "answer")
  /\ UNCHANGED <<issued, counter, signed, at, entered, raced, crossed>>

\* verifyPasskeyRegistration, from inside a session: an upsert.
Register(k) ==
  /\ step[k] = "answer" /\ at[k].count = 1
  /\ counter' = [counter EXCEPT ![at[k].credential] = at[k].count]
  /\ Goto(k, "done")
  /\ UNCHANGED <<issued, live, signed, at, entered, raced, crossed>>

\* getPasskey, and the library's verdict: a counter that has not moved is a copy.
Verify(k) ==
  LET stored == counter[at[k].credential] IN
  /\ step[k] = "answer" /\ at[k].count > 1
  /\ Goto(k, IF stored = None THEN "done" ELSE IF at[k].count <= stored THEN "done" ELSE "touch")
  /\ UNCHANGED <<issued, live, counter, signed, at, entered, raced, crossed>>

\* touchPasskey and startSession.
Enter(k) ==
  /\ step[k] = "touch"
  /\ counter' = [counter EXCEPT ![at[k].credential] = at[k].count]
  /\ entered' = entered \cup {[by |-> k, challenge |-> at[k].challenge]}
  /\ Goto(k, "done")
  /\ UNCHANGED <<issued, live, signed, at, raced, crossed>>

Next ==
  \/ Stash
  \/ \E ch \in 1 .. MaxIssued :
       Forget(ch) \/ \E k \in Checks, c \in Credentials : Sign(k, ch, c)
  \/ \E j, k \in Checks : Resend(k, j)
  \/ \E k \in Checks : GetChallenge(k) \/ DelChallenge(k) \/ Register(k) \/ Verify(k) \/ Enter(k)

Spec == Init /\ [][Next]_vars

TypeOK ==
  /\ issued \in 0 .. MaxIssued /\ live \subseteq 1 .. MaxIssued
  /\ counter \in [Credentials -> Nat \cup {None}] /\ signed \in [Credentials -> Nat]
  /\ step \in [Checks -> {"idle", "sent", "del", "answer", "touch", "done"}]
  /\ at \in [Checks -> [challenge : 0 .. MaxIssued, credential : Credentials \cup {None},
                        count : Nat]]
  /\ entered \subseteq [by : Checks, challenge : 1 .. MaxIssued]
  /\ raced \subseteq 1 .. MaxIssued /\ crossed \subseteq Credentials

\* "a challenge is single-use state that must not be replayable", for requests that do
\* not take it at the same moment.
ChallengeUsedOnce ==
  \A s, t \in entered : s.challenge = t.challenge => s = t \/ s.challenge \in raced

\* The stored counter never goes back, so a copied authenticator is noticed, unless two
\* requests answered with the same credential at once.
CounterAdvances ==
  [][\A c \in Credentials : counter[c] # None /\ counter'[c] # counter[c] /\ c \notin crossed
       => counter'[c] > counter[c]]_vars
=============================================================================
