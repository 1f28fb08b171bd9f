------------------------------ MODULE RadioSession ------------------------------
(***************************************************************************)
(* One reader's SiriusXM: the sign-in that waits for its code, the session *)
(* sealed in siriusxm_sessions under the reader's key vault, and the       *)
(* bearer the web process opens from it, refreshes and holds for the next  *)
(* calls.  A token is a pair: the session it is of, and its turn in it.    *)
(***************************************************************************)
EXTENDS Integers, FiniteSets

CONSTANTS
  Calls,      \* what asks for a bearer: manifests, keys, segments, tunes
  None,
  MaxLogins,  \* bound: sign-ins started
  MaxTurns,   \* bound: refreshes of a session
  MaxForgets  \* bound: locks, disconnections and refusals

Jars == 1 .. MaxLogins
Tokens == Jars \X (0 .. MaxTurns)

\* What the composing module and the proofs assume of them.
ConstantsType == /\ None \notin Calls \cup Jars \cup Tokens
                 /\ MaxLogins \in Nat /\ MaxTurns \in Nat /\ MaxForgets \in Nat

VARIABLES
  stored,    \* the row's token, or None
  unlocked,  \* the vault
  bearer,    \* bearers: the opened token held, or None
  inflight,  \* the call whose load the others wait for, or None
  lapsed,    \* tokens at most 30 s from their expiry
  pc, held, waits, \* a call: where it is, the token it has in hand, the load it waits for
  pending,   \* the sign-in that waits for its code, or None
  verify,    \* the sign-in whose code is being tried: jar, step and the session it made
  logins,
  crossed,   \* ghost: what a load began from was dropped or replaced under it
  forgets

session == <<stored, bearer, inflight, lapsed>>
calls == <<pc, held, waits>>
signIn == <<pending, verify, logins>>
vars == <<session, unlocked, calls, signIn, crossed, forgets>>

Idle == [jar |-> None, step |-> "none"]

Init ==
  /\ stored = None /\ unlocked = TRUE /\ bearer = None /\ inflight = None /\ lapsed = {}
  /\ pc = [r \in Calls |-> "idle"] /\ held = [r \in Calls |-> None]
  /\ waits = [r \in Calls |-> None]
  /\ pending = None /\ verify = Idle /\ logins = 0
  /\ crossed = FALSE /\ forgets = 0

-----------------------------------------------------------------------------
(* The bearer: bearerFor and loadBearer.                                   *)

Loading == {r \in Calls : pc[r] \in {"reading", "opening", "refreshing", "saving", "caching"}}

\* What a load ends with reaches the call that began it and those that waited for it;
\* the load takes away the entry in flight, whoever's it is by then.
EndLoad(r, token) ==
  LET heard == {r} \cup {w \in Calls : pc[w] = "waiting" /\ waits[w] = r} IN
  /\ pc' = [w \in Calls |-> IF w \in heard THEN IF token = None THEN "failed" ELSE "got" ELSE pc[w]]
  /\ held' = [w \in Calls |-> IF w \in heard THEN token ELSE held[w]]
  /\ waits' = [w \in Calls |-> IF w \in heard THEN None ELSE waits[w]]
  /\ inflight' = None

Good(token) == token # None /\ token \notin lapsed

Ask(r) ==
  /\ pc[r] = "idle"
  /\ IF Good(bearer)
     THEN pc' = [pc EXCEPT ![r] = "got"] /\ held' = [held EXCEPT ![r] = bearer]
          /\ UNCHANGED <<waits, inflight>>
     ELSE IF inflight # None
     THEN pc' = [pc EXCEPT ![r] = "waiting"] /\ waits' = [waits EXCEPT ![r] = inflight]
          /\ UNCHANGED <<held, inflight>>
     ELSE pc' = [pc EXCEPT ![r] = "reading"] /\ inflight' = r
          /\ UNCHANGED <<held, waits>>
  /\ UNCHANGED <<stored, bearer, lapsed, unlocked, signIn, crossed, forgets>>

\* getSiriusXm.
ReadRow(r) ==
  /\ pc[r] = "reading"
  /\ pc' = [pc EXCEPT ![r] = "opening"] /\ held' = [held EXCEPT ![r] = stored]
  /\ UNCHANGED <<session, unlocked, waits, signIn, crossed, forgets>>

\* storedSession: nothing there, or locked, is refused; a token that is good is held; one
\* that is not is given in for another.
Open(r) ==
  /\ pc[r] = "opening"
  /\ IF held[r] = None \/ ~unlocked
     THEN EndLoad(r, None) /\ UNCHANGED <<bearer>>
     ELSE IF Good(held[r])
     THEN EndLoad(r, held[r]) /\ bearer' = held[r]
     ELSE /\ pc' = [pc EXCEPT ![r] = "refreshing"]
          /\ UNCHANGED <<held, waits, inflight, bearer>>
  /\ UNCHANGED <<stored, lapsed, unlocked, signIn, crossed, forgets>>

\* refreshSession answers, and what it gave is sealed while the vault can seal.
Refreshed(r) ==
  LET token == <<held[r][1], held[r][2] + 1>> IN
  /\ pc[r] = "refreshing" /\ token \in Tokens
  /\ IF unlocked
     THEN pc' = [pc EXCEPT ![r] = "saving"] /\ held' = [held EXCEPT ![r] = token]
          /\ UNCHANGED <<waits, inflight>>
     ELSE EndLoad(r, None)
  /\ UNCHANGED <<stored, bearer, lapsed, unlocked, signIn, crossed, forgets>>

\* Or it refuses, or does not answer.
RefreshFails(r) ==
  /\ pc[r] = "refreshing"
  /\ EndLoad(r, None)
  /\ UNCHANGED <<stored, bearer, lapsed, unlocked, signIn, crossed, forgets>>

\* saveSiriusXm: an upsert, which puts back a row that has gone.
SaveRow(r) ==
  /\ pc[r] = "saving"
  /\ stored' = held[r] /\ pc' = [pc EXCEPT ![r] = "caching"]
  /\ UNCHANGED <<bearer, inflight, lapsed, unlocked, held, waits, signIn, crossed, forgets>>

Cache(r) ==
  /\ pc[r] = "caching"
  /\ EndLoad(r, held[r]) /\ bearer' = held[r]
  /\ UNCHANGED <<stored, lapsed, unlocked, signIn, crossed, forgets>>

\* forget: what is held is dropped, and the load in flight is no longer joined.
\* Mutation: the bearer stays.
ForgetLoadOnly == inflight' = None /\ crossed' = (crossed \/ Loading # {}) /\ UNCHANGED bearer

\* forget: what is held is dropped, and the load in flight is no longer joined.
Forget == bearer' = None /\ inflight' = None /\ crossed' = (crossed \/ Loading # {})

Drop == Forget /\ forgets < MaxForgets /\ forgets' = forgets + 1

\* SXM answers the call, or refuses it: then what is held is dropped.
Answered(r) ==
  /\ pc[r] \in {"got", "failed"}
  /\ pc' = [pc EXCEPT ![r] = "idle"] /\ held' = [held EXCEPT ![r] = None]
  /\ UNCHANGED <<session, unlocked, waits, signIn, crossed, forgets>>

Refused(r) ==
  /\ pc[r] = "got"
  /\ pc' = [pc EXCEPT ![r] = "idle"] /\ held' = [held EXCEPT ![r] = None]
  /\ Drop
  /\ UNCHANGED <<stored, lapsed, unlocked, waits, signIn>>

-----------------------------------------------------------------------------
(* What drops a session: the vault, and the reader.                        *)

\* onChange: the vault is locked, or its time is over.
Lock ==
  /\ unlocked /\ unlocked' = FALSE
  /\ Drop
  /\ UNCHANGED <<stored, lapsed, calls, signIn>>

Unlock ==
  /\ ~unlocked /\ unlocked' = TRUE
  /\ UNCHANGED <<session, calls, signIn, crossed, forgets>>

\* disconnect, when its statement has been made.
Disconnect ==
  /\ pending' = None
  /\ stored' = None
  /\ Drop
  /\ UNCHANGED <<lapsed, unlocked, calls, verify, logins>>

-----------------------------------------------------------------------------
(* The sign-in.                                                            *)

\* connect: no code is sent that could not be saved.
Connect ==
  /\ unlocked /\ logins < MaxLogins
  /\ logins' = logins + 1 /\ pending' = logins + 1
  /\ UNCHANGED <<session, unlocked, calls, verify, crossed, forgets>>

\* The sign-in is given up, or its ten minutes are over.
GiveUp ==
  /\ pending # None /\ pending' = None
  /\ UNCHANGED <<session, unlocked, calls, verify, logins, crossed, forgets>>

\* verify: the jar is taken; a blank code puts it back, which changes nothing.
Verify ==
  /\ pending # None /\ verify = Idle
  /\ verify' = [jar |-> pending, step |-> "trying"] /\ pending' = None
  /\ UNCHANGED <<session, unlocked, calls, logins, crossed, forgets>>

\* The code is right and the session can be sealed.
CodeRight ==
  /\ verify.step = "trying" /\ unlocked
  /\ verify' = [verify EXCEPT !.step = "saving"]
  /\ UNCHANGED <<session, unlocked, calls, pending, logins, crossed, forgets>>

\* The code is wrong, or the vault is locked: the jar goes back, over any other.
PutBack ==
  /\ verify.step = "trying"
  /\ pending' = verify.jar /\ verify' = Idle
  /\ UNCHANGED <<session, unlocked, calls, logins, crossed, forgets>>

\* SiriusXM does not answer: the jar is spent.
VerifyFails ==
  /\ verify.step = "trying"
  /\ verify' = Idle
  /\ UNCHANGED <<session, unlocked, calls, pending, logins, crossed, forgets>>

SaveSession ==
  /\ verify.step = "saving"
  /\ stored' = <<verify.jar, 0>> /\ verify' = [verify EXCEPT !.step = "saved"]
  /\ crossed' = (crossed \/ Loading # {})
  /\ UNCHANGED <<bearer, inflight, lapsed, unlocked, calls, pending, logins, forgets>>

Connected ==
  /\ verify.step = "saved"
  /\ verify' = Idle
  /\ Forget
  /\ UNCHANGED <<stored, lapsed, unlocked, calls, pending, logins, forgets>>

\* Its time comes; one at its last turn within the bound stays.
Lapse(t) ==
  /\ t \notin lapsed /\ t[2] < MaxTurns
  /\ t \in {stored, bearer} \cup {held[r] : r \in Calls}
  /\ lapsed' = lapsed \cup {t}
  /\ UNCHANGED <<stored, bearer, inflight, unlocked, calls, signIn, crossed, forgets>>

Load(r) ==
  ReadRow(r) \/ Open(r) \/ Refreshed(r) \/ RefreshFails(r) \/ SaveRow(r) \/ Cache(r)

Next ==
  \/ \E r \in Calls : Ask(r) \/ Load(r) \/ Answered(r) \/ Refused(r)
  \/ Lock \/ Unlock \/ Disconnect
  \/ Connect \/ GiveUp \/ Verify \/ CodeRight \/ PutBack \/ VerifyFails \/ SaveSession \/ Connected
  \/ \E t \in Tokens : Lapse(t)

Spec == Init /\ [][Next]_vars

-----------------------------------------------------------------------------
TypeOK ==
  /\ stored \in Tokens \cup {None} /\ bearer \in Tokens \cup {None} /\ unlocked \in BOOLEAN
  /\ inflight \in Calls \cup {None} /\ lapsed \subseteq Tokens
  /\ pc \in [Calls -> {"idle", "reading", "opening", "refreshing", "saving", "caching",
                       "waiting", "got", "failed"}]
  /\ held \in [Calls -> Tokens \cup {None}] /\ waits \in [Calls -> Calls \cup {None}]
  /\ pending \in Jars \cup {None} /\ logins \in 0 .. MaxLogins
  /\ verify \in [jar : Jars \cup {None}, step : {"none", "trying", "saving", "saved"}]
  /\ crossed \in BOOLEAN /\ forgets \in 0 .. MaxForgets

\* What is held is of the session that is stored, and is held only while the vault is open,
\* unless it was dropped under a call that was still opening it.
HeldIsStored ==
  bearer # None /\ ~crossed /\ verify.step # "saved"
    => unlocked /\ stored # None /\ stored[1] = bearer[1]

\* "Ten segment fetches at once mint one refresh", unless what they wait for was dropped.
OneLoad == ~crossed => Cardinality(Loading) <= 1

\* A call that waits waits for a load that is still under way, which will answer it.
WaitsForALoad == \A r \in Calls : pc[r] = "waiting" => waits[r] \in Loading
=============================================================================
