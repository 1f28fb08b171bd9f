---------------------------- MODULE SignIn_proofs ----------------------------
(***************************************************************************)
(* Proofs about SignIn, for any numbers of requests, links, mailboxes,     *)
(* accounts and CoinPay identities, with deaths and failed statements; and *)
(* about what else a reader may do as who they are: K, any number of       *)
(* answers to passkey challenges, G, of guesses at a password, P, of       *)
(* requests of readers among themselves, and I, of posts of invites.       *)
(***************************************************************************)
EXTENDS SignIn, Integers, Sequences, FiniteSetTheorems, SequenceTheorems, TLAPS

CONSTANTS Checks, Credentials, MaxIssued, Tries, MaxFailures, Window, MaxTime, MaxChanges, Readers,
          MessageRate, CommentRate, History, ThreadLimit, Submissions, OwnMail, DailyLimit, MaxPer,
          Day, Quiet

VARIABLES issued, live, counter, signed, step, response, entered, raced, clashed, clock, current,
          changes, attempts, stage, guess, hash, matched, begun, since, tested, atOnce, hour,
          follows, blocks, messages, comments, turn, asked, parted, doubling, today, sends, mailed,
          phase, posting, mishaps, overlapping, unwritten

\* The other ways into an account: a passkey and a password.
K == INSTANCE Passkeys WITH at <- response, crossed <- clashed
G == INSTANCE Guesses WITH now <- clock, pc <- stage

\* What readers do to each other and, by mail, to strangers.
P == INSTANCE People WITH now <- hour, pc <- turn, at <- asked, crossed <- parted,
                          together <- doubling
I == INSTANCE InviteMail WITH now <- today, rows <- sends, pc <- phase, at <- posting,
                              faults <- mishaps, together <- overlapping

\* Their Cardinality and IsFiniteSet, instanced, are those the theorems of the library are about.
LEMMA SameCount ==
  ASSUME NEW S
  PROVE  /\ G!Cardinality(S) = Cardinality(S) /\ P!Cardinality(S) = Cardinality(S)
         /\ I!Cardinality(S) = Cardinality(S)
BY DEF G!Cardinality, P!Cardinality, I!Cardinality, Cardinality

\* Counts of a set, of a part of it, and of it with one more.
LEMMA CountsLess ==
  ASSUME NEW S, IsFiniteSet(S), NEW T, T \subseteq S
  PROVE  /\ IsFiniteSet(T) /\ Cardinality(T) \in Nat /\ Cardinality(S) \in Nat
         /\ Cardinality(T) <= Cardinality(S)
BY FS_Subset, FS_CardinalityType

LEMMA CountsOneMore ==
  ASSUME NEW S, IsFiniteSet(S), NEW x, NEW T, T \subseteq S \cup {x}
  PROVE  /\ Cardinality(T) \in Nat /\ Cardinality(S) \in Nat
         /\ Cardinality(T) <= Cardinality(S) + 1
<1>1. IsFiniteSet(S \cup {x}) /\ Cardinality(S \cup {x}) <= Cardinality(S) + 1
      /\ Cardinality(S) \in Nat
  BY FS_AddElement, FS_CardinalityType
<1>2. IsFiniteSet(T) /\ Cardinality(T) <= Cardinality(S \cup {x})
  BY <1>1, FS_Subset
<1> QED
  BY <1>1, <1>2, FS_CardinalityType

Stages == {"idle", "consume", "find", "session", "claim", "redeem", "invitee", "inviter",
           "bound", "create", "link", "delete", "again", "pass", "done"}
Locals == [link : Links \cup {None}, sub : Subs \cup {None}, connect : BOOLEAN,
           me : Accounts \cup {None}, code : BOOLEAN, scarce : BOOLEAN,
           account : Accounts \cup {None}, created : BOOLEAN]

LinkStages == {"consume", "find", "claim", "redeem", "invitee", "inviter"}
CoinStages == {"bound", "create", "link", "delete", "again", "pass"}
PastConsume == {"find", "session", "claim", "redeem", "invitee", "inviter"}
PastSession == {"claim", "redeem", "invitee", "inviter", "done"}
WithAccount == {"session", "claim", "redeem", "invitee", "inviter", "link", "delete", "pass"}

\* What a request has in hand at each stage of its handler.
StageInv == \A r \in Requests :
  /\ pc[r] = "idle" => at[r] = Idle
  /\ pc[r] \in LinkStages => at[r].link # None
  /\ pc[r] \in CoinStages => at[r].link = None /\ at[r].sub # None
  /\ pc[r] \in WithAccount => at[r].account # None
  /\ pc[r] \in {"create", "delete"} => ~at[r].connect
  /\ at[r].connect => at[r].me # None
  /\ at[r].created => at[r].link # None
  /\ at[r].link # None => mailOf[at[r].link] # None

\* A request that got past consumeLoginToken holds its link alone, for good.
Won(r) == pc[r] \in PastConsume \/ \E s \in sessions : s.by = r
LinkInv ==
  /\ \A r \in Requests : at[r].link # None /\ Won(r) => link[at[r].link] = "used"
  /\ \A q, r \in Requests :
       Won(q) /\ Won(r) /\ at[q].link # None /\ at[q].link = at[r].link => q = r

\* A request begins one session at most.
SessionInv ==
  /\ \A s \in sessions : pc[s.by] \in PastSession
  /\ \A s, t \in sessions : s.by = t.by => s = t

\* An account that counts as made by a link has that link's address, and is never the one a
\* CoinPay login throws away.
Making(r) == pc[r] \in {"link", "delete"} /\ ~at[r].connect
CreatedInv ==
  /\ \A r \in Requests : at[r].created => at[r].account # None /\ address[at[r].account] \in Mails
  /\ \A r \in Requests : Making(r) => address[at[r].account] = Placeholder
  /\ \A q, r \in Requests : Making(q) /\ Making(r) /\ at[q].account = at[r].account => q = r
  /\ CreditedOnce

\* The two sides of a scarce invite.
InviteInv ==
  /\ \A r \in Requests : pc[r] \in {"invitee", "inviter"} => at[r].account = usedBy
  /\ \A r \in Requests : pc[r] = "inviter" =>
       [account |-> usedBy, for |-> "invitee"] \in days \/ usedBy \in broken
  /\ InvitePaysItsUser

\* An account without a mailbox is bound, or in the hands of the login that made it.
MadeBy(a) == \E r \in Requests : at[r].account = a /\ Making(r)
PlaceholderInv == \A a \in Accounts :
  address[a] = Placeholder => Bound(a) \/ MadeBy(a) \/ a \in broken

IInv == TypeOK /\ StageInv /\ LinkInv /\ SessionInv /\ CreatedInv /\ InviteInv /\ PlaceholderInv

\* A request's locals keep their type when one of them is set.
LEMMA LocalsKeep ==
  ASSUME NEW x \in Locals, NEW a \in Accounts \cup {None}, NEW b \in BOOLEAN
  PROVE  /\ [x EXCEPT !.scarce = b] \in Locals
         /\ [x EXCEPT !.account = a] \in Locals
         /\ [x EXCEPT !.account = a, !.created = b] \in Locals
BY DEF Locals


\* What reading coinpay_identities leads to, the first time and after a lost race.
ReadsTo(r) ==
  /\ UNCHANGED <<rows, faults, broken>>
  /\ pc[r] \in {"bound", "again"} /\ pc' \in [Requests -> Stages]
  /\ pc'[r] \in {"create", "done", "link", "pass"}
  /\ at' \in [Requests -> Locals]
  /\ \A q \in Requests \ {r} : pc'[q] = pc[q] /\ at'[q] = at[q]
  /\ at'[r].link = at[r].link /\ at'[r].sub = at[r].sub /\ at'[r].me = at[r].me
  /\ (at'[r].connect <=> at[r].connect) /\ (at'[r].created <=> at[r].created)
  /\ pc'[r] = "create" => ~at[r].connect
  /\ pc'[r] = "link" => at[r].connect
  /\ pc'[r] \in {"link", "pass"} => at'[r].account \in Accounts
LEMMA IdentityRead ==
  ASSUME ConstantsType, TypeOK, StageInv, NEW r \in Requests, ReadIdentity(r) \/ ReadAgain(r)
  PROVE  ReadsTo(r)
<1> DEFINE a == identity[at[r].sub]
           me == at[r].me
<1>0. /\ UNCHANGED <<rows, faults, broken>> /\ pc[r] \in {"bound", "again"}
      /\ a \in Accounts \cup {None} /\ (at[r].connect => me \in Accounts)
  BY DEF ReadIdentity, ReadAgain, Keep, StageInv, CoinStages, TypeOK
<1>1. at \in [Requests -> Locals] /\ pc \in [Requests -> Stages]
  BY DEF TypeOK, Locals, Stages
<1>2. ASSUME NEW b \in Accounts PROVE [at[r] EXCEPT !.account = b] \in Locals
  BY <1>1, LocalsKeep
<1>3. ASSUME NEW b \in Accounts, NEW next \in {"link", "pass"}, next = "link" => at[r].connect,
             Know(r, [at[r] EXCEPT !.account = b]), Goto(r, next)
      PROVE  ReadsTo(r)
  <2> HIDE DEF a, me
  <2>1. at' \in [Requests -> Locals] /\ pc' \in [Requests -> Stages]
    BY <1>1, <1>2, <1>3 DEF Know, Goto, Stages
  <2> QED BY <1>0, <1>1, <1>3, <2>1 DEF Know, Goto, ReadsTo, Locals
<1>4. ASSUME NEW next \in {"create", "done"}, next = "create" => ~at[r].connect,
             UNCHANGED at, Goto(r, next)
      PROVE  ReadsTo(r)
  <2> HIDE DEF a, me
  <2>1. pc' \in [Requests -> Stages]
    BY <1>1, <1>4 DEF Goto, Stages
  <2> QED BY <1>0, <1>1, <1>4, <2>1 DEF Goto, ReadsTo
<1>5. CASE ReadAgain(r)
  <2>1. \/ a # None /\ Know(r, [at[r] EXCEPT !.account = a]) /\ Goto(r, "pass")
        \/ Goto(r, "done") /\ UNCHANGED at
    BY <1>5 DEF ReadAgain, Resolved
  <2> HIDE DEF a
  <2> QED BY <1>0, <1>3, <1>4, <2>1
<1>6. CASE ReadIdentity(r)
  <2>1. \/ a # None /\ Know(r, [at[r] EXCEPT !.account = a]) /\ Goto(r, "pass")
        \/ ~at[r].connect /\ Goto(r, "create") /\ UNCHANGED at
        \/ at[r].connect /\ Know(r, [at[r] EXCEPT !.account = me]) /\ Goto(r, "link")
        \/ Goto(r, "done") /\ UNCHANGED at
    BY <1>6 DEF ReadIdentity, Resolved
  <2> HIDE DEF a, me
  <2> QED BY <1>0, <1>3, <1>4, <2>1
<1> QED BY <1>5, <1>6

\* What consumeLoginToken leaves as it was, for the request that won and for one that did not.
Consumes(r) ==
  /\ UNCHANGED <<mailOf, carries, address, identity, sessions, claims, usedBy, days>>
  /\ UNCHANGED <<faults, broken>>
  /\ link' \in [Links -> {"absent", "sent", "used"}]
  /\ pc[r] = "consume" /\ pc' \in [Requests -> Stages] /\ pc'[r] \in {"find", "done"}
  /\ at' \in [Requests -> Locals]
  /\ \A q \in Requests \ {r} : pc'[q] = pc[q] /\ at'[q] = at[q]
  /\ at'[r].account = at[r].account /\ (at'[r].created <=> at[r].created)
LEMMA LinkConsumed ==
  ASSUME TypeOK, StageInv, NEW r \in Requests, Consume(r)
  PROVE  Consumes(r)
<1> DEFINE l == at[r].link
<1>1. l \in Links /\ at \in [Requests -> Locals] /\ pc \in [Requests -> Stages]
  BY DEF Consume, TypeOK, StageInv, LinkStages, Locals, Stages
<1>2. PICK b \in BOOLEAN : b <=> l \in carries
  OBVIOUS
<1>3. (l \in carries) = b
  BY <1>2
<1>4. at' = at \/ at' = [at EXCEPT ![r] = [at[r] EXCEPT !.scarce = b]]
  BY <1>3, Zenon DEF Consume, Know
<1>5. [at[r] EXCEPT !.scarce = b] \in Locals
  BY <1>1, LocalsKeep
<1>6. at' \in [Requests -> Locals]
  BY <1>1, <1>4, <1>5
<1>7. /\ \A q \in Requests \ {r} : at'[q] = at[q]
      /\ at'[r].account = at[r].account /\ (at'[r].created <=> at[r].created)
  BY <1>1, <1>4 DEF Locals
<1>8. link' \in [Links -> {"absent", "sent", "used"}]
  BY DEF Consume, TypeOK
<1>9. /\ pc[r] = "consume" /\ pc' \in [Requests -> Stages] /\ pc'[r] \in {"find", "done"}
      /\ \A q \in Requests \ {r} : pc'[q] = pc[q]
  BY <1>1 DEF Consume, Goto, Stages
<1>10. /\ UNCHANGED <<mailOf, carries, address, identity, sessions, claims, usedBy, days>>
       /\ UNCHANGED <<faults, broken>>
  BY DEF Consume, Keep
<1> QED BY <1>6, <1>7, <1>8, <1>9, <1>10 DEF Consumes

\* Every step keeps the variables in their types.
LEMMA NextKeepsTypes == ASSUME ConstantsType, TypeOK, StageInv, [Next]_vars PROVE TypeOK'
<1> USE DEF TypeOK, StageInv, ConstantsType, rows, Keep, Goto, Know, Accounts, Idle, LinkStages,
    CoinStages, WithAccount
<1>1. ASSUME NEW l \in Links, Expire(l) PROVE TypeOK'
  BY <1>1 DEF Expire
<1>2. ASSUME NEW l \in Links, NEW m \in Mails, NEW scarce \in BOOLEAN, SendLink(l, m, scarce)
      PROVE TypeOK'
  BY <1>2 DEF SendLink
<1>3. ASSUME NEW r \in Requests, NEW l \in Links, NEW cookie \in BOOLEAN, OpenLink(r, l, cookie)
      PROVE TypeOK'
  BY <1>3 DEF OpenLink
<1>4. ASSUME NEW r \in Requests, NEW s \in Subs, NEW connect \in BOOLEAN,
             NEW me \in Accounts \cup {None}, Callback(r, s, connect, me)
      PROVE TypeOK'
  BY <1>4 DEF Callback
<1>5. ASSUME NEW r \in Requests, Consume(r) PROVE TypeOK'
  <2> HIDE DEF StageInv
  <2>1. Consumes(r)
    BY <1>5, LinkConsumed
  <2> QED BY <2>1 DEF Consumes, Stages, Locals
<1>6. ASSUME NEW r \in Requests, FindOrCreate(r) PROVE TypeOK'
  <2> DEFINE old == {a \in Accounts : address[a] = mailOf[at[r].link]}
  <2>1. PICK b \in BOOLEAN : b <=> old = {}
    OBVIOUS
  <2>2. (old = {}) = b
    BY <2>1
  <2>3. PICK a \in Accounts :
          /\ address' = [address EXCEPT ![a] = mailOf[at[r].link]]
          /\ at' = [at EXCEPT ![r] = [at[r] EXCEPT !.account = a, !.created = b]]
    BY <1>6, <2>2 DEF FindOrCreate
  <2> HIDE DEF old
  <2>4. at' \in [Requests -> Locals]
    <3>1. at \in [Requests -> Locals]
      BY DEF Locals
    <3>2. [at[r] EXCEPT !.account = a, !.created = b] \in Locals
      BY <3>1, LocalsKeep
    <3> QED BY <2>3, <3>1, <3>2
  <2>5. mailOf[at[r].link] \in Mails
    BY <1>6 DEF FindOrCreate
  <2>6. address' \in [Accounts -> Mails \cup {Home, Placeholder, None}]
    BY <2>3, <2>5
  <2> QED BY <1>6, <2>4, <2>6 DEF FindOrCreate, Locals
<1>7. ASSUME NEW r \in Requests, StartSession(r) PROVE TypeOK'
  BY <1>7 DEF StartSession
<1>8. ASSUME NEW r \in Requests, ClaimInvite(r) PROVE TypeOK'
  BY <1>8 DEF ClaimInvite
<1>9. ASSUME NEW r \in Requests, RedeemInvite(r) PROVE TypeOK'
  BY <1>9 DEF RedeemInvite
<1>10. ASSUME NEW r \in Requests, GrantInvitee(r) PROVE TypeOK'
  BY <1>10 DEF GrantInvitee, GrantSide
<1>11. ASSUME NEW r \in Requests, GrantInviter(r) PROVE TypeOK'
  BY <1>11 DEF GrantInviter, GrantSide
<1>12. ASSUME NEW r \in Requests, ReadIdentity(r) PROVE TypeOK'
  <2> HIDE DEF TypeOK, StageInv, ConstantsType
  <2>1. ReadsTo(r)
    BY <1>12, IdentityRead
  <2> QED BY <2>1 DEF ReadsTo, TypeOK, StageInv, ConstantsType, Locals, Stages
<1>13. ASSUME NEW r \in Requests, CreateUser(r) PROVE TypeOK'
  BY <1>13 DEF CreateUser
<1>14. ASSUME NEW r \in Requests, LinkIdentity(r) PROVE TypeOK'
  BY <1>14 DEF LinkIdentity
<1>15. ASSUME NEW r \in Requests, DeleteUser(r) PROVE TypeOK'
  BY <1>15 DEF DeleteUser
<1>16. ASSUME NEW r \in Requests, ReadAgain(r) PROVE TypeOK'
  <2> HIDE DEF TypeOK, StageInv, ConstantsType
  <2>1. ReadsTo(r)
    BY <1>16, IdentityRead
  <2> QED BY <2>1 DEF ReadsTo, TypeOK, StageInv, ConstantsType, Locals, Stages
<1>17. ASSUME NEW r \in Requests, GrantPass(r) PROVE TypeOK'
  BY <1>17 DEF GrantPass
<1>18. ASSUME NEW r \in Requests, Dies(r) PROVE TypeOK'
  BY <1>18 DEF Dies
<1>19. ASSUME NEW a \in Accounts, Disconnect(a) PROVE TypeOK'
  BY <1>19 DEF Disconnect
<1>20. CASE UNCHANGED vars
  BY <1>20 DEF vars, rows
<1> HIDE DEF TypeOK, StageInv, ConstantsType, rows, Keep, Goto, Know, Accounts, Idle,
    LinkStages, CoinStages, WithAccount
<1> QED BY <1>1, <1>2, <1>3, <1>4, <1>5, <1>6, <1>7, <1>8, <1>9, <1>10, <1>11, <1>12, <1>13,
    <1>14, <1>15, <1>16, <1>17, <1>18, <1>19, <1>20 DEF Next

\* Every step leaves a request with what its next stage reads.
LEMMA NextKeepsStages == ASSUME ConstantsType, TypeOK, StageInv, [Next]_vars PROVE StageInv'
<1> USE DEF TypeOK, StageInv, ConstantsType, rows, Keep, Goto, Know, Accounts, Idle, LinkStages,
    CoinStages, WithAccount
<1>1. ASSUME NEW l \in Links, Expire(l) PROVE StageInv'
  BY <1>1 DEF Expire
<1>2. ASSUME NEW l \in Links, NEW m \in Mails, NEW scarce \in BOOLEAN, SendLink(l, m, scarce)
      PROVE StageInv'
  BY <1>2 DEF SendLink
<1>3. ASSUME NEW r \in Requests, NEW l \in Links, NEW cookie \in BOOLEAN, OpenLink(r, l, cookie)
      PROVE StageInv'
  BY <1>3 DEF OpenLink
<1>4. ASSUME NEW r \in Requests, NEW s \in Subs, NEW connect \in BOOLEAN,
             NEW me \in Accounts \cup {None}, Callback(r, s, connect, me)
      PROVE StageInv'
  BY <1>4 DEF Callback
<1>5. ASSUME NEW r \in Requests, Consume(r) PROVE StageInv'
  <2>1. CASE link[at[r].link] = "sent"
    BY <1>5, <2>1 DEF Consume
  <2>2. CASE link[at[r].link] # "sent"
    BY <1>5, <2>2 DEF Consume
  <2> QED BY <2>1, <2>2
<1>6. ASSUME NEW r \in Requests, FindOrCreate(r) PROVE StageInv'
  BY <1>6 DEF FindOrCreate
<1>7. ASSUME NEW r \in Requests, StartSession(r) PROVE StageInv'
  BY <1>7 DEF StartSession
<1>8. ASSUME NEW r \in Requests, ClaimInvite(r) PROVE StageInv'
  BY <1>8 DEF ClaimInvite
<1>9. ASSUME NEW r \in Requests, RedeemInvite(r) PROVE StageInv'
  BY <1>9 DEF RedeemInvite
<1>10. ASSUME NEW r \in Requests, GrantInvitee(r) PROVE StageInv'
  BY <1>10 DEF GrantInvitee, GrantSide
<1>11. ASSUME NEW r \in Requests, GrantInviter(r) PROVE StageInv'
  BY <1>11 DEF GrantInviter, GrantSide
<1>12. ASSUME NEW r \in Requests, ReadIdentity(r) PROVE StageInv'
  <2> HIDE DEF TypeOK, StageInv, ConstantsType
  <2>1. ReadsTo(r)
    BY <1>12, IdentityRead
  <2> QED BY <2>1 DEF ReadsTo, TypeOK, StageInv, ConstantsType, Locals, Stages
<1>13. ASSUME NEW r \in Requests, CreateUser(r) PROVE StageInv'
  BY <1>13 DEF CreateUser
<1>14. ASSUME NEW r \in Requests, LinkIdentity(r) PROVE StageInv'
  BY <1>14 DEF LinkIdentity
<1>15. ASSUME NEW r \in Requests, DeleteUser(r) PROVE StageInv'
  BY <1>15 DEF DeleteUser
<1>16. ASSUME NEW r \in Requests, ReadAgain(r) PROVE StageInv'
  <2> HIDE DEF TypeOK, StageInv, ConstantsType
  <2>1. ReadsTo(r)
    BY <1>16, IdentityRead
  <2> QED BY <2>1 DEF ReadsTo, TypeOK, StageInv, ConstantsType, Locals, Stages
<1>17. ASSUME NEW r \in Requests, GrantPass(r) PROVE StageInv'
  BY <1>17 DEF GrantPass
<1>18. ASSUME NEW r \in Requests, Dies(r) PROVE StageInv'
  BY <1>18 DEF Dies
<1>19. ASSUME NEW a \in Accounts, Disconnect(a) PROVE StageInv'
  BY <1>19 DEF Disconnect
<1>20. CASE UNCHANGED vars
  BY <1>20 DEF vars, rows
<1> HIDE DEF TypeOK, StageInv, ConstantsType, rows, Keep, Goto, Know, Accounts, Idle,
    LinkStages, CoinStages, WithAccount
<1> QED BY <1>1, <1>2, <1>3, <1>4, <1>5, <1>6, <1>7, <1>8, <1>9, <1>10, <1>11, <1>12, <1>13,
    <1>14, <1>15, <1>16, <1>17, <1>18, <1>19, <1>20 DEF Next

\* consumeLoginToken lets one request past each link, and startSession runs once in it.
LEMMA NextKeepsLinks ==
  ASSUME ConstantsType, TypeOK, StageInv, LinkInv, SessionInv, [Next]_vars
  PROVE LinkInv' /\ SessionInv'
<1> USE DEF TypeOK, StageInv, ConstantsType, rows, Keep, Goto, Know, Accounts, Idle, LinkStages,
    CoinStages, WithAccount, LinkInv, SessionInv, Won, PastConsume, PastSession
<1>1. ASSUME NEW l \in Links, Expire(l) PROVE LinkInv' /\ SessionInv'
  BY <1>1 DEF Expire
<1>2. ASSUME NEW l \in Links, NEW m \in Mails, NEW scarce \in BOOLEAN, SendLink(l, m, scarce)
      PROVE LinkInv' /\ SessionInv'
  BY <1>2 DEF SendLink
<1>3. ASSUME NEW r \in Requests, NEW l \in Links, NEW cookie \in BOOLEAN, OpenLink(r, l, cookie)
      PROVE LinkInv' /\ SessionInv'
  BY <1>3 DEF OpenLink
<1>4. ASSUME NEW r \in Requests, NEW s \in Subs, NEW connect \in BOOLEAN,
             NEW me \in Accounts \cup {None}, Callback(r, s, connect, me)
      PROVE LinkInv' /\ SessionInv'
  BY <1>4 DEF Callback
<1>5. ASSUME NEW r \in Requests, Consume(r) PROVE LinkInv' /\ SessionInv'
  BY <1>5 DEF Consume
<1>6. ASSUME NEW r \in Requests, FindOrCreate(r) PROVE LinkInv' /\ SessionInv'
  BY <1>6 DEF FindOrCreate
<1>7. ASSUME NEW r \in Requests, StartSession(r) PROVE LinkInv' /\ SessionInv'
  <2>1. /\ pc[r] = "session" /\ pc'[r] \in PastSession /\ at' = at /\ link' = link
        /\ sessions' = sessions \cup {[by |-> r, account |-> at[r].account]}
        /\ \A q \in Requests \ {r} : pc'[q] = pc[q]
    BY <1>7 DEF StartSession
  <2>2. \A s \in sessions : s.by \in Requests /\ s.by # r
    BY <2>1
  <2>3. \A q \in Requests : Won(q)' => Won(q)
    BY <2>1
  <2>4. LinkInv'
    BY <2>1, <2>3
  <2>5. \A s \in sessions' : pc'[s.by] \in PastSession
    BY <2>1, <2>2
  <2>6. \A s, t \in sessions' : s.by = t.by => s = t
    BY <2>1, <2>2
  <2> QED BY <2>4, <2>5, <2>6
<1>8. ASSUME NEW r \in Requests, ClaimInvite(r) PROVE LinkInv' /\ SessionInv'
  BY <1>8 DEF ClaimInvite
<1>9. ASSUME NEW r \in Requests, RedeemInvite(r) PROVE LinkInv' /\ SessionInv'
  BY <1>9 DEF RedeemInvite
<1>10. ASSUME NEW r \in Requests, GrantInvitee(r) PROVE LinkInv' /\ SessionInv'
  BY <1>10 DEF GrantInvitee, GrantSide
<1>11. ASSUME NEW r \in Requests, GrantInviter(r) PROVE LinkInv' /\ SessionInv'
  BY <1>11 DEF GrantInviter, GrantSide
<1>12. ASSUME NEW r \in Requests, ReadIdentity(r) PROVE LinkInv' /\ SessionInv'
  <2> HIDE DEF TypeOK, StageInv, ConstantsType
  <2>1. ReadsTo(r)
    BY <1>12, IdentityRead
  <2>2. /\ UNCHANGED <<link, sessions>> /\ \A q \in Requests : at'[q].link = at[q].link
        /\ pc[r] \in {"bound", "again"} /\ pc'[r] \in {"create", "done", "link", "pass"}
        /\ \A q \in Requests \ {r} : pc'[q] = pc[q]
    BY <2>1 DEF ReadsTo
  <2>3. \A q \in Requests : Won(q)' => Won(q)
    BY <2>2
  <2>4. \A s \in sessions : s.by \in Requests \ {r}
    BY <2>2 DEF TypeOK
  <2> QED BY <2>2, <2>3, <2>4
<1>13. ASSUME NEW r \in Requests, CreateUser(r) PROVE LinkInv' /\ SessionInv'
  BY <1>13 DEF CreateUser
<1>14. ASSUME NEW r \in Requests, LinkIdentity(r) PROVE LinkInv' /\ SessionInv'
  BY <1>14 DEF LinkIdentity
<1>15. ASSUME NEW r \in Requests, DeleteUser(r) PROVE LinkInv' /\ SessionInv'
  BY <1>15 DEF DeleteUser
<1>16. ASSUME NEW r \in Requests, ReadAgain(r) PROVE LinkInv' /\ SessionInv'
  <2> HIDE DEF TypeOK, StageInv, ConstantsType
  <2>1. ReadsTo(r)
    BY <1>16, IdentityRead
  <2>2. /\ UNCHANGED <<link, sessions>> /\ \A q \in Requests : at'[q].link = at[q].link
        /\ pc[r] \in {"bound", "again"} /\ pc'[r] \in {"create", "done", "link", "pass"}
        /\ \A q \in Requests \ {r} : pc'[q] = pc[q]
    BY <2>1 DEF ReadsTo
  <2>3. \A q \in Requests : Won(q)' => Won(q)
    BY <2>2
  <2>4. \A s \in sessions : s.by \in Requests \ {r}
    BY <2>2 DEF TypeOK
  <2> QED BY <2>2, <2>3, <2>4
<1>17. ASSUME NEW r \in Requests, GrantPass(r) PROVE LinkInv' /\ SessionInv'
  BY <1>17 DEF GrantPass
<1>18. ASSUME NEW r \in Requests, Dies(r) PROVE LinkInv' /\ SessionInv'
  BY <1>18 DEF Dies
<1>19. ASSUME NEW a \in Accounts, Disconnect(a) PROVE LinkInv' /\ SessionInv'
  BY <1>19 DEF Disconnect
<1>20. CASE UNCHANGED vars
  BY <1>20 DEF vars, rows
<1> HIDE DEF TypeOK, StageInv, ConstantsType, rows, Keep, Goto, Know, Accounts, Idle,
    LinkStages, CoinStages, WithAccount, LinkInv, SessionInv, Won, PastConsume, PastSession
<1> QED BY <1>1, <1>2, <1>3, <1>4, <1>5, <1>6, <1>7, <1>8, <1>9, <1>10, <1>11, <1>12, <1>13,
    <1>14, <1>15, <1>16, <1>17, <1>18, <1>19, <1>20 DEF Next

\* Two requests never both made an account, by a link or by a login.
LEMMA NextKeepsCreated ==
  ASSUME ConstantsType, TypeOK, StageInv, CreatedInv, [Next]_vars
  PROVE CreatedInv'
<1> USE DEF TypeOK, StageInv, ConstantsType, rows, Keep, Goto, Know, Accounts, Idle, LinkStages,
    CoinStages, WithAccount, CreatedInv, CreditedOnce, Making
<1>1. ASSUME NEW l \in Links, Expire(l) PROVE CreatedInv'
  BY <1>1 DEF Expire
<1>2. ASSUME NEW l \in Links, NEW m \in Mails, NEW scarce \in BOOLEAN, SendLink(l, m, scarce)
      PROVE CreatedInv'
  BY <1>2 DEF SendLink
<1>3. ASSUME NEW r \in Requests, NEW l \in Links, NEW cookie \in BOOLEAN, OpenLink(r, l, cookie)
      PROVE CreatedInv'
  BY <1>3 DEF OpenLink
<1>4. ASSUME NEW r \in Requests, NEW s \in Subs, NEW connect \in BOOLEAN,
             NEW me \in Accounts \cup {None}, Callback(r, s, connect, me)
      PROVE CreatedInv'
  BY <1>4 DEF Callback
<1>5. ASSUME NEW r \in Requests, Consume(r) PROVE CreatedInv'
  <2> HIDE DEF StageInv
  <2>1. Consumes(r)
    BY <1>5, LinkConsumed
  <2>2. \A q \in Requests : Making(q)' => Making(q)
    BY <2>1 DEF Consumes
  <2>3. \A q \in Requests : at'[q].account = at[q].account /\ (at'[q].created <=> at[q].created)
    BY <2>1 DEF Consumes
  <2>4. UNCHANGED address
    BY <2>1 DEF Consumes
  <2> HIDE DEF Making
  <2> QED BY <2>2, <2>3, <2>4
<1>6. ASSUME NEW r \in Requests, FindOrCreate(r) PROVE CreatedInv'
  <2> DEFINE m == mailOf[at[r].link]
             old == {b \in Accounts : address[b] = m}
  <2>0. PICK b \in BOOLEAN : b <=> old = {}
    OBVIOUS
  <2>1. PICK a \in Accounts :
          /\ address' = [address EXCEPT ![a] = m]
          /\ at' = [at EXCEPT ![r] = [at[r] EXCEPT !.account = a, !.created = b]]
          /\ a \in old \/ (old = {} /\ ~Exists(a))
    <3>1. (old = {}) = b
      BY <2>0
    <3>2. \E a \in IF old # {} THEN old ELSE {d \in Fresh : ~Exists(d)} :
            /\ address' = [address EXCEPT ![a] = m]
            /\ at' = [at EXCEPT ![r] = [at[r] EXCEPT !.account = a, !.created = (old = {})]]
      BY <1>6 DEF FindOrCreate
    <3>3. \E a \in IF old # {} THEN old ELSE {d \in Fresh : ~Exists(d)} :
            /\ address' = [address EXCEPT ![a] = m]
            /\ at' = [at EXCEPT ![r] = [at[r] EXCEPT !.account = a, !.created = b]]
      BY <3>1, <3>2, Zenon
    <3>4. old \subseteq Accounts
      OBVIOUS
    <3> HIDE DEF old
    <3> QED BY <3>3, <3>4
  <2>2. m \in Mails /\ pc' = [pc EXCEPT ![r] = "session"]
    BY <1>6 DEF FindOrCreate
  <2>3. /\ at'[r].account = a /\ (at'[r].created <=> old = {})
        /\ \A q \in Requests \ {r} : at'[q] = at[q] /\ pc'[q] = pc[q]
    BY <2>0, <2>1, <2>2
  <2>4. address'[a] = m /\ \A d \in Accounts \ {a} : address'[d] = address[d]
    BY <2>1
  <2>5. address[a] = m \/ (address[a] = None /\ old = {})
    BY <2>1 DEF Exists
  <2> HIDE DEF m, old
  <2>6. \A q \in Requests \ {r} : Making(q) => at[q].account # a
    BY <2>2, <2>5
  <2>7. \A q \in Requests \ {r} : at[q].created /\ old = {} => at[q].account # a
    BY <2>2, <2>5 DEF old
  <2>8. \A q \in Requests :
          at'[q].created => address'[at'[q].account] \in Mails /\ at'[q].account # None
    BY <2>2, <2>3, <2>4
  <2>9. \A q \in Requests : Making(q)' => q # r /\ Making(q) /\ at'[q] = at[q]
    BY <2>2, <2>3
  <2>10. \A q \in Requests : Making(q)' => address'[at'[q].account] = Placeholder
    BY <2>4, <2>6, <2>9
  <2>11. CreditedOnce'
    BY <2>3, <2>7
  <2> QED BY <2>8, <2>9, <2>10, <2>11
<1>7. ASSUME NEW r \in Requests, StartSession(r) PROVE CreatedInv'
  BY <1>7 DEF StartSession
<1>8. ASSUME NEW r \in Requests, ClaimInvite(r) PROVE CreatedInv'
  BY <1>8 DEF ClaimInvite
<1>9. ASSUME NEW r \in Requests, RedeemInvite(r) PROVE CreatedInv'
  BY <1>9 DEF RedeemInvite
<1>10. ASSUME NEW r \in Requests, GrantInvitee(r) PROVE CreatedInv'
  BY <1>10 DEF GrantInvitee, GrantSide
<1>11. ASSUME NEW r \in Requests, GrantInviter(r) PROVE CreatedInv'
  BY <1>11 DEF GrantInviter, GrantSide
<1>12. ASSUME NEW r \in Requests, ReadIdentity(r) PROVE CreatedInv'
  <2> HIDE DEF TypeOK, StageInv, ConstantsType
  <2>1. ReadsTo(r)
    BY <1>12, IdentityRead
  <2>2. UNCHANGED address /\ ~at'[r].created /\ ~Making(r)'
    BY <2>1 DEF ReadsTo, StageInv
  <2>3. \A q \in Requests \ {r} : pc'[q] = pc[q] /\ at'[q] = at[q]
    BY <2>1 DEF ReadsTo
  <2> QED BY <2>2, <2>3
<1>13. ASSUME NEW r \in Requests, CreateUser(r) PROVE CreatedInv'
  <2>1. PICK a \in Accounts : /\ address[a] = None /\ address' = [address EXCEPT ![a] = Placeholder]
                              /\ at' = [at EXCEPT ![r] = [at[r] EXCEPT !.account = a]]
    BY <1>13 DEF CreateUser, Exists
  <2>2. pc[r] = "create" /\ pc' = [pc EXCEPT ![r] = "link"]
    BY <1>13 DEF CreateUser
  <2>3. /\ at'[r].account = a /\ ~at'[r].created
        /\ \A q \in Requests \ {r} : at'[q] = at[q] /\ pc'[q] = pc[q]
    BY <2>1, <2>2
  <2>4. address'[a] = Placeholder /\ \A b \in Accounts \ {a} : address'[b] = address[b]
    BY <2>1
  <2>5. \A q \in Requests \ {r} : Making(q) \/ at[q].created => at[q].account # a
    BY <2>1
  <2>6. \A q \in Requests : Making(q)' => q = r \/ Making(q)
    BY <2>3
  <2>7. \A q \in Requests : Making(q)' => address'[at'[q].account] = Placeholder
    BY <2>3, <2>4, <2>5, <2>6
  <2>8. \A q \in Requests : at'[q].created =>
          q # r /\ at'[q].account # None /\ address'[at'[q].account] \in Mails
    BY <2>3, <2>4, <2>5
  <2> QED BY <2>3, <2>5, <2>6, <2>7, <2>8
<1>14. ASSUME NEW r \in Requests, LinkIdentity(r) PROVE CreatedInv'
  BY <1>14 DEF LinkIdentity
<1>15. ASSUME NEW r \in Requests, DeleteUser(r) PROVE CreatedInv'
  <2> DEFINE a == at[r].account
  <2>1. /\ pc[r] = "delete" /\ pc' = [pc EXCEPT ![r] = "again"]
        /\ at' = [at EXCEPT ![r] = [at[r] EXCEPT !.account = None]]
        /\ address' = [address EXCEPT ![a] = None] \/ address' = address
    BY <1>15 DEF DeleteUser
  <2>2. /\ ~at'[r].created
        /\ \A q \in Requests \ {r} : at'[q] = at[q] /\ pc'[q] = pc[q]
    BY <2>1
  <2>3. Making(r) /\ a \in Accounts
    BY <2>1
  <2>4. \A q \in Requests \ {r} : Making(q) \/ at[q].created => at[q].account # a
    BY <2>3
  <2>5. \A b \in Accounts \ {a} : address'[b] = address[b]
    BY <2>1
  <2> HIDE DEF a
  <2> QED BY <2>1, <2>2, <2>4, <2>5
<1>16. ASSUME NEW r \in Requests, ReadAgain(r) PROVE CreatedInv'
  <2> HIDE DEF TypeOK, StageInv, ConstantsType
  <2>1. ReadsTo(r)
    BY <1>16, IdentityRead
  <2>2. UNCHANGED address /\ ~at'[r].created /\ ~Making(r)'
    BY <2>1 DEF ReadsTo, StageInv
  <2>3. \A q \in Requests \ {r} : pc'[q] = pc[q] /\ at'[q] = at[q]
    BY <2>1 DEF ReadsTo
  <2> QED BY <2>2, <2>3
<1>17. ASSUME NEW r \in Requests, GrantPass(r) PROVE CreatedInv'
  BY <1>17 DEF GrantPass
<1>18. ASSUME NEW r \in Requests, Dies(r) PROVE CreatedInv'
  BY <1>18 DEF Dies
<1>19. ASSUME NEW a \in Accounts, Disconnect(a) PROVE CreatedInv'
  BY <1>19 DEF Disconnect
<1>20. CASE UNCHANGED vars
  BY <1>20 DEF vars, rows
<1> HIDE DEF TypeOK, StageInv, ConstantsType, rows, Keep, Goto, Know, Accounts, Idle,
    LinkStages, CoinStages, WithAccount, CreatedInv, CreditedOnce, Making
<1> QED BY <1>1, <1>2, <1>3, <1>4, <1>5, <1>6, <1>7, <1>8, <1>9, <1>10, <1>11, <1>12, <1>13,
    <1>14, <1>15, <1>16, <1>17, <1>18, <1>19, <1>20 DEF Next

\* Both grants of an invite are for the account that spent it.
LEMMA NextKeepsInvites ==
  ASSUME ConstantsType, TypeOK, StageInv, InviteInv, [Next]_vars
  PROVE InviteInv'
<1> USE DEF TypeOK, StageInv, ConstantsType, rows, Keep, Goto, Know, Accounts, Idle, LinkStages,
    CoinStages, WithAccount, InviteInv, InvitePaysItsUser
<1>1. ASSUME NEW l \in Links, Expire(l) PROVE InviteInv'
  BY <1>1 DEF Expire
<1>2. ASSUME NEW l \in Links, NEW m \in Mails, NEW scarce \in BOOLEAN, SendLink(l, m, scarce)
      PROVE InviteInv'
  BY <1>2 DEF SendLink
<1>3. ASSUME NEW r \in Requests, NEW l \in Links, NEW cookie \in BOOLEAN, OpenLink(r, l, cookie)
      PROVE InviteInv'
  BY <1>3 DEF OpenLink
<1>4. ASSUME NEW r \in Requests, NEW s \in Subs, NEW connect \in BOOLEAN,
             NEW me \in Accounts \cup {None}, Callback(r, s, connect, me)
      PROVE InviteInv'
  BY <1>4 DEF Callback
<1>5. ASSUME NEW r \in Requests, Consume(r) PROVE InviteInv'
  BY <1>5 DEF Consume
<1>6. ASSUME NEW r \in Requests, FindOrCreate(r) PROVE InviteInv'
  BY <1>6 DEF FindOrCreate
<1>7. ASSUME NEW r \in Requests, StartSession(r) PROVE InviteInv'
  BY <1>7 DEF StartSession
<1>8. ASSUME NEW r \in Requests, ClaimInvite(r) PROVE InviteInv'
  BY <1>8 DEF ClaimInvite
<1>9. ASSUME NEW r \in Requests, RedeemInvite(r) PROVE InviteInv'
  BY <1>9 DEF RedeemInvite
<1>10. ASSUME NEW r \in Requests, GrantInvitee(r) PROVE InviteInv'
  BY <1>10 DEF GrantInvitee, GrantSide
<1>11. ASSUME NEW r \in Requests, GrantInviter(r) PROVE InviteInv'
  BY <1>11 DEF GrantInviter, GrantSide
<1>12. ASSUME NEW r \in Requests, ReadIdentity(r) PROVE InviteInv'
  <2> HIDE DEF TypeOK, StageInv, ConstantsType
  <2>1. ReadsTo(r)
    BY <1>12, IdentityRead
  <2> QED BY <2>1 DEF ReadsTo, TypeOK, StageInv, ConstantsType, Locals, Stages
<1>13. ASSUME NEW r \in Requests, CreateUser(r) PROVE InviteInv'
  BY <1>13 DEF CreateUser
<1>14. ASSUME NEW r \in Requests, LinkIdentity(r) PROVE InviteInv'
  BY <1>14 DEF LinkIdentity
<1>15. ASSUME NEW r \in Requests, DeleteUser(r) PROVE InviteInv'
  BY <1>15 DEF DeleteUser
<1>16. ASSUME NEW r \in Requests, ReadAgain(r) PROVE InviteInv'
  <2> HIDE DEF TypeOK, StageInv, ConstantsType
  <2>1. ReadsTo(r)
    BY <1>16, IdentityRead
  <2> QED BY <2>1 DEF ReadsTo, TypeOK, StageInv, ConstantsType, Locals, Stages
<1>17. ASSUME NEW r \in Requests, GrantPass(r) PROVE InviteInv'
  BY <1>17 DEF GrantPass
<1>18. ASSUME NEW r \in Requests, Dies(r) PROVE InviteInv'
  BY <1>18 DEF Dies
<1>19. ASSUME NEW a \in Accounts, Disconnect(a) PROVE InviteInv'
  BY <1>19 DEF Disconnect
<1>20. CASE UNCHANGED vars
  BY <1>20 DEF vars, rows
<1> HIDE DEF TypeOK, StageInv, ConstantsType, rows, Keep, Goto, Know, Accounts, Idle,
    LinkStages, CoinStages, WithAccount, InviteInv, InvitePaysItsUser
<1> QED BY <1>1, <1>2, <1>3, <1>4, <1>5, <1>6, <1>7, <1>8, <1>9, <1>10, <1>11, <1>12, <1>13,
    <1>14, <1>15, <1>16, <1>17, <1>18, <1>19, <1>20 DEF Next

\* An account is let go of only when it is bound, taken back or lost with its request.
LEMMA NextKeepsPlaceholders ==
  ASSUME ConstantsType, TypeOK, StageInv, PlaceholderInv, [Next]_vars
  PROVE PlaceholderInv'
<1> USE DEF TypeOK, StageInv, ConstantsType, rows, Keep, Goto, Know, Accounts, Idle, LinkStages,
    CoinStages, WithAccount, PlaceholderInv, MadeBy, Making, Bound
<1>1. ASSUME NEW l \in Links, Expire(l) PROVE PlaceholderInv'
  BY <1>1 DEF Expire
<1>2. ASSUME NEW l \in Links, NEW m \in Mails, NEW scarce \in BOOLEAN, SendLink(l, m, scarce)
      PROVE PlaceholderInv'
  BY <1>2 DEF SendLink
<1>3. ASSUME NEW r \in Requests, NEW l \in Links, NEW cookie \in BOOLEAN, OpenLink(r, l, cookie)
      PROVE PlaceholderInv'
  BY <1>3 DEF OpenLink
<1>4. ASSUME NEW r \in Requests, NEW s \in Subs, NEW connect \in BOOLEAN,
             NEW me \in Accounts \cup {None}, Callback(r, s, connect, me)
      PROVE PlaceholderInv'
  BY <1>4 DEF Callback
<1>5. ASSUME NEW r \in Requests, Consume(r) PROVE PlaceholderInv'
  <2> HIDE DEF StageInv
  <2>1. Consumes(r)
    BY <1>5, LinkConsumed
  <2>2. \A q \in Requests : Making(q) => q # r
    BY <2>1 DEF Consumes
  <2> QED BY <2>1, <2>2 DEF Consumes
<1>6. ASSUME NEW r \in Requests, FindOrCreate(r) PROVE PlaceholderInv'
  BY <1>6 DEF FindOrCreate
<1>7. ASSUME NEW r \in Requests, StartSession(r) PROVE PlaceholderInv'
  BY <1>7 DEF StartSession
<1>8. ASSUME NEW r \in Requests, ClaimInvite(r) PROVE PlaceholderInv'
  BY <1>8 DEF ClaimInvite
<1>9. ASSUME NEW r \in Requests, RedeemInvite(r) PROVE PlaceholderInv'
  BY <1>9 DEF RedeemInvite
<1>10. ASSUME NEW r \in Requests, GrantInvitee(r) PROVE PlaceholderInv'
  BY <1>10 DEF GrantInvitee, GrantSide
<1>11. ASSUME NEW r \in Requests, GrantInviter(r) PROVE PlaceholderInv'
  BY <1>11 DEF GrantInviter, GrantSide
<1>12. ASSUME NEW r \in Requests, ReadIdentity(r) PROVE PlaceholderInv'
  <2> HIDE DEF TypeOK, StageInv, ConstantsType
  <2>1. ReadsTo(r)
    BY <1>12, IdentityRead
  <2> QED BY <2>1 DEF ReadsTo, TypeOK, StageInv, ConstantsType, Locals, Stages
<1>13. ASSUME NEW r \in Requests, CreateUser(r) PROVE PlaceholderInv'
  <2>1. PICK a \in Accounts : /\ address[a] = None /\ address' = [address EXCEPT ![a] = Placeholder]
                              /\ at' = [at EXCEPT ![r] = [at[r] EXCEPT !.account = a]]
    BY <1>13 DEF CreateUser, Exists
  <2>2. pc[r] = "create" /\ pc' = [pc EXCEPT ![r] = "link"] /\ UNCHANGED <<identity, broken>>
    BY <1>13 DEF CreateUser
  <2>3. /\ at'[r].account = a /\ Making(r)'
        /\ \A q \in Requests \ {r} : at'[q] = at[q] /\ pc'[q] = pc[q]
    BY <2>1, <2>2
  <2>4. MadeBy(a)' /\ \A b \in Accounts \ {a} : address'[b] = address[b]
    BY <2>1, <2>3
  <2>5. ASSUME NEW b \in Accounts \ {a} PROVE MadeBy(b) => MadeBy(b)'
    BY <2>2, <2>3
  <2> QED BY <2>2, <2>4, <2>5
<1>14. ASSUME NEW r \in Requests, LinkIdentity(r) PROVE PlaceholderInv'
  BY <1>14 DEF LinkIdentity
<1>15. ASSUME NEW r \in Requests, DeleteUser(r) PROVE PlaceholderInv'
  BY <1>15 DEF DeleteUser
<1>16. ASSUME NEW r \in Requests, ReadAgain(r) PROVE PlaceholderInv'
  <2> HIDE DEF TypeOK, StageInv, ConstantsType
  <2>1. ReadsTo(r)
    BY <1>16, IdentityRead
  <2> QED BY <2>1 DEF ReadsTo, TypeOK, StageInv, ConstantsType, Locals, Stages
<1>17. ASSUME NEW r \in Requests, GrantPass(r) PROVE PlaceholderInv'
  BY <1>17 DEF GrantPass
<1>18. ASSUME NEW r \in Requests, Dies(r) PROVE PlaceholderInv'
  BY <1>18 DEF Dies
<1>19. ASSUME NEW a \in Accounts, Disconnect(a) PROVE PlaceholderInv'
  BY <1>19 DEF Disconnect
<1>20. CASE UNCHANGED vars
  BY <1>20 DEF vars, rows
<1> HIDE DEF TypeOK, StageInv, ConstantsType, rows, Keep, Goto, Know, Accounts, Idle,
    LinkStages, CoinStages, WithAccount, PlaceholderInv, MadeBy, Making, Bound
<1> QED BY <1>1, <1>2, <1>3, <1>4, <1>5, <1>6, <1>7, <1>8, <1>9, <1>10, <1>11, <1>12, <1>13,
    <1>14, <1>15, <1>16, <1>17, <1>18, <1>19, <1>20 DEF Next

\* No account but the first, and nothing in progress.
LEMMA Initially == ASSUME ConstantsType, Init PROVE IInv
<1> USE DEF Init, Idle, ConstantsType, Accounts
<1>1. TypeOK
  BY DEF TypeOK
<1>2. StageInv /\ LinkInv /\ SessionInv
  BY DEF StageInv, LinkStages, CoinStages, WithAccount, LinkInv, Won, PastConsume, SessionInv
<1>3. CreatedInv /\ InviteInv
  BY DEF CreatedInv, Making, CreditedOnce, InviteInv, InvitePaysItsUser
<1>4. PlaceholderInv
  BY DEF PlaceholderInv
<1> QED BY <1>1, <1>2, <1>3, <1>4 DEF IInv

\* The invariant holds of every state of every behaviour.
LEMMA Invariance == ASSUME ConstantsType PROVE Spec => []IInv
<1>1. Init => IInv
  BY Initially
<1>2. IInv /\ [Next]_vars => IInv'
  <2> SUFFICES ASSUME IInv, [Next]_vars PROVE IInv'
    OBVIOUS
  <2>1. TypeOK' /\ StageInv'
    BY NextKeepsTypes, NextKeepsStages DEF IInv
  <2>2. LinkInv' /\ SessionInv'
    BY NextKeepsLinks DEF IInv
  <2>3. CreatedInv' /\ InviteInv' /\ PlaceholderInv'
    BY NextKeepsCreated, NextKeepsInvites, NextKeepsPlaceholders DEF IInv
  <2> QED BY <2>1, <2>2, <2>3 DEF IInv
<1> QED BY <1>1, <1>2, PTL DEF Spec

-----------------------------------------------------------------------------
\* Type correctness of the rows of an account and of the requests that make and enter it.
THEOREM TypeCorrect == ASSUME ConstantsType PROVE Spec => []TypeOK
<1>1. IInv => TypeOK
  BY DEF IInv
<1> QED BY <1>1, Invariance, PTL

\* consumeLoginToken: however many requests open one emailed link, at any distance from each
\* other, it begins one session.
THEOREM LinksAreSpent == ASSUME ConstantsType PROVE Spec => []OneSessionPerLink
<1>1. IInv => OneSessionPerLink
  <2> SUFFICES ASSUME IInv, NEW s \in sessions, NEW t \in sessions,
                      at[s.by].link # None, at[s.by].link = at[t.by].link
               PROVE  s = t
    BY DEF OneSessionPerLink
  <2>1. s.by \in Requests /\ t.by \in Requests /\ Won(s.by) /\ Won(t.by)
    BY DEF IInv, TypeOK, Won
  <2>2. s.by = t.by
    BY <2>1 DEF IInv, LinkInv
  <2> QED BY <2>2 DEF IInv, SessionInv
<1> QED BY <1>1, Invariance, PTL

\* findOrCreateUser, claimInvite, redeemInvite and the two grants: an arrival is paid for
\* once, and to whom it is due, whoever else signs in to that address meanwhile.
THEOREM ArrivalsArePaidOnce == ASSUME ConstantsType PROVE Spec => []RewardsOnce
<1>1. IInv => RewardsOnce
  BY DEF IInv, CreatedInv, InviteInv, RewardsOnce
<1> QED BY <1>1, Invariance, PTL

\* The CoinPay callback and disconnectCoinpay: no account is left without a way in, unless a
\* request died, or failed to take the account back, with it in hand.
THEOREM NobodyIsLockedOut == ASSUME ConstantsType PROVE Spec => []NobodyLockedOut
<1>1. IInv => NobodyLockedOut
  BY DEF IInv, PlaceholderInv, MadeBy, Making, NobodyLockedOut, InHand
<1> QED BY <1>1, Invariance, PTL

\* linkCoinpayIdentity and disconnectCoinpay: an identity is only ever bound when it is free,
\* so no race of two callbacks moves it from one account to another.
THEOREM BindingsStay == ASSUME ConstantsType PROVE Spec => BindingNeverMoves
<1> DEFINE Stays == \A s \in Subs :
             identity[s] # None /\ identity'[s] # identity[s] => identity'[s] = None
<1>1. TypeOK /\ StageInv /\ [Next]_vars => [Stays]_vars
  <2> SUFFICES ASSUME TypeOK, StageInv, Next PROVE Stays
    OBVIOUS
  <2>1. ASSUME NEW r \in Requests, LinkIdentity(r) PROVE Stays
    <3>1. at[r].sub \in Subs
      BY <2>1 DEF LinkIdentity, StageInv, CoinStages, TypeOK
    <3>2. CASE identity' = identity
      BY <3>2
    <3>3. CASE /\ identity[at[r].sub] = None
               /\ identity' = [identity EXCEPT ![at[r].sub] = at[r].account]
      BY <3>1, <3>3 DEF TypeOK
    <3> QED BY <2>1, <3>2, <3>3 DEF LinkIdentity
  <2>2. ASSUME NEW a \in Accounts, Disconnect(a) PROVE Stays
    BY <2>2 DEF Disconnect, TypeOK
  <2>3. ASSUME NEW r \in Requests, ReadIdentity(r) \/ ReadAgain(r) PROVE identity' = identity
    BY <2>3 DEF ReadIdentity, ReadAgain, rows
  <2>4. ASSUME Next, \A r \in Requests : ~LinkIdentity(r) /\ ~ReadIdentity(r) /\ ~ReadAgain(r),
               \A a \in Accounts : ~Disconnect(a)
        PROVE  identity' = identity
    BY <2>4 DEF Next, SendLink, Expire, OpenLink, Callback, Consume, FindOrCreate, StartSession,
      ClaimInvite, RedeemInvite, GrantInvitee, GrantInviter, GrantSide, CreateUser, DeleteUser,
      GrantPass, Dies, rows
  <2>5. CASE identity' = identity
    BY <2>5
  <2> HIDE DEF Stays
  <2> QED BY <2>1, <2>2, <2>3, <2>4, <2>5
<1>2. IInv => TypeOK /\ StageInv
  BY DEF IInv
<1> QED BY <1>1, <1>2, Invariance, PTL DEF Spec, BindingNeverMoves
-----------------------------------------------------------------------------
(* Passkeys: Passkeys.                                                     *)

\* What a check has in hand is an answer to a challenge that was given, signed by then.
ResponseInv ==
  /\ live \subseteq 1 .. issued
  /\ \A k \in Checks : step[k] # "idle" =>
       /\ response[k].credential \in Credentials
       /\ response[k].challenge <= issued
       /\ 0 < response[k].count /\ response[k].count <= signed[response[k].credential]
  /\ \A k \in Checks : step[k] \in {"sent", "answer", "touch"} => response[k].challenge # 0

\* A challenge that a check got and is deleting or has deleted, or began a session with, is in
\* no other hands, unless two were taking it at once; once deleted it is never back.
Holds(k) == step[k] \in {"del", "answer", "touch"} /\ response[k].challenge # 0
ChallengeInv ==
  /\ \A k \in Checks : step[k] \in {"answer", "touch", "done"} => response[k].challenge \notin live
  /\ \A j, k \in Checks : Holds(j) /\ Holds(k) /\ response[j].challenge = response[k].challenge =>
       j = k \/ response[k].challenge \in raced
  /\ \A s \in entered : /\ step[s.by] = "done" /\ s.challenge \notin live /\ s.challenge <= issued
                        /\ \A k \in Checks : Holds(k) /\ response[k].challenge = s.challenge =>
                             s.challenge \in raced
  /\ K!ChallengeUsedOnce

\* Two checks with one credential and one signature have one challenge; those that are
\* answered at once are crossed.
Signed(k) == step[k] # "idle" /\ response[k].challenge # 0
SameAnswer(j, k) == response[j].credential = response[k].credential
                    /\ response[j].count = response[k].count
Checking(k) == step[k] \in {"del", "answer", "touch"}
AnswerInv ==
  /\ \A j, k \in Checks : Signed(j) /\ Signed(k) /\ SameAnswer(j, k) =>
       response[j].challenge = response[k].challenge
  /\ \A j, k \in Checks :
       Checking(j) /\ Checking(k) /\ response[j].credential = response[k].credential =>
       j = k \/ response[k].credential \in clashed

\* A registered credential is never registered again: whoever has its first signature, which
\* registers, has a challenge that is gone.  And whoever is let in has counted further.
Gone(k) == /\ step[k] = "sent" => response[k].challenge \notin live
           /\ step[k] = "del" => response[k].challenge = 0
           /\ step[k] # "answer"
CounterInv ==
  /\ \A k \in Checks : LET c == response[k].credential IN
       /\ step[k] # "idle" /\ response[k].count = 1 /\ counter[c] # None => Gone(k) \/ c \in clashed
       /\ step[k] = "touch" => /\ response[k].count > 1 /\ counter[c] # None
                               /\ response[k].count > counter[c] \/ c \in clashed
  /\ \A c \in Credentials : counter[c] # None => 0 < signed[c]

PasskeyInv == K!TypeOK /\ ResponseInv /\ ChallengeInv /\ AnswerInv /\ CounterInv

-----------------------------------------------------------------------------

LEMMA PasskeysInit == ASSUME K!ConstantsType, K!Init PROVE PasskeyInv
<1>1. K!TypeOK
  <2>1. K!Blank \in [challenge : 0 .. MaxIssued, credential : Credentials \cup {None}, count : Nat]
    BY DEF K!Blank, K!ConstantsType
  <2> QED BY <2>1 DEF K!Init, K!TypeOK, K!ConstantsType
<1>2. ResponseInv /\ ChallengeInv /\ AnswerInv /\ CounterInv
  BY DEF K!Init, ResponseInv, ChallengeInv, K!ChallengeUsedOnce, AnswerInv, CounterInv, Holds,
         Signed, Checking, Gone
<1> QED BY <1>1, <1>2 DEF PasskeyInv

LEMMA PasskeysTyped ==
  ASSUME K!ConstantsType, K!TypeOK, ResponseInv, [K!Next]_(K!vars)
  PROVE  K!TypeOK'
<1> DEFINE Hands == [challenge : 0 .. MaxIssued, credential : Credentials \cup {None}, count : Nat]
<1>0. response \in [Checks -> Hands]
  BY DEF K!TypeOK
<1>1. CASE K!Stash
  <2>1. issued + 1 \in 1 .. MaxIssued
    BY <1>1 DEF K!Stash, K!TypeOK, K!ConstantsType
  <2> QED BY <1>1, <2>1 DEF K!Stash, K!TypeOK, K!ConstantsType
<1>2. ASSUME NEW ch \in 1 .. MaxIssued, K!Forget(ch) PROVE K!TypeOK'
  BY <1>2 DEF K!Forget, K!TypeOK
<1>3. ASSUME NEW ch \in 1 .. MaxIssued, NEW k \in Checks, NEW c \in Credentials, K!Sign(k, ch, c)
      PROVE K!TypeOK'
  <2>1. signed' \in [Credentials -> Nat]
    BY <1>3 DEF K!Sign, K!TypeOK
  <2>2. [challenge |-> ch, credential |-> c, count |-> signed'[c]] \in Hands
    BY <2>1, <1>3 DEF K!ConstantsType
  <2>3. response' \in [Checks -> Hands]
    BY <1>0, <1>3, <2>2 DEF K!Sign
  <2> QED BY <1>3, <2>1, <2>3 DEF K!Sign, K!TypeOK, K!Goto
<1>4. ASSUME NEW j \in Checks, NEW k \in Checks, K!Resend(k, j) PROVE K!TypeOK'
  <2>1. response' \in [Checks -> Hands]
    BY <1>0, <1>4 DEF K!Resend
  <2> QED BY <1>4, <2>1 DEF K!Resend, K!TypeOK, K!Goto
<1>5. ASSUME NEW k \in Checks, K!GetChallenge(k) PROVE K!TypeOK'
  <2>1. response[k] \in Hands /\ response[k].challenge # 0 /\ response[k].credential \in Credentials
    BY <1>0, <1>5 DEF K!GetChallenge, ResponseInv
  <2>2. response' \in [Checks -> Hands]
    BY <1>0, <1>5, <2>1 DEF K!GetChallenge, K!ConstantsType
  <2>3. raced' \subseteq 1 .. MaxIssued /\ clashed' \subseteq Credentials
    <3>1. response[k].challenge \in 1 .. MaxIssued
      BY <2>1 DEF K!ConstantsType
    <3> QED BY <1>5, <2>1, <3>1 DEF K!GetChallenge, K!TypeOK
  <2> QED BY <1>5, <2>2, <2>3 DEF K!GetChallenge, K!TypeOK, K!Goto
<1>6. ASSUME NEW k \in Checks, K!DelChallenge(k) PROVE K!TypeOK'
  BY <1>6 DEF K!DelChallenge, K!TypeOK, K!Goto
<1>7. ASSUME NEW k \in Checks, K!Register(k) PROVE K!TypeOK'
  <2>1. response[k].count \in Nat
    BY <1>0
  <2> QED BY <1>7, <2>1 DEF K!Register, K!TypeOK, K!Goto
<1>8. ASSUME NEW k \in Checks, K!Verify(k) PROVE K!TypeOK'
  BY <1>8 DEF K!Verify, K!TypeOK, K!Goto
<1>9. ASSUME NEW k \in Checks, K!Enter(k) PROVE K!TypeOK'
  <2>1. response[k].count \in Nat /\ response[k].challenge \in 1 .. MaxIssued
    <3>1. response[k] \in Hands /\ response[k].challenge # 0
      BY <1>0, <1>9 DEF K!Enter, ResponseInv
    <3> QED BY <3>1 DEF K!ConstantsType
  <2>2. counter' \in [Credentials -> Nat \cup {None}]
    BY <1>9, <2>1 DEF K!Enter, K!TypeOK
  <2>3. entered' \subseteq [by : Checks, challenge : 1 .. MaxIssued]
    BY <1>9, <2>1 DEF K!Enter, K!TypeOK
  <2> QED BY <1>9, <2>2, <2>3 DEF K!Enter, K!TypeOK, K!Goto
<1>10. CASE UNCHANGED K!vars
  BY <1>10 DEF K!vars, K!TypeOK
<1> QED
  BY <1>1, <1>2, <1>3, <1>4, <1>5, <1>6, <1>7, <1>8, <1>9, <1>10 DEF K!Next

\* What a step does to the check that takes it; nobody else's hands change.
OtherChecks(k) == \A j \in Checks \ {k} : step'[j] = step[j] /\ response'[j] = response[j]
LEMMA OneChecks ==
  ASSUME K!TypeOK, [K!Next]_(K!vars)
  PROVE  \/ UNCHANGED <<issued, live, counter, signed, step, response, entered, raced, clashed>>
         \/ K!Stash
         \/ \E ch \in 1 .. MaxIssued : K!Forget(ch)
         \/ \E k \in Checks : /\ OtherChecks(k)
                              /\ \/ \E ch \in 1 .. MaxIssued, c \in Credentials : K!Sign(k, ch, c)
                                 \/ \E j \in Checks : K!Resend(k, j)
                                 \/ K!GetChallenge(k) \/ K!DelChallenge(k)
                                 \/ K!Register(k) \/ K!Verify(k) \/ K!Enter(k)
  BY DEF K!Next, K!vars, OtherChecks, K!TypeOK, K!Sign, K!Resend, K!GetChallenge, K!DelChallenge,
         K!Register, K!Verify, K!Enter, K!Goto

LEMMA ResponsesKept ==
  ASSUME K!ConstantsType, K!TypeOK, ResponseInv, [K!Next]_(K!vars)
  PROVE  ResponseInv'
<1> DEFINE Given(k) == step[k] # "idle" =>
             /\ response[k].credential \in Credentials
             /\ response[k].challenge <= issued
             /\ 0 < response[k].count /\ response[k].count <= signed[response[k].credential]
           Meant(k) == step[k] \in {"sent", "answer", "touch"} => response[k].challenge # 0
<1>1. live \subseteq 1 .. issued /\ \A k \in Checks : Given(k) /\ Meant(k)
  BY DEF ResponseInv
<1>2. issued \in Nat /\ \A c \in Credentials : signed[c] \in Nat
  BY DEF K!TypeOK
<1>3. \A k \in Checks : response[k].challenge \in Nat /\ response[k].count \in Nat
  BY DEF K!TypeOK
<1>4. CASE K!Stash \/ \E ch \in 1 .. MaxIssued : K!Forget(ch)
  <2>1. live' \subseteq 1 .. issued' /\ issued <= issued' /\ issued' \in Nat
        /\ UNCHANGED <<step, response, signed>>
    <3>1. CASE K!Stash
      BY <1>1, <1>2, <3>1 DEF K!Stash
    <3>2. CASE \E ch \in 1 .. MaxIssued : K!Forget(ch)
      BY <1>1, <1>2, <3>2 DEF K!Forget
    <3> QED BY <1>4, <3>1, <3>2
  <2>2. \A k \in Checks : Given(k)' /\ Meant(k)'
    BY <1>1, <1>2, <1>3, <2>1
  <2> QED BY <2>1, <2>2 DEF ResponseInv
<1>5. ASSUME NEW k \in Checks, OtherChecks(k),
             \/ \E ch \in 1 .. MaxIssued, c \in Credentials : K!Sign(k, ch, c)
             \/ \E j \in Checks : K!Resend(k, j)
             \/ K!GetChallenge(k) \/ K!DelChallenge(k) \/ K!Register(k) \/ K!Verify(k) \/ K!Enter(k)
      PROVE ResponseInv'
  <2>1. issued' = issued /\ live' \subseteq 1 .. issued'
    BY <1>1, <1>5 DEF K!Sign, K!Resend, K!GetChallenge, K!DelChallenge, K!Register, K!Verify,
                      K!Enter
  <2>2. \A c \in Credentials : signed[c] <= signed'[c] /\ signed'[c] \in Nat
    BY <1>2, <1>5 DEF K!Sign, K!Resend, K!GetChallenge, K!DelChallenge, K!Register, K!Verify,
                      K!Enter, K!TypeOK
  <2>3. Given(k)' /\ Meant(k)'
    <3>1. ASSUME NEW ch \in 1 .. MaxIssued, NEW c \in Credentials, K!Sign(k, ch, c)
          PROVE Given(k)' /\ Meant(k)'
      <4>1. response'[k] = [challenge |-> ch, credential |-> c, count |-> signed[c] + 1]
            /\ signed'[c] = signed[c] + 1 /\ ch \in 1 .. issued
        BY <3>1 DEF K!Sign, K!TypeOK
      <4> QED BY <1>2, <2>1, <4>1
    <3>2. ASSUME NEW j \in Checks, K!Resend(k, j) PROVE Given(k)' /\ Meant(k)'
      <4>1. response'[k] = response[j] /\ step[j] # "idle" /\ response[j].challenge # 0
            /\ signed' = signed
        BY <3>2 DEF K!Resend, K!TypeOK
      <4> QED BY <1>1, <2>1, <4>1
    <3>3. CASE K!GetChallenge(k)
      <4>1. /\ step[k] = "sent" /\ step'[k] = "del" /\ signed' = signed
            /\ response'[k].credential = response[k].credential
            /\ response'[k].count = response[k].count
            /\ response'[k].challenge \in {0, response[k].challenge}
        BY <3>3 DEF K!GetChallenge, K!Goto, K!TypeOK
      <4> QED BY <1>1, <1>2, <1>3, <2>1, <4>1
    <3>4. CASE K!DelChallenge(k) \/ K!Register(k) \/ K!Verify(k) \/ K!Enter(k)
      <4>1. /\ step[k] # "idle" /\ response'[k] = response[k] /\ signed' = signed
            /\ step'[k] \in {"answer", "touch"} => response[k].challenge # 0
        BY <1>1, <3>4 DEF K!DelChallenge, K!Register, K!Verify, K!Enter, K!Goto, K!TypeOK
      <4>2. step'[k] # "sent"
        BY <3>4 DEF K!DelChallenge, K!Register, K!Verify, K!Enter, K!Goto, K!TypeOK
      <4> QED BY <1>1, <2>1, <4>1, <4>2
    <3> QED BY <1>5, <3>1, <3>2, <3>3, <3>4
  <2>4. \A j \in Checks \ {k} : Given(j)' /\ Meant(j)'
    <3>1. \A j \in Checks \ {k} : step'[j] = step[j] /\ response'[j] = response[j]
      BY <1>5 DEF OtherChecks
    <3>2. ASSUME NEW j \in Checks \ {k}, step[j] # "idle" PROVE Given(j)'
      <4>1. Given(j) /\ response[j].count \in Nat
        BY <1>1, <1>3
      <4>2. signed[response[j].credential] <= signed'[response[j].credential]
            /\ signed'[response[j].credential] \in Nat /\ signed[response[j].credential] \in Nat
        BY <1>2, <2>2, <3>2, <4>1
      <4> QED BY <2>1, <3>1, <3>2, <4>1, <4>2
    <3> QED BY <1>1, <3>1, <3>2
  <2> QED BY <2>1, <2>3, <2>4 DEF ResponseInv
<1>6. CASE UNCHANGED <<issued, live, counter, signed, step, response, entered, raced, clashed>>
  BY <1>1, <1>6 DEF ResponseInv
<1> QED
  BY <1>4, <1>5, <1>6, OneChecks

LEMMA ChallengesKept ==
  ASSUME K!ConstantsType, K!TypeOK, ResponseInv, ChallengeInv, [K!Next]_(K!vars)
  PROVE  ChallengeInv'
<1> DEFINE Deleted(k) == step[k] \in {"answer", "touch", "done"} =>
                           response[k].challenge \notin live
           Apart(j, k) == Holds(j) /\ Holds(k) /\ response[j].challenge = response[k].challenge =>
             j = k \/ response[k].challenge \in raced
           Ended(s) == step[s.by] = "done" /\ s.challenge \notin live /\ s.challenge <= issued
           Alone(s) == \A k \in Checks : Holds(k) /\ response[k].challenge = s.challenge =>
             s.challenge \in raced
           Once(s, t) == s.challenge = t.challenge => s = t \/ s.challenge \in raced
           Steps == {"idle", "sent", "del", "answer", "touch", "done"}
<1>1. /\ \A k \in Checks : Deleted(k) /\ \A j \in Checks : Apart(j, k)
      /\ \A s \in entered : Ended(s) /\ Alone(s) /\ \A t \in entered : Once(s, t)
  BY DEF ChallengeInv, K!ChallengeUsedOnce
<1>2. /\ step \in [Checks -> Steps] /\ issued \in Nat /\ live \subseteq 1 .. issued
      /\ entered \subseteq [by : Checks, challenge : 1 .. MaxIssued]
      /\ \A k \in Checks : /\ response[k].challenge \in Nat
                           /\ step[k] # "idle" => response[k].challenge <= issued
                           /\ step[k] \in {"sent", "answer", "touch"} => response[k].challenge # 0
  BY DEF K!TypeOK, ResponseInv
<1>3. ASSUME \A k \in Checks : Deleted(k)' /\ \A j \in Checks : Apart(j, k)',
             \A s \in entered' : Ended(s)' /\ Alone(s)' /\ \A t \in entered' : Once(s, t)'
      PROVE  ChallengeInv'
  BY <1>3 DEF ChallengeInv, K!ChallengeUsedOnce
<1>4. CASE K!Stash
  <2>1. issued' = issued + 1 /\ live' = live \cup {issued + 1}
        /\ UNCHANGED <<step, response, entered, raced>>
    BY <1>4 DEF K!Stash
  <2>2. \A k \in Checks : Deleted(k)'
    BY <1>1, <1>2, <2>1
  <2>3. \A s \in entered' : Ended(s)'
    BY <1>1, <1>2, <2>1
  <2> QED BY <1>1, <1>3, <2>1, <2>2, <2>3 DEF Holds
<1>5. CASE \E ch \in 1 .. MaxIssued : K!Forget(ch)
  <2>1. live' \subseteq live /\ UNCHANGED <<issued, step, response, entered, raced>>
    BY <1>5 DEF K!Forget
  <2> QED BY <1>1, <1>3, <2>1 DEF Holds
<1>6. ASSUME NEW k \in Checks, OtherChecks(k),
             \/ \E ch \in 1 .. MaxIssued, c \in Credentials : K!Sign(k, ch, c)
             \/ \E j \in Checks : K!Resend(k, j)
      PROVE ChallengeInv'
  <2>1. step[k] = "idle" /\ step'[k] = "sent" /\ UNCHANGED <<issued, live, entered, raced>>
    BY <1>2, <1>6 DEF K!Sign, K!Resend, K!Goto
  <2>2. ~Holds(k) /\ ~Holds(k)'
    BY <2>1 DEF Holds
  <2>3. \A j \in Checks \ {k} :
          step'[j] = step[j] /\ response'[j] = response[j] /\ (Holds(j)' <=> Holds(j))
    BY <1>6 DEF OtherChecks, Holds
  <2>4. \A i \in Checks : Deleted(i)' /\ \A j \in Checks : Apart(j, i)'
    BY <1>1, <2>1, <2>2, <2>3
  <2>5. \A s \in entered : s.by # k /\ s.by \in Checks
    BY <1>1, <1>2, <2>1
  <2>6. \A s \in entered' : Ended(s)' /\ Alone(s)' /\ \A t \in entered' : Once(s, t)'
    BY <1>1, <2>1, <2>2, <2>3, <2>5
  <2> QED BY <1>3, <2>4, <2>6
<1>7. ASSUME NEW k \in Checks, OtherChecks(k), K!GetChallenge(k) PROVE ChallengeInv'
  <2> DEFINE ch == response[k].challenge
  <2>1. /\ step[k] = "sent" /\ step'[k] = "del" /\ UNCHANGED <<issued, live, entered>>
        /\ response'[k].challenge = IF ch \in live THEN ch ELSE 0
        /\ raced \subseteq raced'
        /\ (\E j \in Checks : step[j] = "del" /\ response[j].challenge = ch) => ch \in raced'
    BY <1>2, <1>7 DEF K!GetChallenge, K!Goto, K!TypeOK
  <2>2. ~Holds(k) /\ (Holds(k)' => response'[k].challenge = ch /\ ch \in live)
    BY <2>1 DEF Holds
  <2>3. \A j \in Checks \ {k} :
          step'[j] = step[j] /\ response'[j] = response[j] /\ (Holds(j)' <=> Holds(j))
    BY <1>7 DEF OtherChecks, Holds
  <2>4. \A j \in Checks \ {k} :
          Holds(j) /\ response[j].challenge = ch /\ ch \in live => ch \in raced'
    <3>1. \A j \in Checks : Holds(j) /\ response[j].challenge = ch /\ ch \in live => step[j] = "del"
      BY <1>1 DEF Holds
    <3> QED BY <2>1, <3>1
  <2>5. \A i \in Checks : Deleted(i)' /\ \A j \in Checks : Apart(j, i)'
    <3>1. \A i \in Checks : Deleted(i)'
      BY <1>1, <2>1, <2>3
    <3>2. \A j \in Checks \ {k} : Apart(j, k)' /\ Apart(k, j)'
      BY <2>2, <2>3, <2>4
    <3>3. \A i, j \in Checks \ {k} : Apart(j, i)'
      BY <1>1, <2>1, <2>3
    <3> QED BY <3>1, <3>2, <3>3
  <2>6. \A s \in entered : s.by # k /\ s.by \in Checks
    BY <1>1, <1>2, <2>1
  <2>7. \A s \in entered' : Ended(s)'
    BY <1>1, <2>1, <2>3, <2>6
  <2>8. \A s \in entered' : Alone(s)'
    BY <1>1, <2>1, <2>2, <2>3
  <2>9. \A s, t \in entered' : Once(s, t)'
    BY <1>1, <2>1
  <2> QED BY <1>3, <2>5, <2>7, <2>8, <2>9
<1>8. ASSUME NEW k \in Checks, OtherChecks(k), K!DelChallenge(k) \/ K!Register(k) \/ K!Verify(k)
      PROVE ChallengeInv'
  <2>1. /\ step[k] \in {"del", "answer"} /\ step'[k] \in {"answer", "touch", "done"}
        /\ live' \subseteq live /\ response'[k] = response[k]
        /\ UNCHANGED <<issued, entered, raced>>
        /\ step[k] = "del" => live' = live \ {response[k].challenge}
    BY <1>2, <1>8 DEF K!DelChallenge, K!Register, K!Verify, K!Goto
  <2>2. Deleted(k)' /\ (Holds(k)' => Holds(k))
    BY <1>1, <2>1 DEF Holds
  <2>3. \A j \in Checks \ {k} :
          step'[j] = step[j] /\ response'[j] = response[j] /\ (Holds(j)' <=> Holds(j))
    BY <1>8 DEF OtherChecks, Holds
  <2>4. \A i \in Checks : Deleted(i)' /\ \A j \in Checks : Apart(j, i)'
    BY <1>1, <2>1, <2>2, <2>3
  <2>5. \A s \in entered : s.by # k /\ s.by \in Checks
    BY <1>1, <1>2, <2>1
  <2>6. \A s \in entered' : Ended(s)' /\ Alone(s)' /\ \A t \in entered' : Once(s, t)'
    BY <1>1, <2>1, <2>2, <2>3, <2>5
  <2> QED BY <1>3, <2>4, <2>6
<1>9. ASSUME NEW k \in Checks, OtherChecks(k), K!Enter(k) PROVE ChallengeInv'
  <2> DEFINE e == [by |-> k, challenge |-> response[k].challenge]
  <2>1. /\ step[k] = "touch" /\ step'[k] = "done" /\ response'[k] = response[k]
        /\ UNCHANGED <<issued, live, raced>> /\ entered' = entered \cup {e}
    BY <1>2, <1>9 DEF K!Enter, K!Goto
  <2>2. Holds(k) /\ ~Holds(k)' /\ Deleted(k) /\ response[k].challenge <= issued
    BY <1>1, <1>2, <2>1 DEF Holds
  <2>3. \A j \in Checks \ {k} :
          step'[j] = step[j] /\ response'[j] = response[j] /\ (Holds(j)' <=> Holds(j))
    BY <1>9 DEF OtherChecks, Holds
  <2>4. \A i \in Checks : Deleted(i)' /\ \A j \in Checks : Apart(j, i)'
    BY <1>1, <2>1, <2>2, <2>3
  <2>5. \A s \in entered : s.by # k /\ s.by \in Checks
    BY <1>1, <1>2, <2>1
  <2>6. Ended(e)' /\ Alone(e)'
    BY <1>1, <2>1, <2>2, <2>3
  <2>7. \A s \in entered : Ended(s)' /\ Alone(s)'
    BY <1>1, <2>1, <2>2, <2>3, <2>5
  <2>8. \A s \in entered : Once(s, e) /\ Once(e, s)
    BY <1>1, <2>2
  <2>9. \A s, t \in entered' : Once(s, t)'
    BY <1>1, <2>1, <2>8
  <2> QED BY <1>3, <2>1, <2>4, <2>6, <2>7, <2>9
<1>10. CASE UNCHANGED <<issued, live, counter, signed, step, response, entered, raced, clashed>>
  BY <1>1, <1>3, <1>10 DEF Holds
<1> QED
  BY <1>4, <1>5, <1>6, <1>7, <1>8, <1>9, <1>10, OneChecks

LEMMA AnswersKept ==
  ASSUME K!ConstantsType, K!TypeOK, ResponseInv, AnswerInv, [K!Next]_(K!vars)
  PROVE  AnswerInv'
<1> DEFINE OneChallenge(j, k) == Signed(j) /\ Signed(k) /\ SameAnswer(j, k) =>
             response[j].challenge = response[k].challenge
           Crossed(j, k) == Checking(j) /\ Checking(k)
                            /\ response[j].credential = response[k].credential =>
             j = k \/ response[k].credential \in clashed
           Steps == {"idle", "sent", "del", "answer", "touch", "done"}
<1>1. \A j, k \in Checks : OneChallenge(j, k) /\ Crossed(j, k)
  BY DEF AnswerInv
<1>2. /\ step \in [Checks -> Steps]
      /\ \A k \in Checks : /\ response[k].count \in Nat
                           /\ step[k] # "idle" => /\ response[k].credential \in Credentials
                                                  /\ response[k].count <=
                                                       signed[response[k].credential]
      /\ \A c \in Credentials : signed[c] \in Nat
  BY DEF K!TypeOK, ResponseInv
<1>3. ASSUME UNCHANGED <<step, response, clashed>> PROVE AnswerInv'
  BY <1>1, <1>3 DEF AnswerInv, Signed, SameAnswer, Checking
<1>4. CASE \/ UNCHANGED <<issued, live, counter, signed, step, response, entered, raced, clashed>>
           \/ K!Stash \/ \E ch \in 1 .. MaxIssued : K!Forget(ch)
  BY <1>3, <1>4 DEF K!Stash, K!Forget
<1>5. ASSUME NEW k \in Checks, OtherChecks(k),
             \/ \E ch \in 1 .. MaxIssued, c \in Credentials : K!Sign(k, ch, c)
             \/ \E j \in Checks : K!Resend(k, j)
             \/ K!GetChallenge(k) \/ K!DelChallenge(k) \/ K!Register(k) \/ K!Verify(k) \/ K!Enter(k)
      PROVE AnswerInv'
  <2>1. \A j \in Checks \ {k} : /\ step'[j] = step[j] /\ response'[j] = response[j]
                                /\ (Checking(j)' <=> Checking(j)) /\ (Signed(j)' <=> Signed(j))
    BY <1>5 DEF OtherChecks, Checking, Signed
  <2>2. clashed \subseteq clashed'
    BY <1>5 DEF K!Sign, K!Resend, K!GetChallenge, K!DelChallenge, K!Register, K!Verify, K!Enter
  <2>3. \A j \in Checks \ {k} : OneChallenge(j, k)' /\ OneChallenge(k, j)'
    <3>1. ASSUME NEW ch \in 1 .. MaxIssued, NEW c \in Credentials, K!Sign(k, ch, c),
                 NEW j \in Checks \ {k}, Signed(j)
          PROVE ~ SameAnswer(j, k)' /\ ~ SameAnswer(k, j)'
      <4>1. response'[k].credential = c /\ response'[k].count = signed[c] + 1
        BY <3>1 DEF K!Sign, K!TypeOK
      <4>2. response[j].count <= signed[response[j].credential] /\ response[j].count \in Nat
            /\ signed[c] \in Nat
        BY <1>2, <3>1 DEF Signed
      <4> QED BY <2>1, <4>1, <4>2 DEF SameAnswer
    <3>2. ASSUME NEW i \in Checks, K!Resend(k, i), NEW j \in Checks \ {k}
          PROVE OneChallenge(j, k)' /\ OneChallenge(k, j)'
      <4>1. response'[k] = response[i] /\ Signed(i)
        BY <3>2 DEF K!Resend, Signed, K!TypeOK
      <4>2. OneChallenge(j, i) /\ OneChallenge(i, j)
        BY <1>1
      <4> QED BY <2>1, <4>1, <4>2 DEF SameAnswer
    <3>3. CASE K!GetChallenge(k) \/ K!DelChallenge(k) \/ K!Register(k) \/ K!Verify(k) \/ K!Enter(k)
      <4>1. /\ response'[k].credential = response[k].credential
            /\ response'[k].count = response[k].count
            /\ response'[k].challenge \in {0, response[k].challenge} /\ step[k] # "idle"
        BY <3>3 DEF K!GetChallenge, K!DelChallenge, K!Register, K!Verify, K!Enter, K!TypeOK
      <4>2. Signed(k)' => Signed(k) /\ response'[k].challenge = response[k].challenge
        BY <4>1 DEF Signed
      <4> QED BY <1>1, <2>1, <4>1, <4>2 DEF SameAnswer
    <3> QED BY <1>5, <2>1, <3>1, <3>2, <3>3
  <2>4. \A j \in Checks \ {k} : Crossed(j, k)' /\ Crossed(k, j)'
    <3>1. CASE \/ \E ch \in 1 .. MaxIssued, c \in Credentials : K!Sign(k, ch, c)
               \/ \E j \in Checks : K!Resend(k, j)
      <4>1. step'[k] = "sent"
        BY <1>2, <3>1 DEF K!Sign, K!Resend, K!Goto
      <4> QED BY <4>1 DEF Checking
    <3>2. CASE K!GetChallenge(k)
      <4>1. /\ response'[k].credential = response[k].credential
            /\ (\E j \in Checks : Checking(j) /\ response[j].credential = response[k].credential) =>
                 response[k].credential \in clashed'
        BY <3>2 DEF K!GetChallenge, Checking, K!TypeOK
      <4> QED BY <2>1, <4>1
    <3>3. CASE K!DelChallenge(k) \/ K!Register(k) \/ K!Verify(k) \/ K!Enter(k)
      <4>1. response' = response /\ Checking(k)
        BY <3>3 DEF K!DelChallenge, K!Register, K!Verify, K!Enter, Checking
      <4> QED BY <1>1, <2>1, <2>2, <4>1
    <3> QED BY <1>5, <3>1, <3>2, <3>3
  <2>5. \A i, j \in Checks \ {k} : OneChallenge(i, j)' /\ Crossed(i, j)'
    BY <1>1, <2>1, <2>2 DEF SameAnswer
  <2>6. \A i, j \in Checks : OneChallenge(i, j)' /\ Crossed(i, j)'
    BY <2>3, <2>4, <2>5
  <2> QED BY <2>6 DEF AnswerInv
<1> QED
  BY <1>4, <1>5, OneChecks

LEMMA CountersKept ==
  ASSUME K!ConstantsType, K!TypeOK, ResponseInv, ChallengeInv, AnswerInv, CounterInv,
         [K!Next]_(K!vars)
  PROVE  CounterInv'
<1> DEFINE Known(k) == counter[response[k].credential] # None
           First(k) == step[k] # "idle" /\ response[k].count = 1 /\ Known(k) =>
             Gone(k) \/ response[k].credential \in clashed
           Further(k) == step[k] = "touch" =>
             /\ response[k].count > 1 /\ Known(k)
             /\ response[k].count > counter[response[k].credential]
                  \/ response[k].credential \in clashed
           Counted(c) == counter[c] # None => 0 < signed[c]
           Steps == {"idle", "sent", "del", "answer", "touch", "done"}
<1>1. /\ \A k \in Checks : First(k) /\ Further(k)
      /\ \A c \in Credentials : Counted(c)
  BY DEF CounterInv
<1>2. ASSUME \A k \in Checks : First(k)' /\ Further(k)', \A c \in Credentials : Counted(c)'
      PROVE  CounterInv'
  BY <1>2 DEF CounterInv
<1>3. /\ step \in [Checks -> Steps] /\ issued \in Nat
      /\ \A k \in Checks : /\ response[k].count \in Nat
                           /\ step[k] # "idle" => /\ response[k].credential \in Credentials
                                                  /\ response[k].challenge <= issued
                                                  /\ 0 < response[k].count
                                                  /\ response[k].count <=
                                                       signed[response[k].credential]
                           /\ step[k] \in {"sent", "answer", "touch"} => response[k].challenge # 0
                           /\ response[k].challenge \in Nat
      /\ \A c \in Credentials : signed[c] \in Nat /\ counter[c] \in Nat \cup {None}
      /\ None \notin Nat
  BY DEF K!TypeOK, ResponseInv, K!ConstantsType
<1>4. \A k \in Checks : step[k] \in {"answer", "touch", "done"} => response[k].challenge \notin live
  BY DEF ChallengeInv
<1>5. \A j, k \in Checks :
        Checking(j) /\ Checking(k) /\ response[j].credential = response[k].credential =>
        j = k \/ response[k].credential \in clashed
  BY DEF AnswerInv
<1>6. CASE UNCHANGED <<issued, live, counter, signed, step, response, entered, raced, clashed>>
  BY <1>1, <1>2, <1>6 DEF Gone
<1>7. CASE K!Stash
  <2>1. live' = live \cup {issued + 1} /\ UNCHANGED <<counter, signed, step, response, clashed>>
    BY <1>7 DEF K!Stash
  <2>2. \A k \in Checks : step[k] # "idle" /\ Gone(k) => Gone(k)'
    BY <1>3, <2>1 DEF Gone
  <2> QED BY <1>1, <1>2, <2>1, <2>2
<1>8. CASE \E ch \in 1 .. MaxIssued : K!Forget(ch)
  <2>1. live' \subseteq live /\ UNCHANGED <<counter, signed, step, response, clashed>>
    BY <1>8 DEF K!Forget
  <2> QED BY <1>1, <1>2, <2>1 DEF Gone
<1>9. ASSUME NEW k \in Checks, OtherChecks(k),
             \/ \E ch \in 1 .. MaxIssued, c \in Credentials : K!Sign(k, ch, c)
             \/ \E j \in Checks : K!Resend(k, j)
             \/ K!GetChallenge(k) \/ K!DelChallenge(k) \/ K!Verify(k)
      PROVE CounterInv'
  <2>1. /\ counter' = counter /\ live' \subseteq live /\ clashed \subseteq clashed'
        /\ \A c \in Credentials : signed[c] <= signed'[c] /\ signed'[c] \in Nat
    BY <1>3, <1>9 DEF K!Sign, K!Resend, K!GetChallenge, K!DelChallenge, K!Verify, K!TypeOK
  <2>2. \A j \in Checks \ {k} : First(j)' /\ Further(j)'
    <3>1. \A j \in Checks \ {k} :
            step'[j] = step[j] /\ response'[j] = response[j] /\ (Gone(j) => Gone(j)')
      BY <1>9, <2>1 DEF OtherChecks, Gone
    <3> QED BY <1>1, <2>1, <3>1
  <2>3. \A c \in Credentials : Counted(c)'
    BY <1>1, <1>3, <2>1
  <2>4. First(k)' /\ Further(k)'
    <3>1. ASSUME NEW ch \in 1 .. MaxIssued, NEW c \in Credentials, K!Sign(k, ch, c)
          PROVE First(k)' /\ Further(k)'
      <4>1. response'[k].credential = c /\ response'[k].count = signed[c] + 1 /\ step'[k] = "sent"
        BY <3>1 DEF K!Sign, K!Goto, K!TypeOK
      <4> QED BY <1>1, <1>3, <2>1, <4>1
    <3>2. ASSUME NEW j \in Checks, K!Resend(k, j) PROVE First(k)' /\ Further(k)'
      <4>1. /\ response'[k] = response[j] /\ step'[k] = "sent" /\ step[j] # "idle"
            /\ response[j].challenge # 0
            /\ live' = live
        BY <3>2 DEF K!Resend, K!Goto, K!TypeOK
      <4>2. step[j] \in Steps /\ First(j)
        BY <1>1, <1>3
      <4>3. Gone(j) => response[j].challenge \notin live
        BY <1>4, <4>1, <4>2 DEF Gone
      <4>4. Gone(j) => Gone(k)'
        BY <4>1, <4>3 DEF Gone
      <4> QED BY <2>1, <4>1, <4>2, <4>4
    <3>3. CASE K!GetChallenge(k)
      <4>1. /\ step[k] = "sent" /\ step'[k] = "del"
            /\ response'[k].credential = response[k].credential
            /\ response'[k].count = response[k].count
            /\ response[k].challenge \notin live => response'[k].challenge = 0
        BY <3>3 DEF K!GetChallenge, K!Goto, K!TypeOK
      <4>2. Gone(k) => Gone(k)'
        BY <4>1 DEF Gone
      <4> QED BY <1>1, <2>1, <4>1, <4>2
    <3>4. CASE K!DelChallenge(k)
      <4>1. /\ step[k] = "del" /\ response' = response
            /\ step'[k] = IF response[k].challenge = 0 THEN "done" ELSE "answer"
        BY <3>4 DEF K!DelChallenge, K!Goto, K!TypeOK
      <4>2. Gone(k) => Gone(k)'
        BY <4>1 DEF Gone
      <4> QED BY <1>1, <2>1, <4>1, <4>2
    <3>5. CASE K!Verify(k)
      <4>1. /\ response[k].count > 1 /\ response' = response
            /\ step'[k] = "touch" =>
                 Known(k) /\ ~(response[k].count <= counter[response[k].credential])
        BY <3>5 DEF K!Verify, K!Goto, K!TypeOK
      <4>2. response[k].credential \in Credentials
        BY <1>3, <3>5 DEF K!Verify
      <4>3. step'[k] = "touch" => response[k].count > counter[response[k].credential]
        BY <1>3, <4>1, <4>2
      <4> QED BY <1>3, <2>1, <4>1, <4>3
    <3> QED BY <1>9, <3>1, <3>2, <3>3, <3>4, <3>5
  <2> QED BY <1>2, <2>2, <2>3, <2>4
<1>10. ASSUME NEW k \in Checks, OtherChecks(k), K!Register(k) PROVE CounterInv'
  <2> DEFINE c == response[k].credential
  <2>1. /\ step[k] = "answer" /\ response[k].count = 1 /\ step'[k] = "done" /\ response' = response
        /\ c \in Credentials /\ UNCHANGED <<live, signed, clashed>>
        /\ counter'[c] = 1 /\ \A d \in Credentials \ {c} : counter'[d] = counter[d]
    BY <1>3, <1>10 DEF K!Register, K!Goto, K!TypeOK
  <2>2. First(k)' /\ Further(k)'
    BY <2>1 DEF Gone
  <2>3. ASSUME NEW j \in Checks \ {k} PROVE First(j)' /\ Further(j)'
    <3>1. step'[j] = step[j] /\ response'[j] = response[j] /\ (Gone(j)' <=> Gone(j))
          /\ step[j] \in Steps
      BY <1>3, <1>10, <2>1 DEF OtherChecks, Gone
    <3>2. ASSUME step[j] # "idle", response[j].count = 1, response[j].credential = c,
                 c \notin clashed
          PROVE Gone(j)
      <4>1. ~ Checking(j)
        BY <1>5, <2>1, <3>2 DEF Checking
      <4>2. step[j] = "sent" => response[j].challenge = response[k].challenge
        BY <1>3, <2>1, <3>2 DEF AnswerInv, Signed, SameAnswer
      <4> QED BY <1>4, <2>1, <4>1, <4>2 DEF Gone, Checking
    <3>3. First(j)'
      BY <1>1, <1>3, <2>1, <3>1, <3>2
    <3>4. Further(j)'
      BY <1>1, <1>3, <2>1, <3>1
    <3> QED BY <3>3, <3>4
  <2>4. \A d \in Credentials : Counted(d)'
    <3>1. 0 < signed[c]
      BY <1>3, <2>1
    <3> QED BY <1>1, <2>1, <3>1
  <2> QED BY <1>2, <2>2, <2>3, <2>4
<1>11. ASSUME NEW k \in Checks, OtherChecks(k), K!Enter(k) PROVE CounterInv'
  <2> DEFINE c == response[k].credential
  <2>1. /\ step[k] = "touch" /\ step'[k] = "done" /\ response' = response
        /\ c \in Credentials /\ UNCHANGED <<live, signed, clashed>>
        /\ counter'[c] = response[k].count /\ \A d \in Credentials \ {c} : counter'[d] = counter[d]
    BY <1>3, <1>11 DEF K!Enter, K!Goto, K!TypeOK
  <2>2. counter[c] # None /\ First(k)' /\ Further(k)'
    BY <1>1, <2>1 DEF Gone
  <2>3. ASSUME NEW j \in Checks \ {k} PROVE First(j)' /\ Further(j)'
    <3>1. step'[j] = step[j] /\ response'[j] = response[j] /\ (Gone(j)' <=> Gone(j))
      BY <1>11, <2>1 DEF OtherChecks, Gone
    <3>2. First(j)'
      BY <1>1, <1>3, <2>1, <2>2, <3>1
    <3>3. step[j] = "touch" /\ response[j].credential = c => c \in clashed
      BY <1>5, <2>1 DEF Checking
    <3>4. Further(j)'
      BY <1>1, <1>3, <2>1, <3>1, <3>3
    <3> QED BY <3>2, <3>4
  <2>4. \A d \in Credentials : Counted(d)'
    BY <1>1, <2>1, <2>2
  <2> QED BY <1>2, <2>2, <2>3, <2>4
<1> QED
  BY <1>6, <1>7, <1>8, <1>9, <1>10, <1>11, OneChecks

LEMMA PasskeysInvariance == ASSUME K!ConstantsType PROVE K!Spec => []PasskeyInv
<1>1. K!Init => PasskeyInv
  BY PasskeysInit
<1>2. PasskeyInv /\ [K!Next]_(K!vars) => PasskeyInv'
  BY PasskeysTyped, ResponsesKept, ChallengesKept, AnswersKept, CountersKept DEF PasskeyInv
<1> QED
  BY <1>1, <1>2, PTL DEF K!Spec

\* TypeOK of Passkeys: every step of the checks and of Redis, which forgets, keeps the stored
\* counters and what a check has in hand of their types.
THEOREM PasskeyTypesCorrect == ASSUME K!ConstantsType PROVE K!Spec => []K!TypeOK
<1>1. PasskeyInv => K!TypeOK
  BY DEF PasskeyInv
<1> QED
  BY <1>1, PasskeysInvariance, PTL

\* ChallengeUsedOnce of Passkeys: a challenge lets nobody in twice, whatever is sent again and
\* whenever Redis forgets it, but for two that take it at the same moment.
THEOREM ChallengesAreSpent == ASSUME K!ConstantsType PROVE K!Spec => []K!ChallengeUsedOnce
<1>1. PasskeyInv => K!ChallengeUsedOnce
  BY DEF PasskeyInv, ChallengeInv
<1> QED
  BY <1>1, PasskeysInvariance, PTL

\* CounterAdvances of Passkeys: a stored counter goes up and never back, since a credential
\* that is registered is not registered again and Verify has compared with what is stored.
THEOREM CountersAdvance == ASSUME K!ConstantsType PROVE K!Spec => K!CounterAdvances
<1> DEFINE Advances(c) == counter[c] # None /\ counter'[c] # counter[c] /\ c \notin clashed
             => counter'[c] > counter[c]
<1>1. ASSUME PasskeyInv, [K!Next]_(K!vars) PROVE \A c \in Credentials : Advances(c)
  <2>1. K!TypeOK /\ ResponseInv /\ AnswerInv /\ CounterInv
    BY <1>1 DEF PasskeyInv
  <2>2. ASSUME NEW k \in Checks, K!Register(k) PROVE \A c \in Credentials : Advances(c)
    <3>1. step[k] = "answer" /\ response[k].count = 1 /\ response[k].credential \in Credentials
      BY <2>1, <2>2 DEF K!Register, ResponseInv
    <3>2. counter[response[k].credential] = None \/ response[k].credential \in clashed
      BY <2>1, <3>1 DEF CounterInv, Gone
    <3>3. \A c \in Credentials : c # response[k].credential => counter'[c] = counter[c]
      BY <2>1, <2>2, <3>1 DEF K!Register, K!TypeOK
    <3> QED BY <3>2, <3>3
  <2>3. ASSUME NEW k \in Checks, K!Enter(k) PROVE \A c \in Credentials : Advances(c)
    <3>1. step[k] = "touch" /\ response[k].credential \in Credentials
      BY <2>1, <2>3 DEF K!Enter, ResponseInv
    <3>2. response[k].count > counter[response[k].credential] \/ response[k].credential \in clashed
      BY <2>1, <3>1 DEF CounterInv
    <3>3. /\ counter'[response[k].credential] = response[k].count
          /\ \A c \in Credentials : c # response[k].credential => counter'[c] = counter[c]
      BY <2>1, <2>3, <3>1 DEF K!Enter, K!TypeOK
    <3> QED BY <3>2, <3>3
  <2>4. \/ counter' = counter
        \/ \E k \in Checks : K!Register(k) \/ K!Enter(k)
    BY <1>1 DEF K!Next, K!vars, K!Stash, K!Forget, K!Sign, K!Resend, K!GetChallenge,
                K!DelChallenge, K!Verify
  <2> QED BY <2>2, <2>3, <2>4
<1>2. PasskeyInv /\ [K!Next]_(K!vars) => [\A c \in Credentials : Advances(c)]_(K!vars)
  BY <1>1
<1> QED
  BY <1>2, PasskeysInvariance, PTL DEF K!Spec, K!CounterAdvances

-----------------------------------------------------------------------------
(* The password and its guesses: Guesses.                                  *)

\* What a try has in hand: who is let in brought the password that was hashed, there was one,
\* and it was the account's since the try was counted.
TryInv ==
  /\ \A t \in Tries : /\ stage[t] \in {"idle", "read", "verify"} => ~matched[t]
                      /\ matched[t] => hash[t] # 0 /\ guess[t] = hash[t]
                      /\ stage[t] = "session" => matched[t]
                      /\ G!UnderWay(t) => current \in since[t]
                      /\ stage[t] \in {"verify", "record", "session"} => hash[t] \in since[t]
  /\ G!NoPasswordNoEntry
  /\ \A i \in DOMAIN tested : tested[i].at <= clock

\* No more are under way than atOnce says.
HandsInv == IsFiniteSet(G!InHand) /\ Cardinality(G!InHand) <= atOnce

\* As long as no two tries were under way at once, what was hashed is what was recorded, up to
\* the one that is about to be; it was hashed before it was recorded.
Recorded(i) == tested[i].ok = attempts[i].ok /\ tested[i].at <= attempts[i].at
Pending(t) == stage[t] = "record"
OneTryInv == atOnce <= 1 =>
  /\ \A t, u \in Tries : G!UnderWay(t) /\ G!UnderWay(u) => t = u
  /\ \A i \in DOMAIN attempts : i \in DOMAIN tested /\ Recorded(i)
  /\ (\A t \in Tries : ~Pending(t)) => Len(tested) = Len(attempts)
  /\ \A t \in Tries : Pending(t) => /\ Len(tested) = Len(attempts) + 1
                                    /\ tested[Len(tested)].ok = matched[t]

\* And whoever is under way may make one wrong guess more.
FailuresInv == atOnce <= 1 =>
  /\ Cardinality(G!WrongIn(attempts)) <= MaxFailures
  /\ \A t \in Tries : G!UnderWay(t) => Cardinality(G!WrongIn(attempts)) < MaxFailures

GuessInv == G!TypeOK /\ TryInv /\ HandsInv /\ OneTryInv /\ FailuresInv

Entries == [at : 1 .. MaxTime, ok : BOOLEAN]
GuessLog == Seq(Entries)

-----------------------------------------------------------------------------

\* The wrong guesses of a log are finitely many.
LEMMA FiniteWrong ==
  ASSUME NEW log \in GuessLog
  PROVE  IsFiniteSet(G!WrongIn(log)) /\ Cardinality(G!WrongIn(log)) \in Nat
<1>1. IsFiniteSet(1 .. Len(log)) /\ G!WrongIn(log) \subseteq 1 .. Len(log)
  BY FS_Interval DEF G!WrongIn, GuessLog, Entries
<1> QED
  BY <1>1, FS_Subset, FS_CardinalityType

LEMMA GuessLogType ==
  ASSUME NEW log \in GuessLog, MaxTime \in Nat
  PROVE  /\ Len(log) \in Nat /\ DOMAIN log = 1 .. Len(log)
         /\ \A i \in DOMAIN log : log[i] \in Entries /\ log[i].at \in Nat
<1>1. Len(log) \in Nat /\ DOMAIN log = 1 .. Len(log) /\ \A i \in DOMAIN log : log[i] \in Entries
  BY DEF GuessLog
<1>2. \A e \in Entries : e.at \in Nat
  BY DEF Entries
<1> QED
  BY <1>1, <1>2

LEMMA GuessesInit == ASSUME G!ConstantsType, G!Init PROVE GuessInv
<1>1. G!TypeOK /\ TryInv
  <2>1. clock \in 1 .. MaxTime /\ {0, 1} \subseteq G!Generations /\ changes \in 0 .. MaxChanges
    BY DEF G!Init, G!ConstantsType, G!Generations
  <2>2. <<>> \in GuessLog
    BY DEF GuessLog
  <2>3. G!TypeOK
    BY <2>1, <2>2 DEF G!Init, G!TypeOK, GuessLog, Entries
  <2> QED BY <2>3 DEF G!Init, TryInv, G!NoPasswordNoEntry, G!UnderWay
<1>2. OneTryInv
  BY DEF G!Init, OneTryInv, G!UnderWay, Pending
<1>3. G!WrongIn(attempts) = {}
  BY DEF G!Init, G!WrongIn
<1>4. Cardinality(G!WrongIn(attempts)) = 0
  BY <1>3, FS_EmptySet
<1>5. FailuresInv
  BY <1>4 DEF G!Init, FailuresInv, G!UnderWay, G!ConstantsType
<1>6. G!InHand = {}
  BY DEF G!Init, G!InHand, G!UnderWay
<1>7. HandsInv
  BY <1>6, FS_EmptySet DEF G!Init, HandsInv
<1> QED BY <1>1, <1>2, <1>5, <1>7 DEF GuessInv

LEMMA GuessesTyped == ASSUME G!ConstantsType, G!TypeOK, [G!Next]_(G!vars) PROVE G!TypeOK'
<1>1. ASSUME NEW t \in Tries, G!Verify(t) PROVE G!TypeOK'
  <2>1. matched' \in [Tries -> BOOLEAN]
    BY <1>1 DEF G!Verify, G!TypeOK
  <2>2. tested' \in GuessLog
    BY <1>1, <2>1 DEF G!Verify, G!TypeOK, GuessLog, Entries
  <2> QED BY <1>1, <2>1, <2>2 DEF G!Verify, G!TypeOK, G!Goto, GuessLog, Entries, G!ghosts
<1>2. ASSUME NEW t \in Tries, G!Record(t) PROVE G!TypeOK'
  BY <1>2 DEF G!Record, G!TypeOK, G!Goto, G!ghosts
<1>3. ASSUME NEW t \in Tries, NEW g \in G!Generations, G!Count(t, g) PROVE G!TypeOK'
  <2>1. atOnce' \in Nat
    BY <1>3 DEF G!Count, G!TypeOK
  <2> QED BY <1>3, <2>1 DEF G!Count, G!TypeOK, G!Goto
<1>4. ASSUME NEW t \in Tries, G!ReadHash(t) PROVE G!TypeOK'
  BY <1>4 DEF G!ReadHash, G!TypeOK, G!Goto, G!ghosts
<1>7. ASSUME NEW t \in Tries, G!Begin(t) PROVE G!TypeOK'
  <2>1. begun' \subseteq [brought : G!Generations, been : SUBSET G!Generations]
    BY <1>7 DEF G!Begin, G!TypeOK
  <2> QED BY <1>7, <2>1 DEF G!Begin, G!TypeOK, G!Goto, G!ghosts
<1>5. ASSUME NEW removed \in BOOLEAN, G!ChangePassword(removed) PROVE G!TypeOK'
  <2>1. current' \in G!Generations /\ changes' \in 0 .. MaxChanges
    BY <1>5 DEF G!ChangePassword, G!TypeOK, G!Generations, G!ConstantsType
  <2>2. since' \in [Tries -> SUBSET G!Generations]
    BY <1>5, <2>1 DEF G!ChangePassword, G!TypeOK
  <2> QED BY <1>5, <2>1, <2>2 DEF G!ChangePassword, G!TypeOK, G!ghosts
<1>6. CASE G!Tick \/ UNCHANGED G!vars
  BY <1>6 DEF G!Tick, G!vars, G!trying, G!ghosts, G!TypeOK, G!ConstantsType
<1> QED
  BY <1>1, <1>2, <1>3, <1>4, <1>5, <1>6, <1>7 DEF G!Next

LEMMA TriesKept == ASSUME G!ConstantsType, G!TypeOK, TryInv, [G!Next]_(G!vars) PROVE TryInv'
<1> DEFINE Past == \A i \in DOMAIN tested : tested[i].at <= clock
<1>0. Past /\ clock \in 1 .. MaxTime /\ tested \in GuessLog /\ MaxTime \in Nat
  BY DEF G!ConstantsType, TryInv, G!TypeOK, GuessLog, Entries
<1>1. ASSUME NEW t \in Tries, G!Verify(t) PROVE TryInv'
  <2>1. /\ matched'[t] <=> hash[t] # 0 /\ guess[t] = hash[t]
        /\ \A u \in Tries \ {t} : matched'[u] = matched[u]
    BY <1>1 DEF G!Verify, G!TypeOK
  <2>2. stage' = [stage EXCEPT ![t] = "record"] /\ UNCHANGED <<hash, guess, begun, since, current>>
    BY <1>1 DEF G!Verify, G!Goto
  <2>3. Past'
    <3>1. tested' = Append(tested, [at |-> clock, ok |-> matched'[t]]) /\ clock' = clock
      BY <1>1 DEF G!Verify
    <3>2. matched'[t] \in BOOLEAN
      BY <1>1 DEF G!Verify, G!TypeOK
    <3> QED BY <1>0, <3>1, <3>2, GuessLogType DEF GuessLog, Entries
  <2>4. stage[t] = "verify" /\ stage'[t] = "record"
        /\ \A u \in Tries \ {t} : stage'[u] = stage[u]
    BY <1>1, <2>2 DEF G!Verify, G!TypeOK
  <2>5. \A u \in Tries : stage'[u] \in {"idle", "read", "verify"} => ~matched'[u]
    BY <2>1, <2>4, Zenon DEF TryInv
  <2>6. \A u \in Tries : matched'[u] => hash'[u] # 0 /\ guess'[u] = hash'[u]
    <3>1. \A u \in Tries : matched'[u] => hash[u] # 0 /\ guess[u] = hash[u]
      BY <2>1, Zenon DEF TryInv
    <3> QED BY <2>2, <3>1
  <2>7. \A u \in Tries : stage'[u] = "session" => matched'[u]
    <3>1. stage'[t] # "session"
      BY <2>4
    <3> QED BY <2>1, <2>4, <3>1, Zenon DEF TryInv
  <2>9. G!NoPasswordNoEntry'
    BY <2>2 DEF TryInv, G!NoPasswordNoEntry
  <2>10. ASSUME NEW u \in Tries
         PROVE  /\ stage'[u] \in {"idle", "read", "verify"} => ~matched'[u]
                /\ matched'[u] => hash'[u] # 0 /\ guess'[u] = hash'[u]
                /\ stage'[u] = "session" => matched'[u]
                /\ stage'[u] \in {"read", "verify", "record"} => current' \in since'[u]
                /\ stage'[u] \in {"verify", "record", "session"} => hash'[u] \in since'[u]
    <3>1. stage'[u] \in {"idle", "read", "verify"} => ~matched'[u]
      BY <2>5
    <3>2. matched'[u] => hash'[u] # 0 /\ guess'[u] = hash'[u]
      BY <2>6
    <3>3. stage'[u] = "session" => matched'[u]
      BY <2>7
    <3>4. /\ stage'[u] \in {"read", "verify", "record"} => current' \in since'[u]
          /\ stage'[u] \in {"verify", "record", "session"} => hash'[u] \in since'[u]
      <4>1. stage[u] \in {"read", "verify", "record"} <=> stage'[u] \in {"read", "verify", "record"}
        BY <2>4
      <4>2. stage'[u] \in {"verify", "record", "session"} =>
              stage[u] \in {"verify", "record", "session"}
        BY <2>4
      <4>3. /\ stage[u] \in {"read", "verify", "record"} => current \in since[u]
            /\ stage[u] \in {"verify", "record", "session"} => hash[u] \in since[u]
        BY DEF TryInv, G!UnderWay
      <4> QED BY <2>2, <4>1, <4>2, <4>3
    <3> QED BY <3>1, <3>2, <3>3, <3>4, Zenon
  <2> HIDE DEF Past
  <2>11. (\A i \in DOMAIN tested : tested[i].at <= clock)'
    BY <2>3 DEF Past
  <2> QED BY <2>9, <2>10, <2>11 DEF TryInv, G!UnderWay
<1>2. ASSUME NEW t \in Tries, G!Record(t) PROVE TryInv'
  BY <1>2 DEF G!Record, G!TypeOK, TryInv, G!NoPasswordNoEntry, G!Goto, G!ghosts, G!UnderWay
<1>3. ASSUME NEW t \in Tries, NEW g \in G!Generations, G!Count(t, g) PROVE TryInv'
  BY <1>3 DEF G!Count, G!TypeOK, TryInv, G!NoPasswordNoEntry, G!Goto, G!UnderWay
<1>4. ASSUME NEW t \in Tries, G!ReadHash(t) PROVE TryInv'
  BY <1>4 DEF G!ReadHash, G!TypeOK, TryInv, G!NoPasswordNoEntry, G!Goto, G!ghosts, G!UnderWay
<1>7. ASSUME NEW t \in Tries, G!Begin(t) PROVE TryInv'
  <2>1. matched[t] /\ guess[t] # 0 /\ guess[t] \in since[t]
    BY <1>7 DEF G!Begin, TryInv
  <2>2. G!NoPasswordNoEntry'
    BY <1>7, <2>1 DEF G!Begin, TryInv, G!NoPasswordNoEntry
  <2> QED BY <1>7, <2>2 DEF G!Begin, G!TypeOK, TryInv, G!Goto, G!ghosts, G!UnderWay
<1>5. CASE UNCHANGED G!vars \/ \E removed \in BOOLEAN : G!ChangePassword(removed)
  <2>1. CASE UNCHANGED G!vars
    BY <2>1 DEF G!vars, G!trying, G!ghosts, TryInv, G!NoPasswordNoEntry, G!UnderWay
  <2>2. ASSUME NEW removed \in BOOLEAN, G!ChangePassword(removed) PROVE TryInv'
    <3>1. UNCHANGED <<clock, stage, guess, hash, matched, begun, tested>>
          /\ since' = [t \in Tries |-> IF G!UnderWay(t) THEN since[t] \cup {current'}
                                       ELSE since[t]]
      BY <2>2 DEF G!ChangePassword
    <3>2. \A t \in Tries : since[t] \subseteq since'[t]
                           /\ (G!UnderWay(t) => current' \in since'[t])
      BY <3>1
    <3> QED BY <3>1, <3>2 DEF TryInv, G!NoPasswordNoEntry, G!UnderWay
  <2> QED BY <1>5, <2>1, <2>2
<1>6. CASE G!Tick
  <2>1. Past'
    <3>1. UNCHANGED tested /\ clock' = clock + 1
      BY <1>6 DEF G!Tick, G!trying, G!ghosts
    <3>2. \A i \in DOMAIN tested : tested[i].at \in Nat
      BY <1>0, GuessLogType
    <3> QED BY <1>0, <3>1, <3>2
  <2> QED BY <1>6, <2>1 DEF G!Tick, G!trying, G!ghosts, TryInv, G!NoPasswordNoEntry, G!UnderWay
<1> QED
  BY <1>1, <1>2, <1>3, <1>4, <1>5, <1>6, <1>7 DEF G!Next

LEMMA HandsKept == ASSUME G!TypeOK, HandsInv, [G!Next]_(G!vars) PROVE HandsInv'
<1> DEFINE TryStages == {"idle", "read", "verify", "record", "session", "done"}
<1>0. stage \in [Tries -> TryStages] /\ atOnce \in Nat /\ IsFiniteSet(G!InHand)
      /\ Cardinality(G!InHand) \in Nat /\ Cardinality(G!InHand) <= atOnce
  BY FS_CardinalityType DEF G!TypeOK, HandsInv
<1>1. ASSUME G!InHand' \subseteq G!InHand, atOnce' = atOnce PROVE HandsInv'
  BY <1>0, <1>1, CountsLess DEF HandsInv
<1>2. ASSUME NEW t \in Tries, NEW g \in G!Generations, G!Count(t, g) PROVE HandsInv'
  <2>1. CASE G!MayGuess
    <3>1. G!InHand' \subseteq G!InHand \cup {t}
      BY <1>0, <1>2 DEF G!Count, G!Goto, G!InHand, G!UnderWay
    <3>2. atOnce' = IF Cardinality(G!InHand) = atOnce THEN atOnce + 1 ELSE atOnce
      BY <1>2, <2>1, SameCount DEF G!Count
    <3>3. IsFiniteSet(G!InHand \cup {t})
      BY <1>0, FS_AddElement
    <3>4. IsFiniteSet(G!InHand') /\ Cardinality(G!InHand') \in Nat
          /\ Cardinality(G!InHand') <= Cardinality(G!InHand) + 1
      BY <1>0, <3>1, <3>3, CountsOneMore, FS_Subset
    <3> QED BY <1>0, <3>2, <3>4 DEF HandsInv
  <2>2. CASE ~G!MayGuess
    BY <1>0, <1>1, <1>2, <2>2 DEF G!Count, G!Goto, G!InHand, G!UnderWay
  <2> QED BY <2>1, <2>2
<1>3. ASSUME NEW t \in Tries, G!ReadHash(t) \/ G!Verify(t) \/ G!Record(t) \/ G!Begin(t)
      PROVE HandsInv'
  BY <1>0, <1>1, <1>3 DEF G!ReadHash, G!Verify, G!Record, G!Begin, G!Goto, G!InHand, G!UnderWay,
                          G!ghosts
<1>4. CASE G!Tick \/ UNCHANGED G!vars \/ \E removed \in BOOLEAN : G!ChangePassword(removed)
  BY <1>1, <1>4 DEF G!Tick, G!ChangePassword, G!vars, G!trying, G!ghosts, G!InHand, G!UnderWay
<1> QED
  BY <1>2, <1>3, <1>4 DEF G!Next

\* A try that comes in to be alone finds nobody there.
LEMMA NobodyThere ==
  ASSUME G!TypeOK, HandsInv, NEW t \in Tries, NEW g \in G!Generations, G!Count(t, g),
         G!MayGuess, atOnce' <= 1
  PROVE  atOnce <= 1 /\ \A u \in Tries : ~G!UnderWay(u)
<1>1. atOnce \in Nat /\ IsFiniteSet(G!InHand) /\ Cardinality(G!InHand) \in Nat
      /\ Cardinality(G!InHand) <= atOnce
  BY FS_CardinalityType DEF G!TypeOK, HandsInv
<1>2. atOnce' = IF Cardinality(G!InHand) = atOnce THEN atOnce + 1 ELSE atOnce
  BY SameCount DEF G!Count
<1>3. Cardinality(G!InHand) = 0
  BY <1>1, <1>2
<1> QED
  BY <1>1, <1>2, <1>3, FS_EmptySet DEF G!InHand

LEMMA AloneKept ==
  ASSUME G!ConstantsType, G!TypeOK, TryInv, HandsInv, OneTryInv, [G!Next]_(G!vars)
  PROVE  OneTryInv'
<1> DEFINE TryStages == {"idle", "read", "verify", "record", "session", "done"}
<1>0. stage \in [Tries -> TryStages] /\ attempts \in GuessLog /\ tested \in GuessLog
      /\ clock \in 1 .. MaxTime
  BY DEF G!TypeOK, GuessLog, Entries
<1> SUFFICES ASSUME atOnce' <= 1 PROVE OneTryInv'
  BY DEF OneTryInv
<1>1. ASSUME NEW t \in Tries, NEW g \in G!Generations, G!Count(t, g) PROVE OneTryInv'
  <2>1. atOnce <= 1 /\ (G!MayGuess => \A u \in Tries : ~G!UnderWay(u))
    <3>1. ~G!MayGuess => atOnce' = atOnce
      BY <1>1 DEF G!Count
    <3> QED BY <1>1, <3>1, NobodyThere
  <2>2. /\ stage'[t] \in {"read", "done"} /\ \A u \in Tries \ {t} : stage'[u] = stage[u]
        /\ UNCHANGED <<attempts, tested, matched>>
        /\ stage[t] = "idle" /\ (~G!MayGuess => stage'[t] = "done")
    BY <1>0, <1>1 DEF G!Count, G!Goto
  <2>3. \A u \in Tries : Pending(u)' <=> Pending(u)
    BY <2>2 DEF Pending
  <2>4. \A u, v \in Tries : G!UnderWay(u)' /\ G!UnderWay(v)' => u = v
    BY <2>1, <2>2 DEF OneTryInv, G!UnderWay
  <2> QED BY <2>1, <2>2, <2>3, <2>4 DEF OneTryInv, Recorded
<1>2. \/ atOnce <= 1 /\ \A t, u \in Tries : G!UnderWay(t) /\ G!UnderWay(u) => t = u
      \/ \E t \in Tries, g \in G!Generations : G!Count(t, g)
  <2>1. CASE \E t \in Tries, g \in G!Generations : G!Count(t, g)
    BY <2>1
  <2>2. CASE ~ \E t \in Tries, g \in G!Generations : G!Count(t, g)
    <3>1. atOnce' = atOnce
      BY <2>2 DEF G!Next, G!ReadHash, G!Verify, G!Record, G!Begin, G!ChangePassword, G!Tick,
                  G!vars, G!trying, G!ghosts
    <3> QED BY <3>1 DEF OneTryInv
  <2> QED BY <2>1, <2>2
<1>3. ASSUME NEW t \in Tries, G!ReadHash(t) \/ G!Begin(t), atOnce <= 1 PROVE OneTryInv'
  <2>1. /\ (G!UnderWay(t)' => G!UnderWay(t)) /\ ~Pending(t) /\ ~Pending(t)'
        /\ \A u \in Tries \ {t} : stage'[u] = stage[u]
        /\ UNCHANGED <<attempts, tested, matched>>
    BY <1>0, <1>3 DEF G!ReadHash, G!Begin, G!Goto, G!UnderWay, Pending, G!ghosts
  <2>2. \A u \in Tries : (G!UnderWay(u)' => G!UnderWay(u)) /\ (Pending(u)' <=> Pending(u))
    BY <2>1 DEF G!UnderWay, Pending
  <2> QED BY <1>3, <2>1, <2>2 DEF OneTryInv, Recorded
<1>4. ASSUME NEW t \in Tries, G!Verify(t), atOnce <= 1 PROVE OneTryInv'
  <2>1. /\ G!UnderWay(t) /\ G!UnderWay(t)' /\ ~Pending(t) /\ Pending(t)'
        /\ \A u \in Tries \ {t} : stage'[u] = stage[u]
        /\ attempts' = attempts
    BY <1>0, <1>4 DEF G!Verify, G!Goto, G!UnderWay, Pending
  <2>2. matched'[t] \in BOOLEAN /\ tested' = Append(tested, [at |-> clock, ok |-> matched'[t]])
    BY <1>4 DEF G!Verify, G!TypeOK
  <2>3. \A u \in Tries : (G!UnderWay(u)' <=> G!UnderWay(u))
    BY <2>1 DEF G!UnderWay
  <2>4. \A u \in Tries : G!UnderWay(u) => u = t
    BY <1>4, <2>1 DEF OneTryInv
  <2>5. \A u \in Tries : ~Pending(u) /\ (Pending(u)' => u = t)
    BY <2>1, <2>3, <2>4 DEF G!UnderWay, Pending
  <2>6. Len(tested) = Len(attempts)
    BY <1>4, <2>5 DEF OneTryInv
  <2>7. /\ Len(tested') = Len(attempts') + 1 /\ tested'[Len(tested')].ok = matched'[t]
        /\ \A i \in DOMAIN tested : i \in DOMAIN tested' /\ tested'[i] = tested[i]
    BY <1>0, <2>1, <2>2, <2>6 DEF GuessLog
  <2>8. \A i \in DOMAIN attempts' : i \in DOMAIN tested' /\ Recorded(i)'
    BY <1>4, <2>1, <2>7 DEF OneTryInv, Recorded
  <2>9. \A u, v \in Tries : G!UnderWay(u)' /\ G!UnderWay(v)' => u = v
    BY <2>3, <2>4
  <2>10. \A u \in Tries : Pending(u)' => Len(tested') = Len(attempts') + 1
                                         /\ tested'[Len(tested')].ok = matched'[u]
    BY <2>5, <2>7
  <2> QED BY <2>1, <2>8, <2>9, <2>10 DEF OneTryInv
<1>5. ASSUME NEW t \in Tries, G!Record(t), atOnce <= 1 PROVE OneTryInv'
  <2>1. /\ G!UnderWay(t) /\ ~G!UnderWay(t)' /\ Pending(t)
        /\ \A u \in Tries \ {t} : stage'[u] = stage[u]
        /\ UNCHANGED <<tested, matched>>
    BY <1>0, <1>5 DEF G!Record, G!Goto, G!UnderWay, Pending, G!ghosts
  <2>2. \A u \in Tries : ~G!UnderWay(u)'
    BY <1>5, <2>1 DEF OneTryInv, G!UnderWay
  <2>3. \A u \in Tries : ~Pending(u)'
    BY <2>2 DEF G!UnderWay, Pending
  <2>4. Len(tested) = Len(attempts) + 1 /\ tested[Len(tested)].ok = matched[t]
    BY <1>5, <2>1 DEF OneTryInv
  <2>5. attempts' = Append(attempts, [at |-> clock, ok |-> matched[t]]) /\ matched[t] \in BOOLEAN
    BY <1>5 DEF G!Record, G!TypeOK
  <2>6. /\ Len(attempts') = Len(attempts) + 1
        /\ \A i \in DOMAIN attempts : attempts'[i] = attempts[i]
        /\ attempts'[Len(attempts')] = [at |-> clock, ok |-> matched[t]]
        /\ DOMAIN attempts' = DOMAIN attempts \cup {Len(attempts')}
    BY <1>0, <2>5 DEF GuessLog
  <2>7. tested[Len(tested)].at <= clock /\ Len(tested) \in DOMAIN tested
    BY <1>0, <2>4 DEF TryInv, GuessLog
  <2>8. \A i \in DOMAIN attempts' : i \in DOMAIN tested' /\ Recorded(i)'
    <3>1. \A i \in DOMAIN attempts : i \in DOMAIN tested' /\ Recorded(i)'
      BY <1>5, <2>1, <2>6 DEF OneTryInv, Recorded
    <3>2. ASSUME NEW i, i = Len(attempts') PROVE i \in DOMAIN tested' /\ Recorded(i)'
      <4>1. i = Len(tested) /\ tested' = tested
        BY <2>1, <2>4, <2>6, <3>2
      <4>2. attempts'[i].at = clock /\ attempts'[i].ok = matched[t]
        BY <2>6, <3>2
      <4> QED BY <2>4, <2>7, <4>1, <4>2 DEF Recorded
    <3> QED BY <2>6, <3>1, <3>2
  <2> QED BY <2>1, <2>2, <2>3, <2>4, <2>6, <2>8 DEF OneTryInv
<1>6. CASE G!Tick \/ UNCHANGED G!vars \/ \E removed \in BOOLEAN : G!ChangePassword(removed)
  BY <1>6 DEF OneTryInv, Recorded, G!UnderWay, Pending, G!ChangePassword, G!Tick, G!vars, G!trying,
              G!ghosts
<1> QED
  BY <1>1, <1>2, <1>3, <1>4, <1>5, <1>6 DEF G!Next

\* The wrong ones of a log are fewer as time goes by, and one more with each that is wrong.
LEMMA FailuresKept ==
  ASSUME G!ConstantsType, G!TypeOK, HandsInv, OneTryInv, FailuresInv, [G!Next]_(G!vars)
  PROVE  FailuresInv'
<1> DEFINE TryStages == {"idle", "read", "verify", "record", "session", "done"}
<1>0. /\ stage \in [Tries -> TryStages] /\ attempts \in GuessLog /\ clock \in Nat /\ Window \in Int
      /\ MaxFailures \in Nat /\ MaxTime \in Nat
  BY DEF G!TypeOK, GuessLog, Entries, G!ConstantsType
<1>1. IsFiniteSet(G!WrongIn(attempts)) /\ Cardinality(G!WrongIn(attempts)) \in Nat
  BY <1>0, FiniteWrong
<1> SUFFICES ASSUME atOnce' <= 1 PROVE FailuresInv'
  BY DEF FailuresInv
<1>2. atOnce <= 1
  <2>1. atOnce \in Nat
    BY DEF G!TypeOK
  <2>2. ASSUME NEW t \in Tries, NEW g \in G!Generations, G!Count(t, g) PROVE atOnce <= 1
    <3>1. atOnce' = atOnce \/ atOnce' = atOnce + 1
      BY <2>2 DEF G!Count
    <3> QED BY <2>1, <3>1
  <2>3. ASSUME UNCHANGED atOnce PROVE atOnce <= 1
    BY <2>3
  <2>4. ASSUME NEW t \in Tries, G!ReadHash(t) \/ G!Verify(t) \/ G!Record(t) \/ G!Begin(t)
        PROVE  atOnce <= 1
    <3>1. UNCHANGED atOnce
      BY <2>4 DEF G!ReadHash, G!Verify, G!Record, G!Begin, G!ghosts
    <3> QED BY <2>3, <3>1
  <2>5. ASSUME NEW removed \in BOOLEAN, G!ChangePassword(removed) PROVE atOnce <= 1
    BY <2>3, <2>5 DEF G!ChangePassword
  <2>6. CASE G!Tick \/ UNCHANGED G!vars
    BY <2>3, <2>6 DEF G!Tick, G!vars, G!trying, G!ghosts
  <2> QED BY <2>2, <2>4, <2>5, <2>6 DEF G!Next
<1>3. /\ Cardinality(G!WrongIn(attempts)) <= MaxFailures
      /\ \A t \in Tries : G!UnderWay(t) => Cardinality(G!WrongIn(attempts)) < MaxFailures
  BY <1>2 DEF FailuresInv
<1>4. ASSUME NEW t \in Tries, G!Record(t) PROVE FailuresInv'
  <2>1. /\ G!UnderWay(t) /\ \A u \in Tries : ~G!UnderWay(u)'
        /\ attempts' = Append(attempts, [at |-> clock, ok |-> matched[t]])
        /\ matched[t] \in BOOLEAN /\ clock' = clock
    <3>1. G!UnderWay(t) /\ stage'[t] \in {"session", "done"}
          /\ \A u \in Tries \ {t} : stage'[u] = stage[u]
      BY <1>0, <1>4 DEF G!Record, G!Goto, G!UnderWay
    <3>2. \A u \in Tries : ~G!UnderWay(u)'
      BY <1>2, <3>1 DEF OneTryInv, G!UnderWay
    <3> QED BY <1>4, <3>1, <3>2 DEF G!Record, G!TypeOK
  <2>2. /\ \A i \in DOMAIN attempts : i \in DOMAIN attempts' /\ attempts'[i] = attempts[i]
        /\ DOMAIN attempts' = DOMAIN attempts \cup {Len(attempts) + 1}
    BY <1>0, <2>1 DEF GuessLog
  <2>3. G!WrongIn(attempts)' \subseteq G!WrongIn(attempts) \cup {Len(attempts) + 1}
    BY <2>1, <2>2 DEF G!WrongIn
  <2>4. Cardinality(G!WrongIn(attempts)') <= Cardinality(G!WrongIn(attempts)) + 1
        /\ Cardinality(G!WrongIn(attempts)') \in Nat
    BY <1>1, <2>3, CountsOneMore
  <2> QED BY <1>0, <1>1, <1>3, <2>1, <2>4 DEF FailuresInv
<1>5. ASSUME attempts' = attempts, clock' \in Nat, clock <= clock' 
      PROVE  /\ Cardinality(G!WrongIn(attempts)') \in Nat
             /\ Cardinality(G!WrongIn(attempts)') <= Cardinality(G!WrongIn(attempts))
  <2>1. G!WrongIn(attempts)' \subseteq G!WrongIn(attempts)
    <3>1. \A i \in DOMAIN attempts : attempts[i].at \in Nat
      BY <1>0, GuessLogType DEF G!TypeOK
    <3> QED BY <1>0, <1>5, <3>1 DEF G!WrongIn
  <2> QED BY <1>1, <2>1, CountsLess
<1>6. ASSUME NEW t \in Tries, NEW g \in G!Generations, G!Count(t, g) PROVE FailuresInv'
  <2>1. G!MayGuess => \A u \in Tries : ~G!UnderWay(u)
    BY <1>6, NobodyThere
  <2>2. UNCHANGED <<attempts, clock>>
        /\ \A u \in Tries : G!UnderWay(u)' => G!MayGuess \/ G!UnderWay(u)
    BY <1>0, <1>6 DEF G!Count, G!Goto, G!UnderWay
  <2> QED BY <1>0, <1>1, <1>3, <1>5, <2>2, SameCount DEF FailuresInv, G!MayGuess
<1>7. ASSUME NEW t \in Tries, G!ReadHash(t) \/ G!Verify(t) \/ G!Begin(t) PROVE FailuresInv'
  <2>1. UNCHANGED <<attempts, clock>> /\ \A u \in Tries : G!UnderWay(u)' => G!UnderWay(u)
    BY <1>0, <1>7 DEF G!ReadHash, G!Verify, G!Begin, G!Goto, G!UnderWay
  <2> QED BY <1>0, <1>1, <1>3, <1>5, <2>1 DEF FailuresInv
<1>8. CASE G!Tick \/ UNCHANGED G!vars \/ \E removed \in BOOLEAN : G!ChangePassword(removed)
  <2>1. UNCHANGED <<attempts, stage>> /\ clock' \in Nat /\ clock <= clock'
    BY <1>0, <1>8 DEF G!ChangePassword, G!Tick, G!vars, G!trying
  <2> QED BY <1>0, <1>1, <1>3, <1>5, <2>1 DEF FailuresInv, G!UnderWay
<1> QED
  BY <1>4, <1>6, <1>7, <1>8 DEF G!Next

LEMMA GuessesInvariance == ASSUME G!ConstantsType PROVE G!Spec => []GuessInv
<1>1. G!Init => GuessInv
  BY GuessesInit
<1>2. GuessInv /\ [G!Next]_(G!vars) => GuessInv'
  BY GuessesTyped, TriesKept, HandsKept, AloneKept, FailuresKept DEF GuessInv
<1> QED
  BY <1>1, <1>2, PTL DEF G!Spec

\* NoPasswordNoEntry of Guesses: who begins a session brought a password that was the account's
\* at some point since the try was counted, whenever it is set, changed or removed under the
\* try; one that was changed before opens nothing, and neither does none.
THEOREM NoneIsNoPassword == ASSUME G!ConstantsType PROVE G!Spec => []G!NoPasswordNoEntry
<1>1. GuessInv => G!NoPasswordNoEntry
  BY DEF GuessInv, TryInv
<1> QED
  BY <1>1, GuessesInvariance, PTL

\* GuessesBounded of Guesses as long as tries came one after another: what is hashed in a
\* window and wrong stays within MAX_FAILURES, for what is counted is what was recorded, after
\* the hash, and all of it but the one in hand.
THEOREM GuessesAreCounted ==
  ASSUME G!ConstantsType PROVE G!Spec => [](atOnce = 1 => G!GuessesBounded)
<1>1. ASSUME G!ConstantsType, GuessInv, atOnce <= 1
      PROVE Cardinality(G!WrongIn(tested)) <= MaxFailures
  <2>0. /\ attempts \in GuessLog /\ tested \in GuessLog /\ clock \in Nat /\ Window \in Int
        /\ MaxFailures \in Nat
        /\ MaxTime \in Nat
    BY <1>1 DEF GuessInv, G!TypeOK, GuessLog, Entries, G!ConstantsType
  <2>1. IsFiniteSet(G!WrongIn(attempts)) /\ Cardinality(G!WrongIn(attempts)) \in Nat
        /\ Cardinality(G!WrongIn(attempts)) <= MaxFailures
    BY <1>1, <2>0, FiniteWrong DEF GuessInv, FailuresInv
  <2>2. \A i \in DOMAIN attempts : i \in DOMAIN tested /\ Recorded(i)
    BY <1>1 DEF GuessInv, OneTryInv
  <2>3. \A i \in DOMAIN attempts : attempts[i].at \in Nat /\ tested[i].at \in Nat
    BY <2>0, <2>2, GuessLogType
  <2>4. \A i \in DOMAIN attempts : i \in G!WrongIn(tested) => i \in G!WrongIn(attempts)
    <3> TAKE i \in DOMAIN attempts
    <3> HAVE i \in G!WrongIn(tested)
    <3>1. ~attempts[i].ok
      BY <2>2 DEF G!WrongIn, Recorded
    <3>2. attempts[i].at > clock - Window
      BY <2>0, <2>2, <2>3 DEF G!WrongIn, Recorded
    <3>3. \A j \in DOMAIN attempts : attempts[j].ok => j < i
      BY <2>2 DEF G!WrongIn, Recorded
    <3> QED BY <3>1, <3>2, <3>3 DEF G!WrongIn
  <2>5. CASE \A t \in Tries : ~Pending(t)
    <3>1. DOMAIN tested = DOMAIN attempts
      BY <1>1, <2>0, <2>5 DEF GuessInv, OneTryInv, GuessLog
    <3>2. G!WrongIn(tested) \subseteq G!WrongIn(attempts)
      BY <2>4, <3>1 DEF G!WrongIn
    <3> QED BY <2>0, <2>1, <3>2, CountsLess
  <2>6. ASSUME NEW t \in Tries, Pending(t) PROVE Cardinality(G!WrongIn(tested)) <= MaxFailures
    <3>1. Len(tested) = Len(attempts) + 1
      BY <1>1, <2>6 DEF GuessInv, OneTryInv
    <3>2. G!WrongIn(tested) \subseteq G!WrongIn(attempts) \cup {Len(tested)}
      BY <2>0, <2>4, <3>1 DEF G!WrongIn, GuessLog, Entries
    <3>3. Cardinality(G!WrongIn(attempts)) < MaxFailures
      BY <1>1, <2>6 DEF GuessInv, FailuresInv, G!UnderWay, Pending
    <3> QED
      <4>1. Cardinality(G!WrongIn(tested)) \in Nat
            /\ Cardinality(G!WrongIn(tested)) <= Cardinality(G!WrongIn(attempts)) + 1
        BY <2>1, <3>2, CountsOneMore
      <4> QED BY <2>0, <2>1, <3>3, <4>1
  <2> QED BY <2>5, <2>6
<1>2. G!ConstantsType => (GuessInv => (atOnce = 1 => G!GuessesBounded))
  <2> SUFFICES ASSUME G!ConstantsType, GuessInv, atOnce = 1 PROVE G!GuessesBounded
    OBVIOUS
  <2>1. atOnce * MaxFailures + (atOnce * (atOnce - 1)) \div 2 = MaxFailures
    BY DEF G!ConstantsType
  <2> QED BY <1>1, <2>1, SameCount DEF G!GuessesBounded
<1> QED
  BY <1>2, GuessesInvariance, PTL

-----------------------------------------------------------------------------
(* Readers among themselves: People.                                       *)

\* Who makes a request, and of whom.
AskedInv == \A r \in Requests : turn[r] # "idle" => P!By(r) \in Readers /\ P!Of(r) \in Readers
CheckInv == \A r \in Requests :
              turn[r] = "check" => asked[r].kind \in {"follow", "unfollow", "send", "open"}

\* What a request is of, where it is in a thread and what it has read of it.
ThreadInv ==
  /\ \A r \in Requests : /\ turn[r] \in {"open", "mark"} => asked[r].kind = "open"
                         /\ turn[r] \in {"follow", "unfollow", "block", "part", "unblock", "count",
                                         "send", "comment", "delete"} => asked[r].kind # "open"
                         /\ asked[r].seen <= Len(messages)
  /\ \A r \in Requests : turn[r] = "mark" \/ P!Opened(r) =>
       \A i \in 1 .. asked[r].seen : P!FromOther(r, i) /\ P!Recent(i) => i \in asked[r].page
  /\ P!ThreadsRead

\* A reader whose requests never overlapped has one under way at most, and one that may write
\* has written less than the rate.
MayWrite(u) ==
  /\ Cardinality(P!Lately(messages, u)) <= MessageRate
  /\ Cardinality(P!Lately(comments, u)) <= CommentRate
  /\ \A r \in Requests : P!By(r) = u =>
       /\ turn[r] = "send" => Cardinality(P!Lately(messages, u)) < MessageRate
       /\ turn[r] = "comment" => Cardinality(P!Lately(comments, u)) < CommentRate
RateInv ==
  /\ \A i \in DOMAIN messages : messages[i].at <= hour
  /\ \A i \in DOMAIN comments : comments[i].at <= hour
  /\ \A u \in Readers \ doubling :
       /\ \A q, r \in Requests : P!Busy(q) /\ P!Busy(r) /\ P!By(q) = u /\ P!By(r) = u => q = r
       /\ MayWrite(u)

PeopleInv == P!TypeOK /\ AskedInv /\ CheckInv /\ P!BlockedDoNotFollow /\ RateInv /\ ThreadInv

Texts == [by : Readers, to : Readers, at : 1 .. MaxTime, read : BOOLEAN]
Remarks == [by : Readers, at : 1 .. MaxTime, deleted : BOOLEAN]
PeopleStages == P!Kinds \cup {"idle", "check", "part", "count", "mark", "refused", "done"}
PeopleAsk == [kind : P!Kinds, by : Readers \cup {None}, of : Readers \cup {None},
              seen : Nat, page : SUBSET Nat]

-----------------------------------------------------------------------------

\* What a step may do to the messages: one is added at the end, unread, and none is taken
\* back, readdressed or unread; they are read by MarkRead.
Grows ==
  /\ hour <= hour' /\ DOMAIN messages \subseteq DOMAIN messages'
  /\ \A i \in DOMAIN messages : /\ messages'[i].by = messages[i].by
                                /\ messages'[i].to = messages[i].to
                                /\ messages'[i].at = messages[i].at
                                /\ messages[i].read => messages'[i].read
  /\ \A i \in DOMAIN messages' : messages'[i].read =>
       /\ i \in DOMAIN messages
       /\ messages[i].read \/ \E r \in Requests : P!MarkRead(r) /\ P!FromOther(r, i)

\* Every step, and the one request that takes it.
AloneTurn(r) == \A q \in Requests \ {r} : turn'[q] = turn[q] /\ asked'[q] = asked[q]
LEMMA PeopleSteps ==
  ASSUME P!TypeOK, [P!Next]_(P!vars)
  PROVE  \/ P!Tick
         \/ UNCHANGED <<hour, follows, blocks, messages, comments, turn, asked, parted, doubling>>
         \/ \E r \in Requests :
              /\ AloneTurn(r)
              /\ \/ \E kind \in P!Kinds, u, v \in Readers : P!Begin(r, kind, u, v)
                 \/ P!CheckBlock(r) \/ P!Follow(r) \/ P!Unfollow(r) \/ P!Block(r) \/ P!Part(r)
                 \/ P!Unblock(r)
                 \/ P!Count(r) \/ P!SendMessage(r) \/ P!InsertComment(r) \/ P!DeleteComment(r)
                 \/ P!OpenThread(r) \/ P!MarkRead(r)
<1>1. turn \in [Requests -> PeopleStages] /\ asked \in [Requests -> PeopleAsk]
  BY DEF P!TypeOK, PeopleStages, PeopleAsk
<1> QED
  BY <1>1 DEF P!Next, P!vars, P!rows, P!ghosts, AloneTurn, P!Begin, P!CheckBlock, P!Follow,
              P!Unfollow, P!Block, P!Part, P!Unblock, P!Count, P!SendMessage, P!InsertComment,
              P!DeleteComment, P!OpenThread, P!MarkRead, P!Goto

LEMMA PeopleHands == ASSUME P!TypeOK, AskedInv, [P!Next]_(P!vars) PROVE AskedInv'
<1>0. turn \in [Requests -> PeopleStages] /\ asked \in [Requests -> PeopleAsk]
  BY DEF P!TypeOK, PeopleStages, PeopleAsk
<1>1. ASSUME NEW r \in Requests, NEW kind \in P!Kinds, NEW u \in Readers, NEW v \in Readers,
             P!Begin(r, kind, u, v)
      PROVE AskedInv'
  BY <1>0, <1>1 DEF P!Begin, P!Goto, AskedInv, P!By, P!Of
<1>2. ASSUME NEW r \in Requests, P!OpenThread(r) PROVE AskedInv'
  <2>1. \A q \in Requests : /\ asked'[q].by = asked[q].by /\ asked'[q].of = asked[q].of
                            /\ turn'[q] = "idle" <=> turn[q] = "idle"
    BY <1>0, <1>2 DEF P!OpenThread, P!Goto, PeopleAsk
  <2> QED BY <2>1 DEF AskedInv, P!By, P!Of
<1>3. ASSUME NEW r \in Requests,
             \/ P!CheckBlock(r) \/ P!Follow(r) \/ P!Unfollow(r) \/ P!Block(r) \/ P!Part(r)
             \/ P!Unblock(r)
             \/ P!Count(r) \/ P!SendMessage(r) \/ P!InsertComment(r) \/ P!DeleteComment(r)
             \/ P!MarkRead(r)
      PROVE AskedInv'
  <2>1. asked' = asked /\ turn[r] # "idle" /\ \A q \in Requests \ {r} : turn'[q] = turn[q]
    BY <1>0, <1>3 DEF P!CheckBlock, P!Follow, P!Unfollow, P!Block, P!Part, P!Unblock, P!Count,
                      P!SendMessage, P!InsertComment, P!DeleteComment, P!MarkRead, P!Goto
  <2> QED BY <2>1 DEF AskedInv, P!By, P!Of
<1>4. CASE P!Tick \/ UNCHANGED P!vars
  BY <1>4 DEF P!Tick, P!vars, AskedInv, P!By, P!Of
<1> QED
  BY <1>1, <1>2, <1>3, <1>4 DEF P!Next

LEMMA PeopleChecks == ASSUME P!TypeOK, CheckInv, [P!Next]_(P!vars) PROVE CheckInv'
<1>0. turn \in [Requests -> PeopleStages] /\ asked \in [Requests -> PeopleAsk]
  BY DEF P!TypeOK, PeopleStages, PeopleAsk
<1>1. ASSUME NEW r \in Requests, AloneTurn(r), turn'[r] # "check" PROVE CheckInv'
  BY <1>1 DEF AloneTurn, CheckInv
<1>2. ASSUME NEW r \in Requests, AloneTurn(r), NEW kind \in P!Kinds, NEW u \in Readers,
             NEW v \in Readers,
             P!Begin(r, kind, u, v)
      PROVE CheckInv'
  <2>1. P!FirstOf(kind) = "check" => kind \in {"follow", "unfollow", "send", "open"}
    BY DEF P!FirstOf, P!Kinds
  <2>2. turn'[r] = P!FirstOf(kind) /\ asked'[r].kind = kind
    BY <1>0, <1>2 DEF P!Begin, P!Goto
  <2> QED BY <1>2, <2>1, <2>2 DEF AloneTurn, CheckInv
<1>3. ASSUME NEW r \in Requests, AloneTurn(r), P!CheckBlock(r) PROVE CheckInv'
  <2>1. asked[r].kind \in {"follow", "unfollow", "send", "open"}
    BY <1>3 DEF P!CheckBlock, CheckInv
  <2>2. turn'[r] # "check"
    BY <1>0, <1>3, <2>1 DEF P!CheckBlock, P!Goto
  <2> QED BY <1>1, <1>3, <2>2
<1>4. ASSUME NEW r \in Requests, AloneTurn(r),
             \/ P!Follow(r) \/ P!Unfollow(r) \/ P!Block(r) \/ P!Part(r) \/ P!Unblock(r)
             \/ P!Count(r)
             \/ P!SendMessage(r) \/ P!InsertComment(r) \/ P!DeleteComment(r) \/ P!OpenThread(r)
             \/ P!MarkRead(r)
      PROVE CheckInv'
  <2>1. turn'[r] # "check"
    BY <1>0, <1>4 DEF P!Follow, P!Unfollow, P!Block, P!Part, P!Unblock, P!Count, P!SendMessage,
                      P!InsertComment, P!DeleteComment, P!OpenThread, P!MarkRead, P!Goto
  <2> QED BY <1>1, <1>4, <2>1
<1>5. CASE P!Tick
           \/ UNCHANGED <<hour, follows, blocks, messages, comments, turn, asked, parted, doubling>>
  BY <1>5 DEF P!Tick, CheckInv
<1> QED
  BY <1>2, <1>3, <1>4, <1>5, PeopleSteps

LEMMA PeopleTyped == ASSUME P!ConstantsType, P!TypeOK, AskedInv, [P!Next]_(P!vars) PROVE P!TypeOK'
<1>0. /\ hour \in 1 .. MaxTime /\ messages \in Seq(Texts) /\ comments \in Seq(Remarks)
      /\ turn \in [Requests -> PeopleStages] /\ asked \in [Requests -> PeopleAsk]
  BY DEF P!TypeOK, Texts, Remarks, PeopleStages, PeopleAsk
<1>1. /\ Len(messages) \in Nat /\ messages \in [1 .. Len(messages) -> Texts]
      /\ Len(comments) \in Nat /\ comments \in [1 .. Len(comments) -> Remarks]
  BY <1>0, LenProperties
<1>2. ASSUME hour' = hour, messages' \in Seq(Texts), comments' \in Seq(Remarks),
             follows' \subseteq Readers \X Readers, blocks' \subseteq Readers \X Readers,
             turn' \in [Requests -> PeopleStages], asked' \in [Requests -> PeopleAsk],
             parted' \subseteq SUBSET Readers, doubling' \subseteq Readers
      PROVE P!TypeOK'
  BY <1>0, <1>2 DEF P!TypeOK, Texts, Remarks, PeopleStages, PeopleAsk
<1>3. /\ follows \subseteq Readers \X Readers /\ blocks \subseteq Readers \X Readers
      /\ parted \subseteq SUBSET Readers /\ doubling \subseteq Readers
  BY DEF P!TypeOK
<1>4. CASE P!Tick \/ UNCHANGED P!vars
  BY <1>4 DEF P!Tick, P!vars, P!rows, P!ghosts, P!TypeOK, P!ConstantsType
<1>5. ASSUME NEW r \in Requests, NEW kind \in P!Kinds, NEW u \in Readers, NEW v \in Readers,
             P!Begin(r, kind, u, v)
      PROVE P!TypeOK'
  <2>1. P!FirstOf(kind) \in PeopleStages
    BY DEF P!FirstOf, P!Kinds, PeopleStages
  <2>2. turn' \in [Requests -> PeopleStages]
    BY <1>0, <1>5, <2>1 DEF P!Begin, P!Goto
  <2>3. [kind |-> kind, by |-> u, of |-> v, seen |-> 0, page |-> {}] \in PeopleAsk
    BY DEF PeopleAsk
  <2>4. asked' \in [Requests -> PeopleAsk]
    BY <1>0, <1>5, <2>3 DEF P!Begin
  <2>5. doubling' \subseteq Readers
    BY <1>3, <1>5 DEF P!Begin
  <2> QED BY <1>0, <1>2, <1>3, <1>5, <2>2, <2>4, <2>5 DEF P!Begin, P!rows
<1>6. ASSUME NEW r \in Requests, P!CheckBlock(r) \/ P!Count(r) PROVE P!TypeOK'
  <2>1. asked[r].kind \in P!Kinds
    BY <1>0 DEF PeopleAsk
  <2>2. turn' \in [Requests -> PeopleStages]
    BY <1>0, <1>6, <2>1 DEF P!CheckBlock, P!Count, P!Goto, PeopleStages, P!Kinds
  <2> QED BY <1>0, <1>2, <1>3, <1>6, <2>2 DEF P!CheckBlock, P!Count, P!rows, P!ghosts
<1>7. ASSUME NEW r \in Requests,
             P!Follow(r) \/ P!Unfollow(r) \/ P!Block(r) \/ P!Part(r) \/ P!Unblock(r)
      PROVE P!TypeOK'
  <2>1. P!By(r) \in Readers /\ P!Of(r) \in Readers
    BY <1>7 DEF P!Follow, P!Unfollow, P!Block, P!Part, P!Unblock, AskedInv
  <2>2. turn' \in [Requests -> PeopleStages]
    BY <1>0, <1>7 DEF P!Follow, P!Unfollow, P!Block, P!Part, P!Unblock, P!Goto, PeopleStages
  <2>3. /\ follows' \subseteq Readers \X Readers /\ blocks' \subseteq Readers \X Readers
        /\ parted' \subseteq SUBSET Readers
    BY <1>3, <1>7, <2>1 DEF P!Follow, P!Unfollow, P!Block, P!Part, P!Unblock, P!ghosts
  <2> QED BY <1>0, <1>2, <1>3, <1>7, <2>2, <2>3 DEF P!Follow, P!Unfollow, P!Block, P!Part,
             P!Unblock, P!ghosts
<1>8. ASSUME NEW r \in Requests, P!SendMessage(r) PROVE P!TypeOK'
  <2>1. P!By(r) \in Readers /\ P!Of(r) \in Readers
    BY <1>8 DEF P!SendMessage, AskedInv
  <2>2. [by |-> P!By(r), to |-> P!Of(r), at |-> hour, read |-> FALSE] \in Texts
    BY <1>0, <2>1 DEF Texts
  <2>3. messages' \in Seq(Texts)
    BY <1>0, <1>8, <2>2 DEF P!SendMessage
  <2>4. turn' \in [Requests -> PeopleStages]
    BY <1>0, <1>8 DEF P!SendMessage, P!Goto, PeopleStages
  <2> QED BY <1>0, <1>2, <1>3, <1>8, <2>3, <2>4 DEF P!SendMessage, P!ghosts
<1>9. ASSUME NEW r \in Requests, P!InsertComment(r) PROVE P!TypeOK'
  <2>1. P!By(r) \in Readers
    BY <1>9 DEF P!InsertComment, AskedInv
  <2>2. [by |-> P!By(r), at |-> hour, deleted |-> FALSE] \in Remarks
    BY <1>0, <2>1 DEF Remarks
  <2>3. comments' \in Seq(Remarks)
    BY <1>0, <1>9, <2>2 DEF P!InsertComment
  <2>4. turn' \in [Requests -> PeopleStages]
    BY <1>0, <1>9 DEF P!InsertComment, P!Goto, PeopleStages
  <2> QED BY <1>0, <1>2, <1>3, <1>9, <2>3, <2>4 DEF P!InsertComment, P!ghosts
<1>10. ASSUME NEW r \in Requests, P!DeleteComment(r) PROVE P!TypeOK'
  <2>1. PICK i \in DOMAIN comments :
          comments' =
            [comments EXCEPT ![i].deleted = comments[i].deleted \/ comments[i].by = P!By(r)]
    BY <1>10 DEF P!DeleteComment
  <2>2. i \in 1 .. Len(comments) /\ comments[i] \in Remarks
    BY <1>0, <2>1, LenProperties
  <2> DEFINE gone ==
        [comments[i] EXCEPT !.deleted = comments[i].deleted \/ comments[i].by = P!By(r)]
  <2>3. gone \in Remarks
    <3>1. (comments[i].deleted \/ comments[i].by = P!By(r)) \in BOOLEAN
      OBVIOUS
    <3> QED BY <2>2, <3>1 DEF Remarks
  <2>4. comments' = [comments EXCEPT ![i] = gone]
    BY <2>1
  <2>5. comments' \in Seq(Remarks)
    BY <1>0, <2>2, <2>3, <2>4, ExceptSeq
  <2>6. turn' \in [Requests -> PeopleStages]
    BY <1>0, <1>10 DEF P!DeleteComment, P!Goto, PeopleStages
  <2> QED BY <1>0, <1>2, <1>3, <1>10, <2>5, <2>6 DEF P!DeleteComment, P!ghosts
<1>11. ASSUME NEW r \in Requests, P!OpenThread(r) PROVE P!TypeOK'
  <2>1. {i \in DOMAIN messages : P!Pair(i) = {P!By(r), P!Of(r)} /\ P!Recent(i)} \in SUBSET Nat
    BY <1>1
  <2>2. asked' \in [Requests -> PeopleAsk]
    <3> DEFINE p == {i \in DOMAIN messages : P!Pair(i) = {P!By(r), P!Of(r)} /\ P!Recent(i)}
    <3>1. asked' = [asked EXCEPT ![r] = [asked[r] EXCEPT !.seen = Len(messages), !.page = p]]
      BY <1>11 DEF P!OpenThread
    <3>2. [asked[r] EXCEPT !.seen = Len(messages), !.page = p] \in PeopleAsk
      <4> HIDE DEF p
      <4> QED BY <1>0, <1>1, <2>1 DEF PeopleAsk, p
    <3> QED BY <1>0, <3>1, <3>2
  <2>3. turn' \in [Requests -> PeopleStages]
    BY <1>0, <1>11 DEF P!OpenThread, P!Goto, PeopleStages
  <2> QED BY <1>0, <1>2, <1>3, <1>11, <2>2, <2>3 DEF P!OpenThread, P!rows, P!ghosts
<1>12. ASSUME NEW r \in Requests, P!MarkRead(r) PROVE P!TypeOK'
  <2> DEFINE marked(i) == [messages[i] EXCEPT !.read = messages[i].read \/ P!FromOther(r, i)]
  <2>1. messages' = [i \in 1 .. Len(messages) |-> marked(i)]
    BY <1>1, <1>12 DEF P!MarkRead
  <2>2. ASSUME NEW i \in 1 .. Len(messages) PROVE marked(i) \in Texts
    <3>1. messages[i] \in Texts /\ (messages[i].read \/ P!FromOther(r, i)) \in BOOLEAN
      BY <1>1
    <3> QED BY <3>1 DEF Texts
  <2>3. messages' \in Seq(Texts)
    <3>1. messages' \in [1 .. Len(messages) -> Texts]
      BY <2>1, <2>2
    <3> QED BY <1>1, <3>1, SeqDef
  <2>4. turn' \in [Requests -> PeopleStages]
    BY <1>0, <1>12 DEF P!MarkRead, P!Goto, PeopleStages
  <2> QED BY <1>0, <1>2, <1>3, <1>12, <2>3, <2>4 DEF P!MarkRead, P!ghosts
<1> QED
  BY <1>4, <1>5, <1>6, <1>7, <1>8, <1>9, <1>10, <1>11, <1>12 DEF P!Next

LEMMA BlocksKept ==
  ASSUME P!TypeOK, P!BlockedDoNotFollow, [P!Next]_(P!vars)
  PROVE  P!BlockedDoNotFollow'
<1> DEFINE Ended(u, v) == P!BlockExists(u, v) /\ <<u, v>> \in follows =>
             P!Parting(u, v) \/ {u, v} \in parted
<1>0. turn \in [Requests -> PeopleStages] /\ asked \in [Requests -> PeopleAsk]
  BY DEF P!TypeOK, PeopleStages, PeopleAsk
<1>1. \A u, v \in Readers : Ended(u, v)
  BY DEF P!BlockedDoNotFollow
<1>2. ASSUME \A u, v \in Readers : Ended(u, v)' PROVE P!BlockedDoNotFollow'
  BY <1>2 DEF P!BlockedDoNotFollow
<1>3. ASSUME follows' \subseteq follows, blocks' \subseteq blocks, parted \subseteq parted',
             \A q \in Requests :
               turn[q] = "part" => turn'[q] = "part" /\ P!By(q)' = P!By(q) /\ P!Of(q)' = P!Of(q)
      PROVE P!BlockedDoNotFollow'
  <2>1. \A u, v \in Readers : P!Parting(u, v) => P!Parting(u, v)'
    BY <1>3 DEF P!Parting
  <2> QED BY <1>1, <1>2, <1>3, <2>1 DEF P!BlockExists
<1>4. ASSUME NEW r \in Requests, AloneTurn(r), turn[r] # "part"
      PROVE \A q \in Requests :
              turn[q] = "part" => turn'[q] = "part" /\ P!By(q)' = P!By(q) /\ P!Of(q)' = P!Of(q)
  BY <1>4 DEF AloneTurn, P!By, P!Of
<1>5. ASSUME NEW r \in Requests, AloneTurn(r),
             \/ \E kind \in P!Kinds, u, v \in Readers : P!Begin(r, kind, u, v)
             \/ P!CheckBlock(r) \/ P!Unfollow(r) \/ P!Unblock(r) \/ P!Count(r) \/ P!SendMessage(r)
             \/ P!InsertComment(r) \/ P!DeleteComment(r) \/ P!OpenThread(r) \/ P!MarkRead(r)
      PROVE P!BlockedDoNotFollow'
  <2>1. /\ turn[r] # "part" /\ follows' \subseteq follows /\ blocks' \subseteq blocks
        /\ parted' = parted
    BY <1>5 DEF P!Begin, P!CheckBlock, P!Unfollow, P!Unblock, P!Count, P!SendMessage,
                P!InsertComment, P!DeleteComment, P!OpenThread, P!MarkRead, P!rows, P!ghosts
  <2> QED BY <1>3, <1>4, <1>5, <2>1
<1>6. ASSUME NEW r \in Requests, AloneTurn(r), P!Follow(r) PROVE P!BlockedDoNotFollow'
  <2>1. /\ turn[r] # "part" /\ blocks' = blocks /\ follows' = follows \cup {<<P!By(r), P!Of(r)>>}
        /\ P!BlockExists(P!By(r), P!Of(r)) => {P!By(r), P!Of(r)} \in parted'
        /\ parted \subseteq parted'
    BY <1>6 DEF P!Follow
  <2>2. \A u, v \in Readers : P!Parting(u, v) => P!Parting(u, v)'
    BY <1>4, <1>6, <2>1 DEF P!Parting
  <2>3. \A u, v \in Readers : Ended(u, v)'
    BY <1>1, <2>1, <2>2 DEF P!BlockExists
  <2> QED BY <1>2, <2>3
<1>7. ASSUME NEW r \in Requests, AloneTurn(r), P!Block(r) PROVE P!BlockedDoNotFollow'
  <2>1. /\ turn[r] # "part" /\ UNCHANGED <<follows, parted>>
        /\ blocks' = blocks \cup {<<P!By(r), P!Of(r)>>}
        /\ turn'[r] = "part" /\ P!By(r)' = P!By(r) /\ P!Of(r)' = P!Of(r)
    BY <1>0, <1>7 DEF P!Block, P!Goto, P!By, P!Of, P!ghosts
  <2>2. \A u, v \in Readers : P!Parting(u, v) => P!Parting(u, v)'
    BY <1>4, <1>7, <2>1 DEF P!Parting
  <2>3. \A u, v \in Readers : {u, v} = {P!By(r), P!Of(r)} => P!Parting(u, v)'
    BY <2>1 DEF P!Parting
  <2>4. \A u, v \in Readers : Ended(u, v)'
    BY <1>1, <2>1, <2>2, <2>3 DEF P!BlockExists
  <2> QED BY <1>2, <2>4
<1>8. ASSUME NEW r \in Requests, AloneTurn(r), P!Part(r) PROVE P!BlockedDoNotFollow'
  <2>1. /\ UNCHANGED <<blocks, parted>>
        /\ follows' = follows \ {<<P!By(r), P!Of(r)>>, <<P!Of(r), P!By(r)>>}
    BY <1>8 DEF P!Part, P!ghosts
  <2>2. ASSUME NEW u \in Readers, NEW v \in Readers, {u, v} # {P!By(r), P!Of(r)}, P!Parting(u, v)
        PROVE P!Parting(u, v)'
    <3>1. PICK q \in Requests : turn[q] = "part" /\ {P!By(q), P!Of(q)} = {u, v}
      BY <2>2 DEF P!Parting
    <3>2. q # r
      BY <2>2, <3>1
    <3>3. turn'[q] = "part" /\ P!By(q)' = P!By(q) /\ P!Of(q)' = P!Of(q)
      BY <1>8, <3>1, <3>2 DEF AloneTurn, P!By, P!Of
    <3> QED BY <3>1, <3>3 DEF P!Parting
  <2>3. ASSUME NEW u \in Readers, NEW v \in Readers, {u, v} = {P!By(r), P!Of(r)}
        PROVE <<u, v>> \notin follows'
    <3>1. (u = P!By(r) /\ v = P!Of(r)) \/ (u = P!Of(r) /\ v = P!By(r))
      BY <2>3
    <3> QED BY <2>1, <3>1
  <2>4. \A u, v \in Readers : Ended(u, v)'
    BY <1>1, <2>1, <2>2, <2>3 DEF P!BlockExists
  <2> QED BY <1>2, <2>4
<1>9. CASE P!Tick
           \/ UNCHANGED <<hour, follows, blocks, messages, comments, turn, asked, parted, doubling>>
  BY <1>3, <1>9 DEF P!Tick, P!rows, P!ghosts, P!By, P!Of
<1> QED
  BY <1>5, <1>6, <1>7, <1>8, <1>9, PeopleSteps

\* A log of a reader's in the last unit is finite, no larger in a log that says no more, and
\* one larger at most when a row is added.
LEMMA LatelyCounts ==
  ASSUME NEW T, NEW log \in Seq(T), NEW u
  PROVE  IsFiniteSet(P!Lately(log, u)) /\ Cardinality(P!Lately(log, u)) \in Nat
<1>1. IsFiniteSet(1 .. Len(log)) /\ P!Lately(log, u) \subseteq 1 .. Len(log)
  <2>1. Len(log) \in Nat /\ DOMAIN log = 1 .. Len(log)
    BY LenProperties
  <2> QED BY <2>1, FS_Interval DEF P!Lately
<1> QED
  BY <1>1, FS_Subset, FS_CardinalityType

LEMMA RatesAreKept ==
  ASSUME P!ConstantsType, P!TypeOK, CheckInv, RateInv, [P!Next]_(P!vars)
  PROVE  RateInv'
<1> DEFINE Past == /\ \A i \in DOMAIN messages : messages[i].at <= hour
                   /\ \A i \in DOMAIN comments : comments[i].at <= hour
           Single(u) == \A q, r \in Requests :
                          P!Busy(q) /\ P!Busy(r) /\ P!By(q) = u /\ P!By(r) = u => q = r
           Sent(u) == Cardinality(P!Lately(messages, u))
           Said(u) == Cardinality(P!Lately(comments, u))
<1>0. /\ hour \in Nat /\ messages \in Seq(Texts) /\ comments \in Seq(Remarks)
      /\ turn \in [Requests -> PeopleStages] /\ asked \in [Requests -> PeopleAsk]
      /\ MessageRate \in Nat /\ CommentRate \in Nat /\ MaxTime \in Nat
  BY DEF P!TypeOK, Texts, Remarks, PeopleStages, PeopleAsk, P!ConstantsType
<1>1. Past /\ \A u \in Readers \ doubling : Single(u) /\ MayWrite(u)
  BY DEF RateInv
<1>2. ASSUME Past', \A u \in Readers \ doubling' : Single(u)' /\ MayWrite(u)' PROVE RateInv'
  BY <1>2 DEF RateInv
<1>3. \A u : Sent(u) \in Nat /\ Said(u) \in Nat /\ IsFiniteSet(P!Lately(messages, u))
             /\ IsFiniteSet(P!Lately(comments, u))
  BY <1>0, LatelyCounts
<1>4. \A i \in DOMAIN messages : messages[i].at \in Nat
  <2>1. \A i \in DOMAIN messages : messages[i] \in Texts
    BY <1>0
  <2> QED BY <1>0, <2>1 DEF Texts
<1>5. \A i \in DOMAIN comments : comments[i].at \in Nat
  <2>1. \A i \in DOMAIN comments : comments[i] \in Remarks
    BY <1>0
  <2> QED BY <1>0, <2>1 DEF Remarks
<1>6. CASE P!Tick
  <2>1. hour' = hour + 1 /\ UNCHANGED <<messages, comments, turn, asked, doubling>>
    BY <1>6 DEF P!Tick, P!rows, P!ghosts
  <2>2. Past'
    BY <1>0, <1>1, <1>4, <1>5, <2>1
  <2>3. \A u \in Readers \ doubling : Single(u)'
    BY <1>1, <2>1 DEF P!Busy, P!By
  <2>4. ASSUME NEW u \in Readers \ doubling PROVE MayWrite(u)'
    <3>1. P!Lately(messages, u)' = {} /\ P!Lately(comments, u)' = {}
      <4>1. \A i \in DOMAIN messages : messages[i].at # hour + 1
        BY <1>0, <1>1, <1>4
      <4>2. \A i \in DOMAIN comments : comments[i].at # hour + 1
        BY <1>0, <1>1, <1>5
      <4> QED BY <2>1, <4>1, <4>2 DEF P!Lately
    <3>2. Sent(u)' = 0 /\ Said(u)' = 0
      BY <3>1, FS_EmptySet
    <3>3. \A r \in Requests : P!By(r) = u => /\ turn[r] = "send" => 0 < MessageRate
                                             /\ turn[r] = "comment" => 0 < CommentRate
      BY <1>0, <1>1, <1>3 DEF MayWrite
    <3> QED BY <1>0, <2>1, <3>2, <3>3 DEF MayWrite, P!By
  <2> QED BY <1>2, <2>1, <2>2, <2>3, <2>4
<1>7. ASSUME hour' = hour, UNCHANGED <<messages, comments>>
      PROVE Past' /\ \A u : Sent(u)' = Sent(u) /\ Said(u)' = Said(u)
  BY <1>1, <1>7 DEF P!Lately
<1>8. ASSUME doubling' = doubling,
             \A q \in Requests : P!By(q)' = P!By(q) /\ (P!Busy(q)' => P!Busy(q))
      PROVE \A u \in Readers \ doubling' : Single(u)'
  BY <1>1, <1>8
<1>9. ASSUME NEW r \in Requests, AloneTurn(r), NEW kind \in P!Kinds, NEW v \in Readers,
             NEW w \in Readers,
             P!Begin(r, kind, v, w)
      PROVE RateInv'
  <2>1. P!FirstOf(kind) \notin {"send", "comment"}
    BY DEF P!FirstOf, P!Kinds
  <2>2. /\ turn'[r] \notin {"send", "comment"} /\ P!By(r)' = v
        /\ hour' = hour /\ UNCHANGED <<messages, comments>> /\ doubling \subseteq doubling'
        /\ v \notin doubling' => \A q \in Requests : ~(P!Busy(q) /\ P!By(q) = v)
    BY <1>0, <1>9, <2>1 DEF P!Begin, P!Goto, P!By, P!rows
  <2>3. \A q \in Requests \ {r} :
          turn'[q] = turn[q] /\ P!By(q)' = P!By(q) /\ (P!Busy(q)' <=> P!Busy(q))
    BY <1>9 DEF AloneTurn, P!By, P!Busy
  <2>4. Past' /\ \A u : Sent(u)' = Sent(u) /\ Said(u)' = Said(u)
    BY <1>7, <2>2
  <2>5. ASSUME NEW u \in Readers \ doubling' PROVE Single(u)' /\ MayWrite(u)'
    <3>1. Single(u) /\ MayWrite(u)
      BY <1>1, <2>2, <2>5
    <3>2. Single(u)'
      BY <2>2, <2>3, <2>5, <3>1
    <3>3. MayWrite(u)'
      BY <2>2, <2>3, <2>4, <3>1 DEF MayWrite
    <3> QED BY <3>2, <3>3
  <2> QED BY <1>2, <2>4, <2>5
<1>10. ASSUME NEW r \in Requests, AloneTurn(r),
              \/ P!CheckBlock(r) \/ P!Follow(r) \/ P!Unfollow(r) \/ P!Block(r) \/ P!Part(r)
              \/ P!Unblock(r)
              \/ P!OpenThread(r) \/ P!MarkRead(r) \/ P!DeleteComment(r) \/ P!Count(r)
       PROVE RateInv'
  <2>1. /\ hour' = hour /\ doubling' = doubling /\ P!Busy(r) /\ P!By(r)' = P!By(r)
        /\ turn'[r] \in {"send", "comment"} => P!Count(r)
    <3>1. CASE P!CheckBlock(r)
      <4>1. asked[r].kind \in {"follow", "unfollow", "send", "open"}
        BY <3>1 DEF P!CheckBlock, CheckInv
      <4> QED BY <1>0, <3>1, <4>1 DEF P!CheckBlock, P!Goto, P!By, P!Busy, P!ghosts
    <3>2. CASE P!OpenThread(r)
      <4>1. asked'[r].by = asked[r].by
        BY <1>0, <3>2 DEF P!OpenThread, PeopleAsk
      <4> QED BY <1>0, <3>2, <4>1 DEF P!OpenThread, P!Goto, P!By, P!Busy, P!ghosts
    <3>3. CASE P!Follow(r) \/ P!Unfollow(r) \/ P!Block(r) \/ P!Part(r) \/ P!Unblock(r)
               \/ P!MarkRead(r) \/ P!DeleteComment(r)
      BY <1>0, <3>3 DEF P!Follow, P!Unfollow, P!Block, P!Part, P!Unblock, P!MarkRead,
                        P!DeleteComment, P!Goto, P!By, P!Busy, P!ghosts
    <3>4. CASE P!Count(r)
      BY <3>4 DEF P!Count, P!By, P!Busy, P!ghosts
    <3> QED BY <1>10, <3>1, <3>2, <3>3, <3>4
  <2>2. /\ DOMAIN messages' = DOMAIN messages
        /\ \A i \in DOMAIN messages :
             messages'[i].by = messages[i].by /\ messages'[i].at = messages[i].at
    <3>1. CASE P!MarkRead(r)
      <4>1. \A i \in DOMAIN messages : messages[i] \in Texts
        BY <1>0
      <4> QED BY <3>1, <4>1 DEF P!MarkRead, Texts
    <3>2. CASE ~P!MarkRead(r)
      BY <1>10, <3>2 DEF P!CheckBlock, P!Follow, P!Unfollow, P!Block, P!Part, P!Unblock,
                         P!OpenThread, P!DeleteComment, P!Count, P!rows
    <3> QED BY <3>1, <3>2
  <2>3. /\ DOMAIN comments' = DOMAIN comments
        /\ \A i \in DOMAIN comments :
             comments'[i].by = comments[i].by /\ comments'[i].at = comments[i].at
    <3>1. CASE P!DeleteComment(r)
      <4>1. \A i \in DOMAIN comments : comments[i] \in Remarks
        BY <1>0
      <4>2. PICK i \in DOMAIN comments :
              comments' =
                [comments EXCEPT ![i].deleted = comments[i].deleted \/ comments[i].by = P!By(r)]
        BY <3>1 DEF P!DeleteComment
      <4> QED BY <1>0, <4>1, <4>2 DEF Remarks
    <3>2. CASE ~P!DeleteComment(r)
      BY <1>10, <3>2 DEF P!CheckBlock, P!Follow, P!Unfollow, P!Block, P!Part, P!Unblock,
                         P!OpenThread, P!MarkRead, P!Count, P!rows
    <3> QED BY <3>1, <3>2
  <2>4. Past'
    BY <1>1, <2>1, <2>2, <2>3
  <2>5. \A u :
          P!Lately(messages, u)' = P!Lately(messages, u)
          /\ P!Lately(comments, u)' = P!Lately(comments, u)
    BY <2>1, <2>2, <2>3 DEF P!Lately
  <2>6. \A q \in Requests :
          P!By(q)' = P!By(q) /\ (P!Busy(q)' => P!Busy(q)) /\ (q # r => turn'[q] = turn[q])
    BY <1>10, <2>1 DEF AloneTurn, P!By, P!Busy
  <2>7. /\ turn'[r] = "send" => Sent(P!By(r)) < MessageRate
        /\ turn'[r] = "comment" => Said(P!By(r)) < CommentRate
    <3>1. CASE P!Count(r)
      <4>1. /\ turn'[r] = "send" => ~(Sent(P!By(r)) >= MessageRate)
            /\ turn'[r] = "comment" => ~(Said(P!By(r)) >= CommentRate)
        BY <1>0, <3>1, SameCount DEF P!Count, P!Goto
      <4> QED BY <1>0, <1>3, <4>1
    <3> QED BY <2>1, <3>1
  <2>8. \A u \in Readers \ doubling' : MayWrite(u)'
    BY <1>1, <2>1, <2>5, <2>6, <2>7 DEF MayWrite
  <2>9. \A u \in Readers \ doubling' : Single(u)'
    BY <1>8, <2>1, <2>6
  <2> QED BY <1>2, <2>4, <2>8, <2>9
<1>11. ASSUME NEW r \in Requests, AloneTurn(r), P!SendMessage(r) \/ P!InsertComment(r)
       PROVE RateInv'
  <2>1. /\ hour' = hour /\ doubling' = doubling /\ P!Busy(r) /\ P!By(r)' = P!By(r)
        /\ turn[r] \in {"send", "comment"} /\ turn'[r] = "done"
    BY <1>0, <1>11 DEF P!SendMessage, P!InsertComment, P!Goto, P!By, P!Busy, P!ghosts
  <2>2. /\ DOMAIN messages \subseteq DOMAIN messages'
        /\ \A i \in DOMAIN messages :
             messages'[i].by = messages[i].by /\ messages'[i].at = messages[i].at
        /\ \A i \in DOMAIN messages' \ DOMAIN messages :
             /\ turn[r] = "send" /\ i = Len(messages) + 1
             /\ messages'[i].by = P!By(r) /\ messages'[i].at = hour
    <3>1. CASE P!SendMessage(r)
      <4> DEFINE m == [by |-> P!By(r), to |-> P!Of(r), at |-> hour, read |-> FALSE]
      <4>1. messages' = Append(messages, m) /\ turn[r] = "send"
        BY <3>1 DEF P!SendMessage
      <4> HIDE DEF m
      <4>2. /\ DOMAIN messages' = DOMAIN messages \cup {Len(messages) + 1}
            /\ \A i \in DOMAIN messages : messages'[i] = messages[i]
            /\ messages'[Len(messages) + 1] = m
        BY <1>0, <4>1
      <4> QED BY <4>1, <4>2 DEF m
    <3>2. CASE P!InsertComment(r)
      BY <3>2 DEF P!InsertComment
    <3> QED BY <1>11, <3>1, <3>2
  <2>3. /\ DOMAIN comments \subseteq DOMAIN comments'
        /\ \A i \in DOMAIN comments :
             comments'[i].by = comments[i].by /\ comments'[i].at = comments[i].at
        /\ \A i \in DOMAIN comments' \ DOMAIN comments :
             /\ turn[r] = "comment" /\ i = Len(comments) + 1
             /\ comments'[i].by = P!By(r) /\ comments'[i].at = hour
    <3>1. CASE P!InsertComment(r)
      <4> DEFINE m == [by |-> P!By(r), at |-> hour, deleted |-> FALSE]
      <4>1. comments' = Append(comments, m) /\ turn[r] = "comment"
        BY <3>1 DEF P!InsertComment
      <4> HIDE DEF m
      <4>2. /\ DOMAIN comments' = DOMAIN comments \cup {Len(comments) + 1}
            /\ \A i \in DOMAIN comments : comments'[i] = comments[i]
            /\ comments'[Len(comments) + 1] = m
        BY <1>0, <4>1
      <4> QED BY <4>1, <4>2 DEF m
    <3>2. CASE P!SendMessage(r)
      BY <3>2 DEF P!SendMessage
    <3> QED BY <1>11, <3>1, <3>2
  <2>4. Past'
    BY <1>0, <1>1, <2>1, <2>2, <2>3
  <2>5. \A q \in Requests :
          P!By(q)' = P!By(q) /\ (P!Busy(q)' => P!Busy(q) /\ q # r) /\ (q # r => turn'[q] = turn[q])
    BY <1>11, <2>1 DEF AloneTurn, P!By, P!Busy
  <2>6. \A u \in Readers \ doubling' : Single(u)'
    BY <1>8, <2>1, <2>5
  <2>7. ASSUME NEW u \in Readers \ doubling' PROVE MayWrite(u)'
    <3>1. Single(u) /\ MayWrite(u)
      BY <1>1, <2>1, <2>7
    <3>2. CASE u # P!By(r)
      <4>1. P!Lately(messages, u)' = P!Lately(messages, u)
            /\ P!Lately(comments, u)' = P!Lately(comments, u)
        BY <2>1, <2>2, <2>3, <3>2 DEF P!Lately
      <4> QED BY <2>1, <2>5, <3>1, <3>2, <4>1 DEF MayWrite
    <3>3. CASE u = P!By(r)
      <4>1. \A q \in Requests : P!By(q)' = u => turn'[q] \notin {"send", "comment"}
        BY <2>1, <2>5, <3>1, <3>3 DEF P!Busy
      <4>2. Sent(u)' <= MessageRate
        <5>1. CASE turn[r] = "send"
          <6>1. P!Lately(messages, u)' \subseteq P!Lately(messages, u) \cup {Len(messages) + 1}
            BY <2>1, <2>2 DEF P!Lately
          <6>2. Sent(u)' \in Nat /\ Sent(u)' <= Sent(u) + 1
            BY <1>3, <6>1, CountsOneMore
          <6>3. Sent(u) < MessageRate
            BY <3>1, <3>3, <5>1 DEF MayWrite
          <6> QED BY <1>0, <1>3, <6>2, <6>3
        <5>2. CASE turn[r] # "send"
          <6>1. P!Lately(messages, u)' = P!Lately(messages, u)
            BY <2>1, <2>2, <5>2 DEF P!Lately
          <6> QED BY <3>1, <6>1 DEF MayWrite
        <5> QED BY <5>1, <5>2
      <4>3. Said(u)' <= CommentRate
        <5>1. CASE turn[r] = "comment"
          <6>1. P!Lately(comments, u)' \subseteq P!Lately(comments, u) \cup {Len(comments) + 1}
            BY <2>1, <2>3 DEF P!Lately
          <6>2. Said(u)' \in Nat /\ Said(u)' <= Said(u) + 1
            BY <1>3, <6>1, CountsOneMore
          <6>3. Said(u) < CommentRate
            BY <3>1, <3>3, <5>1 DEF MayWrite
          <6> QED BY <1>0, <1>3, <6>2, <6>3
        <5>2. CASE turn[r] # "comment"
          <6>1. P!Lately(comments, u)' = P!Lately(comments, u)
            BY <2>1, <2>3, <5>2 DEF P!Lately
          <6> QED BY <3>1, <6>1 DEF MayWrite
        <5> QED BY <5>1, <5>2
      <4> QED BY <4>1, <4>2, <4>3 DEF MayWrite
    <3> QED BY <3>2, <3>3
  <2> QED BY <1>2, <2>4, <2>6, <2>7
<1>12. CASE UNCHANGED <<hour, follows, blocks, messages, comments, turn, asked, parted, doubling>>
  BY <1>1, <1>2, <1>12 DEF MayWrite, P!Lately, P!Busy, P!By
<1> QED
  BY <1>6, <1>9, <1>10, <1>11, <1>12, PeopleSteps

LEMMA TextTypes ==
  ASSUME P!TypeOK
  PROVE  /\ hour \in Nat /\ messages \in Seq(Texts)
         /\ Len(messages) \in Nat /\ DOMAIN messages = 1 .. Len(messages)
         /\ \A i \in DOMAIN messages : messages[i] \in Texts
<1>1. hour \in Nat /\ messages \in Seq(Texts)
  BY DEF P!TypeOK, Texts
<1> QED
  BY <1>1, LenProperties, ElementOfSeq

LEMMA LogGrows ==
  ASSUME P!TypeOK, [P!Next]_(P!vars)
  PROVE  Grows
<1>0. hour \in Nat /\ messages \in Seq(Texts) /\ \A i \in DOMAIN messages : messages[i] \in Texts
  BY TextTypes
<1>1. CASE UNCHANGED messages
  <2>1. hour <= hour'
    <3>1. hour' = hour \/ hour' = hour + 1
      BY DEF P!Next, P!vars, P!Begin, P!CheckBlock, P!Follow, P!Unfollow, P!Block, P!Part,
             P!Unblock, P!Count, P!SendMessage, P!InsertComment, P!DeleteComment, P!OpenThread,
             P!MarkRead, P!Tick
    <3> QED BY <1>0, <3>1
  <2> QED BY <1>1, <2>1 DEF Grows
<1>2. ASSUME NEW r \in Requests, P!MarkRead(r) PROVE Grows
  <2>1. /\ hour' = hour /\ DOMAIN messages' = DOMAIN messages
        /\ \A i \in DOMAIN messages :
             messages'[i] = [messages[i] EXCEPT !.read = messages[i].read \/ P!FromOther(r, i)]
    BY <1>2 DEF P!MarkRead
  <2>2. \A i \in DOMAIN messages : /\ messages'[i].by = messages[i].by
                                   /\ messages'[i].to = messages[i].to
                                   /\ messages'[i].at = messages[i].at
                                   /\ messages'[i].read <=> messages[i].read \/ P!FromOther(r, i)
    <3> TAKE i \in DOMAIN messages
    <3>1. messages[i] \in Texts
      BY <1>0
    <3>2. messages'[i] = [messages[i] EXCEPT !.read = messages[i].read \/ P!FromOther(r, i)]
      BY <2>1
    <3>3. messages'[i].read = (messages[i].read \/ P!FromOther(r, i))
      BY <3>1, <3>2 DEF Texts
    <3> QED BY <3>1, <3>2, <3>3 DEF Texts
  <2> QED BY <1>0, <1>2, <2>1, <2>2 DEF Grows
<1>3. ASSUME NEW r \in Requests, P!SendMessage(r) PROVE Grows
  <2> DEFINE m == [by |-> P!By(r), to |-> P!Of(r), at |-> hour, read |-> FALSE]
  <2>1. messages' = Append(messages, m) /\ hour' = hour
    BY <1>3 DEF P!SendMessage
  <2>2. ~m.read
    OBVIOUS
  <2> HIDE DEF m
  <2>3. /\ DOMAIN messages' = DOMAIN messages \cup {Len(messages) + 1}
        /\ \A i \in DOMAIN messages : messages'[i] = messages[i]
        /\ messages'[Len(messages) + 1] = m
    BY <1>0, <2>1
  <2> QED BY <1>0, <2>1, <2>2, <2>3 DEF Grows
<1> QED
  BY <1>1, <1>2, <1>3 DEF P!Next, P!vars, P!rows, P!Begin, P!CheckBlock, P!Follow, P!Unfollow,
                          P!Block, P!Part, P!Unblock, P!Count, P!InsertComment, P!DeleteComment,
                          P!OpenThread, P!Tick

\* What is recent was recent before: time passes and messages are added.
LEMMA RecentBefore ==
  ASSUME P!ConstantsType, P!TypeOK, P!TypeOK', Grows, NEW i \in DOMAIN messages, P!Recent(i)'
  PROVE  P!Recent(i)
<1>0. /\ hour \in Nat /\ hour' \in Nat /\ messages \in Seq(Texts) /\ messages' \in Seq(Texts)
      /\ messages[i] \in Texts /\ History \in Nat /\ ThreadLimit \in Nat /\ MaxTime \in Nat
  <2>1. hour' \in Nat /\ messages' \in Seq(Texts)
    BY DEF P!TypeOK, Texts
  <2> QED BY <2>1, TextTypes DEF P!ConstantsType
<1>1. /\ hour' - messages[i].at < History /\ Cardinality(P!Later(i)') < ThreadLimit
      /\ messages'[i].at = messages[i].at
  BY SameCount DEF P!Recent, Grows
<1>2. messages[i].at \in Nat
  BY <1>0 DEF Texts
<1>3. hour - messages[i].at < History
  BY <1>0, <1>1, <1>2 DEF Grows
<1>4. P!Later(i) \subseteq P!Later(i)'
  BY DEF P!Later, Grows, P!Pair
<1>5. IsFiniteSet(P!Later(i)')
  <2>1. Len(messages') \in Nat /\ DOMAIN messages' = 1 .. Len(messages')
    BY <1>0, LenProperties
  <2>2. IsFiniteSet(1 .. Len(messages')) /\ P!Later(i)' \subseteq 1 .. Len(messages')
    BY <2>1, FS_Interval DEF P!Later
  <2> QED BY <2>2, FS_Subset
<1>6. Cardinality(P!Later(i)) < ThreadLimit
  <2>1. /\ Cardinality(P!Later(i)) \in Nat /\ Cardinality(P!Later(i)') \in Nat
        /\ Cardinality(P!Later(i)) <= Cardinality(P!Later(i)')
    BY <1>4, <1>5, CountsLess
  <2> QED BY <1>0, <1>1, <2>1
<1> QED
  BY <1>3, <1>6, SameCount DEF P!Recent

LEMMA ThreadsKept ==
  ASSUME P!ConstantsType, P!TypeOK, P!TypeOK', CheckInv, ThreadInv, [P!Next]_(P!vars)
  PROVE  ThreadInv'
<1> DEFINE Others == {"follow", "unfollow", "block", "part", "unblock", "count", "send",
                      "comment", "delete"}
           Placed(r) == /\ turn[r] \in {"open", "mark"} => asked[r].kind = "open"
                        /\ turn[r] \in Others => asked[r].kind # "open"
                        /\ asked[r].seen <= Len(messages)
           Shows(r) == \A i \in 1 .. asked[r].seen :
                         P!FromOther(r, i) /\ P!Recent(i) => i \in asked[r].page
           Clear(r) == \A i \in 1 .. asked[r].seen : P!FromOther(r, i) => messages[i].read
           Reads(r, i) == /\ P!Opened(r) /\ P!FromOther(r, i)
                          /\ P!Recent(i) /\ i <= asked[r].seen => i \in asked[r].page
           Theirs(i) == messages[i].read => \E r \in Requests : Reads(r, i)
<1>0. /\ turn \in [Requests -> PeopleStages] /\ asked \in [Requests -> PeopleAsk]
      /\ Len(messages) \in Nat /\ DOMAIN messages = 1 .. Len(messages)
      /\ Len(messages') \in Nat /\ DOMAIN messages' = 1 .. Len(messages')
  <2>1. messages' \in Seq(Texts)
    BY DEF P!TypeOK, Texts
  <2>2. turn \in [Requests -> PeopleStages] /\ asked \in [Requests -> PeopleAsk]
    BY DEF P!TypeOK, PeopleStages, PeopleAsk
  <2>3. Len(messages') \in Nat /\ DOMAIN messages' = 1 .. Len(messages')
    BY <2>1, LenProperties
  <2> QED BY <2>2, <2>3, TextTypes
<1>1. /\ \A r \in Requests : /\ Placed(r) /\ (turn[r] = "mark" \/ P!Opened(r) => Shows(r))
                             /\ P!Opened(r) => Clear(r)
      /\ \A i \in DOMAIN messages : Theirs(i)
  BY DEF ThreadInv, P!ThreadsRead, P!BadgeClears, P!ReadInItsThread
<1>2. ASSUME \A r \in Requests : /\ Placed(r)' /\ (turn'[r] = "mark" \/ P!Opened(r)' => Shows(r)')
                                 /\ P!Opened(r)' => Clear(r)',
             \A i \in DOMAIN messages' : Theirs(i)'
      PROVE ThreadInv'
  BY <1>2 DEF ThreadInv, P!ThreadsRead, P!BadgeClears, P!ReadInItsThread
<1>3. Grows /\ \A i \in DOMAIN messages : P!Recent(i)' => P!Recent(i)
  BY LogGrows, RecentBefore
<1>4. \A r \in Requests : asked[r].seen \in Nat
  BY <1>0 DEF PeopleAsk
<1>5. ASSUME NEW r \in Requests, asked'[r] = asked[r]
      PROVE  /\ \A i \in DOMAIN messages : P!FromOther(r, i)' <=> P!FromOther(r, i)
             /\ Shows(r) => Shows(r)'
             /\ Clear(r) => Clear(r)'
             /\ asked'[r].seen <= Len(messages')
             /\ P!Opened(r) /\ P!Opened(r)' => \A i \in DOMAIN messages : Reads(r, i) =>
                  Reads(r, i)'
  <2>1. \A i \in DOMAIN messages : P!FromOther(r, i)' <=> P!FromOther(r, i)
    BY <1>3, <1>5 DEF Grows, P!FromOther, P!By, P!Of
  <2>2. 1 .. asked[r].seen \subseteq DOMAIN messages
    BY <1>0, <1>1, <1>4
  <2>3. asked'[r].seen <= Len(messages')
    <3>1. Len(messages) <= Len(messages')
      <4>1. CASE Len(messages) = 0
        BY <1>0, <4>1
      <4>2. CASE Len(messages) # 0
        <5>1. Len(messages) \in DOMAIN messages'
          BY <1>0, <1>3, <4>2 DEF Grows
        <5> QED BY <1>0, <5>1
      <4> QED BY <4>1, <4>2
    <3> QED BY <1>0, <1>1, <1>4, <1>5, <3>1
  <2> QED BY <1>3, <1>5, <2>1, <2>2, <2>3 DEF Grows
<1>6. ASSUME \A r \in Requests : /\ Placed(r)'
                                 /\ P!Opened(r)' => P!Opened(r)
                                 /\ P!Opened(r) => P!Opened(r)' /\ asked'[r] = asked[r]
                                 /\ turn'[r] = "mark" => /\ turn[r] = "mark" \/ Shows(r)'
                                                         /\ turn[r] = "mark" =>
                                                              asked'[r] = asked[r],
             \A r \in Requests : ~P!MarkRead(r)
      PROVE ThreadInv'
  <2>1. \A r \in Requests : /\ (turn'[r] = "mark" \/ P!Opened(r)' => Shows(r)')
                            /\ P!Opened(r)' => Clear(r)'
    BY <1>1, <1>5, <1>6
  <2>2. ASSUME NEW i \in DOMAIN messages', messages'[i].read
        PROVE \E r \in Requests : Reads(r, i)'
    <3>1. i \in DOMAIN messages /\ messages[i].read
      BY <1>3, <1>6, <2>2 DEF Grows
    <3>2. PICK r \in Requests : Reads(r, i)
      BY <1>1, <3>1
    <3>3. Reads(r, i)'
      BY <1>5, <1>6, <3>1, <3>2
    <3> QED BY <3>3
  <2> QED BY <1>2, <1>6, <2>1, <2>2
<1>7. ASSUME NEW r \in Requests, AloneTurn(r), P!MarkRead(r) PROVE ThreadInv'
  <2>1. /\ turn[r] = "mark" /\ turn'[r] = "done" /\ asked' = asked /\ ~P!Opened(r) /\ P!Opened(r)'
    BY <1>0, <1>1, <1>7 DEF P!MarkRead, P!Goto, P!Opened
  <2>2. \A q \in Requests : q # r => turn'[q] = turn[q] /\ (P!Opened(q)' <=> P!Opened(q))
    BY <1>7, <2>1 DEF AloneTurn, P!Opened
  <2>3. \A i \in DOMAIN messages : P!FromOther(r, i) => messages'[i].read
    <3> SUFFICES ASSUME NEW i \in DOMAIN messages, P!FromOther(r, i) PROVE messages'[i].read
      OBVIOUS
    <3>1. messages[i] \in Texts
      BY TextTypes
    <3>2. messages'[i] = [messages[i] EXCEPT !.read = messages[i].read \/ P!FromOther(r, i)]
      BY <1>7 DEF P!MarkRead
    <3>3. messages'[i].read = (messages[i].read \/ P!FromOther(r, i))
      BY <3>1, <3>2 DEF Texts
    <3> QED BY <3>3
  <2>4. Clear(r)'
    BY <1>0, <1>1, <1>4, <1>5, <2>1, <2>3
  <2>5. \A q \in Requests : /\ Placed(q)' /\ (turn'[q] = "mark" \/ P!Opened(q)' => Shows(q)')
                            /\ P!Opened(q)' => Clear(q)'
    BY <1>1, <1>5, <2>1, <2>2, <2>4
  <2>6. ASSUME NEW i \in DOMAIN messages', messages'[i].read
        PROVE \E q \in Requests : Reads(q, i)'
    <3>1. i \in DOMAIN messages
      BY <1>3, <2>6 DEF Grows
    <3>2. CASE P!FromOther(r, i)
      <4>1. P!FromOther(r, i)' /\ Shows(r)'
        BY <1>5, <2>1, <2>5, <3>1, <3>2
      <4>2. i \in Nat /\ i >= 1 /\ asked'[r].seen \in Nat
        BY <1>0, <1>4, <2>1, <3>1
      <4> QED BY <2>1, <4>1, <4>2
    <3>3. CASE ~P!FromOther(r, i)
      <4>1. messages[i].read
        <5>1. messages'[i] = [messages[i] EXCEPT !.read = messages[i].read \/ P!FromOther(r, i)]
          BY <1>7, <3>1 DEF P!MarkRead
        <5>2. messages[i] \in Texts
          BY <3>1, TextTypes
        <5>3. messages'[i].read = (messages[i].read \/ P!FromOther(r, i))
          BY <5>1, <5>2 DEF Texts
        <5> QED BY <2>6, <3>3, <5>3
      <4>2. PICK q \in Requests : Reads(q, i)
        BY <1>1, <3>1, <4>1
      <4>3. q # r
        BY <2>1, <4>2
      <4> QED BY <1>5, <2>1, <2>2, <3>1, <4>2, <4>3
    <3> QED BY <3>2, <3>3
  <2> QED BY <1>2, <2>5, <2>6
<1>8. ASSUME NEW r \in Requests, AloneTurn(r),
             \A q \in Requests : ~P!MarkRead(q),
             Placed(r)', ~P!Opened(r), ~P!Opened(r)', turn[r] # "mark", turn'[r] = "mark" =>
               Shows(r)'
      PROVE ThreadInv'
  <2>1. ASSUME NEW q \in Requests, q # r
        PROVE  /\ Placed(q)' /\ (P!Opened(q)' <=> P!Opened(q)) /\ asked'[q] = asked[q]
               /\ turn'[q] = turn[q]
    BY <1>1, <1>5, <1>8, <2>1 DEF AloneTurn, P!Opened
  <2> QED BY <1>6, <1>8, <2>1
<1>9. ASSUME NEW r \in Requests, AloneTurn(r), NEW kind \in P!Kinds, NEW u \in Readers,
             NEW v \in Readers,
             P!Begin(r, kind, u, v)
      PROVE ThreadInv'
  <2>1. /\ P!FirstOf(kind) \notin {"open", "mark", "done"}
        /\ P!FirstOf(kind) \in Others => kind # "open"
    BY DEF P!FirstOf, P!Kinds
  <2>2. /\ turn[r] = "idle" /\ turn'[r] = P!FirstOf(kind) /\ asked'[r].kind = kind
        /\ asked'[r].seen = 0
    BY <1>0, <1>9 DEF P!Begin, P!Goto
  <2>3. Placed(r)' /\ ~P!Opened(r) /\ ~P!Opened(r)'
    BY <1>0, <2>1, <2>2 DEF P!Opened
  <2>4. \A q \in Requests : ~P!MarkRead(q)
    BY <1>0, <1>9, <2>1, <2>2 DEF AloneTurn, P!MarkRead, P!Goto
  <2> QED BY <1>8, <1>9, <2>1, <2>2, <2>3, <2>4
<1>10. ASSUME NEW r \in Requests, AloneTurn(r), P!OpenThread(r) PROVE ThreadInv'
  <2> DEFINE page == {i \in DOMAIN messages : P!Pair(i) = {P!By(r), P!Of(r)} /\ P!Recent(i)}
  <2>1. /\ turn[r] = "open" /\ turn'[r] = "mark" /\ messages' = messages /\ hour' = hour
        /\ asked'[r].kind = asked[r].kind /\ asked'[r].by = asked[r].by
        /\ asked'[r].of = asked[r].of
        /\ asked'[r].seen = Len(messages) /\ asked'[r].page = page
    BY <1>0, <1>10 DEF P!OpenThread, P!Goto, PeopleAsk, P!rows
  <2>2. \A q \in Requests : ~P!MarkRead(q)
    BY <1>0, <1>10, <2>1 DEF AloneTurn, P!MarkRead, P!Goto
  <2>3. Placed(r)' /\ ~P!Opened(r) /\ ~P!Opened(r)'
    BY <1>0, <1>1, <2>1 DEF P!Opened
  <2>4. Shows(r)'
    <3>1. ASSUME NEW i \in DOMAIN messages, P!FromOther(r, i)', P!Recent(i)' PROVE i \in page
      <4>1. P!Pair(i) = {P!By(r), P!Of(r)}
        BY <2>1, <3>1 DEF P!FromOther, P!Pair, P!By, P!Of
      <4>2. P!Recent(i)
        BY <1>3, <3>1
      <4> QED BY <4>1, <4>2
    <3> QED BY <1>0, <2>1, <3>1
  <2> QED BY <1>8, <1>10, <2>1, <2>2, <2>3, <2>4
<1>11. ASSUME NEW r \in Requests, AloneTurn(r),
              \/ P!CheckBlock(r) \/ P!Follow(r) \/ P!Unfollow(r) \/ P!Block(r) \/ P!Part(r)
              \/ P!Unblock(r)
              \/ P!Count(r) \/ P!SendMessage(r) \/ P!InsertComment(r) \/ P!DeleteComment(r)
       PROVE ThreadInv'
  <2>1. /\ asked' = asked
        /\ turn[r] \in Others \cup {"check"}
        /\ \/ turn'[r] \in {"refused", "done"} \cup Others /\ turn[r] # "check"
           \/ turn[r] = "check" /\ turn'[r] \in {"refused", "count"} /\ asked[r].kind # "open"
           \/ turn[r] = "check" /\ turn'[r] = asked[r].kind
           \/ turn[r] = "check" /\ turn'[r] = "refused"
    <3>1. CASE P!CheckBlock(r)
      BY <1>0, <3>1 DEF P!CheckBlock, P!Goto
    <3>2. CASE ~P!CheckBlock(r)
      BY <1>0, <1>11, <3>2 DEF P!Follow, P!Unfollow, P!Block, P!Part, P!Unblock, P!Count,
                               P!SendMessage, P!InsertComment, P!DeleteComment, P!Goto
    <3> QED BY <3>1, <3>2
  <2>2. turn[r] = "check" => asked[r].kind \in {"follow", "unfollow", "send", "open"}
    BY DEF CheckInv
  <2>3. turn[r] \in Others => asked[r].kind # "open"
    BY <1>1
  <2>4. ~P!Opened(r) /\ ~P!Opened(r)' /\ turn[r] # "mark" /\ turn'[r] # "mark"
    BY <2>1, <2>2, <2>3 DEF P!Opened
  <2>5. Placed(r)'
    <3>1. asked'[r].seen <= Len(messages')
      BY <1>5, <2>1
    <3> QED BY <2>1, <2>2, <2>3, <3>1
  <2>6. \A q \in Requests : ~P!MarkRead(q)
    <3>1. messages' = messages \/ P!SendMessage(r)
      BY <1>11 DEF P!CheckBlock, P!Follow, P!Unfollow, P!Block, P!Part, P!Unblock, P!Count,
                   P!InsertComment, P!DeleteComment, P!rows
    <3> QED BY <1>0, <1>11, <2>4 DEF AloneTurn, P!MarkRead, P!Goto
  <2> QED BY <1>8, <1>11, <2>4, <2>5, <2>6
<1>12. CASE P!Tick
            \/ UNCHANGED <<hour, follows, blocks, messages, comments, turn, asked, parted,
                           doubling>>
  <2>1. UNCHANGED <<turn, asked>>
    BY <1>12 DEF P!Tick
  <2>2. \A r \in Requests : ~P!MarkRead(r)
    BY <1>0, <2>1 DEF P!MarkRead, P!Goto
  <2>3. \A r \in Requests :
          Placed(r)' /\ (P!Opened(r)' <=> P!Opened(r)) /\ asked'[r] = asked[r] /\ turn'[r] = turn[r]
    BY <1>1, <1>5, <2>1 DEF P!Opened
  <2> QED BY <1>6, <2>2, <2>3
<1> QED
  BY <1>7, <1>9, <1>10, <1>11, <1>12, PeopleSteps

LEMMA PeopleInit == ASSUME P!ConstantsType, P!Init PROVE PeopleInv
<1>1. P!TypeOK
  <2>1. P!Blank \in PeopleAsk
    BY DEF P!Blank, PeopleAsk, P!Kinds
  <2>2. hour \in 1 .. MaxTime /\ messages \in Seq(Texts) /\ comments \in Seq(Remarks)
    BY DEF P!Init, P!ConstantsType
  <2> QED BY <2>1, <2>2 DEF P!Init, P!TypeOK, Texts, Remarks, PeopleAsk
<1>2. AskedInv /\ CheckInv /\ P!BlockedDoNotFollow
  BY DEF P!Init, AskedInv, CheckInv, P!BlockedDoNotFollow
<1>3. RateInv
  <2>1. \A u : P!Lately(messages, u) = {} /\ P!Lately(comments, u) = {}
    BY DEF P!Init, P!Lately
  <2>2. \A u : Cardinality(P!Lately(messages, u)) = 0 /\ Cardinality(P!Lately(comments, u)) = 0
    BY <2>1, FS_EmptySet
  <2>3. \A u : MayWrite(u)
    BY <2>2 DEF P!Init, MayWrite, P!ConstantsType
  <2> QED BY <2>3 DEF P!Init, RateInv, P!Busy
<1>4. ThreadInv
  BY DEF P!Init, ThreadInv, P!ThreadsRead, P!BadgeClears, P!ReadInItsThread, P!Opened, P!Blank
<1> QED BY <1>1, <1>2, <1>3, <1>4 DEF PeopleInv

LEMMA PeopleInvariance == ASSUME P!ConstantsType PROVE P!Spec => []PeopleInv
<1>1. P!Init => PeopleInv
  BY PeopleInit
<1>2. PeopleInv /\ [P!Next]_(P!vars) => PeopleInv'
  <2>1. ASSUME PeopleInv, [P!Next]_(P!vars) PROVE PeopleInv'
    <3>1. P!TypeOK /\ AskedInv /\ CheckInv /\ P!BlockedDoNotFollow /\ RateInv /\ ThreadInv
      BY <2>1 DEF PeopleInv
    <3>2. P!TypeOK'
      BY <2>1, <3>1, PeopleTyped
    <3>3. AskedInv' /\ CheckInv' /\ P!BlockedDoNotFollow' /\ RateInv'
      BY <2>1, <3>1, PeopleHands, PeopleChecks, BlocksKept, RatesAreKept
    <3>4. ThreadInv'
      BY <2>1, <3>1, <3>2, ThreadsKept
    <3> QED BY <3>2, <3>3, <3>4 DEF PeopleInv
  <2> QED BY <2>1
<1> QED
  BY <1>1, <1>2, PTL DEF P!Spec

\* BlockedDoNotFollow of People: however follows, unfollows, blocks and unblocks of the two
\* interleave, once a block is through neither follows the other, unless a follow was checked
\* before it and written after.
THEOREM BlocksPart == ASSUME P!ConstantsType PROVE P!Spec => []P!BlockedDoNotFollow
<1>1. PeopleInv => P!BlockedDoNotFollow
  BY DEF PeopleInv
<1> QED
  BY <1>1, PeopleInvariance, PTL

\* RatesKept of People: for any rates, nobody writes more messages or comments in a unit of
\* time than the rate, deleted ones included, but a reader whose own requests overlapped.
THEOREM RatesHold == ASSUME P!ConstantsType PROVE P!Spec => []P!RatesKept
<1>1. PeopleInv => P!RatesKept
  BY SameCount DEF PeopleInv, RateInv, MayWrite, P!RatesKept
<1> QED
  BY <1>1, PeopleInvariance, PTL

\* ThreadsRead of People: whatever is sent meanwhile, a conversation that was opened has
\* nothing unread of what it held; and what is read was shown, but for what came while it was
\* opened, or what the window or the limit withholds.
THEOREM ThreadsAreRead == ASSUME P!ConstantsType PROVE P!Spec => []P!ThreadsRead
<1>1. PeopleInv => P!ThreadsRead
  BY DEF PeopleInv, ThreadInv
<1> QED
  BY <1>1, PeopleInvariance, PTL

-----------------------------------------------------------------------------
(* Mail to strangers: InviteMail.                                          *)

\* The two logs are finite, of the past, and numbered.
Numbered(log) == IsFiniteSet(log) /\ \A m \in log : m.n < Cardinality(log) /\ m.at <= today
MailLogInv == Numbered(sends) /\ Numbered(mailed)

\* What a submission has in hand; a reader whose submissions never overlapped has one under way
\* at most, and an address that was never in two hands is in one at most.
PostingInv == \A s \in Submissions :
  /\ I!Busy(s) => posting[s].reader \in Readers
  /\ phase[s] \in {"send", "record"} => posting[s].mail \in Mails
OnePostInv ==
  \A s, u \in Submissions :
    /\ I!Busy(s) /\ I!Busy(u) /\ posting[s].reader = posting[u].reader
       /\ posting[s].reader \notin overlapping => s = u
    /\ I!Mailing(s) /\ I!Mailing(u) /\ posting[s].mail = posting[u].mail
       /\ posting[s].mail \notin overlapping => s = u

\* Nobody has had more mails sent than were written down, but for the one in hand; and what was
\* written down leaves room for what a submission may still send.
Per(log, r) == {m \in log : m.reader = r}
Writing(r) == \E s \in Submissions : phase[s] = "record" /\ posting[s].reader = r
Good == Readers \ (overlapping \cup unwritten)
LimitInv == \A r \in Good :
  /\ \A t \in Int : Cardinality(Per(I!Since(mailed, t), r)) <=
                    Cardinality(Per(I!Since(sends, t), r)) + IF Writing(r) THEN 1 ELSE 0
  /\ Cardinality(Per(I!Since(sends, today - Day), r)) <= DailyLimit
  /\ \A s \in Submissions : posting[s].reader = r =>
       LET used == Cardinality(Per(I!Since(sends, today - Day), r)) IN
       /\ phase[s] = "next" =>
            posting[s].allowance >= 0 /\ used + posting[s].allowance <= DailyLimit
       /\ phase[s] \in {"send", "record"} =>
            posting[s].allowance >= 0 /\ used + posting[s].allowance + 1 <= DailyLimit

\* A mail to an address that was never in two hands is in the rows since, or about to be, or
\* could not be; and such an address that is about to be written to has had its quiet.
WrittenDown(m) ==
  \/ m.mail \in unwritten
  \/ \E n \in sends : n.mail = m.mail /\ n.at >= m.at
  \/ \E s \in Submissions : phase[s] = "record" /\ posting[s].mail = m.mail
QuietInv ==
  /\ \A m \in mailed : m.mail \notin overlapping =>
       /\ WrittenDown(m)
       /\ \A s \in Submissions : phase[s] = "send" /\ posting[s].mail = m.mail =>
            m.mail \in unwritten \/ m.at <= today - Quiet
  /\ I!MonthOfQuiet

MailInv == I!TypeOK /\ MailLogInv /\ PostingInv /\ OnePostInv /\ LimitInv /\ QuietInv

MailStages == {"idle", "count", "next", "send", "record", "done"}
Postings == [reader : Readers \cup {None}, left : SUBSET Mails, allowance : Int,
             mail : Mails \cup {None}]

-----------------------------------------------------------------------------

\* Every step, and the one submission that takes it.
AlonePost(s) == \A u \in Submissions \ {s} : phase'[u] = phase[u] /\ posting'[u] = posting[u]
LEMMA MailSteps ==
  ASSUME I!TypeOK, [I!Next]_(I!vars)
  PROVE  \/ I!Tick
         \/ UNCHANGED <<today, sends, mailed, phase, posting, mishaps, overlapping, unwritten>>
         \/ \E s \in Submissions :
              /\ AlonePost(s)
              /\ \/ \E r \in Readers, addresses \in SUBSET Mails : I!Post(s, r, addresses)
                 \/ I!Count(s) \/ I!NextAddress(s) \/ I!Send(s) \/ I!Record(s) \/ I!Dies(s)
<1>1. phase \in [Submissions -> MailStages] /\ posting \in [Submissions -> Postings]
  BY DEF I!TypeOK, MailStages, Postings
<1> QED
  BY <1>1 DEF I!Next, I!vars, AlonePost, I!Post, I!Count, I!NextAddress, I!Send, I!Record, I!Dies,
              I!Goto

\* A log with one more that is numbered by its size.
LEMMA NumberedOn ==
  ASSUME NEW log, NEW m, IsFiniteSet(log), \A x \in log : x.n < Cardinality(log),
         m.n = Cardinality(log)
  PROVE  /\ IsFiniteSet(log \cup {m}) /\ m \notin log
         /\ Cardinality(log \cup {m}) = Cardinality(log) + 1 /\ Cardinality(log) \in Nat
<1>1. Cardinality(log) \in Nat
  BY FS_CardinalityType
<1>2. m \notin log
  BY <1>1
<1> QED
  BY <1>1, <1>2, FS_AddElement

\* The next address is in hand, or there is none.
LEMMA NextAddressIs ==
  ASSUME I!TypeOK, NEW s \in Submissions, I!NextAddress(s)
  PROVE  /\ phase[s] = "next"
         /\ \/ phase'[s] = "done" /\ posting' = posting /\ overlapping' = overlapping
            \/ \E m \in Mails :
                 /\ overlapping \subseteq overlapping'
                 /\ overlapping' \subseteq overlapping \cup {m}
                 /\ posting[s].allowance # 0
                 /\ posting'[s] = [reader |-> posting[s].reader, left |-> posting[s].left \ {m},
                                  allowance |-> posting[s].allowance - 1, mail |-> m]
                 /\ posting' = [posting EXCEPT ![s] = posting'[s]]
                 /\ \/ phase'[s] = "next"
                    \/ /\ phase'[s] = "send" /\ \A n \in I!Since(sends, today - Quiet) : n.mail # m
                       /\ \A u \in Submissions :
                            I!Mailing(u) /\ posting[u].mail = m => m \in overlapping'
<1>0. phase \in [Submissions -> MailStages] /\ posting \in [Submissions -> Postings]
  BY DEF I!TypeOK, MailStages, Postings
<1>1. CASE posting[s].left = {} \/ posting[s].allowance = 0
  BY <1>0, <1>1 DEF I!NextAddress, I!Goto
<1>2. CASE ~(posting[s].left = {} \/ posting[s].allowance = 0)
  <2> DEFINE skip(m) == \/ m = OwnMail[posting[s].reader]
                        \/ \E n \in I!Since(sends, today - Quiet) : n.mail = m
  <2>1. PICK m \in posting[s].left :
          /\ posting' =
               [posting EXCEPT ![s].left = posting[s].left \ {m},
                               ![s].allowance = posting[s].allowance - 1, ![s].mail = m]
          /\ I!Goto(s, IF skip(m) THEN "next" ELSE "send")
          /\ overlapping' = IF ~skip(m) /\ \E u \in Submissions :
                                             I!Mailing(u) /\ posting[u].mail = m
                            THEN overlapping \cup {m} ELSE overlapping
    BY <1>2 DEF I!NextAddress
  <2>2. m \in Mails /\ posting[s] \in Postings
    BY <1>0 DEF Postings
  <2>3. posting'[s] = [reader |-> posting[s].reader, left |-> posting[s].left \ {m},
                       allowance |-> posting[s].allowance - 1, mail |-> m]
        /\ posting' = [posting EXCEPT ![s] = posting'[s]]
    BY <1>0, <2>1, <2>2 DEF Postings
  <2>4. phase'[s] = IF skip(m) THEN "next" ELSE "send"
    BY <1>0, <2>1 DEF I!Goto
  <2>5. /\ overlapping \subseteq overlapping' /\ overlapping' \subseteq overlapping \cup {m}
        /\ ~skip(m) => \A u \in Submissions :
             I!Mailing(u) /\ posting[u].mail = m => m \in overlapping'
    BY <2>1
  <2> QED BY <1>2, <2>2, <2>3, <2>4, <2>5 DEF I!NextAddress
<1> QED BY <1>1, <1>2

LEMMA MailTyped ==
  ASSUME I!ConstantsType, I!TypeOK, MailLogInv, PostingInv, [I!Next]_(I!vars)
  PROVE  I!TypeOK'
<1>0. /\ phase \in [Submissions -> MailStages] /\ posting \in [Submissions -> Postings]
      /\ today \in Int
      /\ Cardinality(sends) \in Nat /\ Cardinality(mailed) \in Nat
  BY FS_CardinalityType DEF I!TypeOK, MailStages, Postings, MailLogInv, Numbered
<1>1. CASE I!Tick \/ UNCHANGED I!vars
  BY <1>1 DEF I!Tick, I!vars, I!TypeOK, I!ConstantsType
<1>2. ASSUME NEW s \in Submissions, NEW r \in Readers, NEW addresses \in SUBSET Mails,
             I!Post(s, r, addresses)
      PROVE I!TypeOK'
  <2>1. [I!Nothing EXCEPT !.reader = r, !.left = addresses] \in Postings
    <3>1. I!Nothing \in Postings
      BY DEF I!Nothing, Postings
    <3> QED BY <3>1 DEF Postings
  <2>2. posting' \in [Submissions -> Postings] /\ phase' \in [Submissions -> MailStages]
    BY <1>0, <1>2, <2>1 DEF I!Post, I!Goto, MailStages
  <2>3. overlapping' \subseteq Readers \cup Mails
    BY <1>2 DEF I!Post, I!TypeOK
  <2> QED BY <1>2, <2>2, <2>3 DEF I!Post, I!TypeOK, MailStages, Postings
<1>3. ASSUME NEW s \in Submissions, I!Count(s) PROVE I!TypeOK'
  <2> DEFINE sent == Cardinality({m \in I!Since(sends, today - Day) : m.reader = posting[s].reader})
  <2>1. sent \in Nat
    <3>1. {m \in I!Since(sends, today - Day) : m.reader = posting[s].reader} \subseteq sends
      BY DEF I!Since
    <3> QED BY <3>1, CountsLess DEF MailLogInv, Numbered
  <2>2. posting' = [posting EXCEPT ![s].allowance = DailyLimit - sent]
    BY <1>3, SameCount DEF I!Count
  <2> HIDE DEF sent
  <2>3. posting' \in [Submissions -> Postings]
    BY <1>0, <2>1, <2>2 DEF Postings, I!ConstantsType
  <2>4. phase' \in [Submissions -> MailStages]
    BY <1>0, <1>3 DEF I!Count, I!Goto, MailStages
  <2> QED BY <1>3, <2>3, <2>4 DEF I!Count, I!TypeOK, MailStages, Postings
<1>4. ASSUME NEW s \in Submissions, I!NextAddress(s) PROVE I!TypeOK'
  <2>1. posting' \in [Submissions -> Postings]
    <3>1. CASE posting' = posting
      BY <1>0, <3>1
    <3>2. ASSUME NEW m \in Mails,
                 posting'[s] = [reader |-> posting[s].reader, left |-> posting[s].left \ {m},
                                allowance |-> posting[s].allowance - 1, mail |-> m],
                 posting' = [posting EXCEPT ![s] = posting'[s]]
          PROVE posting' \in [Submissions -> Postings]
      <4>1. posting[s] \in Postings
        BY <1>0
      <4>2. posting'[s] \in Postings
        BY <3>2, <4>1 DEF Postings
      <4> QED BY <1>0, <3>2, <4>2
    <3> QED BY <1>4, <3>1, <3>2, NextAddressIs
  <2>2. phase' \in [Submissions -> MailStages]
    BY <1>0, <1>4 DEF I!NextAddress, I!Goto, MailStages
  <2>3. overlapping' \subseteq Readers \cup Mails
    BY <1>4, NextAddressIs DEF I!TypeOK
  <2> QED BY <1>4, <2>1, <2>2, <2>3 DEF I!NextAddress, I!TypeOK, MailStages, Postings
<1>5. ASSUME NEW s \in Submissions, I!Send(s) PROVE I!TypeOK'
  <2>1. posting[s].reader \in Readers /\ posting[s].mail \in Mails
    BY <1>5 DEF I!Send, PostingInv, I!Busy
  <2>2. mailed' \subseteq I!Mail
    BY <1>0, <1>5, <2>1, SameCount DEF I!Send, I!Mail, I!TypeOK
  <2>3. phase' \in [Submissions -> MailStages] /\ mishaps' \in 0 .. MaxFaults
    BY <1>0, <1>5 DEF I!Send, I!Goto, MailStages, I!TypeOK, I!ConstantsType
  <2> QED BY <1>5, <2>2, <2>3 DEF I!Send, I!TypeOK, MailStages
<1>6. ASSUME NEW s \in Submissions, I!Record(s) PROVE I!TypeOK'
  <2>1. posting[s].reader \in Readers /\ posting[s].mail \in Mails
    BY <1>6 DEF I!Record, PostingInv, I!Busy
  <2>2. sends' \subseteq I!Mail /\ unwritten' \subseteq Readers \cup Mails
    BY <1>0, <1>6, <2>1, SameCount DEF I!Record, I!Mail, I!TypeOK
  <2>3. phase' \in [Submissions -> MailStages] /\ mishaps' \in 0 .. MaxFaults
    BY <1>0, <1>6 DEF I!Record, I!Goto, MailStages, I!TypeOK, I!ConstantsType
  <2> QED BY <1>6, <2>2, <2>3 DEF I!Record, I!TypeOK, MailStages
<1>7. ASSUME NEW s \in Submissions, I!Dies(s) PROVE I!TypeOK'
  <2>1. phase[s] = "record" => posting[s].reader \in Readers /\ posting[s].mail \in Mails
    BY DEF PostingInv, I!Busy
  <2>2. unwritten' \subseteq Readers \cup Mails
    BY <1>7, <2>1 DEF I!Dies, I!TypeOK
  <2>3. phase' \in [Submissions -> MailStages] /\ mishaps' \in 0 .. MaxFaults
    BY <1>0, <1>7 DEF I!Dies, I!Goto, MailStages, I!TypeOK, I!ConstantsType
  <2> QED BY <1>7, <2>2, <2>3 DEF I!Dies, I!TypeOK, MailStages
<1> QED
  BY <1>1, <1>2, <1>3, <1>4, <1>5, <1>6, <1>7 DEF I!Next

LEMMA MailHands == ASSUME I!TypeOK, PostingInv, [I!Next]_(I!vars) PROVE PostingInv'
<1>0. phase \in [Submissions -> MailStages] /\ posting \in [Submissions -> Postings]
  BY DEF I!TypeOK, MailStages, Postings
<1> DEFINE Meant(s) == /\ I!Busy(s) => posting[s].reader \in Readers
                       /\ phase[s] \in {"send", "record"} => posting[s].mail \in Mails
<1>1. \A s \in Submissions : Meant(s)
  BY DEF PostingInv
<1>2. ASSUME NEW s \in Submissions, AlonePost(s), Meant(s)' PROVE PostingInv'
  BY <1>1, <1>2 DEF AlonePost, PostingInv, I!Busy
<1>3. ASSUME NEW s \in Submissions, AlonePost(s),
             \/ \E r \in Readers, addresses \in SUBSET Mails : I!Post(s, r, addresses)
             \/ I!Count(s) \/ I!NextAddress(s) \/ I!Send(s) \/ I!Record(s) \/ I!Dies(s)
      PROVE Meant(s)'
  <2>1. ASSUME NEW r \in Readers, NEW addresses \in SUBSET Mails, I!Post(s, r, addresses)
        PROVE Meant(s)'
    BY <1>0, <2>1 DEF I!Post, I!Goto, I!Nothing, I!Busy
  <2>2. CASE I!Count(s)
    <3>1. posting'[s].reader = posting[s].reader /\ I!Busy(s) /\ phase'[s] \in {"done", "next"}
      BY <1>0, <2>2 DEF I!Count, I!Goto, Postings, I!Busy
    <3> QED BY <1>1, <3>1
  <2>3. CASE I!NextAddress(s)
    <3>1. phase[s] = "next" /\ phase'[s] \in {"done", "next", "send"}
      BY <2>3, NextAddressIs
    <3>2. posting'[s].reader = posting[s].reader
          /\ (phase'[s] = "send" => posting'[s].mail \in Mails)
      <4>1. CASE phase'[s] = "done" /\ posting' = posting
        BY <4>1
      <4>2. ASSUME NEW m \in Mails,
                   posting'[s] = [reader |-> posting[s].reader, left |-> posting[s].left \ {m},
                                  allowance |-> posting[s].allowance - 1, mail |-> m]
            PROVE posting'[s].reader = posting[s].reader /\ posting'[s].mail \in Mails
        BY <4>2
      <4> QED BY <2>3, <4>1, <4>2, NextAddressIs
    <3> QED BY <1>1, <3>1, <3>2 DEF I!Busy
  <2>4. CASE I!Send(s) \/ I!Record(s) \/ I!Dies(s)
    <3>1. posting' = posting /\ I!Busy(s)
          /\ (phase'[s] \in {"send", "record"} => phase[s] \in {"send", "record"})
      BY <1>0, <2>4 DEF I!Send, I!Record, I!Dies, I!Goto, I!Busy
    <3> QED BY <1>1, <3>1
  <2> QED BY <1>3, <2>1, <2>2, <2>3, <2>4
<1>4. CASE I!Tick
           \/ UNCHANGED <<today, sends, mailed, phase, posting, mishaps, overlapping, unwritten>>
  BY <1>4 DEF I!Tick, PostingInv, I!Busy
<1> QED
  BY <1>2, <1>3, <1>4, MailSteps

LEMMA MailLogs == ASSUME I!TypeOK, MailLogInv, [I!Next]_(I!vars) PROVE MailLogInv'
<1>0. today \in Int
  BY DEF I!TypeOK
<1>1. CASE UNCHANGED <<sends, mailed>>
  <2>1. today' = today \/ today' = today + 1
    BY <1>1 DEF I!Next, I!vars, I!Post, I!Count, I!NextAddress, I!Send, I!Record, I!Dies, I!Tick
  <2>2. \A m \in sends \cup mailed : m.at \in Int
    BY DEF I!TypeOK, I!Mail
  <2> QED BY <1>0, <1>1, <2>1, <2>2 DEF MailLogInv, Numbered
<1>2. ASSUME NEW log, NEW m, Numbered(log), m.n = Cardinality(log), m.at = today, today' = today,
             \A x \in log : x.n \in Nat
      PROVE IsFiniteSet(log \cup {m})
            /\ \A x \in log \cup {m} : x.n < Cardinality(log \cup {m}) /\ x.at <= today'
  <2>1. /\ IsFiniteSet(log \cup {m}) /\ Cardinality(log \cup {m}) = Cardinality(log) + 1
        /\ Cardinality(log) \in Nat
    BY <1>2, NumberedOn DEF Numbered
  <2>2. \A x \in log : x.n < Cardinality(log) + 1 /\ x.at <= today
    BY <1>2, <2>1 DEF Numbered
  <2>3. m.n < Cardinality(log) + 1 /\ m.at <= today
    BY <1>0, <1>2, <2>1
  <2> QED BY <1>2, <2>1, <2>2, <2>3
<1>3. \A x \in sends \cup mailed : x.n \in Nat
  BY DEF I!TypeOK, I!Mail
<1>4. ASSUME NEW s \in Submissions, I!Send(s) PROVE MailLogInv'
  <2> DEFINE m == [reader |-> posting[s].reader, mail |-> posting[s].mail, at |-> today,
                   n |-> Cardinality(mailed)]
  <2>1. (mailed' = mailed \cup {m} \/ mailed' = mailed) /\ sends' = sends /\ today' = today
    BY <1>4, SameCount DEF I!Send
  <2>2. m.n = Cardinality(mailed) /\ m.at = today
    OBVIOUS
  <2> HIDE DEF m
  <2> QED BY <1>2, <1>3, <2>1, <2>2 DEF MailLogInv, Numbered
<1>5. ASSUME NEW s \in Submissions, I!Record(s) PROVE MailLogInv'
  <2> DEFINE m == [reader |-> posting[s].reader, mail |-> posting[s].mail, at |-> today,
                   n |-> Cardinality(sends)]
  <2>1. (sends' = sends \cup {m} \/ sends' = sends) /\ mailed' = mailed /\ today' = today
    BY <1>5, SameCount DEF I!Record
  <2>2. m.n = Cardinality(sends) /\ m.at = today
    OBVIOUS
  <2> HIDE DEF m
  <2> QED BY <1>2, <1>3, <2>1, <2>2 DEF MailLogInv, Numbered
<1> QED
  BY <1>1, <1>4, <1>5 DEF I!Next, I!vars, I!Post, I!Count, I!NextAddress, I!Dies, I!Tick

\* But for a post, nobody begins and nobody's reader changes.
LEMMA SameReaders ==
  ASSUME I!TypeOK, NEW s \in Submissions, AlonePost(s),
         I!Count(s) \/ I!NextAddress(s) \/ I!Send(s) \/ I!Record(s) \/ I!Dies(s)
  PROVE  /\ I!Busy(s) /\ overlapping \subseteq overlapping' /\ today' = today
         /\ \A u \in Submissions :
              posting'[u].reader = posting[u].reader /\ (I!Busy(u)' => I!Busy(u))
<1>0. phase \in [Submissions -> MailStages] /\ posting \in [Submissions -> Postings]
  BY DEF I!TypeOK, MailStages, Postings
<1>1. I!Busy(s) /\ today' = today
  BY DEF I!Count, I!NextAddress, I!Send, I!Record, I!Dies, I!Busy
<1>3. overlapping \subseteq overlapping'
  <2>1. CASE I!NextAddress(s)
    BY <2>1, NextAddressIs
  <2> QED BY <2>1 DEF I!Count, I!Send, I!Record, I!Dies
<1>2. posting'[s].reader = posting[s].reader
  <2>1. CASE I!Count(s)
    <3>1. PICK n : posting' = [posting EXCEPT ![s].allowance = n]
      BY <2>1 DEF I!Count
    <3>2. posting[s] \in Postings
      BY <1>0
    <3> QED BY <1>0, <3>1, <3>2 DEF Postings
  <2>2. CASE I!NextAddress(s)
    <3>1. CASE posting' = posting
      BY <3>1
    <3>2. ASSUME NEW m \in Mails,
                 posting'[s] = [reader |-> posting[s].reader, left |-> posting[s].left \ {m},
                                allowance |-> posting[s].allowance - 1, mail |-> m]
          PROVE posting'[s].reader = posting[s].reader
      BY <3>2
    <3> QED BY <2>2, <3>1, <3>2, NextAddressIs
  <2>3. CASE I!Send(s) \/ I!Record(s) \/ I!Dies(s)
    BY <2>3 DEF I!Send, I!Record, I!Dies
  <2> QED BY <2>1, <2>2, <2>3
<1> QED
  BY <1>1, <1>2, <1>3 DEF AlonePost, I!Busy

\* A post adds a submission that has nothing in hand yet, and its reader is marked if another of
\* theirs is under way.
LEMMA PostIs ==
  ASSUME I!TypeOK, NEW s \in Submissions, NEW r \in Readers, NEW addresses \in SUBSET Mails,
         I!Post(s, r, addresses)
  PROVE  /\ phase[s] = "idle" /\ phase'[s] \in {"count", "done"} /\ posting'[s].reader = r
         /\ UNCHANGED <<today, sends, mailed, mishaps, unwritten>>
         /\ overlapping \subseteq overlapping'
         /\ \A u \in Submissions : I!Busy(u) /\ posting[u].reader = r => r \in overlapping'
<1>0. phase \in [Submissions -> MailStages] /\ posting \in [Submissions -> Postings]
      /\ I!Nothing \in Postings
  BY DEF I!TypeOK, MailStages, Postings, I!Nothing
<1>1. posting'[s].reader = r
  BY <1>0 DEF I!Post, Postings
<1> QED
  BY <1>0, <1>1 DEF I!Post, I!Goto

LEMMA MailAlone == ASSUME I!TypeOK, OnePostInv, [I!Next]_(I!vars) PROVE OnePostInv'
<1>0. phase \in [Submissions -> MailStages] /\ posting \in [Submissions -> Postings]
  BY DEF I!TypeOK, MailStages, Postings
<1>1. ASSUME NEW s \in Submissions, AlonePost(s), overlapping \subseteq overlapping',
             I!Busy(s)' => \A u \in Submissions \ {s} :
               I!Busy(u) /\ posting[u].reader = posting'[s].reader =>
                 posting'[s].reader \in overlapping',
             I!Mailing(s)' => \A u \in Submissions \ {s} :
               I!Mailing(u) /\ posting[u].mail = posting'[s].mail =>
                 posting'[s].mail \in overlapping'
      PROVE OnePostInv'
  <2>1. \A u \in Submissions \ {s} : /\ posting'[u] = posting[u]
                                     /\ I!Busy(u)' <=> I!Busy(u)
                                     /\ I!Mailing(u)' <=> I!Mailing(u)
    BY <1>1 DEF AlonePost, I!Busy, I!Mailing
  <2>2. ASSUME NEW u \in Submissions, NEW v \in Submissions, I!Busy(u)', I!Busy(v)',
               posting'[u].reader = posting'[v].reader, posting'[u].reader \notin overlapping'
        PROVE u = v
    BY <1>1, <2>1, <2>2 DEF OnePostInv
  <2>3. ASSUME NEW u \in Submissions, NEW v \in Submissions, I!Mailing(u)', I!Mailing(v)',
               posting'[u].mail = posting'[v].mail, posting'[u].mail \notin overlapping'
        PROVE u = v
    BY <1>1, <2>1, <2>3 DEF OnePostInv
  <2> QED BY <2>2, <2>3 DEF OnePostInv
<1>2. ASSUME NEW s \in Submissions, AlonePost(s), NEW r \in Readers, NEW addresses \in SUBSET Mails,
             I!Post(s, r, addresses)
      PROVE OnePostInv'
  <2>1. ~I!Mailing(s)'
    BY <1>2, PostIs DEF I!Mailing
  <2> QED BY <1>1, <1>2, <2>1, PostIs
<1>3. ASSUME NEW s \in Submissions, AlonePost(s),
             I!Count(s) \/ I!NextAddress(s) \/ I!Send(s) \/ I!Record(s) \/ I!Dies(s)
      PROVE OnePostInv'
  <2>1. /\ I!Busy(s) /\ overlapping \subseteq overlapping'
        /\ posting'[s].reader = posting[s].reader
    BY <1>3, SameReaders
  <2>2. \A u \in Submissions \ {s} : I!Busy(u) /\ posting[u].reader = posting'[s].reader =>
          posting'[s].reader \in overlapping'
    BY <2>1 DEF OnePostInv
  <2>3. ASSUME I!Mailing(s)', NEW u \in Submissions \ {s}, I!Mailing(u),
               posting[u].mail = posting'[s].mail
        PROVE posting'[s].mail \in overlapping'
    <3>1. CASE I!NextAddress(s)
      <4>1. ASSUME NEW m \in Mails,
                   posting'[s] = [reader |-> posting[s].reader, left |-> posting[s].left \ {m},
                                  allowance |-> posting[s].allowance - 1, mail |-> m],
                   \A w \in Submissions : I!Mailing(w) /\ posting[w].mail = m => m \in overlapping'
            PROVE posting'[s].mail \in overlapping'
        BY <2>3, <4>1
      <4>2. phase'[s] \notin {"done", "next"}
        BY <2>3 DEF I!Mailing
      <4> QED BY <3>1, <4>1, <4>2, NextAddressIs
    <3>2. CASE I!Count(s) \/ I!Dies(s)
      BY <1>0, <2>3, <3>2 DEF I!Count, I!Dies, I!Goto, I!Mailing
    <3>3. CASE I!Send(s) \/ I!Record(s)
      <4>1. posting' = posting /\ I!Mailing(s)
        BY <3>3 DEF I!Send, I!Record, I!Mailing
      <4> QED BY <2>1, <2>3, <4>1 DEF OnePostInv
    <3> QED BY <1>3, <3>1, <3>2, <3>3
  <2> QED BY <1>1, <1>3, <2>1, <2>2, <2>3
<1>4. CASE I!Tick
           \/ UNCHANGED <<today, sends, mailed, phase, posting, mishaps, overlapping, unwritten>>
  BY <1>4 DEF I!Tick, OnePostInv, I!Busy, I!Mailing
<1> QED
  BY <1>2, <1>3, <1>4, MailSteps

\* Rows that are added by or are of others do not count.
LEMMA OthersCount ==
  ASSUME NEW log, NEW m, NEW r, NEW t, m.reader # r
  PROVE  Per(I!Since(log \cup {m}, t), r) = Per(I!Since(log, t), r)
BY DEF Per, I!Since

LEMMA LimitsKept ==
  ASSUME I!ConstantsType, I!TypeOK, MailLogInv, PostingInv, OnePostInv, LimitInv, [I!Next]_(I!vars)
  PROVE  LimitInv'
<1> DEFINE Mailed(r, t) == Cardinality(Per(I!Since(mailed, t), r))
           Down(r, t) == Cardinality(Per(I!Since(sends, t), r))
           Used(r) == Down(r, today - Day)
           Owed(r) == IF Writing(r) THEN 1 ELSE 0
           Matched(r) == \A t \in Int : Mailed(r, t) <= Down(r, t) + Owed(r)
           Room(s, u) == /\ phase[s] = "next" =>
                              posting[s].allowance >= 0 /\ u + posting[s].allowance <= DailyLimit
                         /\ phase[s] \in {"send", "record"} =>
                              posting[s].allowance >= 0
                              /\ u + posting[s].allowance + 1 <= DailyLimit
           Within(r) == /\ Used(r) <= DailyLimit
                        /\ \A s \in Submissions : posting[s].reader = r => Room(s, Used(r))
<1>0. /\ phase \in [Submissions -> MailStages] /\ posting \in [Submissions -> Postings]
      /\ today \in Int
      /\ DailyLimit \in Nat /\ Day \in Nat
      /\ \A m \in sends \cup mailed : m.at \in Int
  BY DEF I!TypeOK, MailStages, Postings, I!ConstantsType, I!Mail
<1>1. \A r \in Good : Matched(r) /\ Within(r)
  BY DEF LimitInv
<1>2. ASSUME \A r \in Good' : Matched(r)' /\ Within(r)' PROVE LimitInv'
  BY <1>2 DEF LimitInv
<1>3. \A r, t : /\ Mailed(r, t) \in Nat /\ IsFiniteSet(Per(I!Since(mailed, t), r))
                /\ Down(r, t) \in Nat /\ IsFiniteSet(Per(I!Since(sends, t), r))
  <2>1. \A r, t :
          Per(I!Since(mailed, t), r) \subseteq mailed /\ Per(I!Since(sends, t), r) \subseteq sends
    BY DEF Per, I!Since
  <2> QED BY <2>1, CountsLess DEF MailLogInv, Numbered
<1>4. \A s \in Submissions : posting[s].allowance \in Int
  BY <1>0 DEF Postings
<1>5. CASE I!Tick
  <2>1. today' = today + 1 /\ UNCHANGED <<sends, mailed, phase, posting, overlapping, unwritten>>
    BY <1>5 DEF I!Tick
  <2>2. \A r : Used(r)' \in Nat /\ Used(r)' <= Used(r)
    <3>1. \A r : Per(I!Since(sends, today' - Day), r) \subseteq Per(I!Since(sends, today - Day), r)
      BY <1>0, <2>1 DEF Per, I!Since
    <3> QED BY <1>3, <2>1, <3>1, CountsLess
  <2>3. \A r : Matched(r) => Matched(r)'
    BY <2>1 DEF Writing
  <2>4. \A r : Within(r) => Within(r)'
    BY <1>0, <1>3, <1>4, <2>1, <2>2
  <2> QED BY <1>1, <1>2, <2>1, <2>3, <2>4 DEF Good
<1>6. ASSUME NEW r \in Readers, UNCHANGED <<today, mailed, sends>>, Writing(r)' <=> Writing(r)
      PROVE Matched(r) => Matched(r)'
  BY <1>6
<1>7. ASSUME NEW r \in Readers, UNCHANGED <<today, mailed, sends>>,
             \A u \in Submissions : posting'[u].reader = r =>
               \/ phase'[u] \notin {"next", "send", "record"}
               \/ posting[u].reader = r /\ (Room(u, Used(r)) => Room(u, Used(r))')
      PROVE Within(r) => Within(r)'
  BY <1>7
<1>8. ASSUME NEW s \in Submissions, AlonePost(s), NEW p \in Readers, NEW addresses \in SUBSET Mails,
             I!Post(s, p, addresses)
      PROVE LimitInv'
  <2>1. /\ phase[s] = "idle" /\ phase'[s] \in {"count", "done"}
        /\ UNCHANGED <<today, sends, mailed, unwritten>> /\ overlapping \subseteq overlapping'
    BY <1>8, PostIs
  <2>2. \A r \in Readers : Writing(r)' <=> Writing(r)
    BY <1>8, <2>1 DEF AlonePost, Writing
  <2>3. \A r \in Readers, u \in Submissions : posting'[u].reader = r =>
               \/ phase'[u] \notin {"next", "send", "record"}
               \/ posting[u].reader = r /\ (Room(u, Used(r)) => Room(u, Used(r))')
    BY <1>8, <2>1 DEF AlonePost
  <2> QED BY <1>1, <1>2, <1>6, <1>7, <2>1, <2>2, <2>3 DEF Good
<1>9. ASSUME NEW s \in Submissions, AlonePost(s), NEW me \in Readers, me = posting[s].reader,
             I!Count(s) \/ I!NextAddress(s) \/ I!Send(s) \/ I!Record(s) \/ I!Dies(s)
      PROVE LimitInv'
  <2>1. /\ me = posting[s].reader /\ I!Busy(s) /\ overlapping \subseteq overlapping'
        /\ today' = today
        /\ \A u \in Submissions :
             posting'[u].reader = posting[u].reader /\ (I!Busy(u)' => I!Busy(u))
    BY <1>9, SameReaders
  <2>2. unwritten \subseteq unwritten'
    BY <1>9 DEF I!Count, I!NextAddress, I!Send, I!Record, I!Dies
  <2>3. Good' \subseteq Good
    BY <2>1, <2>2 DEF Good
  <2>4. \A u \in Submissions \ {s} : phase'[u] = phase[u] /\ posting'[u] = posting[u]
    BY <1>9 DEF AlonePost
  <2>5. me \in Good => \A u \in Submissions \ {s} : ~(I!Busy(u) /\ posting[u].reader = me)
    BY <2>1 DEF OnePostInv, Good
  <2>6. \A r \in Readers : r # me => (Writing(r)' <=> Writing(r))
    BY <2>1, <2>4 DEF Writing
  <2>7. ASSUME NEW r \in Good', r # me,
               \A t : Mailed(r, t)' = Mailed(r, t) /\ Down(r, t)' = Down(r, t)
        PROVE Matched(r)' /\ Within(r)'
    <3>1. Matched(r) /\ Within(r) /\ r \in Readers
      BY <1>1, <2>3, <2>7 DEF Good
    <3>2. Matched(r)'
      BY <2>6, <2>7, <3>1
    <3>3. Used(r)' = Used(r)
      BY <2>1, <2>7
    <3>4. Within(r)'
      BY <2>1, <2>4, <2>7, <3>1, <3>3
    <3> QED BY <3>2, <3>4
  <2>8. ASSUME UNCHANGED <<mailed, sends>>,
               me \in Good' => /\ Writing(me)' <=> Writing(me)
                               /\ Within(me) => Room(s, Used(me))'
        PROVE LimitInv'
    <3>1. \A r : \A t : Mailed(r, t)' = Mailed(r, t) /\ Down(r, t)' = Down(r, t)
      BY <2>8
    <3>2. ASSUME me \in Good' PROVE Matched(me)' /\ Within(me)'
      <4>1. Matched(me) /\ Within(me) /\ Used(me)' = Used(me)
        BY <1>1, <2>1, <2>3, <2>8, <3>2
      <4>2. \A u \in Submissions \ {s} : posting'[u].reader = me => Room(u, Used(me))'
        BY <2>1, <2>4, <4>1
      <4> QED BY <2>1, <2>8, <3>1, <3>2, <4>1, <4>2
    <3> QED BY <1>2, <2>7, <3>1, <3>2
  <2>9. CASE I!Count(s)
    <3>1. {m \in I!Since(sends, today - Day) : m.reader = posting[s].reader} =
            Per(I!Since(sends, today - Day), me)
      BY <2>1 DEF Per
    <3>2. /\ UNCHANGED <<mailed, sends>> /\ phase[s] = "count" /\ phase'[s] \in {"done", "next"}
          /\ phase'[s] = "next" =>
               ~(Used(me) >= DailyLimit) /\ posting'[s].allowance = DailyLimit - Used(me)
      BY <1>0, <2>9, <3>1, SameCount DEF I!Count, I!Goto, Postings
    <3>3. Writing(me)' <=> Writing(me)
      BY <2>4, <3>2 DEF Writing
    <3>4. Room(s, Used(me))'
      BY <1>0, <1>3, <2>1, <3>2
    <3> QED BY <2>8, <3>2, <3>3, <3>4
  <2>10. CASE I!NextAddress(s)
    <3>1. /\ UNCHANGED <<mailed, sends>> /\ phase[s] = "next"
          /\ phase'[s] \in {"done", "next", "send"}
          /\ phase'[s] # "done" =>
               posting[s].allowance # 0 /\ posting'[s].allowance = posting[s].allowance - 1
      <4>1. UNCHANGED <<mailed, sends>> /\ phase[s] = "next"
        BY <2>10 DEF I!NextAddress
      <4>2. CASE phase'[s] = "done"
        BY <4>1, <4>2
      <4>3. ASSUME NEW m \in Mails, posting[s].allowance # 0,
                   posting'[s] = [reader |-> posting[s].reader, left |-> posting[s].left \ {m},
                                  allowance |-> posting[s].allowance - 1, mail |-> m],
                   phase'[s] \in {"next", "send"}
            PROVE posting'[s].allowance = posting[s].allowance - 1
        BY <4>3
      <4> QED BY <2>10, <4>1, <4>2, <4>3, NextAddressIs
    <3>2. Writing(me)' <=> Writing(me)
      BY <2>4, <3>1 DEF Writing
    <3>3. Within(me) => Room(s, Used(me))'
      BY <1>0, <1>3, <1>4, <2>1, <3>1
    <3> QED BY <2>8, <3>1, <3>2, <3>3
  <2>11. CASE I!Dies(s)
    <3>1. /\ UNCHANGED <<mailed, sends>> /\ phase'[s] = "done"
          /\ phase[s] = "record" => me \in unwritten'
      BY <1>0, <2>1, <2>11 DEF I!Dies, I!Goto
    <3>2. me \in Good' => (Writing(me)' <=> Writing(me))
      <4>1. me \in Good' => phase[s] # "record" /\ phase'[s] # "record"
        BY <3>1 DEF Good
      <4>2. ASSUME phase[s] # "record", phase'[s] # "record" PROVE Writing(me)' <=> Writing(me)
        BY <2>4, <4>2 DEF Writing
      <4> QED BY <4>1, <4>2
    <3>3. Room(s, Used(me))'
      BY <3>1
    <3> QED BY <2>8, <3>1, <3>2, <3>3
  <2>12. ASSUME I!Send(s), mailed' = mailed PROVE LimitInv'
    <3>1. UNCHANGED <<mailed, sends>> /\ phase[s] = "send" /\ phase'[s] \in {"next", "record"}
          /\ posting' = posting
      BY <1>0, <2>12 DEF I!Send, I!Goto
    <3>2. phase'[s] = "next"
      <4> DEFINE m == [reader |-> posting[s].reader, mail |-> posting[s].mail, at |-> today,
                       n |-> Cardinality(mailed)]
      <4>1. m \notin mailed
        <5>1. m.n = Cardinality(mailed)
          OBVIOUS
        <5> HIDE DEF m
        <5> QED BY <5>1, NumberedOn DEF MailLogInv, Numbered
      <4>2. m \in mailed' \/ phase'[s] = "next"
        BY <1>0, <2>12, SameCount DEF I!Send, I!Goto
      <4> QED BY <2>12, <4>1, <4>2
    <3>3. Writing(me)' <=> Writing(me)
      BY <2>4, <3>1, <3>2 DEF Writing
    <3>4. Within(me) => Room(s, Used(me))'
      BY <1>0, <1>3, <1>4, <2>1, <3>1, <3>2
    <3> QED BY <2>8, <3>1, <3>3, <3>4
  <2>13. ASSUME I!Send(s), mailed' # mailed PROVE LimitInv'
    <3> DEFINE m == [reader |-> me, mail |-> posting[s].mail, at |-> today,
                     n |-> Cardinality(mailed)]
    <3>1. phase[s] = "send" /\ phase'[s] = "record" /\ mailed' = mailed \cup {m} /\ sends' = sends
          /\ posting' = posting
      BY <1>0, <2>1, <2>13, SameCount DEF I!Send, I!Goto
    <3>2. m.reader = me
      OBVIOUS
    <3> HIDE DEF m
    <3>3. \A r : r # me => \A t : Mailed(r, t)' = Mailed(r, t) /\ Down(r, t)' = Down(r, t)
      BY <3>1, <3>2, OthersCount
    <3>4. ASSUME me \in Good' PROVE Matched(me)' /\ Within(me)'
      <4>1. Matched(me) /\ Within(me) /\ Used(me)' = Used(me)
        BY <1>1, <2>1, <2>3, <3>1, <3>4
      <4>2. ~Writing(me) /\ Writing(me)'
        BY <2>1, <2>3, <2>5, <3>1, <3>4 DEF Writing, I!Busy
      <4>3. ASSUME NEW t \in Int PROVE Mailed(me, t)' <= Down(me, t)' + Owed(me)'
        <5>1. Per(I!Since(mailed', t), me) \subseteq Per(I!Since(mailed, t), me) \cup {m}
          BY <3>1 DEF Per, I!Since
        <5>2. Mailed(me, t)' \in Nat /\ Mailed(me, t)' <= Mailed(me, t) + 1
          BY <1>3, <3>1, <5>1, CountsOneMore
        <5>3. Mailed(me, t) <= Down(me, t) /\ Down(me, t)' = Down(me, t) /\ Owed(me)' = 1
          BY <1>3, <3>1, <4>1, <4>2, <4>3
        <5> QED BY <1>3, <5>2, <5>3
      <4>4. \A u \in Submissions : posting'[u].reader = me => Room(u, Used(me))'
        BY <2>1, <2>4, <3>1, <4>1
      <4> QED BY <4>1, <4>3, <4>4
    <3> QED BY <1>2, <2>7, <3>3, <3>4
  <2>14. ASSUME I!Record(s), me \in unwritten', sends' = sends PROVE LimitInv'
    <3>1. UNCHANGED <<mailed, sends>>
      BY <2>14 DEF I!Record
    <3> QED BY <2>8, <2>14, <3>1 DEF Good
  <2>15. ASSUME I!Record(s), me \notin unwritten' \/ sends' # sends PROVE LimitInv'
    <3> DEFINE m == [reader |-> me, mail |-> posting[s].mail, at |-> today,
                     n |-> Cardinality(sends)]
    <3>1. phase[s] = "record" /\ phase'[s] = "next" /\ sends' = sends \cup {m} /\ mailed' = mailed
          /\ posting' = posting
      BY <1>0, <2>1, <2>15, SameCount DEF I!Record, I!Goto
    <3>2. m.reader = me /\ m.at = today /\ m.n = Cardinality(sends)
      OBVIOUS
    <3> HIDE DEF m
    <3>3. m \notin sends
      BY <3>2, NumberedOn DEF MailLogInv, Numbered
    <3>4. \A r : r # me => \A t : Mailed(r, t)' = Mailed(r, t) /\ Down(r, t)' = Down(r, t)
      BY <3>1, <3>2, OthersCount
    <3>5. ASSUME me \in Good' PROVE Matched(me)' /\ Within(me)'
      <4>1. Matched(me) /\ Within(me) /\ Writing(me)
        BY <1>1, <2>1, <2>3, <3>1, <3>5 DEF Writing
      <4>2. ~Writing(me)'
        BY <2>1, <2>3, <2>4, <2>5, <3>1, <3>5 DEF Writing, I!Busy
      <4>3. ASSUME NEW t \in Int PROVE Mailed(me, t)' <= Down(me, t)' + Owed(me)'
        <5>1. CASE t < today
          <6>1. Per(I!Since(sends', t), me) = Per(I!Since(sends, t), me) \cup {m}
                /\ m \notin Per(I!Since(sends, t), me)
            BY <3>1, <3>2, <3>3, <5>1 DEF Per, I!Since
          <6>2. Down(me, t)' = Down(me, t) + 1
            BY <1>3, <6>1, FS_AddElement
          <6>3. Mailed(me, t)' <= Down(me, t) + 1
            BY <3>1, <4>1, <4>3
          <6> QED BY <1>3, <4>2, <6>2, <6>3
        <5>2. CASE ~(t < today)
          <6>1. Per(I!Since(mailed, t), me) = {}
            BY <1>0, <5>2 DEF Per, I!Since, MailLogInv, Numbered
          <6>2. Mailed(me, t)' = 0
            BY <3>1, <6>1, FS_EmptySet
          <6>3. Down(me, t)' \in Nat
            <7>1. Per(I!Since(sends', t), me) \subseteq Per(I!Since(sends, t), me) \cup {m}
              BY <3>1 DEF Per, I!Since
            <7> QED BY <1>3, <7>1, CountsOneMore
          <6> QED BY <4>2, <6>2, <6>3
        <5> QED BY <5>1, <5>2
      <4>4. Used(me)' \in Nat /\ Used(me)' <= Used(me) + 1
        <5>1. Per(I!Since(sends', today - Day), me) \subseteq
                Per(I!Since(sends, today - Day), me) \cup {m}
          BY <3>1 DEF Per, I!Since
        <5> QED BY <1>3, <2>1, <5>1, CountsOneMore
      <4>5. posting[s].allowance >= 0 /\ Used(me) + posting[s].allowance + 1 <= DailyLimit
        BY <2>1, <3>1, <4>1
      <4>6. Used(me)' <= DailyLimit /\ Room(s, Used(me))'
        BY <1>0, <1>3, <1>4, <3>1, <4>4, <4>5
      <4>7. \A u \in Submissions \ {s} : posting'[u].reader = me => Room(u, Used(me))'
        BY <2>3, <2>4, <2>5, <3>5 DEF I!Busy
      <4> QED BY <2>1, <4>3, <4>6, <4>7
    <3> QED BY <1>2, <2>7, <3>4, <3>5
  <2> QED BY <1>9, <2>9, <2>10, <2>11, <2>12, <2>13, <2>14, <2>15
<1>10. CASE UNCHANGED <<today, sends, mailed, phase, posting, mishaps, overlapping, unwritten>>
  BY <1>1, <1>2, <1>10 DEF Good, Writing
<1>11. ASSUME NEW s \in Submissions, I!Busy(s) PROVE posting[s].reader \in Readers
  BY <1>11 DEF PostingInv
<1> QED
  BY <1>5, <1>8, <1>9, <1>10, <1>11, MailSteps, SameReaders

LEMMA QuietKept ==
  ASSUME I!ConstantsType, I!TypeOK, MailLogInv, PostingInv, OnePostInv, QuietInv, [I!Next]_(I!vars)
  PROVE  QuietInv'
<1> DEFINE Rested(s, m) == phase[s] = "send" /\ posting[s].mail = m.mail =>
                             m.mail \in unwritten \/ m.at <= today - Quiet
<1>0. /\ phase \in [Submissions -> MailStages] /\ posting \in [Submissions -> Postings]
      /\ today \in Int
      /\ Quiet \in Nat /\ Cardinality(mailed) \in Nat
      /\ \A m \in sends \cup mailed : m.at \in Int /\ m.n \in Nat
  BY FS_CardinalityType DEF I!TypeOK, MailStages, Postings, I!ConstantsType, I!Mail, MailLogInv,
                            Numbered
<1>1. ASSUME mailed' = mailed, overlapping \subseteq overlapping', unwritten \subseteq unwritten'
      PROVE I!MonthOfQuiet'
  BY <1>1 DEF QuietInv, I!MonthOfQuiet, I!Pestered
<1>2. \A m \in mailed : m.mail \notin overlapping =>
        WrittenDown(m) /\ \A s \in Submissions : Rested(s, m)
  BY DEF QuietInv
<1>3. ASSUME I!MonthOfQuiet',
             \A m \in mailed' : m.mail \notin overlapping' =>
               WrittenDown(m)' /\ \A s \in Submissions : Rested(s, m)'
      PROVE QuietInv'
  BY <1>3 DEF QuietInv
<1>4. CASE I!Tick
           \/ UNCHANGED <<today, sends, mailed, phase, posting, mishaps, overlapping, unwritten>>
  <2>1. /\ UNCHANGED <<sends, mailed, phase, posting, overlapping, unwritten>>
        /\ today' = today \/ today' = today + 1
    BY <1>4 DEF I!Tick
  <2>2. \A m \in mailed : WrittenDown(m) => WrittenDown(m)'
    BY <2>1 DEF WrittenDown
  <2>3. \A s \in Submissions, m \in mailed : Rested(s, m) => Rested(s, m)'
    BY <1>0, <2>1
  <2> QED BY <1>1, <1>2, <1>3, <2>1, <2>2, <2>3
<1>5. ASSUME NEW s \in Submissions, AlonePost(s), NEW r \in Readers, NEW addresses \in SUBSET Mails,
             I!Post(s, r, addresses)
      PROVE QuietInv'
  <2>1. /\ phase[s] = "idle" /\ phase'[s] \in {"count", "done"}
        /\ UNCHANGED <<today, sends, mailed, unwritten>> /\ overlapping \subseteq overlapping'
        /\ \A u \in Submissions \ {s} : phase'[u] = phase[u] /\ posting'[u] = posting[u]
    BY <1>5, PostIs DEF AlonePost
  <2>2. \A m \in mailed : WrittenDown(m) => WrittenDown(m)'
    BY <2>1 DEF WrittenDown
  <2>3. \A u \in Submissions, m \in mailed : Rested(u, m) => Rested(u, m)'
    BY <2>1
  <2> QED BY <1>1, <1>2, <1>3, <2>1, <2>2, <2>3
<1>6. ASSUME NEW s \in Submissions, AlonePost(s), NEW x, x = posting[s].mail,
             I!Count(s) \/ I!NextAddress(s) \/ I!Send(s) \/ I!Record(s) \/ I!Dies(s)
      PROVE QuietInv'
  <2>1. overlapping \subseteq overlapping' /\ today' = today
    BY <1>6, SameReaders
  <2>2. unwritten \subseteq unwritten'
    BY <1>6 DEF I!Count, I!NextAddress, I!Send, I!Record, I!Dies
  <2>3. \A u \in Submissions \ {s} : phase'[u] = phase[u] /\ posting'[u] = posting[u]
    BY <1>6 DEF AlonePost
  <2>4. I!Mailing(s) /\ x \notin overlapping =>
          \A u \in Submissions \ {s} : ~(I!Mailing(u) /\ posting[u].mail = x)
    BY <1>6 DEF OnePostInv
  \* What was written down stays so, if what s had sent is.
  <2>5. ASSUME NEW m \in mailed, m.mail \notin overlapping, sends \subseteq sends',
               phase[s] = "record" /\ x = m.mail =>
                 m.mail \in unwritten' \/ \E n \in sends' : n.mail = m.mail /\ n.at >= m.at
        PROVE WrittenDown(m)'
    <3>1. WrittenDown(m)
      BY <1>2, <2>5
    <3>2. CASE m.mail \in unwritten \/ \E n \in sends : n.mail = m.mail /\ n.at >= m.at
      BY <2>2, <2>5, <3>2 DEF WrittenDown
    <3>3. ASSUME NEW u \in Submissions, phase[u] = "record", posting[u].mail = m.mail
          PROVE WrittenDown(m)'
      <4>1. CASE u = s
        BY <1>6, <2>5, <3>3, <4>1 DEF WrittenDown
      <4>2. CASE u # s
        BY <2>3, <3>3, <4>2 DEF WrittenDown
      <4> QED BY <4>1, <4>2
    <3> QED BY <3>1, <3>2, <3>3 DEF WrittenDown
  <2>6. ASSUME mailed' = mailed, sends \subseteq sends',
               \A m \in mailed : phase[s] = "record" /\ x = m.mail =>
                 m.mail \in unwritten' \/ \E n \in sends' : n.mail = m.mail /\ n.at >= m.at,
               \A m \in mailed : m.mail \notin overlapping' => Rested(s, m)'
        PROVE QuietInv'
    <3>1. \A m \in mailed : m.mail \notin overlapping => WrittenDown(m)'
      BY <2>5, <2>6
    <3>2. \A m \in mailed : m.mail \notin overlapping => \A u \in Submissions \ {s} : Rested(u, m)'
      BY <1>2, <2>1, <2>2, <2>3
    <3> QED BY <1>1, <1>3, <2>1, <2>2, <2>6, <3>1, <3>2
  <2>7. CASE I!Count(s)
    <3>1. mailed' = mailed /\ sends' = sends /\ phase[s] = "count" /\ phase'[s] \in {"done", "next"}
      BY <1>0, <2>7 DEF I!Count, I!Goto
    <3> QED BY <2>6, <3>1
  <2>8. CASE I!NextAddress(s)
    <3>1. mailed' = mailed /\ sends' = sends /\ unwritten' = unwritten /\ phase[s] = "next"
      BY <2>8 DEF I!NextAddress
    <3>2. phase'[s] = "send" => \A n \in sends : n.at > today - Quiet => n.mail # posting'[s].mail
      <4>1. CASE phase'[s] = "done"
        BY <4>1
      <4>2. ASSUME NEW m \in Mails,
                   posting'[s] = [reader |-> posting[s].reader, left |-> posting[s].left \ {m},
                                  allowance |-> posting[s].allowance - 1, mail |-> m],
                   phase'[s] = "next" \/ \A n \in I!Since(sends, today - Quiet) : n.mail # m
            PROVE phase'[s] = "send" => \A n \in sends : n.at > today - Quiet =>
                    n.mail # posting'[s].mail
        BY <4>2 DEF I!Since
      <4> QED BY <2>8, <4>1, <4>2, NextAddressIs
    <3>5. phase'[s] = "send" => \A u \in Submissions :
            I!Mailing(u) /\ posting[u].mail = posting'[s].mail => posting'[s].mail \in overlapping'
      <4>1. CASE phase'[s] = "done"
        BY <4>1
      <4>2. ASSUME NEW m \in Mails,
                   posting'[s] = [reader |-> posting[s].reader, left |-> posting[s].left \ {m},
                                  allowance |-> posting[s].allowance - 1, mail |-> m],
                   \/ phase'[s] = "next"
                   \/ \A u \in Submissions :
                        I!Mailing(u) /\ posting[u].mail = m => m \in overlapping'
            PROVE phase'[s] = "send" => \A u \in Submissions :
                    I!Mailing(u) /\ posting[u].mail = posting'[s].mail =>
                      posting'[s].mail \in overlapping'
        BY <4>2
      <4> QED BY <2>8, <4>1, <4>2, NextAddressIs
    <3>3. ASSUME NEW m \in mailed, m.mail \notin overlapping', phase'[s] = "send",
                 posting'[s].mail = m.mail
          PROVE m.mail \in unwritten \/ m.at <= today - Quiet
      <4>1. m.mail \in unwritten \/ \E n \in sends : n.mail = m.mail /\ n.at >= m.at
        <5>1. \A u \in Submissions : ~(phase[u] = "record" /\ posting[u].mail = m.mail)
          BY <3>3, <3>5 DEF I!Mailing
        <5> QED BY <1>2, <2>1, <3>3, <5>1 DEF WrittenDown
      <4> QED BY <1>0, <3>2, <3>3, <4>1
    <3>4. \A m \in mailed : m.mail \notin overlapping' => Rested(s, m)'
      BY <2>1, <3>1, <3>3
    <3> QED BY <2>6, <3>1, <3>4
  <2>9. CASE I!Record(s)
    <3>1. mailed' = mailed /\ sends \subseteq sends' /\ phase'[s] = "next"
      BY <1>0, <2>9 DEF I!Record, I!Goto
    <3>2. ASSUME NEW m \in mailed, x = m.mail
          PROVE m.mail \in unwritten' \/ \E n \in sends' : n.mail = m.mail /\ n.at >= m.at
      <4> DEFINE row == [reader |-> posting[s].reader, mail |-> x, at |-> today,
                         n |-> Cardinality(sends)]
      <4>1. row \in sends' \/ x \in unwritten'
        BY <1>6, <2>9, SameCount DEF I!Record
      <4>2. row.mail = x /\ row.at = today
        OBVIOUS
      <4>3. m.at <= today
        BY DEF MailLogInv, Numbered
      <4> HIDE DEF row
      <4> QED BY <1>0, <3>2, <4>1, <4>2, <4>3
    <3> QED BY <2>6, <3>1, <3>2
  <2>10. CASE I!Dies(s)
    <3>1. mailed' = mailed /\ sends' = sends /\ phase'[s] = "done"
          /\ (phase[s] = "record" => x \in unwritten')
      BY <1>0, <1>6, <2>10 DEF I!Dies, I!Goto
    <3> QED BY <2>6, <3>1
  <2>11. ASSUME I!Send(s), phase'[s] = "next" PROVE QuietInv'
    <3>1. mailed' = mailed /\ sends' = sends /\ phase[s] = "send"
      BY <1>0, <2>11 DEF I!Send, I!Goto
    <3> QED BY <2>6, <2>11, <3>1
  <2>12. ASSUME I!Send(s), phase'[s] # "next" PROVE QuietInv'
    <3>0. PICK mail : mail =
            [reader |-> posting[s].reader, mail |-> x, at |-> today, n |-> Cardinality(mailed)]
      OBVIOUS
    <3>1. /\ mailed' = mailed \cup {mail} /\ sends' = sends /\ unwritten' = unwritten
          /\ posting' = posting
          /\ phase[s] = "send" /\ phase'[s] = "record"
      BY <1>0, <1>6, <2>12, <3>0, SameCount DEF I!Send, I!Goto
    <3>2. mail.mail = x /\ mail.at = today /\ mail.n = Cardinality(mailed)
      BY <3>0
    <3>3. \A m \in mailed' : m.mail \notin overlapping => WrittenDown(m)'
      <4>1. WrittenDown(mail)'
        BY <1>6, <3>1, <3>2 DEF WrittenDown
      <4> QED BY <2>5, <3>1, <4>1
    <3>4. \A m \in mailed' : m.mail \notin overlapping => \A u \in Submissions : Rested(u, m)'
      <4>1. ASSUME NEW u \in Submissions \ {s}, x \notin overlapping
            PROVE ~(phase'[u] = "send" /\ posting'[u].mail = x)
        BY <2>3, <2>4, <3>1, <4>1 DEF I!Mailing
      <4>2. \A m \in mailed, u \in Submissions \ {s} : m.mail \notin overlapping => Rested(u, m)'
        BY <1>2, <2>1, <2>3, <3>1
      <4>3. \A m \in mailed' : Rested(s, m)'
        BY <3>1
      <4> QED BY <3>1, <3>2, <4>1, <4>2, <4>3
    <3>5. ASSUME NEW m \in mailed', NEW n \in mailed', I!Pestered(m, n)
          PROVE m.mail \in overlapping \cup unwritten
      <4>1. \A k \in mailed : k.n < Cardinality(mailed)
        BY DEF MailLogInv, Numbered
      <4>2. CASE n \in mailed
        <5>1. m \in mailed
          BY <1>0, <3>1, <3>2, <3>5, <4>1, <4>2 DEF I!Pestered
        <5> QED BY <3>5, <4>2, <5>1 DEF QuietInv, I!MonthOfQuiet
      <4>3. CASE n = mail
        <5>1. m \in mailed /\ m.mail = x /\ today - m.at < Quiet
          BY <1>0, <3>1, <3>2, <3>5, <4>3 DEF I!Pestered
        <5>2. m.mail \in overlapping \cup unwritten \/ m.at <= today - Quiet
          BY <1>2, <1>6, <3>1, <5>1
        <5> QED BY <1>0, <5>1, <5>2
      <4> QED BY <3>1, <4>2, <4>3
    <3> QED BY <1>3, <2>1, <3>1, <3>3, <3>4, <3>5 DEF I!MonthOfQuiet
  <2> QED BY <1>6, <2>7, <2>8, <2>9, <2>10, <2>11, <2>12
<1> QED
  BY <1>4, <1>5, <1>6, MailSteps

LEMMA MailInit == ASSUME I!ConstantsType PROVE I!Init => MailInv
<1> SUFFICES ASSUME I!Init PROVE MailInv
  OBVIOUS
<1>1. I!Nothing \in Postings
  BY DEF I!Nothing, Postings
<1>2. I!TypeOK
  BY <1>1 DEF I!Init, I!TypeOK, I!ConstantsType, Postings
<1>3. MailLogInv /\ IsFiniteSet({}) /\ Cardinality({}) = 0
  BY FS_EmptySet DEF I!Init, MailLogInv, Numbered
<1>4. PostingInv /\ OnePostInv
  BY DEF I!Init, PostingInv, OnePostInv, I!Busy, I!Mailing
<1>5. \A t, r : Per(I!Since({}, t), r) = {}
  BY DEF Per, I!Since
<1>6. LimitInv
  BY <1>3, <1>5 DEF I!Init, LimitInv, I!ConstantsType, Writing
<1>7. QuietInv
  BY DEF I!Init, QuietInv, I!MonthOfQuiet
<1> QED BY <1>2, <1>3, <1>4, <1>6, <1>7 DEF MailInv

LEMMA MailInvariance == ASSUME I!ConstantsType PROVE I!Spec => []MailInv
<1>1. MailInv /\ [I!Next]_(I!vars) => MailInv'
  BY MailTyped, MailLogs, MailHands, MailAlone, LimitsKept, QuietKept DEF MailInv
<1>2. I!Init => MailInv
  BY MailInit
<1> QED BY <1>1, <1>2, PTL DEF I!Spec

\* "an open relay with our domain on the envelope" it is not: in any day a reader's mails stay
\* within the limit, through refusals, deaths, the passing of time and whatever others post
\* meanwhile, unless two submissions of their own overlapped or a mail of theirs could not be
\* written down.
THEOREM RelayIsClosed == ASSUME I!ConstantsType PROVE I!Spec => []I!DailyLimitKept
<1>1. MailInv => I!DailyLimitKept
  <2> SUFFICES ASSUME MailInv, NEW r \in Good
               PROVE Cardinality(Per(I!Since(mailed, today - Day), r)) <= DailyLimit
    BY SameCount DEF I!DailyLimitKept, Per, Good
  <2>1. /\ Cardinality(Per(I!Since(mailed, today - Day), r)) <=
             Cardinality(Per(I!Since(sends, today - Day), r)) + IF Writing(r) THEN 1 ELSE 0
        /\ Cardinality(Per(I!Since(sends, today - Day), r)) <= DailyLimit
    BY DEF MailInv, LimitInv, I!TypeOK, I!ConstantsType
  <2>2. /\ Cardinality(Per(I!Since(mailed, today - Day), r)) \in Nat
        /\ Cardinality(Per(I!Since(sends, today - Day), r)) \in Nat /\ DailyLimit \in Nat
    <3>1. Per(I!Since(mailed, today - Day), r) \subseteq mailed
          /\ Per(I!Since(sends, today - Day), r) \subseteq sends
      BY DEF Per, I!Since
    <3> QED BY <3>1, CountsLess DEF MailInv, MailLogInv, Numbered, I!ConstantsType
  <2>3. CASE ~Writing(r)
    BY <2>1, <2>2, <2>3
  <2>4. ASSUME NEW s \in Submissions, phase[s] = "record", posting[s].reader = r
        PROVE Cardinality(Per(I!Since(sends, today - Day), r)) + 1 <= DailyLimit
    <3>1. /\ posting[s].allowance >= 0
          /\ Cardinality(Per(I!Since(sends, today - Day), r)) + posting[s].allowance + 1 <=
               DailyLimit
      BY <2>4 DEF MailInv, LimitInv
    <3>2. posting[s].allowance \in Int
      BY DEF MailInv, I!TypeOK
    <3> QED BY <2>2, <3>1, <3>2
  <2> QED BY <2>1, <2>2, <2>3, <2>4 DEF Writing
<1> QED BY <1>1, MailInvariance, PTL

\* "A month of quiet after anybody invites an address": nobody is mailed twice in it, whoever
\* asks and however the submissions overlap, unless two of them had that very address in hand at
\* once or a mail to it was not written down.
THEOREM MonthIsQuiet == ASSUME I!ConstantsType PROVE I!Spec => []I!MonthOfQuiet
<1>1. MailInv => I!MonthOfQuiet
  BY DEF MailInv, QuietInv
<1> QED BY <1>1, MailInvariance, PTL
===============================================================================
