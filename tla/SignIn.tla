--------------------------------- MODULE SignIn ---------------------------------
(***************************************************************************)
(* How an account comes into being and is entered: an emailed link, which  *)
(* makes the account and pays the two invites it may carry, and a CoinPay  *)
(* login, bound to the CoinPay account (`sub`) and never to an address.    *)
(* Requests are HTTP requests, each handled once, one statement a step.    *)
(***************************************************************************)
EXTENDS Naturals, FiniteSets

CONSTANTS
  Requests,  \* requests for /auth/magic and the CoinPay callback
  Links,     \* emailed links
  Mails,     \* mailboxes
  Subs,      \* CoinPay accounts
  Owner,     \* the account there is at first
  Fresh,     \* accounts not yet made
  Home,      \* the address of Owner
  None,
  MaxFaults  \* bound: requests that die and grants that fail

Accounts == {Owner} \cup Fresh
Placeholder == "placeholder"

\* What the composing module assumes of them: None is no name of anything, and no mailbox
\* has the address an account without one is given.
ConstantsType ==
  /\ None \notin Accounts \cup Links \cup Mails \cup Subs \cup {Home, Placeholder}
  /\ Placeholder \notin Mails \cup {Home}
  /\ {"invitee", "inviter"} \cap Subs = {}
  /\ MaxFaults \in Nat

VARIABLES
  link,      \* login_tokens: "absent", "sent" or "used"; an expired one is absent
  mailOf,    \* the address a link was sent to
  carries,   \* links with the scarce invite on them, or in the cookie they are opened with
  address,   \* users.email: a mailbox, a placeholder, or None before the row exists
  identity,  \* coinpay_identities: the account a sub is bound to
  sessions,  \* sessions, by the request that began them
  claims,    \* invite_claims: accounts whose commission goes to Owner
  usedBy,    \* the account that spent the invite
  days,      \* free terms: the account and what it is for (grant_ref)
  pc, at,    \* where a request is, and its locals
  faults,
  broken     \* ghost: accounts that were in a request's hands when it died

rows == <<link, mailOf, carries, address, identity, sessions, claims, usedBy, days>>
vars == <<rows, pc, at, faults, broken>>

Idle == [link |-> None, sub |-> None, connect |-> FALSE, me |-> None, code |-> FALSE,
         scarce |-> FALSE, account |-> None, created |-> FALSE]
Exists(a) == address[a] # None
Bound(a) == \E s \in Subs : identity[s] = a

Init ==
  /\ link = [l \in Links |-> "absent"] /\ mailOf = [l \in Links |-> None] /\ carries = {}
  /\ address = [a \in Accounts |-> IF a = Owner THEN Home ELSE None]
  /\ identity = [s \in Subs |-> None]
  /\ sessions = {} /\ claims = {} /\ usedBy = None /\ days = {}
  /\ pc = [r \in Requests |-> "idle"] /\ at = [r \in Requests |-> Idle]
  /\ faults = 0 /\ broken = {}

Goto(r, label) == pc' = [pc EXCEPT ![r] = label]
Know(r, locals) == at' = [at EXCEPT ![r] = locals]
Keep == UNCHANGED <<faults, broken>>

-----------------------------------------------------------------------------
(* The emailed link.                                                       *)

\* POST /api/auth/magic: createLoginLink, whether or not the address is known.
SendLink(l, m, scarce) ==
  /\ link[l] = "absent" /\ mailOf[l] = None
  /\ link' = [link EXCEPT ![l] = "sent"]
  /\ mailOf' = [mailOf EXCEPT ![l] = m]
  /\ carries' = IF scarce THEN carries \cup {l} ELSE carries
  /\ UNCHANGED <<address, identity, sessions, claims, usedBy, days, pc, at>> /\ Keep

Expire(l) ==
  /\ link[l] = "sent"
  /\ link' = [link EXCEPT ![l] = "absent"]
  /\ UNCHANGED <<mailOf, carries, address, identity, sessions, claims, usedBy, days, pc, at>>
  /\ Keep

\* GET /auth/magic, with or without the cookie of a commission link.
OpenLink(r, l, cookie) ==
  /\ pc[r] = "idle" /\ mailOf[l] # None
  /\ Goto(r, "consume")
  /\ Know(r, [Idle EXCEPT !.link = l, !.code = cookie])
  /\ UNCHANGED rows /\ Keep

\* Mutation: the link is read, and marked in a statement of its own.
ConsumeReadOnly(r) ==
  LET l == at[r].link IN
  /\ pc[r] = "consume"
  /\ Goto(r, IF link[l] = "absent" THEN "done" ELSE "find")
  /\ link' = IF link[l] = "absent" THEN link ELSE [link EXCEPT ![l] = "used"]
  /\ Know(r, [at[r] EXCEPT !.scarce = l \in carries])
  /\ UNCHANGED <<mailOf, carries, address, identity, sessions, claims, usedBy, days>> /\ Keep

\* consumeLoginToken: the update is the guard.  takeSignupProfile and loginTokenInvite
\* read a row that nobody else gets to any more.
Consume(r) ==
  LET l == at[r].link IN
  /\ pc[r] = "consume"
  /\ IF link[l] = "sent"
     THEN /\ link' = [link EXCEPT ![l] = "used"]
          /\ Know(r, [at[r] EXCEPT !.scarce = l \in carries])
          /\ Goto(r, "find")
     ELSE Goto(r, "done") /\ UNCHANGED <<link, at>>
  /\ UNCHANGED <<mailOf, carries, address, identity, sessions, claims, usedBy, days>> /\ Keep

\* Mutation: an account nobody has signed in to yet counts as made just now.
FindOrCreateByUse(r) ==
  LET m == mailOf[at[r].link]
      old == {a \in Accounts : address[a] = m}
  IN
  /\ pc[r] = "find"
  /\ \E a \in IF old # {} THEN old ELSE {b \in Fresh : ~Exists(b)} :
       /\ address' = [address EXCEPT ![a] = m]
       /\ Know(r, [at[r] EXCEPT !.account = a,
                     !.created = ~\E s \in sessions : s.account = a])
  /\ Goto(r, "session")
  /\ UNCHANGED <<link, mailOf, carries, identity, sessions, claims, usedBy, days>> /\ Keep

\* One upsert, which says which half it did.
FindOrCreate(r) ==
  LET m == mailOf[at[r].link]
      old == {a \in Accounts : address[a] = m}
  IN
  /\ pc[r] = "find"
  /\ \E a \in IF old # {} THEN old ELSE {b \in Fresh : ~Exists(b)} :
       /\ address' = [address EXCEPT ![a] = m]
       /\ Know(r, [at[r] EXCEPT !.account = a, !.created = (old = {})])
  /\ Goto(r, "session")
  /\ UNCHANGED <<link, mailOf, carries, identity, sessions, claims, usedBy, days>> /\ Keep

\* startSession, for either way in.
StartSession(r) ==
  /\ pc[r] = "session"
  /\ sessions' = sessions \cup {[by |-> r, account |-> at[r].account]}
  /\ Goto(r, IF at[r].link = None THEN "done" ELSE IF at[r].code THEN "claim"
             ELSE IF at[r].scarce THEN "redeem" ELSE "done")
  /\ UNCHANGED <<link, mailOf, carries, address, identity, claims, usedBy, days, at>> /\ Keep

\* claimInvite, only for an account this link made; it never throws.
ClaimInvite(r) ==
  LET a == at[r].account IN
  /\ pc[r] = "claim"
  /\ claims' = IF at[r].created /\ a # Owner THEN claims \cup {a} ELSE claims
  /\ Goto(r, IF at[r].scarce THEN "redeem" ELSE "done")
  /\ UNCHANGED <<link, mailOf, carries, address, identity, sessions, usedBy, days, at>> /\ Keep

\* acceptInvite up to redeemInvite, which spends the invite or refuses.
RedeemInvite(r) ==
  /\ pc[r] = "redeem"
  /\ IF at[r].created /\ usedBy = None
     THEN usedBy' = at[r].account /\ Goto(r, "invitee")
     ELSE Goto(r, "done") /\ UNCHANGED usedBy
  /\ UNCHANGED <<link, mailOf, carries, address, identity, sessions, claims, days, at>> /\ Keep

\* The two grants, each in a try of its own, each once per account and reference.
GrantSide(r, side, who, then) ==
  /\ pc[r] = side
  /\ \/ days' = days \cup {[account |-> who, for |-> side]} /\ UNCHANGED <<faults, broken>>
     \/ /\ faults < MaxFaults /\ faults' = faults + 1
        /\ broken' = broken \cup {at[r].account}
        /\ UNCHANGED days
  /\ Goto(r, then)
  /\ UNCHANGED <<link, mailOf, carries, address, identity, sessions, claims, usedBy, at>>
GrantInvitee(r) == GrantSide(r, "invitee", at[r].account, "inviter")
GrantInviter(r) == GrantSide(r, "inviter", Owner, "done")

-----------------------------------------------------------------------------
(* CoinPay.                                                                *)

\* The callback, after CoinPay has vouched for a sub; me is whoever is signed in.
Callback(r, s, connect, me) ==
  /\ pc[r] = "idle"
  /\ me \in {None} \cup {a \in Accounts : Exists(a)}
  /\ connect => me # None
  /\ Goto(r, "bound")
  /\ Know(r, [Idle EXCEPT !.sub = s, !.connect = connect, !.me = me])
  /\ UNCHANGED rows /\ Keep

Resolved(r, a) == Know(r, [at[r] EXCEPT !.account = a]) /\ Goto(r, "pass")

\* identityBySub, and what it leads to.
ReadIdentity(r) ==
  LET a == identity[at[r].sub]
      me == at[r].me
  IN
  /\ pc[r] = "bound"
  /\ \/ a # None /\ (at[r].connect => a = me) /\ Resolved(r, a)
     \/ a = None /\ ~at[r].connect /\ Goto(r, "create") /\ UNCHANGED at
     \/ /\ a = None /\ at[r].connect /\ ~Bound(me)
        /\ Know(r, [at[r] EXCEPT !.account = me]) /\ Goto(r, "link")
     \/ /\ at[r].connect /\ (IF a = None THEN Bound(me) ELSE a # me)
        /\ Goto(r, "done") /\ UNCHANGED at
  /\ UNCHANGED rows /\ Keep

CreateUser(r) ==
  /\ pc[r] = "create"
  /\ \E a \in {b \in Fresh : ~Exists(b)} :
       /\ address' = [address EXCEPT ![a] = Placeholder]
       /\ Know(r, [at[r] EXCEPT !.account = a])
  /\ Goto(r, "link")
  /\ UNCHANGED <<link, mailOf, carries, identity, sessions, claims, usedBy, days>> /\ Keep

\* Mutation: whoever comes last is bound.
LinkIdentityLast(r) ==
  LET s == at[r].sub IN
  /\ pc[r] = "link"
  /\ identity' = [identity EXCEPT ![s] = at[r].account]
  /\ Goto(r, "pass")
  /\ UNCHANGED <<link, mailOf, carries, address, sessions, claims, usedBy, days, at>> /\ Keep

\* linkCoinpayIdentity: on conflict, of the sub or of the account, do nothing.
LinkIdentity(r) ==
  LET s == at[r].sub
      a == at[r].account
  IN
  /\ pc[r] = "link"
  /\ IF identity[s] = None /\ ~Bound(a)
     THEN identity' = [identity EXCEPT ![s] = a] /\ Goto(r, "pass")
     ELSE Goto(r, IF at[r].connect THEN "done" ELSE "delete") /\ UNCHANGED identity
  /\ UNCHANGED <<link, mailOf, carries, address, sessions, claims, usedBy, days, at>> /\ Keep

\* The account made for nothing goes (a failure is swallowed), and the sub is read again.
DeleteUser(r) ==
  LET a == at[r].account IN
  /\ pc[r] = "delete"
  /\ \/ address' = [address EXCEPT ![a] = None] /\ UNCHANGED <<faults, broken>>
     \/ /\ faults < MaxFaults /\ faults' = faults + 1
        /\ broken' = broken \cup {a}
        /\ UNCHANGED address
  /\ Know(r, [at[r] EXCEPT !.account = None]) /\ Goto(r, "again")
  /\ UNCHANGED <<link, mailOf, carries, identity, sessions, claims, usedBy, days>>

ReadAgain(r) ==
  LET a == identity[at[r].sub] IN
  /\ pc[r] = "again"
  /\ IF a # None THEN Resolved(r, a) ELSE Goto(r, "done") /\ UNCHANGED at
  /\ UNCHANGED rows /\ Keep

\* grantCoinpayPass, once per account and pass; then a session unless there is one.
GrantPass(r) ==
  LET a == at[r].account IN
  /\ pc[r] = "pass"
  /\ days' = days \cup {[account |-> a, for |-> at[r].sub]}
  /\ Goto(r, IF at[r].connect \/ at[r].me = a THEN "done" ELSE "session")
  /\ UNCHANGED <<link, mailOf, carries, address, identity, sessions, claims, usedBy, at>> /\ Keep

\* Mutation: an account may be left without a way in.
DisconnectAny(a) ==
  /\ Bound(a)
  /\ identity' = [s \in Subs |-> IF identity[s] = a THEN None ELSE identity[s]]
  /\ UNCHANGED <<link, mailOf, carries, address, sessions, claims, usedBy, days, pc, at>> /\ Keep

\* disconnectCoinpay: refused when there is no other way in.
Disconnect(a) ==
  /\ Bound(a) /\ address[a] # Placeholder
  /\ identity' = [s \in Subs |-> IF identity[s] = a THEN None ELSE identity[s]]
  /\ UNCHANGED <<link, mailOf, carries, address, sessions, claims, usedBy, days, pc, at>> /\ Keep

Dies(r) ==
  /\ pc[r] \notin {"idle", "done"} /\ faults < MaxFaults
  /\ faults' = faults + 1
  /\ broken' = broken \cup ({at[r].account} \cap Accounts)
  /\ Goto(r, "done")
  /\ UNCHANGED <<rows, at>>

Next ==
  \/ \E l \in Links : Expire(l) \/ \E m \in Mails, scarce \in BOOLEAN : SendLink(l, m, scarce)
  \/ \E r \in Requests :
       \/ \E l \in Links, cookie \in BOOLEAN : OpenLink(r, l, cookie)
       \/ \E s \in Subs, connect \in BOOLEAN, me \in Accounts \cup {None} :
            Callback(r, s, connect, me)
       \/ Consume(r) \/ FindOrCreate(r) \/ StartSession(r) \/ ClaimInvite(r)
       \/ RedeemInvite(r) \/ GrantInvitee(r) \/ GrantInviter(r)
       \/ ReadIdentity(r) \/ CreateUser(r) \/ LinkIdentity(r) \/ DeleteUser(r)
       \/ ReadAgain(r) \/ GrantPass(r) \/ Dies(r)
  \/ \E a \in Accounts : Disconnect(a)

Spec == Init /\ [][Next]_vars

-----------------------------------------------------------------------------
(* Properties.                                                             *)

TypeOK ==
  /\ link \in [Links -> {"absent", "sent", "used"}] /\ mailOf \in [Links -> Mails \cup {None}]
  /\ carries \subseteq Links /\ address \in [Accounts -> Mails \cup {Home, Placeholder, None}]
  /\ identity \in [Subs -> Accounts \cup {None}]
  /\ sessions \subseteq [by : Requests, account : Accounts]
  /\ claims \subseteq Accounts /\ usedBy \in Accounts \cup {None}
  /\ days \subseteq [account : Accounts, for : {"invitee", "inviter"} \cup Subs]
  /\ pc \in [Requests -> {"idle", "consume", "find", "session", "claim", "redeem", "invitee",
                          "inviter", "bound", "create", "link", "delete", "again", "pass", "done"}]
  /\ at \in [Requests -> [link : Links \cup {None}, sub : Subs \cup {None}, connect : BOOLEAN,
                          me : Accounts \cup {None}, code : BOOLEAN, scarce : BOOLEAN,
                          account : Accounts \cup {None}, created : BOOLEAN]]
  /\ faults \in 0 .. MaxFaults /\ broken \subseteq Accounts

\* "Spent on first use ... a replayed link is inert" (consumeLoginToken): however often
\* and however close together a link is opened, it begins one session.
OneSessionPerLink ==
  \A s, t \in sessions : at[s.by].link # None /\ at[s.by].link = at[t.by].link => s = t

\* A commission is paid against an account only if the very sign-in that carried the
\* code made it, whoever else signs in to that address meanwhile.
CreditedOnce ==
  \A q, r \in Requests : at[q].created /\ at[r].created /\ at[q].account = at[r].account => q = r

\* A scarce invite pays the one account that spent it, and its inviter only with it.
InvitePaysItsUser ==
  /\ \A d \in days : d.for = "invitee" => d.account = usedBy
  /\ \A d \in days : d.for = "inviter" => [account |-> usedBy, for |-> "invitee"] \in days
                                          \/ usedBy \in broken

\* What is paid for an arrival is paid once, and to whom it is due.
RewardsOnce == CreditedOnce /\ InvitePaysItsUser

\* Two first logins of one CoinPay account, or a login and a connect, end in one
\* account: none is left that nobody can enter, unless a request died with it in hand.
InHand(a) == \E r \in Requests : at[r].account = a /\ pc[r] \in {"link", "delete"}
NobodyLockedOut ==
  \A a \in Accounts : address[a] = Placeholder => Bound(a) \/ InHand(a) \/ a \in broken

\* Once an identity is bound it is never moved to another account, only released.
BindingNeverMoves ==
  [][\A s \in Subs : identity[s] # None /\ identity'[s] # identity[s] => identity'[s] = None]_vars
=============================================================================
