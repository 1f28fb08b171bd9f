-------------------------------- MODULE Credits --------------------------------
(***************************************************************************)
(* Credit codes and scarce invites: a code is redeemed, or an invite       *)
(* accepted by a new account, in the tables of two packages, and the days  *)
(* are then granted as terms of the site's own, one to each reader for     *)
(* each reason.  The two are separate statements, and nothing repeats the  *)
(* second but a person.  What the packages do is taken from their use, the *)
(* tests and the tables.                                                   *)
(***************************************************************************)
EXTENDS Integers, FiniteSets

CONSTANTS
  Requests, Users,
  New,        \* accounts that do not exist yet when an instance begins
  Codes, LiveCodes, \* codes, and those of Live TV days; the others are of Premium
  MaxRedemptions,   \* of a code
  Invites,    \* ids of invites
  Quotas,     \* quotas a reader may have; the first is the default
  None,
  MaxFaults   \* bound: failures, deaths, deploys and changes of a quota

\* What the composing module and the proofs assume of them.
ConstantsType ==
  /\ None \notin Users /\ New \subseteq Users
  /\ IsFiniteSet(Invites) /\ MaxFaults \in Nat /\ MaxRedemptions \in Nat
  /\ Quotas \subseteq Nat /\ \E n \in Quotas : \A k \in Quotas : n <= k

VARIABLES
  live,       \* config.live.enabled, which a deploy changes
  code,       \* credit_codes: none, open, expired or revoked
  redeemed,   \* credit_redemptions
  invite,     \* aff_invites: inviter, usedBy, and whether revoked or expired
  quota,      \* aff_quotas
  new,        \* accounts not yet made
  terms,      \* live_passes and memberships that were granted: table, user and grant_ref
  pc, job,    \* a request: where it is, and its reader, code or invite, and bonus
  lost,       \* ghost: grants that failed or died: user and grant_ref
  most,       \* ghost: the largest quota a reader had
  faults

packages == <<code, redeemed, invite, quota>>
requests == <<pc, job>>
vars == <<live, packages, new, terms, requests, lost, most, faults>>

NoJob == [user |-> None, of |-> None, table |-> None]
NoInvite == [inviter |-> None, usedBy |-> None, revoked |-> FALSE, expired |-> FALSE]
Default == CHOOSE n \in Quotas : \A k \in Quotas : n <= k

Init ==
  /\ live \in BOOLEAN
  /\ code = [c \in Codes |-> "none"] /\ redeemed = {}
  /\ invite = [i \in Invites |-> NoInvite]
  /\ quota = [u \in Users |-> Default] /\ most = quota
  /\ new = New /\ terms = {} /\ lost = {}
  /\ pc = [r \in Requests |-> "idle"] /\ job = [r \in Requests |-> NoJob]
  /\ faults = 0

Fault == faults < MaxFaults /\ faults' = faults + 1

Goto(r, at, j) == pc' = [pc EXCEPT ![r] = at] /\ job' = [job EXCEPT ![r] = j]
End(r) == Goto(r, "idle", NoJob)

Usable(table) == table = "premium" \/ live
TableOf(c) == IF c \in LiveCodes THEN "live" ELSE "premium"

\* grantDays: the unique index of the table lets one row in for a reader and a reason.
Granted(user, table, ref) == terms \cup {[user |-> user, table |-> table, ref |-> ref]}

-----------------------------------------------------------------------------
(* Codes.                                                                  *)

\* mintCode, from the command line.
Mint(c) ==
  /\ code[c] = "none" /\ code' = [code EXCEPT ![c] = "open"]
  /\ UNCHANGED <<live, redeemed, invite, quota, new, terms, requests, lost, most, faults>>

RevokeCode(c) ==
  /\ code[c] = "open" /\ code' \in {[code EXCEPT ![c] = s] : s \in {"revoked", "expired"}}
  /\ UNCHANGED <<live, redeemed, invite, quota, new, terms, requests, lost, most, faults>>

\* redeemCode: the unit of the code is looked at before the code is spent.  Nobody has a
\* code before it is minted.
RedeemCode(r, u, c) ==
  /\ pc[r] = "idle" /\ u \notin new /\ code[c] # "none"
  /\ IF ~Usable(TableOf(c)) THEN UNCHANGED requests
     ELSE Goto(r, "redeeming", [user |-> u, of |-> c, table |-> TableOf(c)])
  /\ UNCHANGED <<live, packages, new, terms, lost, most, faults>>

Redeemers(c) == {u \in Users : <<c, u>> \in redeemed}

\* credits.redeem: refused, or spent once for this reader.
Redeem(r) ==
  LET c == job[r].of
      u == job[r].user
  IN
  /\ pc[r] = "redeeming"
  /\ IF code[c] = "open" /\ u \notin Redeemers(c) /\ Cardinality(Redeemers(c)) < MaxRedemptions
     THEN redeemed' = redeemed \cup {<<c, u>>} /\ Goto(r, "granting", job[r])
     ELSE End(r) /\ UNCHANGED redeemed
  /\ UNCHANGED <<live, code, invite, quota, new, terms, lost, most, faults>>

\* onGrant.
Grant(r) ==
  /\ pc[r] = "granting"
  /\ terms' = Granted(job[r].user, job[r].table, <<"code", job[r].of>>)
  /\ End(r)
  /\ UNCHANGED <<live, packages, new, lost, most, faults>>

\* "The code was accepted but the days did not save": the redemption stands.
GrantFails(r) ==
  /\ pc[r] = "granting" /\ Fault
  /\ lost' = lost \cup {[user |-> job[r].user, ref |-> <<"code", job[r].of>>]}
  /\ End(r)
  /\ UNCHANGED <<live, packages, new, terms, most>>

\* The reader writes, and the days are added by hand.
GrantByHand(l) ==
  /\ l \in lost /\ l.ref[1] = "code"
  /\ terms' = Granted(l.user, TableOf(l.ref[2]), l.ref)
  /\ UNCHANGED <<live, packages, new, requests, lost, most, faults>>

-----------------------------------------------------------------------------
(* Invites.                                                                *)

\* Mutation: a withdrawn invite gives its place back even if it was used.
HeldIgnoringUse(u) == {i \in Invites : invite[i].inviter = u /\ ~invite[i].revoked}

\* aff_insert_invite: what counts against the quota.
Held(u) == {i \in Invites :
  invite[i].inviter = u /\ (~invite[i].revoked \/ invite[i].usedBy # None)}

CreateInvite(u, i) ==
  /\ u \notin new /\ invite[i] = NoInvite
  /\ Cardinality(Held(u)) < quota[u]
  /\ invite' = [invite EXCEPT ![i].inviter = u]
  /\ UNCHANGED <<live, code, redeemed, quota, new, terms, requests, lost, most, faults>>

\* revokeInvite: one's own, and unused when it was read.
ReadInvite(r, u, i) ==
  /\ pc[r] = "idle" /\ invite[i].inviter = u /\ invite[i].usedBy = None
  /\ Goto(r, "revoking", [NoJob EXCEPT !.user = u, !.of = i])
  /\ UNCHANGED <<live, packages, new, terms, lost, most, faults>>

RevokeInvite(r) ==
  /\ pc[r] = "revoking"
  /\ invite' = [invite EXCEPT ![job[r].of].revoked = TRUE]
  /\ End(r)
  /\ UNCHANGED <<live, code, redeemed, quota, new, terms, lost, most, faults>>

ExpireInvite(i) ==
  /\ invite[i].inviter # None /\ ~invite[i].expired
  /\ invite' = [invite EXCEPT ![i].expired = TRUE]
  /\ UNCHANGED <<live, code, redeemed, quota, new, terms, requests, lost, most, faults>>

\* An account is made by the emailed link its invite came with: acceptInvite.
AcceptInvite(r, u, i) ==
  /\ pc[r] = "idle" /\ u \in new /\ new' = new \ {u}
  /\ Goto(r, "accepting", [NoJob EXCEPT !.user = u, !.of = i])
  /\ UNCHANGED <<live, packages, terms, lost, most, faults>>

\* aff.redeemInvite, and the bonus, which is decided here.
RedeemInvite(r) ==
  LET i == job[r].of IN
  /\ pc[r] = "accepting"
  /\ IF /\ invite[i].inviter \notin {None, job[r].user} /\ invite[i].usedBy = None
        /\ ~invite[i].revoked /\ ~invite[i].expired
     THEN /\ invite' = [invite EXCEPT ![i].usedBy = job[r].user]
          /\ Goto(r, "invitee", [job[r] EXCEPT !.table = IF live THEN "live" ELSE "premium"])
     ELSE End(r) /\ UNCHANGED invite
  /\ UNCHANGED <<live, code, redeemed, quota, new, terms, lost, most, faults>>

SideOf(r) == IF pc[r] = "invitee" THEN job[r].user ELSE invite[job[r].of].inviter
AfterSide(r) == IF pc[r] = "invitee" THEN Goto(r, "inviter", job[r]) ELSE End(r)

GrantSide(r) ==
  /\ pc[r] \in {"invitee", "inviter"}
  /\ terms' = Granted(SideOf(r), job[r].table, <<pc[r], job[r].of>>)
  /\ AfterSide(r)
  /\ UNCHANGED <<live, packages, new, lost, most, faults>>

\* One side failing does not take the other's days with it.
SideFails(r) ==
  /\ pc[r] \in {"invitee", "inviter"} /\ Fault
  /\ lost' = lost \cup {[user |-> SideOf(r), ref |-> <<pc[r], job[r].of>>]}
  /\ AfterSide(r)
  /\ UNCHANGED <<live, packages, new, terms, most>>

\* credits quota, from the command line.
SetQuota(u, n) ==
  /\ Fault /\ n # quota[u]
  /\ quota' = [quota EXCEPT ![u] = n]
  /\ most' = [most EXCEPT ![u] = IF n > @ THEN n ELSE @]
  /\ UNCHANGED <<live, code, redeemed, invite, new, terms, requests, lost>>

-----------------------------------------------------------------------------
\* What a request that dies had spent and not granted.
Owed(r) ==
  CASE pc[r] = "granting" -> {[user |-> job[r].user, ref |-> <<"code", job[r].of>>]}
    [] pc[r] = "invitee" ->
         {[user |-> job[r].user, ref |-> <<"invitee", job[r].of>>],
          [user |-> invite[job[r].of].inviter, ref |-> <<"inviter", job[r].of>>]}
    [] pc[r] = "inviter" ->
         {[user |-> invite[job[r].of].inviter, ref |-> <<"inviter", job[r].of>>]}
    [] OTHER -> {}

\* The process dies, and comes back with passes switched on or off.
Deploy ==
  /\ Fault
  /\ live' \in BOOLEAN
  /\ lost' = lost \cup UNION {Owed(r) : r \in Requests}
  /\ pc' = [r \in Requests |-> "idle"] /\ job' = [r \in Requests |-> NoJob]
  /\ UNCHANGED <<packages, new, terms, most>>

Next ==
  \/ \E c \in Codes : Mint(c) \/ RevokeCode(c)
  \/ \E r \in Requests, u \in Users :
       \/ \E c \in Codes : RedeemCode(r, u, c)
       \/ \E i \in Invites : ReadInvite(r, u, i) \/ AcceptInvite(r, u, i)
  \/ \E r \in Requests :
       \/ Redeem(r) \/ Grant(r) \/ GrantFails(r)
       \/ RevokeInvite(r) \/ RedeemInvite(r) \/ GrantSide(r) \/ SideFails(r)
  \/ \E l \in lost : GrantByHand(l)
  \/ \E u \in Users, i \in Invites : CreateInvite(u, i)
  \/ \E u \in Users, n \in Quotas : SetQuota(u, n)
  \/ \E i \in Invites : ExpireInvite(i)
  \/ Deploy

Spec == Init /\ [][Next]_vars

-----------------------------------------------------------------------------
Refs == ({"code"} \X Codes) \cup ({"invitee", "inviter"} \X Invites)

TypeOK ==
  /\ live \in BOOLEAN /\ new \subseteq Users
  /\ code \in [Codes -> {"none", "open", "expired", "revoked"}]
  /\ redeemed \subseteq Codes \X Users
  /\ invite \in [Invites -> [inviter : Users \cup {None}, usedBy : Users \cup {None},
                             revoked : BOOLEAN, expired : BOOLEAN]]
  /\ quota \in [Users -> Quotas] /\ most \in [Users -> Quotas]
  /\ terms \subseteq [user : Users, table : {"live", "premium"}, ref : Refs]
  /\ lost \subseteq [user : Users, ref : Refs]
  /\ pc \in [Requests -> {"idle", "redeeming", "granting", "revoking", "accepting",
                          "invitee", "inviter"}]
  /\ job \in [Requests -> [user : Users \cup {None}, of : Codes \cup Invites \cup {None},
                           table : {"live", "premium", None}]]
  /\ faults \in 0 .. MaxFaults

\* What was granted, or is about to be, for what was spent.
Due == (UNION {Owed(r) : r \in Requests}) \cup lost
Has(user, ref) == \E t \in terms : t.user = user /\ t.ref = ref

\* A code that was spent is days its reader has, unless the grant failed or died.
SpentIsGranted == \A x \in redeemed :
  Has(x[2], <<"code", x[1]>>) \/ [user |-> x[2], ref |-> <<"code", x[1]>>] \in Due

\* An accepted invite gives both their days, and a grant that fails costs nobody else's.
BothSidesGranted == \A i \in Invites : invite[i].usedBy # None =>
  /\ Has(invite[i].usedBy, <<"invitee", i>>)
     \/ [user |-> invite[i].usedBy, ref |-> <<"invitee", i>>] \in Due
  /\ Has(invite[i].inviter, <<"inviter", i>>)
     \/ [user |-> invite[i].inviter, ref |-> <<"inviter", i>>] \in Due

\* And every term is for a code that was redeemed or an invite that was accepted, once,
\* however often it is granted.
TermsEarned ==
  /\ \A t \in terms :
       CASE t.ref[1] = "code"    -> <<t.ref[2], t.user>> \in redeemed
         [] t.ref[1] = "invitee" -> invite[t.ref[2]].usedBy = t.user
         [] t.ref[1] = "inviter" ->
              invite[t.ref[2]].inviter = t.user /\ invite[t.ref[2]].usedBy # None
  /\ \A t, s \in terms : t.user = s.user /\ t.ref = s.ref => t = s

\* Nobody brings in more accounts than the largest quota they had, although an invite may
\* be accepted while it is being withdrawn, and withdrawing gives its place back.
InvitesScarce == \A u \in Users :
  Cardinality({i \in Invites : invite[i].inviter = u /\ invite[i].usedBy # None}) <= most[u]

\* Days of Live TV are not spent where nobody could use them.
LiveSpentWhereUsable == \A r \in Requests : pc[r] = "granting" => Usable(job[r].table)
=============================================================================
