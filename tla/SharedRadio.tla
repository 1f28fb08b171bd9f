------------------------------ MODULE SharedRadio ------------------------------
(***************************************************************************)
(* SiriusXM lines opened to other readers: who may hear one, what its      *)
(* owner has asked for, the pages drawn for one, and the tune addresses    *)
(* under which a line is heard.  The session itself is RadioSession's, the *)
(* bytes are UpstreamCache's.                                              *)
(***************************************************************************)
EXTENDS Naturals

CONSTANTS
  Owners, Readers,  \* the readers who may own a line, and all of them
  Requests,         \* what a player asks for: a station's playlist, or what one points at
  Edits,            \* the owners' requests about their audience
  None,
  MaxMinted         \* bound: tunes

Audiences == {"none", "friends", "everyone"}  \* SHARE_AUDIENCES
Addresses == 1 .. MaxMinted
Idle == [by |-> None, what |-> None, whom |-> None, paid |-> FALSE]

\* What the composing module and the proofs assume of them.
ConstantsType == /\ Owners \subseteq Readers /\ MaxMinted \in Nat
                 /\ None \notin Readers /\ None \notin Addresses
                 /\ None \notin Audiences \cup {"name", "remove"}

VARIABLES
  line,     \* siriusxm_sessions: the row's share_audience, or None where there is no row
  grants,   \* siriusxm_share_grants: <<owner, listener>>
  members,  \* the owners with a membership
  edit,     \* an edit past its gate: by whom, what for, and whom it names
  page,     \* the line a reader's page was drawn for, or None
  pc, at,   \* a request: where it is; over whose line, for which address
  tuned,    \* tunes: the address held for a line, or None
  lineOf,   \* the lines the addresses were minted for, in order
  fresh,    \* the addresses minted less than TUNE_TTL_MS ago
  chosen,   \* ghost: the audience the owner last asked for, entitled to, for this row
  named,    \* ghost: whom the owner has named, entitled to, and not taken off, for this row
  crossed,  \* ghost: the lines over which two requests were minting at once
  kept      \* sharedFetch: the addresses whose bytes are in memory

rows == <<line, grants, chosen, named>>
tunes == <<tuned, lineOf, fresh, crossed>>
listening == <<pc, at, kept>>
vars == <<rows, members, edit, page, listening, tunes>>

Silent == [line |-> None, address |-> None, opened |-> FALSE]

Init ==
  /\ line = [o \in Owners |-> None] /\ grants = {} /\ members = {}
  /\ edit = [e \in Edits |-> Idle] /\ page = [v \in Readers |-> None]
  /\ pc = [r \in Requests |-> "idle"] /\ at = [r \in Requests |-> Silent]
  /\ tuned = [o \in Owners |-> None] /\ lineOf = [n \in {} |-> None] /\ fresh = {}
  /\ chosen = [o \in Owners |-> "none"] /\ named = {} /\ crossed = {} /\ kept = {}

-----------------------------------------------------------------------------
(* The row, and what hangs on it.                                          *)

\* saveSiriusXm makes a row that is open to nobody; over a row it keeps the audience,
\* which changes nothing here.
Connect(o) ==
  /\ line[o] = None
  /\ line' = [line EXCEPT ![o] = "none"]
  /\ UNCHANGED <<grants, chosen, named, members, edit, page, listening, tunes>>

\* deleteSiriusXm: the grants hang on the row and go with it. The tunes stay.
Disconnect(o) ==
  /\ line[o] # None
  /\ line' = [line EXCEPT ![o] = None] /\ grants' = {g \in grants : g[1] # o}
  /\ chosen' = [chosen EXCEPT ![o] = "none"] /\ named' = {g \in named : g[1] # o}
  /\ UNCHANGED <<members, edit, page, listening, tunes>>

\* A membership is bought, or is over.
Membership(o) ==
  /\ members' = IF o \in members THEN members \ {o} ELSE members \cup {o}
  /\ UNCHANGED <<rows, edit, page, listening, tunes>>

-----------------------------------------------------------------------------
(* The owner's edits: the gate is read first, the statement made after.    *)

\* POST /api/radio/share: naming people is premium, the other two audiences are free.
AskShare(e, o, audience) ==
  /\ edit[e] = Idle
  /\ audience = "friends" => o \in members
  /\ edit' = [edit EXCEPT ![e] =
       [by |-> o, what |-> audience, whom |-> None, paid |-> o \in members]]
  /\ UNCHANGED <<rows, members, page, listening, tunes>>

\* setSiriusXmSharing: there may be no line to share by now.
SetSharing(e) ==
  LET o == edit[e].by IN
  /\ edit[e].what \in Audiences
  /\ edit' = [edit EXCEPT ![e] = Idle]
  /\ IF line[o] = None THEN UNCHANGED <<line, chosen>>
     ELSE /\ line' = [line EXCEPT ![o] = edit[e].what]
          /\ chosen' = IF edit[e].what = "friends" /\ ~edit[e].paid THEN chosen
                       ELSE [chosen EXCEPT ![o] = edit[e].what]
  /\ UNCHANGED <<grants, named, members, page, listening, tunes>>

\* POST /api/radio/share/grant: "removal is never gated".
AskGrant(e, o, v, what) ==
  /\ edit[e] = Idle /\ v # o
  /\ what = "name" => o \in members
  /\ edit' = [edit EXCEPT ![e] =
       [by |-> o, what |-> what, whom |-> v, paid |-> o \in members]]
  /\ UNCHANGED <<rows, members, page, listening, tunes>>

\* setSiriusXmShareGrant, which selects through the owner's own row.
SetGrant(e) ==
  LET o == edit[e].by  pair == <<o, edit[e].whom>> IN
  /\ edit[e].what \in {"name", "remove"}
  /\ edit' = [edit EXCEPT ![e] = Idle]
  /\ IF edit[e].what = "remove"
     THEN grants' = grants \ {pair} /\ named' = named \ {pair}
     ELSE IF line[o] = None THEN UNCHANGED <<grants, named>>
     ELSE /\ grants' = grants \cup {pair}
          /\ named' = IF edit[e].paid THEN named \cup {pair} ELSE named
  /\ UNCHANGED <<line, chosen, members, page, listening, tunes>>

-----------------------------------------------------------------------------
(* Whose line.                                                             *)

Opened(o, v) == line[o] = "everyone" \/ (line[o] = "friends" /\ <<o, v>> \in grants)

\* sharedSiriusXmOwners.
Offered(v) == {o \in Owners \ {v} : Opened(o, v)}

\* sharedSiriusXmOwner, which authorises every play; the owner always reaches their own.
Shared(o, v) == line[o] # None /\ (o = v \/ Opened(o, v))

\* A session sealed under a vault that is locked is there but is not one's own to play.
HasOwn(v) == IF v \in Owners /\ line[v] # None THEN BOOLEAN ELSE {FALSE}

\* One's own line, or the first of those offered, whichever opened first.
Default(v, own) == IF own THEN {v} ELSE IF Offered(v) = {} THEN {None} ELSE Offered(v)

\* GET /radio: the line asked for, if it is among those offered.
RadioPage(v, via) ==
  /\ \E own \in HasOwn(v) :
       \E o \in IF via \in Offered(v) THEN {via} ELSE Default(v, own) :
         page' = [page EXCEPT ![v] = o]
  /\ UNCHANGED <<rows, members, edit, listening, tunes>>

\* radioSharedOwnerFor, for the pages of a fixture and of a team.
GamePage(v) ==
  /\ \E own \in HasOwn(v) : \E o \in Default(v, own) : page' = [page EXCEPT ![v] = o]
  /\ UNCHANGED <<rows, members, edit, listening, tunes>>

\* GET /radio/find, the feeds of a game: over the line the page names if that is still shared,
\* "the page's say-so is not enough", and over one's own if it names none.
Find(v, via) ==
  /\ \/ via # None /\ Shared(via, v) /\ page' = [page EXCEPT ![v] = via]
     \/ via = None /\ TRUE \in HasOwn(v) /\ page' = [page EXCEPT ![v] = v]
  /\ UNCHANGED <<rows, members, edit, listening, tunes>>

-----------------------------------------------------------------------------
(* Listening.                                                              *)

\* Whom the owner means to hear the line.
Meant(o, v) == chosen[o] = "everyone" \/ (chosen[o] = "friends" /\ <<o, v>> \in named)

Asks(r, v, o, address, step) ==
  /\ pc[r] = "idle"
  /\ pc' = [pc EXCEPT ![r] = step]
  /\ at' = [at EXCEPT ![r] =
       [line |-> o, address |-> address, opened |-> o # None /\ (o = v \/ Meant(o, v))]]
  /\ UNCHANGED <<rows, members, edit, page, tunes, kept>>

\* GET /radio/stream.m3u8, and /radio/shared/:owner/stream.m3u8: from a page that may have
\* been drawn long ago.
Stream(r, v) ==
  /\ page[v] # None
  /\ page[v] # v => Shared(page[v], v)
  /\ Asks(r, v, page[v], None, "tuning")

\* GET /radio/proxy: what a playlist pointed at, however long ago, and whoever it was handed
\* to, asked for over one's own line.
Proxy(r, v, n) ==
  /\ n \in DOMAIN lineOf
  /\ Asks(r, v, IF v \in Owners THEN v ELSE None, n, "asking")

\* GET /radio/shared/:owner/proxy: over a line that is shared now, and any address just so.
SharedProxy(r, v, o, n) ==
  /\ n \in DOMAIN lineOf /\ Shared(o, v)
  /\ Asks(r, v, o, n, "asking")

\* tune: the address that is held, or the way to another.
Tune(r) ==
  LET o == at[r].line IN
  /\ pc[r] = "tuning"
  /\ IF tuned[o] # None
     THEN /\ pc' = [pc EXCEPT ![r] = "asking"]
          /\ at' = [at EXCEPT ![r].address = tuned[o]]
          /\ UNCHANGED crossed
     ELSE /\ pc' = [pc EXCEPT ![r] = "minting"] /\ UNCHANGED at
          /\ crossed' = IF \E q \in Requests : pc[q] = "minting" /\ at[q].line = o
                        THEN crossed \cup {o} ELSE crossed
  /\ UNCHANGED <<rows, members, edit, page, tuned, lineOf, fresh, kept>>

\* tuneChannel answers: the address is held over any that came meanwhile.
Mint(r) ==
  \E n \in Addresses :
    /\ pc[r] = "minting" /\ DOMAIN lineOf = 1 .. n - 1
    /\ tuned' = [tuned EXCEPT ![at[r].line] = n] /\ fresh' = fresh \cup {n}
    /\ lineOf' = [m \in 1 .. n |-> IF m = n THEN at[r].line ELSE lineOf[m]]
    /\ pc' = [pc EXCEPT ![r] = "asking"] /\ at' = [at EXCEPT ![r].address = n]
    /\ UNCHANGED <<rows, members, edit, page, crossed, kept>>

Ends(r) == pc' = [pc EXCEPT ![r] = "idle"] /\ at' = [at EXCEPT ![r] = Silent]

\* radioFetch: sharedFetch goes by the address alone, so what is in memory or on its way is
\* given to whoever names it, and no line is used.
Collapsed(n) == n \in kept \/ \E q \in Requests : pc[q] = "fetching" /\ at[q].address = n
Collapse(r) ==
  /\ pc[r] = "asking" /\ Collapsed(at[r].address)
  /\ Ends(r)
  /\ UNCHANGED <<rows, members, edit, page, tunes, kept>>

\* The first to ask fetches, with the bearer of the line it asks over.
Fetch(r) ==
  /\ pc[r] = "asking" /\ ~Collapsed(at[r].address) /\ at[r].line # None
  /\ pc' = [pc EXCEPT ![r] = "fetching"]
  /\ UNCHANGED <<rows, members, edit, page, at, tunes, kept>>

\* radioResource: bytes, which are held for a while, or whatever failed on the way. What a
\* refusal drops is the bearer of the line (RadioSession's Refused).
Reply(r) ==
  /\ pc[r] \in {"minting", "asking", "fetching"}
  /\ Ends(r)
  /\ kept' \in {kept} \cup IF pc[r] = "fetching" THEN {kept \cup {at[r].address}} ELSE {}
  /\ UNCHANGED <<rows, members, edit, page, tunes>>

\* MANIFEST_TTL_MS or SEGMENT_TTL_MS is over, or there was no room.
Forget(n) ==
  /\ n \in kept /\ kept' = kept \ {n}
  /\ UNCHANGED <<rows, members, edit, page, pc, at, tunes>>

\* TUNE_TTL_MS is over for an address; tunes may hold a later one by then.
Lapse(n) ==
  /\ n \in fresh
  /\ fresh' = fresh \ {n}
  /\ tuned' = [o \in Owners |-> IF tuned[o] = n THEN None ELSE tuned[o]]
  /\ UNCHANGED <<rows, members, edit, page, listening, lineOf, crossed>>

Next ==
  \/ \E o \in Owners : Connect(o) \/ Disconnect(o) \/ Membership(o)
  \/ \E e \in Edits, o \in Owners, audience \in Audiences : AskShare(e, o, audience)
  \/ \E e \in Edits, o \in Owners, v \in Readers, what \in {"name", "remove"} :
       AskGrant(e, o, v, what)
  \/ \E e \in Edits : SetSharing(e) \/ SetGrant(e)
  \/ \E v \in Readers, via \in Owners \cup {None} : RadioPage(v, via) \/ Find(v, via)
  \/ \E v \in Readers : GamePage(v)
  \/ \E r \in Requests, v \in Readers : Stream(r, v)
  \/ \E r \in Requests, v \in Readers, n \in Addresses :
       Proxy(r, v, n) \/ \E o \in Owners : SharedProxy(r, v, o, n)
  \/ \E r \in Requests : Tune(r) \/ Mint(r) \/ Collapse(r) \/ Fetch(r) \/ Reply(r)
  \/ \E n \in Addresses : Lapse(n) \/ Forget(n)

Spec == Init /\ [][Next]_vars

-----------------------------------------------------------------------------
TypeOK ==
  /\ line \in [Owners -> Audiences \cup {None}] /\ grants \subseteq Owners \X Readers
  /\ members \subseteq Owners /\ page \in [Readers -> Owners \cup {None}]
  /\ edit \in [Edits -> {Idle} \cup [by : Owners, what : Audiences, whom : {None}, paid : BOOLEAN]
       \cup [by : Owners, what : {"name", "remove"}, whom : Readers, paid : BOOLEAN]]
  /\ pc \in [Requests -> {"idle", "tuning", "minting", "asking", "fetching"}]
  /\ at \in [Requests -> [line : Owners \cup {None},
                          address : Addresses \cup {None}, opened : BOOLEAN]]
  /\ tuned \in [Owners -> Addresses \cup {None}] /\ fresh \subseteq Addresses
  /\ \E n \in 0 .. MaxMinted : lineOf \in [1 .. n -> Owners]
  /\ chosen \in [Owners -> Audiences] /\ named \subseteq Owners \X Readers
  /\ crossed \subseteq Owners /\ kept \subseteq Addresses

\* No line is tuned or fetched over for anybody whom its owner did not mean to hear it when
\* they asked: not by a page drawn before, an address handed out before, a name given on a row
\* since removed, or an audience the owner was no longer entitled to ask for. (Bytes that are in
\* memory by then are not the line's to refuse: see Collapse.)
UsedAsMeant == \A r \in Requests : pc[r] \in {"tuning", "minting", "fetching"} => at[r].opened

\* "A manifest refresh every few seconds does not mint one every few seconds": one address a
\* line within TUNE_TTL_MS, unless two requests found none at once.
OneAddress ==
  \A n, m \in fresh : lineOf[n] = lineOf[m] /\ lineOf[n] \notin crossed => n = m

\* Nobody stays named on a line that was removed.
NamesGoWithTheLine == \A g \in grants : line[g[1]] # None
=============================================================================
