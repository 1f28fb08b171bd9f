------------------------------ MODULE StreamSlots ------------------------------
(***************************************************************************)
(* The stream proxy and its registry of slots: requests for streams on one *)
(* account's provider line (claimStreamSlot, openStream and the three      *)
(* stream.ts routes).  A request suspends at every await, so presses,      *)
(* claims, answers of the provider and departures interleave.  Requests in *)
(* Viewers come through the shared route from somebody who is not the      *)
(* owner; the others are the owner's.                                      *)
(***************************************************************************)
EXTENDS Integers, Sequences, FiniteSets, SequencesExt

CONSTANTS
  Requests,  \* requests for a stream, each made at most once
  Viewers,   \* those of readers the list is shared with
  MaxLine,   \* bound: the largest number of connections a reader or panel names
  Ceiling,   \* config.playlists.proxy.maxPerUser
  Sniffs,    \* BOOLEAN: some channels answer with an unknown content type
  Leaves     \* BOOLEAN: readers may leave

ASSUME SlotsAssumption ==
  /\ IsFiniteSet(Requests) /\ Viewers \subseteq Requests
  /\ MaxLine \in Nat \ {0} /\ Ceiling \in Nat \ {0}
  /\ Sniffs \in BOOLEAN /\ Leaves \in BOOLEAN

Settings == 0 .. MaxLine    \* 0 is null

VARIABLES
  chosen,   \* line_connections, the reader's setting
  panel,    \* panel_connections, what the provider reports
  slots,    \* the account's registry, oldest claim first
  pc,       \* where each request is
  press,    \* when each request was made, as its position among them
  allow,    \* the allowance the request has read
  left,     \* requests whose reader has left
  aborted,  \* requests whose controller has been aborted
  linked,   \* requests whose controller closes the provider connection
  conn      \* requests whose provider connection is open

settings == <<chosen, panel>>
vars == <<settings, slots, pc, press, allow, left, aborted, linked, conn>>

Stages == {"idle", "asked", "allowed", "connecting", "sniffing", "marking",
           "streaming", "done"}
Active == {"connecting", "sniffing", "marking", "streaming"}

TypeOK ==
  /\ chosen \in Settings /\ panel \in Settings
  /\ slots \in Seq(Requests)
  /\ pc \in [Requests -> Stages]
  /\ press \in [Requests -> Nat]
  /\ allow \in [Requests -> 1 .. Ceiling]
  /\ left \subseteq Requests /\ aborted \subseteq Requests
  /\ linked \subseteq Requests /\ conn \subseteq Requests

Init ==
  /\ chosen \in Settings /\ panel \in Settings
  /\ slots = <<>>
  /\ pc = [r \in Requests |-> "idle"]
  /\ press = [r \in Requests |-> 0]
  /\ allow = [r \in Requests |-> 1]
  /\ left = {} /\ aborted = {} /\ linked = {} /\ conn = {}

-----------------------------------------------------------------------------
(* What the line permits.                                                  *)

Least(a, b) == IF a < b THEN a ELSE b

\* Mutation: a line about which nothing is known permits nothing.
LineAllowanceOfNobody ==
  LET wanted == IF chosen # 0 THEN chosen ELSE panel
      held   == IF panel # 0 THEN Least(wanted, panel) ELSE wanted
  IN  Least(held, Ceiling)

\* The quietest of three voices; one where neither the reader nor the panel says.
LineAllowance ==
  LET wanted == IF chosen # 0 THEN chosen ELSE IF panel # 0 THEN panel ELSE 1
      held   == IF panel # 0 THEN Least(wanted, panel) ELSE wanted
  IN  Least(held, Ceiling)

SetConnections(n) ==
  /\ chosen' = n
  /\ UNCHANGED <<panel, slots, pc, press, allow, left, aborted, linked, conn>>

RecordPanel(n) ==
  /\ panel' = n
  /\ UNCHANGED <<chosen, slots, pc, press, allow, left, aborted, linked, conn>>

-----------------------------------------------------------------------------
(* The registry.                                                           *)

Held(r) == Contains(slots, r)

\* entry.release: idempotent.
Released(r) ==
  IF Held(r) THEN RemoveAt(slots, CHOOSE i \in DOMAIN slots : slots[i] = r) ELSE slots

\* Mutation: one eviction instead of the loop.
KeptOfOneEviction(max) == IF Len(slots) < max THEN slots ELSE Tail(slots)

\* What the eviction loop of claimStreamSlot leaves: the newest max - 1.
Kept(max) ==
  IF Len(slots) < max THEN slots ELSE SubSeq(slots, Len(slots) - max + 2, Len(slots))

\* Mutation: the slots of an emptied account are not attached again.
RegisteredDetached(r, kept) == IF kept = <<>> THEN <<>> ELSE Append(kept, r)

Registered(r, kept) == Append(kept, r)

\* Mutation: eviction is bookkeeping only.
ClosedByNobody(rs) == {}

\* Aborting the controllers of rs closes the connections still linked to them.
ClosedBy(rs) == rs \cap linked

-----------------------------------------------------------------------------
(* A request's life.                                                       *)

Press(r) ==
  /\ pc[r] = "idle"
  /\ pc' = [pc EXCEPT ![r] = "asked"]
  /\ press' = [press EXCEPT ![r] = Cardinality({s \in Requests : pc[s] # "idle"}) + 1]
  /\ UNCHANGED <<settings, slots, allow, left, aborted, linked, conn>>

\* No such channel, or the list is not shared.
NoChannel(r) ==
  /\ pc[r] = "asked"
  /\ pc' = [pc EXCEPT ![r] = "done"]
  /\ UNCHANGED <<settings, slots, press, allow, left, aborted, linked, conn>>

\* The channel is picked and the line's row read; a read that fails in
\* lineAllowanceFor is a row that says nothing.
ReadAllowance(r) ==
  /\ pc[r] = "asked"
  /\ pc' = [pc EXCEPT ![r] = "allowed"]
  /\ \/ allow' = [allow EXCEPT ![r] = LineAllowance]
     \/ r \notin Viewers /\ allow' = [allow EXCEPT ![r] = 1]
  /\ UNCHANGED <<settings, slots, press, left, aborted, linked, conn>>

\* A viewer is turned away from a full line, the owner never.
Refused(r) == r \in Viewers /\ Len(slots) >= allow[r]

TurnAway(r) ==
  /\ pc[r] = "allowed"
  /\ Refused(r)
  /\ pc' = [pc EXCEPT ![r] = "done"]
  /\ UNCHANGED <<settings, slots, press, allow, left, aborted, linked, conn>>

\* Without an await in between: evict, claim, and call fetch.  openStream listens
\* to the signal, which tells it nothing if it is aborted already.
Claim(r) ==
  LET kept    == Kept(allow[r])
      evicted == ToSet(slots) \ ToSet(kept)
  IN
  /\ pc[r] = "allowed"
  /\ ~Refused(r)
  /\ slots' = Registered(r, kept)
  /\ aborted' = aborted \cup evicted
  /\ conn' = (conn \ ClosedBy(evicted)) \cup {r}
  /\ linked' = IF r \in aborted THEN linked ELSE linked \cup {r}
  /\ pc' = [pc EXCEPT ![r] = "connecting"]
  /\ UNCHANGED <<settings, press, allow, left>>

\* The headers name a stream.
Video(r) ==
  /\ pc[r] = "connecting" /\ r \in conn
  /\ pc' = [pc EXCEPT ![r] = "marking"]
  /\ UNCHANGED <<settings, slots, press, allow, left, aborted, linked, conn>>

\* The headers name no stream: read the first bytes.
Sniff(r) ==
  /\ Sniffs
  /\ pc[r] = "connecting" /\ r \in conn
  /\ pc' = [pc EXCEPT ![r] = "sniffing"]
  /\ UNCHANGED <<settings, slots, press, allow, left, aborted, linked, conn>>

\* They are a transport stream after all; sniffAndRewind's reader goes on, and the
\* listener is removed.
LooksLikeStream(r) ==
  /\ pc[r] = "sniffing" /\ r \in conn
  /\ pc' = [pc EXCEPT ![r] = "marking"]
  /\ linked' = linked \ {r}
  /\ UNCHANGED <<settings, slots, press, allow, left, aborted, conn>>

\* Mutation: the failure path keeps the slot.
OpenFailsAndKeeps(r) ==
  /\ pc[r] \in {"connecting", "sniffing"}
  /\ pc' = [pc EXCEPT ![r] = "done"]
  /\ conn' = conn \ {r}
  /\ UNCHANGED <<settings, slots, press, allow, left, aborted, linked>>

\* The connection is refused, times out, carries no stream, or was aborted.
OpenFails(r) ==
  /\ pc[r] \in {"connecting", "sniffing"}
  /\ pc' = [pc EXCEPT ![r] = "done"]
  /\ conn' = conn \ {r}
  /\ slots' = Released(r)
  /\ UNCHANGED <<settings, press, allow, left, aborted, linked>>

\* markChannelChecked has answered; the response is piped.
Stream(r) ==
  /\ pc[r] = "marking"
  /\ pc' = [pc EXCEPT ![r] = "streaming"]
  /\ UNCHANGED <<settings, slots, press, allow, left, aborted, linked, conn>>

\* flush or cancel of the response's pipe: the provider ended or broke, or the
\* server cancels the body of a reader who left.
Teardown(r) ==
  /\ pc[r] = "streaming"
  /\ pc' = [pc EXCEPT ![r] = "done"]
  /\ conn' = conn \ {r}
  /\ slots' = Released(r)
  /\ UNCHANGED <<settings, press, allow, left, aborted, linked>>

\* The reader leaves; while streaming, the signal's own listener releases too.
Leave(r) ==
  /\ Leaves
  /\ pc[r] \notin {"idle", "done"} /\ r \notin left
  /\ left' = left \cup {r}
  /\ aborted' = aborted \cup {r}
  /\ conn' = conn \ ClosedBy({r})
  /\ slots' = IF pc[r] = "streaming" /\ r \notin aborted THEN Released(r) ELSE slots
  /\ UNCHANGED <<settings, pc, press, allow, linked>>

Next ==
  \/ \E n \in Settings : SetConnections(n) \/ RecordPanel(n)
  \/ \E r \in Requests :
       \/ Press(r) \/ NoChannel(r) \/ ReadAllowance(r) \/ TurnAway(r) \/ Claim(r)
       \/ Video(r) \/ Sniff(r) \/ LooksLikeStream(r) \/ OpenFails(r)
       \/ Stream(r) \/ Teardown(r) \/ Leave(r)

Spec == Init /\ [][Next]_vars

\* Database reads answer, the connect timeout bounds the wait for headers, an
\* aborted fetch rejects, and a pipe whose source or sink is gone is torn down.  A
\* live stream may go on for ever, and a reader may stay.
Fairness ==
  \A r \in Requests :
    /\ WF_vars(ReadAllowance(r)) /\ WF_vars(TurnAway(r)) /\ WF_vars(Claim(r))
    /\ WF_vars((pc[r] = "connecting" \/ r \notin conn) /\ OpenFails(r))
    /\ WF_vars(Stream(r))
    /\ WF_vars((r \in left \/ r \notin conn) /\ Teardown(r))

FairSpec == Spec /\ Fairness

-----------------------------------------------------------------------------
(* Properties.                                                             *)

\* The ceiling: the registry never holds more streams than the last claim was
\* allowed, also when the allowance was lowered under running streams ("evicting
\* in a loop rather than once").
CeilingKept == slots # <<>> => Len(slots) <= allow[Last(slots)]

\* A connection to the provider that its request can still abort is counted:
\* neither eviction nor teardown leaves one open behind the registry.
ConnectionsCounted == conn \cap linked \subseteq ToSet(slots)

\* No slot is held by a request that is over ("a slot that leaks here is the
\* reader's only connection, held by nothing, until the container restarts").
NoLeakedSlot == \A r \in ToSet(slots) : pc[r] \in Active

\* The registry tells the truth about the line: what can be counted is, and nothing else.
RegistryHonest == ConnectionsCounted /\ NoLeakedSlot

\* A slot is taken from a running stream only by the owner: "taking a stranger's
\* film off them because you clicked something is not the same act".
ViewersEvictNobody ==
  [][\A r \in Viewers : pc[r] = "allowed" /\ pc'[r] = "connecting" =>
       ToSet(slots) \subseteq ToSet(slots')]_vars

\* "A reader who closes the tab drops the provider connection with it" (openStream): the
\* slot of a reader who left is given back, wherever the departure found it, but for one who
\* was gone before the claim.  openStream's listener then hears nothing, so after headers
\* that name no stream the slot waits for a provider nobody makes speak (sniffAndRewind).
GoneGivesBack ==
  \A r \in Requests :
    r \in left ~> ~Held(r) \/ (pc[r] = "sniffing" /\ r \in conn \ linked)

\* "the provider connection is really gone before the replacement is opened. One
\* line, one connection" (claimStreamSlot).
OneLineOneConnection ==
  slots # <<>> => Cardinality(conn) <= allow[Last(slots)]

\* "pressing Play elsewhere means they want the other one now, so the older stream
\* is evicted rather than the new one" (the event stream route): no owner's stream
\* falls to a request that was made before it.
NewestPressWins ==
  [][\A r, s \in Requests \ Viewers :
       pc[r] = "allowed" /\ pc'[r] = "connecting" /\ s \in aborted' \ aborted =>
         press[s] < press[r]]_vars
=============================================================================
