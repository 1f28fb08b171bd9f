-------------------------- MODULE StreamSlots_proofs --------------------------
(***************************************************************************)
(* Theorems about the registry of streams, for any number of requests and  *)
(* any allowance: it holds no more than the last claim was allowed, it     *)
(* counts every connection that can still be closed and nothing else, and  *)
(* a viewer takes no slot from anybody. And those about what else plays:   *)
(* the radio's own cache, U, has one fetch of a key open at a time, for    *)
(* any readers and keys; and of a tab, P, with any sections, rows, pages   *)
(* and presses, what plays can be stopped, is of the page that is shown,   *)
(* and is not probed.                                                      *)
(***************************************************************************)
EXTENDS StreamSlots, FiniteSetTheorems, SequenceTheorems, TLAPS

CONSTANTS Keys, Manifests, Readers, None, ManifestTtl, SegmentTtl, MaxBytes, MaxSize, MaxTime,
          Tv, Radio, Rows, MaxPages, MaxPresses, MaxFaults

VARIABLES now, cached, size, expires, held, inFlight, fetching, settled, waiting, page, going,
          chain, bundle, awaiting, gen, handle, label, row, sweep, stray, running, late, presses,
          faults

\* The radio's cache, which keeps its subscription to one request for a thing at a time.
U == INSTANCE UpstreamCache

\* The sections of a page, which play what the slots are taken for.
P == INSTANCE PagePlayer WITH waiting <- awaiting

\* What is left of a sequence without its first d elements.
LEMMA DropProperties ==
  ASSUME NEW S, NEW s \in Seq(S), NEW d \in 0 .. Len(s)
  PROVE  /\ SubSeq(s, d + 1, Len(s)) \in Seq(S)
         /\ Len(SubSeq(s, d + 1, Len(s))) = Len(s) - d
         /\ \A i \in 1 .. Len(s) - d : SubSeq(s, d + 1, Len(s))[i] = s[i + d]
<1> DEFINE m == d + 1
           n == Len(s)
           t == SubSeq(s, m, n)
<1>1. n \in Nat /\ m \in Int /\ n \in Int
  BY LenProperties
<1>2. \A i \in m .. n : s[i] \in S
  BY ElementOfSeq, <1>1
<1>3. /\ t \in Seq(S)
      /\ Len(t) = IF m <= n THEN n - m + 1 ELSE 0
      /\ \A i \in 1 .. n - m + 1 : t[i] = s[m + i - 1]
  <2> HIDE DEF m, n
  <2> QED BY <1>1, <1>2, SubSeqProperties
<1>4. n - m + 1 = n - d /\ \A i \in 1 .. n - d : m + i - 1 = i + d
  BY <1>1
<1>5. Len(t) = n - d
  BY <1>1, <1>3
<1> HIDE DEF t
<1>6. \A i \in 1 .. n - d : t[i] = s[i + d]
  BY <1>3, <1>4
<1> QED BY <1>3, <1>5, <1>6 DEF t

\* The registry holds a request once.
Distinct == \A i, j \in DOMAIN slots : slots[i] = slots[j] => i = j

\* Every stream was claimed at a moment when its own allowance covered it and all older ones;
\* what comes later only moves it down.
WithinOwnAllowance == \A i \in DOMAIN slots : i <= allow[slots[i]]

RegistryInv == Distinct /\ WithinOwnAllowance /\ NoLeakedSlot /\ ConnectionsCounted

-----------------------------------------------------------------------------
(* The operators of the registry.                                          *)

\* The line's allowance is a number of connections between one and the ceiling.
LEMMA AllowanceInRange == ASSUME TypeOK PROVE LineAllowance \in 1 .. Ceiling
  BY SlotsAssumption DEF SlotsAssumption, TypeOK, Settings, LineAllowance, Least

\* The eviction loop leaves a suffix of the registry with room for one more.
LEMMA KeptIsSuffix ==
  ASSUME TypeOK, NEW max \in Nat \ {0}
  PROVE  \E d \in 0 .. Len(slots) :
           /\ Kept(max) \in Seq(Requests)
           /\ Len(Kept(max)) = Len(slots) - d /\ Len(Kept(max)) < max
           /\ \A i \in 1 .. Len(slots) - d : Kept(max)[i] = slots[i + d]
           /\ Len(slots) < max => d = 0
<1>1. CASE Len(slots) < max
  <2>1. Kept(max) = slots
    BY <1>1 DEF Kept
  <2>2. 0 \in 0 .. Len(slots)
    BY DEF TypeOK
  <2>3. /\ Kept(max) \in Seq(Requests) /\ Len(Kept(max)) = Len(slots) - 0
        /\ \A i \in 1 .. Len(slots) - 0 : Kept(max)[i] = slots[i + 0]
    BY <2>1 DEF TypeOK
  <2> QED BY <1>1, <2>1, <2>2, <2>3
<1>2. CASE ~(Len(slots) < max)
  <2> DEFINE d == Len(slots) - max + 1
  <2>1. d \in 0 .. Len(slots) /\ d >= 1
    BY <1>2 DEF TypeOK
  <2>2. Kept(max) = SubSeq(slots, d + 1, Len(slots))
    BY <1>2 DEF Kept, TypeOK
  <2> HIDE DEF d
  <2>3. /\ Kept(max) \in Seq(Requests) /\ Len(Kept(max)) = Len(slots) - d
        /\ \A i \in 1 .. Len(slots) - d : Kept(max)[i] = slots[i + d]
    <3>1. slots \in Seq(Requests)
      BY DEF TypeOK
    <3> QED BY <2>1, <2>2, <3>1, DropProperties
  <2>4. Len(Kept(max)) < max
    BY <2>1, <2>3, <1>2 DEF TypeOK, d
  <2> QED BY <2>1, <2>3, <2>4, <1>2
<1> QED BY <1>1, <1>2

\* Taking one element out of a sequence moves the later ones down by one.
LEMMA RemoveAtProperties ==
  ASSUME NEW S, NEW s \in Seq(S), NEW k \in 1 .. Len(s)
  PROVE  /\ RemoveAt(s, k) \in Seq(S)
         /\ Len(RemoveAt(s, k)) = Len(s) - 1
         /\ \A i \in 1 .. Len(s) - 1 :
              RemoveAt(s, k)[i] = IF i < k THEN s[i] ELSE s[i + 1]
<1> DEFINE front == SubSeq(s, 1, k - 1)
           back == SubSeq(s, k + 1, Len(s))
<1>1. front \in Seq(S) /\ Len(front) = k - 1 /\ \A i \in 1 .. k - 1 : front[i] = s[i]
  OBVIOUS
<1>2. /\ back \in Seq(S) /\ Len(back) = Len(s) - k
      /\ \A i \in 1 .. Len(s) - k : back[i] = s[i + k]
  OBVIOUS
<1> HIDE DEF front, back
<1>3. /\ front \o back \in Seq(S) /\ Len(front \o back) = Len(front) + Len(back)
      /\ \A i \in 1 .. Len(front) + Len(back) :
           (front \o back)[i] = IF i <= Len(front) THEN front[i] ELSE back[i - Len(front)]
  BY <1>1, <1>2, ConcatProperties
<1>4. ASSUME NEW i \in 1 .. Len(s) - 1
      PROVE  (front \o back)[i] = IF i < k THEN s[i] ELSE s[i + 1]
  <2>1. CASE i < k
    BY <2>1, <1>1, <1>2, <1>3
  <2>2. CASE i >= k
    <3>1. (front \o back)[i] = back[i - (k - 1)]
      BY <2>2, <1>1, <1>2, <1>3
    <3>2. i - (k - 1) \in 1 .. Len(s) - k /\ (i - (k - 1)) + k = i + 1
      BY <2>2, <1>1, <1>2
    <3>3. back[i - (k - 1)] = s[(i - (k - 1)) + k]
      BY <3>2, <1>2
    <3> QED BY <2>2, <3>1, <3>2, <3>3
  <2>3. i < k \/ i >= k
    BY LenProperties
  <2> QED BY <2>1, <2>2, <2>3
<1>5. RemoveAt(s, k) = front \o back
  BY DEF RemoveAt, front, back
<1> QED BY <1>1, <1>2, <1>3, <1>4, <1>5

\* Taking one element out of a sequence without repetitions: nothing new, nothing lost but
\* that element, nothing later than before.
LEMMA RemoveAtOfDistinct ==
  ASSUME NEW S, NEW s \in Seq(S), NEW k \in 1 .. Len(s),
         \A i, j \in 1 .. Len(s) : s[i] = s[j] => i = j
  PROVE  LET t == RemoveAt(s, k) IN
         /\ \A i \in 1 .. Len(t) : \E j \in 1 .. Len(s) : i <= j /\ t[i] = s[j] /\ s[j] # s[k]
         /\ \A i, j \in 1 .. Len(t) : t[i] = t[j] => i = j
         /\ \A j \in 1 .. Len(s) : s[j] # s[k] => \E i \in 1 .. Len(t) : t[i] = s[j]
<1> DEFINE t == RemoveAt(s, k)
           at(i) == IF i < k THEN i ELSE i + 1
<1>1. Len(s) \in Nat /\ Len(t) = Len(s) - 1
  BY RemoveAtProperties
<1>2. \A i \in 1 .. Len(t) : t[i] = s[at(i)]
  BY <1>1, RemoveAtProperties
<1>3. \A i \in 1 .. Len(t) : at(i) \in 1 .. Len(s) /\ i <= at(i) /\ at(i) # k
  BY <1>1
<1>4. \A i, j \in 1 .. Len(t) : at(i) = at(j) => i = j
  BY <1>1
<1>5. \A j \in 1 .. Len(s) : j # k => \E i \in 1 .. Len(t) : at(i) = j
  <2> SUFFICES ASSUME NEW j \in 1 .. Len(s), j # k PROVE \E i \in 1 .. Len(t) : at(i) = j
    OBVIOUS
  <2>1. CASE j < k
    BY <2>1, <1>1
  <2>2. CASE j > k
    <3>1. j - 1 \in 1 .. Len(t) /\ at(j - 1) = j
      BY <2>2, <1>1
    <3> QED BY <3>1
  <2> QED BY <2>1, <2>2
<1> HIDE DEF t, at
<1>6. \A i \in 1 .. Len(t) : \E j \in 1 .. Len(s) : i <= j /\ t[i] = s[j] /\ s[j] # s[k]
  BY <1>2, <1>3
<1>7. \A i, j \in 1 .. Len(t) : t[i] = t[j] => i = j
  BY <1>2, <1>3, <1>4
<1>8. \A j \in 1 .. Len(s) : s[j] # s[k] => \E i \in 1 .. Len(t) : t[i] = s[j]
  BY <1>2, <1>5
<1> QED BY <1>6, <1>7, <1>8 DEF t

\* Giving a slot back closes the gap: the others stay, and move down at most.
LEMMA ReleasedProperties ==
  ASSUME TypeOK, Distinct, NEW r \in Requests
  PROVE  /\ Released(r) \in Seq(Requests)
         /\ \A i \in DOMAIN Released(r) :
              \E j \in DOMAIN slots : i <= j /\ Released(r)[i] = slots[j] /\ slots[j] # r
         /\ \A i, j \in DOMAIN Released(r) : Released(r)[i] = Released(r)[j] => i = j
         /\ ToSet(Released(r)) = ToSet(slots) \ {r}
<1>0. slots \in Seq(Requests) /\ DOMAIN slots = 1 .. Len(slots) /\ Len(slots) \in Nat
  BY LenProperties DEF TypeOK
<1>1. CASE ~Held(r)
  <2>1. Released(r) = slots
    BY <1>1 DEF Released
  <2>2. \A j \in DOMAIN slots : slots[j] # r
    BY <1>1 DEF Held, Contains
  <2>3. \A i \in DOMAIN slots : i <= i
    BY <1>0
  <2>4. ToSet(slots) = ToSet(slots) \ {r}
    BY <2>2 DEF ToSet
  <2>5. \A i \in DOMAIN slots :
          \E j \in DOMAIN slots : i <= j /\ slots[i] = slots[j] /\ slots[j] # r
    BY <2>2, <2>3
  <2> QED BY <1>0, <2>1, <2>4, <2>5 DEF Distinct
<1>2. CASE Held(r)
  <2> DEFINE k == CHOOSE i \in DOMAIN slots : slots[i] = r
             t == RemoveAt(slots, k)
  <2>1. k \in DOMAIN slots /\ slots[k] = r
    BY <1>2 DEF Held, Contains
  <2>2. Released(r) = t
    BY <1>2 DEF Released
  <2> HIDE DEF k
  <2>3. k \in 1 .. Len(slots)
    BY <2>1, <1>0
  <2>4. t \in Seq(Requests)
    BY <2>3, <1>0, RemoveAtProperties
  <2>5. DOMAIN t = 1 .. Len(t)
    BY <2>4, LenProperties
  <2>6. \A i, j \in 1 .. Len(slots) : slots[i] = slots[j] => i = j
    BY <1>0 DEF Distinct
  <2>7. /\ \A i \in 1 .. Len(t) :
             \E j \in 1 .. Len(slots) : i <= j /\ t[i] = slots[j] /\ slots[j] # slots[k]
        /\ \A i, j \in 1 .. Len(t) : t[i] = t[j] => i = j
        /\ \A j \in 1 .. Len(slots) : slots[j] # slots[k] => \E i \in 1 .. Len(t) : t[i] = slots[j]
    BY <1>0, <2>3, <2>6, RemoveAtOfDistinct
  <2> HIDE DEF t
  <2>8. ToSet(t) \subseteq ToSet(slots) \ {r}
    BY <1>0, <2>1, <2>5, <2>7 DEF ToSet
  <2>9. ToSet(slots) \ {r} \subseteq ToSet(t)
    BY <1>0, <2>1, <2>5, <2>7 DEF ToSet
  <2> QED BY <1>0, <2>1, <2>2, <2>4, <2>5, <2>7, <2>8, <2>9
<1> QED BY <1>1, <1>2

-----------------------------------------------------------------------------
(* Type correctness.                                                       *)

LEMMA PressedInNat == TypeOK => Cardinality({s \in Requests : pc[s] # "idle"}) \in Nat
<1> {s \in Requests : pc[s] # "idle"} \subseteq Requests
  OBVIOUS
<1> QED BY FS_Subset, FS_CardinalityType, SlotsAssumption DEF SlotsAssumption

LEMMA ClaimKeepsTypes == ASSUME TypeOK, NEW r \in Requests, Claim(r) PROVE TypeOK'
<1>1. allow[r] \in Nat \ {0}
  BY SlotsAssumption DEF SlotsAssumption, TypeOK
<1>2. Kept(allow[r]) \in Seq(Requests)
  BY <1>1, KeptIsSuffix
<1>3. slots' \in Seq(Requests)
  BY <1>2 DEF Claim, Registered
<1>4. ToSet(slots) \subseteq Requests
  BY LenProperties DEF ToSet, TypeOK
<1> QED BY <1>3, <1>4 DEF Claim, TypeOK, settings, Stages, ClosedBy

LEMMA NextKeepsTypes == TypeOK /\ Distinct /\ [Next]_vars => TypeOK'
<1> SUFFICES ASSUME TypeOK, Distinct, [Next]_vars PROVE TypeOK'
  OBVIOUS
<1> USE DEF TypeOK, settings, Stages
<1>1. ASSUME NEW n \in Settings, SetConnections(n) \/ RecordPanel(n) PROVE TypeOK'
  BY <1>1 DEF SetConnections, RecordPanel
<1>2. ASSUME NEW r \in Requests, Press(r) PROVE TypeOK'
  BY <1>2, PressedInNat DEF Press
<1>3. ASSUME NEW r \in Requests, NoChannel(r) \/ TurnAway(r) PROVE TypeOK'
  BY <1>3 DEF NoChannel, TurnAway
<1>4. ASSUME NEW r \in Requests, ReadAllowance(r) PROVE TypeOK'
  <2>1. 1 \in 1 .. Ceiling /\ LineAllowance \in 1 .. Ceiling
    BY AllowanceInRange, SlotsAssumption DEF SlotsAssumption
  <2> QED BY <1>4, <2>1 DEF ReadAllowance
<1>5. ASSUME NEW r \in Requests, Claim(r) PROVE TypeOK'
  BY <1>5, ClaimKeepsTypes
<1>6. ASSUME NEW r \in Requests, Video(r) \/ Sniff(r) \/ LooksLikeStream(r) \/ Stream(r)
      PROVE  TypeOK'
  BY <1>6 DEF Video, Sniff, LooksLikeStream, Stream
<1>7. ASSUME NEW r \in Requests, OpenFails(r) \/ Teardown(r) PROVE TypeOK'
  BY <1>7, ReleasedProperties DEF OpenFails, Teardown
<1>8. ASSUME NEW r \in Requests, Leave(r) PROVE TypeOK'
  BY <1>8, ReleasedProperties DEF Leave
<1>9. CASE UNCHANGED vars
  BY <1>9 DEF vars
<1> QED BY <1>1, <1>2, <1>3, <1>4, <1>5, <1>6, <1>7, <1>8, <1>9 DEF Next

-----------------------------------------------------------------------------
(* The invariant of the registry.                                          *)

\* A step that leaves the registry, and the allowances of those in it, alone.
LEMMA RegistryUntouched ==
  ASSUME RegistryInv, slots' = slots,
         \A q \in ToSet(slots) : allow'[q] = allow[q] /\ pc'[q] \in Active,
         conn' \cap linked' \subseteq conn \cap linked
  PROVE  RegistryInv'
<1>1. \A i \in DOMAIN slots : slots[i] \in ToSet(slots)
  BY DEF ToSet
<1> QED BY <1>1 DEF RegistryInv, Distinct, WithinOwnAllowance, NoLeakedSlot, ConnectionsCounted

\* A step that gives the slot of r back, its connection being closed or past closing.
LEMMA RegistryReleased ==
  ASSUME TypeOK, TypeOK', RegistryInv, NEW r \in Requests, slots' = Released(r), allow' = allow,
         \A q \in ToSet(slots) \ {r} : pc'[q] \in Active,
         conn' \cap linked' \subseteq (conn \cap linked) \ {r}
  PROVE  RegistryInv'
<1>0. /\ slots \in Seq(Requests) /\ DOMAIN slots = 1 .. Len(slots) /\ Len(slots) \in Nat
      /\ DOMAIN slots' = 1 .. Len(slots') /\ Len(slots') \in Nat
      /\ allow \in [Requests -> Nat]
  BY LenProperties, SlotsAssumption DEF SlotsAssumption, TypeOK
<1>1. /\ \A i \in DOMAIN slots' : \E j \in DOMAIN slots : i <= j /\ slots'[i] = slots[j]
      /\ \A i, j \in DOMAIN slots' : slots'[i] = slots'[j] => i = j
      /\ ToSet(slots') = ToSet(slots) \ {r}
  BY ReleasedProperties DEF RegistryInv
<1>2. WithinOwnAllowance'
  <2> SUFFICES ASSUME NEW i \in DOMAIN slots' PROVE i <= allow[slots'[i]]
    BY DEF WithinOwnAllowance
  <2>1. PICK j \in DOMAIN slots : i <= j /\ slots'[i] = slots[j]
    BY <1>1
  <2>2. j <= allow[slots[j]]
    BY DEF RegistryInv, WithinOwnAllowance
  <2>3. i \in Nat /\ j \in Nat /\ slots[j] \in Requests /\ allow[slots[j]] \in Nat
    BY <1>0
  <2> QED BY <2>1, <2>2, <2>3
<1> QED BY <1>1, <1>2 DEF RegistryInv, Distinct, NoLeakedSlot, ConnectionsCounted

\* A claim: those it keeps move down, and it comes last, within its own allowance.
LEMMA RegistryClaimed ==
  ASSUME TypeOK, RegistryInv, NEW r \in Requests, Claim(r)
  PROVE  RegistryInv'
<1> DEFINE kept == Kept(allow[r])
<1>0. /\ allow[r] \in Nat \ {0} /\ slots \in Seq(Requests) /\ Len(slots) \in Nat
      /\ DOMAIN slots = 1 .. Len(slots) /\ allow \in [Requests -> Nat]
  BY LenProperties, SlotsAssumption DEF SlotsAssumption, TypeOK
<1>1. PICK d \in 0 .. Len(slots) :
        /\ kept \in Seq(Requests)
        /\ Len(kept) = Len(slots) - d /\ Len(kept) < allow[r]
        /\ \A i \in 1 .. Len(slots) - d : kept[i] = slots[i + d]
  BY <1>0, KeptIsSuffix
<1>2. r \notin ToSet(slots)
  BY DEF RegistryInv, NoLeakedSlot, Claim, Active
<1> HIDE DEF kept
<1>3. slots' = Append(kept, r) /\ allow' = allow
  BY DEF Claim, Registered, kept
<1>4. /\ DOMAIN slots' = 1 .. Len(kept) + 1 /\ Len(kept) \in Nat
      /\ \A i \in 1 .. Len(kept) : slots'[i] = slots[i + d] /\ i + d \in DOMAIN slots
      /\ slots'[Len(kept) + 1] = r
  <2>1. Len(kept) \in Nat /\ DOMAIN kept = 1 .. Len(kept)
    BY <1>1, LenProperties
  <2>2. /\ DOMAIN slots' = 1 .. Len(kept) + 1 /\ slots'[Len(kept) + 1] = r
        /\ \A i \in 1 .. Len(kept) : slots'[i] = kept[i]
    BY <1>1, <1>3, <2>1, AppendProperties, LenProperties
  <2>3. \A i \in 1 .. Len(kept) : kept[i] = slots[i + d] /\ i + d \in DOMAIN slots
    <3>1. Len(kept) = Len(slots) - d
      BY <1>1
    <3> QED
      BY <1>0, <1>1, <2>1, <3>1
  <2> QED
    BY <2>1, <2>2, <2>3
<1>5. DOMAIN kept = 1 .. Len(kept)
  BY <1>1, LenProperties
<1>6. ToSet(kept) \subseteq ToSet(slots)
  <2>1. \A i \in 1 .. Len(kept) : kept[i] = slots[i + d] /\ i + d \in DOMAIN slots
    BY <1>0, <1>1
  <2> QED BY <2>1, <1>5 DEF ToSet
<1>7. ToSet(slots') = ToSet(kept) \cup {r}
  <2>1. \A i \in 1 .. Len(kept) : slots'[i] = kept[i]
    BY <1>1, <1>4
  <2> QED BY <1>4, <1>5, <2>1 DEF ToSet
<1>8. Distinct'
  <2> SUFFICES ASSUME NEW i \in DOMAIN slots', NEW j \in DOMAIN slots', slots'[i] = slots'[j]
               PROVE  i = j
    BY DEF Distinct
  <2>1. \A n \in 1 .. Len(kept) : slots'[n] # r
    BY <1>2, <1>4 DEF ToSet
  <2>2. CASE i = Len(kept) + 1 \/ j = Len(kept) + 1
    BY <2>1, <2>2, <1>4
  <2>3. CASE i \in 1 .. Len(kept) /\ j \in 1 .. Len(kept)
    <3>1. i + d = j + d
      BY <2>3, <1>4 DEF RegistryInv, Distinct
    <3> QED BY <3>1, <2>3, <1>0, <1>4
  <2> QED BY <2>2, <2>3, <1>4
<1>9. WithinOwnAllowance'
  <2> SUFFICES ASSUME NEW i \in DOMAIN slots' PROVE i <= allow[slots'[i]]
    BY <1>3 DEF WithinOwnAllowance
  <2>1. CASE i = Len(kept) + 1
    BY <2>1, <1>0, <1>1, <1>4
  <2>2. CASE i \in 1 .. Len(kept)
    <3>1. i + d <= allow[slots[i + d]] /\ slots[i + d] \in Requests
      BY <2>2, <1>0, <1>4 DEF RegistryInv, WithinOwnAllowance
    <3> QED BY <3>1, <2>2, <1>0, <1>4
  <2> QED BY <2>1, <2>2, <1>4
<1>10. NoLeakedSlot'
  <2>1. \A q \in ToSet(kept) : pc'[q] \in Active
    BY <1>2, <1>6 DEF RegistryInv, NoLeakedSlot, Claim, TypeOK
  <2>2. pc'[r] \in Active
    BY DEF Claim, TypeOK, Active
  <2> QED BY <1>7, <2>1, <2>2 DEF NoLeakedSlot
<1>11. ConnectionsCounted'
  <2>1. conn' \cap linked' \subseteq ((conn \cap linked) \ (ToSet(slots) \ ToSet(kept))) \cup {r}
    BY DEF Claim, ClosedBy, kept
  <2> QED BY <2>1, <1>7 DEF RegistryInv, ConnectionsCounted
<1> QED BY <1>8, <1>9, <1>10, <1>11 DEF RegistryInv

LEMMA NextKeepsRegistry == TypeOK /\ TypeOK' /\ RegistryInv /\ [Next]_vars => RegistryInv'
<1> SUFFICES ASSUME TypeOK, TypeOK', RegistryInv, [Next]_vars PROVE RegistryInv'
  OBVIOUS
<1>0. \A q \in ToSet(slots) : q \in Requests /\ pc[q] \in Active
  BY LenProperties DEF RegistryInv, NoLeakedSlot, TypeOK, ToSet
<1>1. ASSUME NEW n \in Settings, SetConnections(n) \/ RecordPanel(n) PROVE RegistryInv'
  BY <1>0, <1>1, RegistryUntouched DEF SetConnections, RecordPanel
<1>2. ASSUME NEW r \in Requests, Press(r) \/ NoChannel(r) \/ ReadAllowance(r) \/ TurnAway(r)
      PROVE  RegistryInv'
  <2>1. r \notin ToSet(slots)
    BY <1>0, <1>2 DEF Press, NoChannel, ReadAllowance, TurnAway, Active
  <2>2. /\ slots' = slots /\ conn' = conn /\ linked' = linked
        /\ \A q \in Requests \ {r} : pc'[q] = pc[q] /\ allow'[q] = allow[q]
    BY <1>2 DEF Press, NoChannel, ReadAllowance, TurnAway, TypeOK
  <2> QED BY <1>0, <2>1, <2>2, RegistryUntouched
<1>3. ASSUME NEW r \in Requests, Claim(r) PROVE RegistryInv'
  BY <1>3, RegistryClaimed
<1>4. ASSUME NEW r \in Requests, Video(r) \/ Sniff(r) \/ LooksLikeStream(r) \/ Stream(r)
      PROVE  RegistryInv'
  <2>1. /\ slots' = slots /\ allow' = allow /\ conn' \cap linked' \subseteq conn \cap linked
        /\ \A q \in Requests : pc[q] \in Active => pc'[q] \in Active
    BY <1>4 DEF Video, Sniff, LooksLikeStream, Stream, TypeOK, Active
  <2> QED BY <1>0, <2>1, RegistryUntouched
<1>5. ASSUME NEW r \in Requests, OpenFails(r) \/ Teardown(r) PROVE RegistryInv'
  <2>1. /\ slots' = Released(r) /\ allow' = allow
        /\ conn' \cap linked' \subseteq (conn \cap linked) \ {r}
        /\ \A q \in Requests \ {r} : pc'[q] = pc[q]
    BY <1>5 DEF OpenFails, Teardown, TypeOK
  <2> QED BY <1>0, <2>1, RegistryReleased
<1>6. ASSUME NEW r \in Requests, Leave(r) PROVE RegistryInv'
  <2>1. /\ pc' = pc /\ allow' = allow
        /\ conn' \cap linked' \subseteq (conn \cap linked) \ {r}
        /\ slots' = slots \/ slots' = Released(r)
    BY <1>6 DEF Leave, ClosedBy
  <2>2. CASE slots' = slots
    BY <1>0, <2>1, <2>2, RegistryUntouched
  <2>3. CASE slots' = Released(r)
    BY <1>0, <2>1, <2>3, RegistryReleased
  <2> QED BY <2>1, <2>2, <2>3
<1>7. CASE UNCHANGED vars
  BY <1>0, <1>7, RegistryUntouched DEF vars
<1> QED BY <1>1, <1>2, <1>3, <1>4, <1>5, <1>6, <1>7 DEF Next

-----------------------------------------------------------------------------
(* Theorems.                                                               *)

LEMMA InitInvariant == Init => TypeOK /\ RegistryInv
<1> SUFFICES ASSUME Init PROVE TypeOK /\ RegistryInv
  OBVIOUS
<1>1. TypeOK
  BY SlotsAssumption DEF SlotsAssumption, Init, TypeOK, Stages
<1>2. RegistryInv
  BY DEF Init, RegistryInv, Distinct, WithinOwnAllowance, NoLeakedSlot, ConnectionsCounted, ToSet
<1> QED BY <1>1, <1>2

LEMMA Invariance == Spec => [](TypeOK /\ RegistryInv)
<1>1. TypeOK /\ RegistryInv /\ [Next]_vars => (TypeOK /\ RegistryInv)'
  BY NextKeepsTypes, NextKeepsRegistry DEF RegistryInv
<1> QED BY <1>1, InitInvariant, PTL DEF Spec

\* Type correctness: the registry holds requests of this account, each request is at one of
\* the stages of claimStreamSlot and openStream, and allowances stay within the ceiling.
THEOREM TypeCorrect == Spec => []TypeOK
  BY Invariance, PTL

\* The ceiling of claimStreamSlot: whatever the settings did while streams were running, the
\* registry never holds more of them than the newest one was allowed.
THEOREM CeilingIsKept == Spec => []CeilingKept
<1>1. TypeOK /\ RegistryInv => CeilingKept
  <2> SUFFICES ASSUME TypeOK, RegistryInv, slots # <<>> PROVE Len(slots) <= allow[Last(slots)]
    BY DEF CeilingKept
  <2>1. Len(slots) \in DOMAIN slots
    BY LenProperties, EmptySeq DEF TypeOK
  <2> QED BY <2>1 DEF RegistryInv, WithinOwnAllowance, Last
<1> QED BY <1>1, Invariance, PTL

\* claimStreamSlot, openStream and the teardown of the pipe between them: every connection
\* that can still be closed is counted, and no slot outlives its request.
THEOREM RegistryIsHonest == Spec => []RegistryHonest
<1>1. RegistryInv => RegistryHonest
  BY DEF RegistryInv, RegistryHonest
<1> QED BY <1>1, Invariance, PTL

\* The connections to the provider that can still be closed, which are all but those whose
\* listener sniffAndRewind has taken off, are no more than the newest claim was allowed.
ClosableBounded == slots # <<>> => Cardinality(conn \cap linked) <= allow[Last(slots)]

THEOREM ClosableAreBounded == Spec => []ClosableBounded
<1>1. TypeOK /\ RegistryInv => ClosableBounded
  <2> SUFFICES ASSUME TypeOK, RegistryInv, slots # <<>>
               PROVE  Cardinality(conn \cap linked) <= allow[Last(slots)]
    BY DEF ClosableBounded
  <2>0. slots \in Seq(Requests) /\ DOMAIN slots = 1 .. Len(slots) /\ Len(slots) \in Nat \ {0}
    BY LenProperties, EmptySeq DEF TypeOK
  <2>1. Len(slots) <= allow[Last(slots)] /\ allow[Last(slots)] \in Nat
    BY <2>0, SlotsAssumption DEF RegistryInv, WithinOwnAllowance, Last, TypeOK, SlotsAssumption
  <2>2. IsFiniteSet(1 .. Len(slots)) /\ Cardinality(1 .. Len(slots)) = Len(slots)
    BY <2>0, FS_Interval
  <2> DEFINE at == [i \in 1 .. Len(slots) |-> slots[i]]
  <2>3. at \in Surjection(1 .. Len(slots), ToSet(slots))
    BY <2>0 DEF Surjection, ToSet
  <2>4. IsFiniteSet(ToSet(slots)) /\ Cardinality(ToSet(slots)) <= Len(slots)
    BY <2>2, <2>3, FS_Surjection
  <2>5. /\ Cardinality(conn \cap linked) <= Cardinality(ToSet(slots))
        /\ Cardinality(conn \cap linked) \in Nat /\ Cardinality(ToSet(slots)) \in Nat
    BY <2>4, FS_Subset, FS_CardinalityType DEF RegistryInv, ConnectionsCounted
  <2> QED BY <2>0, <2>1, <2>4, <2>5
<1> QED BY <1>1, Invariance, PTL

\* The shared route: a claim by a viewer takes nobody's slot, because the claim follows the
\* look at the registry without an await between them.
THEOREM ViewersAreGuests == Spec => ViewersEvictNobody
<1> DEFINE Guest == \A r \in Viewers : pc[r] = "allowed" /\ pc'[r] = "connecting" =>
                      ToSet(slots) \subseteq ToSet(slots')
<1>1. TypeOK /\ [Next]_vars => Guest
  <2> SUFFICES ASSUME TypeOK, [Next]_vars, NEW r \in Viewers,
                      pc[r] = "allowed", pc'[r] = "connecting"
               PROVE  ToSet(slots) \subseteq ToSet(slots')
    OBVIOUS
  <2>0. r \in Requests /\ slots \in Seq(Requests) /\ Len(slots) \in Nat /\ allow[r] \in Nat
    BY LenProperties, SlotsAssumption DEF SlotsAssumption, TypeOK
  <2>1. Claim(r)
    <3>1. ~(UNCHANGED vars) /\ pc' # pc
      BY DEF vars
    <3>2. PICK q \in Requests :
            \/ Press(q) \/ NoChannel(q) \/ ReadAllowance(q) \/ TurnAway(q) \/ Claim(q)
            \/ Video(q) \/ Sniff(q) \/ LooksLikeStream(q) \/ OpenFails(q)
            \/ Stream(q) \/ Teardown(q) \/ Leave(q)
      BY <3>1 DEF Next, SetConnections, RecordPanel
    <3>3. Claim(q)
      BY <3>2, <2>0 DEF Press, NoChannel, ReadAllowance, TurnAway, Video, Sniff, LooksLikeStream,
           OpenFails, Stream, Teardown, Leave, TypeOK
    <3>4. q = r
      BY <3>3, <2>0 DEF Claim, TypeOK
    <3> QED BY <3>3, <3>4
  <2>2. Len(slots) < allow[r]
    BY <2>0, <2>1 DEF Claim, Refused
  <2>3. slots' = Append(slots, r)
    BY <2>1, <2>2 DEF Claim, Registered, Kept
  <2>4. \A i \in DOMAIN slots : i \in DOMAIN slots' /\ slots'[i] = slots[i]
    BY <2>0, <2>3
  <2> QED BY <2>4 DEF ToSet
<1> QED BY <1>1, TypeCorrect, PTL DEF Spec, ViewersEvictNobody
-----------------------------------------------------------------------------
(* The radio upstream cache: UpstreamCache.                                *)

\* A key is in flight while its one request is open, or its promise has settled and the
\* readers who await it have not gone on; and nobody awaits a key that is not.
FlightInv ==
  /\ inFlight \subseteq Keys
  /\ fetching \in [Keys -> Nat] /\ settled \in [Keys -> {"no", "good", "bad"}]
  /\ waiting \in [Readers -> Keys \cup {None}]
  /\ \A k \in Keys : fetching[k] = IF k \in inFlight /\ settled[k] = "no" THEN 1 ELSE 0
  /\ \A k \in Keys \ inFlight : settled[k] = "no"
  /\ \A r \in Readers : waiting[r] # None => waiting[r] \in inFlight

LEMMA FlightKept == ASSUME U!ConstantsType, FlightInv, [U!Next]_(U!vars) PROVE FlightInv'
<1>1. ASSUME NEW r \in Readers, NEW k \in Keys, U!Join(r, k) PROVE FlightInv'
  BY <1>1 DEF U!Join, FlightInv
<1>2. ASSUME NEW r \in Readers, NEW k \in Keys, U!Fetch(r, k) PROVE FlightInv'
  BY <1>2 DEF U!Fetch, FlightInv
<1>3. ASSUME NEW k \in Keys, U!Fail(k) PROVE FlightInv'
  BY <1>3 DEF U!Fail, FlightInv
<1>4. ASSUME NEW k \in Keys, NEW bytes, U!Answer(k, bytes) PROVE FlightInv'
  BY <1>4 DEF U!Answer, FlightInv
<1>5. ASSUME NEW k \in Keys, U!Settle(k) PROVE FlightInv'
  BY <1>5 DEF U!Settle, FlightInv, U!ConstantsType
<1>6. CASE U!Tick
  BY <1>6 DEF U!Tick, FlightInv
<1>7. CASE UNCHANGED U!vars
  BY <1>7 DEF U!vars, FlightInv
<1> QED
  BY <1>1, <1>2, <1>3, <1>4, <1>5, <1>6, <1>7 DEF U!Next

\* OneFetchPerKey of UpstreamCache: however many readers ask for a key, whenever it expires,
\* is evicted or fails, sharedFetch has one request for it open; and whoever awaits one awaits
\* a request that is open or has just been answered.
THEOREM OneFetchAtATime ==
  ASSUME U!ConstantsType
  PROVE  U!Spec => [](/\ U!OneFetchPerKey
                      /\ \A r \in Readers : waiting[r] # None =>
                           fetching[waiting[r]] = 1 \/ settled[waiting[r]] # "no")
<1> DEFINE Awaits == \A r \in Readers : waiting[r] # None =>
                       fetching[waiting[r]] = 1 \/ settled[waiting[r]] # "no"
<1>1. U!Init => FlightInv
  BY DEF U!Init, FlightInv
<1>2. FlightInv /\ [U!Next]_(U!vars) => FlightInv'
  BY FlightKept
<1>3. FlightInv => U!OneFetchPerKey /\ Awaits
  BY DEF FlightInv, U!OneFetchPerKey
<1> QED
  BY <1>1, <1>2, <1>3, PTL DEF U!Spec
-----------------------------------------------------------------------------
(* What a tab plays: PagePlayer.                                           *)

\* What plays and what waits: a player is held by its section and is of its newest press, a
\* waiting press that is the newest finds its section silent, and no press is of a page to come.
HeldInv == \A w \in running :
  /\ handle[w.sec] = w /\ w.gen = gen[w.sec] /\ sweep[w.sec] = {}
  /\ w.sec[2] <= page /\ (w.sec[2] = page \/ w \in late)

WaitInv == \A w \in awaiting :
  /\ w.gen <= gen[w.sec]
  /\ w.sec[2] <= page /\ (w.sec[2] = page \/ w \in late)
  /\ w.gen = gen[w.sec] => handle[w.sec] = None /\ sweep[w.sec] = {}
  /\ \A v \in awaiting : v.sec = w.sec /\ v.gen = w.gen => v = w

TabInv ==
  /\ chain = P!OnPage(page) /\ (going => page < MaxPages)
  /\ \A s \in P!Sections : gen[s] <= presses

PlayerInv == P!TypeOK /\ TabInv /\ HeldInv /\ WaitInv

LEMMA PlayerBegins == ASSUME P!ConstantsType, P!Init PROVE PlayerInv
<1>1. P!TypeOK
  <2>1. /\ page \in 1 .. MaxPages /\ chain \subseteq P!Sections
        /\ gen \in [P!Sections -> 0 .. MaxPresses]
        /\ presses \in 0 .. MaxPresses /\ faults \in 0 .. MaxFaults
    BY DEF P!Init, P!ConstantsType, P!OnPage
  <2>2. /\ row \in [P!Sections -> [Rows -> {"off", "open", "on", "gone"}]]
        /\ bundle \in [{"tv", "radio"} -> {"none", "loading", "ready"}]
    BY DEF P!Init
  <2>3. sweep \in [P!Sections -> SUBSET Rows] /\ stray \in [P!Sections -> SUBSET Rows]
    BY DEF P!Init
  <2> QED
    BY <2>1, <2>2, <2>3 DEF P!Init, P!TypeOK
<1>2. TabInv
  BY DEF P!Init, TabInv
<1>3. HeldInv /\ WaitInv
  BY DEF P!Init, HeldInv, WaitInv
<1> QED
  BY <1>1, <1>2, <1>3 DEF PlayerInv

\* What is torn down plays no more: a section's player is the one it holds.
LEMMA TornDown ==
  ASSUME P!TypeOK, HeldInv, NEW some \in SUBSET P!Sections, P!Teardown(some)
  PROVE  /\ running' \subseteq running /\ \A w \in running' : w.sec \notin some
         /\ handle' \in [P!Sections -> P!Presses \cup {None}]
         /\ \A s \in some : handle'[s] = None
         /\ \A s \in P!Sections : s \notin some => handle'[s] = handle[s]
<1>1. \A w \in running : w.sec \in P!Sections /\ handle[w.sec] = w
  BY DEF P!TypeOK, HeldInv, P!Presses
<1> QED
  BY <1>1 DEF P!TypeOK, P!Teardown

\* A step that ends players, and starts no press: it is enough that the sections that play or
\* wait on are left as they were.
LEMMA Quieter ==
  ASSUME P!ConstantsType, PlayerInv,
         page' \in 1 .. MaxPages, going' \in BOOLEAN, chain' = P!OnPage(page'), page <= page',
         going' => page' < MaxPages,
         bundle' \in [{"tv", "radio"} -> {"none", "loading", "ready"}],
         awaiting' \subseteq awaiting, running' \subseteq running,
         late' \subseteq P!Presses,
         gen' \in [P!Sections -> 0 .. MaxPresses], \A s \in P!Sections : gen'[s] <= presses',
         \A s \in P!Sections : gen[s] <= gen'[s],
         handle' \in [P!Sections -> P!Presses \cup {None}],
         \A s \in P!Sections : handle'[s] \in {handle[s], None},
         label' \in [P!Sections -> Rows \cup {None}],
         row' \in [P!Sections -> [Rows -> {"off", "open", "on", "gone"}]],
         sweep' \in [P!Sections -> SUBSET Rows], stray' \in [P!Sections -> SUBSET Rows],
         presses' \in 0 .. MaxPresses, faults' \in 0 .. MaxFaults,
         \A w \in running' : /\ handle'[w.sec] = handle[w.sec] /\ gen'[w.sec] = gen[w.sec]
                             /\ sweep'[w.sec] \subseteq sweep[w.sec],
         \A w \in awaiting' : \/ gen[w.sec] < gen'[w.sec]
                              \/ w.gen # gen'[w.sec]
                              \/ sweep'[w.sec] \subseteq sweep[w.sec],
         \A w \in awaiting' \cup running' : w.sec[2] = page' \/ w \in late'
  PROVE  PlayerInv'
<1>0. P!TypeOK /\ TabInv /\ HeldInv /\ WaitInv
  BY DEF PlayerInv
<1>1. /\ \A w \in awaiting \cup running : w \in P!Presses /\ w.sec \in P!Sections /\ w.gen \in Int
      /\ \A s \in P!Sections : gen[s] \in Int /\ gen'[s] \in Int /\ s[2] \in Int
      /\ page \in Int /\ page' \in Int
  BY <1>0 DEF P!TypeOK, P!Presses, P!Sections
<1>2. P!TypeOK'
  BY <1>0 DEF P!TypeOK, P!OnPage
<1>3. TabInv'
  BY DEF TabInv
<1>4. ASSUME NEW w \in running'
      PROVE  /\ handle'[w.sec] = w /\ w.gen = gen'[w.sec] /\ sweep'[w.sec] = {}
             /\ w.sec[2] <= page' /\ (w.sec[2] = page' \/ w \in late')
  <2>1. handle[w.sec] = w /\ w.gen = gen[w.sec] /\ sweep[w.sec] = {} /\ w.sec[2] <= page
    BY <1>0 DEF HeldInv
  <2>2. w.sec[2] <= page'
    BY <1>1, <2>1
  <2> QED
    BY <2>1, <2>2
<1>5. ASSUME NEW w \in awaiting'
      PROVE  /\ w.gen <= gen'[w.sec]
             /\ w.sec[2] <= page' /\ (w.sec[2] = page' \/ w \in late')
             /\ w.gen = gen'[w.sec] => handle'[w.sec] = None /\ sweep'[w.sec] = {}
             /\ \A v \in awaiting' : v.sec = w.sec /\ v.gen = w.gen => v = w
  <2>1. /\ w.gen <= gen[w.sec] /\ w.sec[2] <= page
        /\ w.gen = gen[w.sec] => handle[w.sec] = None /\ sweep[w.sec] = {}
        /\ \A v \in awaiting' : v.sec = w.sec /\ v.gen = w.gen => v = w
    BY <1>0 DEF WaitInv
  <2>2. /\ w.sec \in P!Sections /\ gen[w.sec] <= gen'[w.sec]
        /\ w.gen \in Int /\ gen[w.sec] \in Int /\ gen'[w.sec] \in Int
    BY <1>1
  <2>3. w.gen <= gen'[w.sec] /\ w.sec[2] <= page'
    BY <1>1, <2>1, <2>2
  <2>4. ASSUME w.gen = gen'[w.sec] PROVE handle'[w.sec] = None /\ sweep'[w.sec] = {}
    <3>1. \A a, b, c \in Int : a <= b /\ b <= c /\ a = c => a = b /\ ~(b < c)
      OBVIOUS
    <3>2. w.gen = gen[w.sec] /\ ~(gen[w.sec] < gen'[w.sec])
      BY <2>1, <2>2, <2>4, <3>1
    <3>3. handle'[w.sec] \in {handle[w.sec], None}
      BY <2>2
    <3> QED
      BY <2>1, <2>4, <3>2, <3>3
  <2> QED
    BY <2>1, <2>3, <2>4
<1>6. HeldInv' /\ WaitInv'
  BY <1>4, <1>5 DEF HeldInv, WaitInv
<1> QED
  BY <1>2, <1>3, <1>6 DEF PlayerInv
\* The sweep, and what only begins: a bundle that arrives, a navigation.
LEMMA Sweeping ==
  ASSUME P!ConstantsType, PlayerInv,
         \/ \E s \in P!Sections, r \in Rows : P!Checked(s, r) \/ P!CheckLost(s, r)
         \/ \E s \in P!Sections : P!Skipped(s)
         \/ \E k \in {"tv", "radio"} : P!BundleArrives(k)
         \/ P!Go \/ UNCHANGED P!vars
  PROVE  PlayerInv'
<1>0. P!TypeOK /\ TabInv /\ HeldInv /\ WaitInv
  BY DEF PlayerInv
<1>1. /\ page \in 1 .. MaxPages /\ page <= page /\ chain = P!OnPage(page)
      /\ going => page < MaxPages
      /\ \A s \in P!Sections : gen[s] <= presses /\ gen[s] <= gen[s]
      /\ \A w \in awaiting \cup running : w.sec[2] = page \/ w \in late
      /\ \A w \in awaiting \cup running : w.sec \in P!Sections
  BY <1>0 DEF P!TypeOK, TabInv, HeldInv, WaitInv, P!Presses, P!ConstantsType
<1>2. SUFFICES /\ going' \in BOOLEAN /\ (going' => page < MaxPages)
               /\ bundle' \in [{"tv", "radio"} -> {"none", "loading", "ready"}]
               /\ UNCHANGED <<page, chain, awaiting, running, late, gen, handle, label, presses>>
               /\ row' \in [P!Sections -> [Rows -> {"off", "open", "on", "gone"}]]
               /\ sweep' \in [P!Sections -> SUBSET Rows] /\ stray' \in [P!Sections -> SUBSET Rows]
               /\ faults' \in 0 .. MaxFaults
               /\ \A s \in P!Sections : sweep'[s] \subseteq sweep[s]
  BY <1>0, <1>1, Quieter DEF P!TypeOK
<1>3. CASE \E s \in P!Sections, r \in Rows : P!Checked(s, r) \/ P!CheckLost(s, r)
  <2> PICK s \in P!Sections, r \in Rows : P!Checked(s, r) \/ P!CheckLost(s, r)
    BY <1>3
  <2>1. /\ UNCHANGED <<P!tab, P!players, late, presses>>
        /\ \E to \in {"on", "gone", "open"} : row' = [row EXCEPT ![s][r] = to]
        /\ sweep' = sweep \/ sweep' = [sweep EXCEPT ![s] = @ \ {r}]
        /\ stray' = stray \/ stray' = [stray EXCEPT ![s] = @ \ {r}]
        /\ faults' = faults \/ (faults < MaxFaults /\ faults' = faults + 1)
    BY DEF P!Checked, P!CheckLost, P!Hear, P!bounds
  <2>2. row' \in [P!Sections -> [Rows -> {"off", "open", "on", "gone"}]]
    BY <1>0, <2>1 DEF P!TypeOK
  <2>3. /\ sweep' \in [P!Sections -> SUBSET Rows] /\ stray' \in [P!Sections -> SUBSET Rows]
        /\ \A q \in P!Sections : sweep'[q] \subseteq sweep[q]
    <3>1. /\ sweep[s] \ {r} \in SUBSET Rows /\ sweep[s] \ {r} \subseteq sweep[s]
          /\ stray[s] \ {r} \in SUBSET Rows
      BY <1>0 DEF P!TypeOK
    <3>2. sweep' \in [P!Sections -> SUBSET Rows] /\ stray' \in [P!Sections -> SUBSET Rows]
      BY <1>0, <2>1, <3>1 DEF P!TypeOK
    <3>3. ASSUME NEW q \in P!Sections PROVE sweep'[q] \subseteq sweep[q]
      BY <1>0, <2>1, <3>1 DEF P!TypeOK
    <3> QED
      BY <3>2, <3>3
  <2>4. faults' \in 0 .. MaxFaults
    BY <1>0, <2>1 DEF P!TypeOK, P!ConstantsType
  <2> QED
    BY <1>0, <1>1, <2>1, <2>2, <2>3, <2>4 DEF P!TypeOK, P!tab, P!players
<1>4. CASE \E s \in P!Sections : P!Skipped(s)
  <2> PICK s \in P!Sections : P!Skipped(s)
    BY <1>4
  <2>1. /\ UNCHANGED <<P!tab, P!players, stray, late, P!bounds>>
        /\ row' = [row EXCEPT ![s] = [r \in Rows |-> IF r \in sweep[s] THEN "open" ELSE @[r]]]
        /\ sweep' = [sweep EXCEPT ![s] = {}]
    BY DEF P!Skipped
  <2>2. row' \in [P!Sections -> [Rows -> {"off", "open", "on", "gone"}]]
    BY <1>0, <2>1 DEF P!TypeOK
  <2>3. /\ sweep' \in [P!Sections -> SUBSET Rows]
        /\ \A q \in P!Sections : sweep'[q] \subseteq sweep[q]
    BY <1>0, <2>1 DEF P!TypeOK
  <2> QED
    BY <1>0, <1>1, <2>1, <2>2, <2>3 DEF P!TypeOK, P!tab, P!players, P!bounds
<1>5. CASE \E k \in {"tv", "radio"} : P!BundleArrives(k)
  <2>1. bundle' \in [{"tv", "radio"} -> {"none", "loading", "ready"}]
    BY <1>0, <1>5 DEF P!BundleArrives, P!TypeOK
  <2>2. UNCHANGED <<page, going, chain, P!players, P!rows, late, P!bounds>>
    BY <1>5 DEF P!BundleArrives
  <2> QED
    BY <1>0, <1>1, <2>1, <2>2 DEF P!TypeOK, P!players, P!rows, P!bounds
<1>6. CASE P!Go
  BY <1>0, <1>6 DEF P!Go, P!TypeOK, P!players, P!rows, P!bounds
<1>7. CASE UNCHANGED P!vars
  BY <1>0, <1>1, <1>7 DEF P!TypeOK, P!vars, P!tab, P!players, P!rows, P!bounds
<1> QED
  BY <1>3, <1>4, <1>5, <1>6, <1>7

\* The press that stops outdates every press that waits.
LEMMA Stopping ==
  ASSUME P!ConstantsType, PlayerInv, NEW s \in P!Sections, NEW r \in Rows, P!PressStop(s, r)
  PROVE  PlayerInv'
<1>0. P!TypeOK /\ TabInv /\ HeldInv /\ WaitInv
  BY DEF PlayerInv
<1>1. /\ UNCHANGED <<page, going, chain, bundle, awaiting, row, stray, late, faults>>
      /\ presses < MaxPresses /\ presses' = presses + 1
      /\ gen' = [gen EXCEPT ![s] = @ + 1] /\ label' = [label EXCEPT ![s] = None]
      /\ P!Teardown({s})
      /\ sweep' = sweep \/ sweep' = [sweep EXCEPT ![s] = P!Unasked(s)]
  BY DEF P!PressStop, P!tab
<1>2. /\ running' \subseteq running /\ \A w \in running' : w.sec \notin {s}
      /\ handle' \in [P!Sections -> P!Presses \cup {None}]
      /\ \A q \in {s} : handle'[q] = None
      /\ \A q \in P!Sections : q \notin {s} => handle'[q] = handle[q]
  BY <1>0, <1>1, TornDown
<1>3. /\ presses' \in 0 .. MaxPresses /\ presses \in Int
      /\ \A q \in P!Sections : gen[q] \in 0 .. MaxPresses /\ gen[q] <= presses
  BY <1>0, <1>1 DEF P!TypeOK, TabInv, P!ConstantsType
<1>4. gen'[s] = gen[s] + 1 /\ \A q \in P!Sections : q # s => gen'[q] = gen[q]
  BY <1>0, <1>1 DEF P!TypeOK
<1>5. /\ gen' \in [P!Sections -> 0 .. MaxPresses]
      /\ \A q \in P!Sections : gen'[q] <= presses' /\ gen[q] <= gen'[q]
  <2>1. gen[s] + 1 \in 0 .. MaxPresses /\ gen[s] + 1 <= presses'
    BY <1>1, <1>3 DEF P!ConstantsType
  <2>2. ASSUME NEW q \in P!Sections PROVE gen'[q] <= presses' /\ gen[q] <= gen'[q]
    BY <1>1, <1>3, <1>4, <2>1 DEF P!ConstantsType
  <2> QED
    BY <1>0, <1>1, <2>1, <2>2 DEF P!TypeOK
<1>6. /\ sweep' \in [P!Sections -> SUBSET Rows]
      /\ \A q \in P!Sections : q # s => sweep'[q] = sweep[q]
  BY <1>0, <1>1 DEF P!TypeOK, P!Unasked
<1>7. /\ \A w \in awaiting \cup running : w.sec \in P!Sections
      /\ \A w \in awaiting \cup running : w.sec[2] = page \/ w \in late
  BY <1>0 DEF P!TypeOK, HeldInv, WaitInv, P!Presses
<1>8. \A w \in awaiting : gen[w.sec] < gen'[w.sec] \/ sweep'[w.sec] \subseteq sweep[w.sec]
  BY <1>3, <1>4, <1>6, <1>7
<1>9. \A w \in running' : /\ handle'[w.sec] = handle[w.sec] /\ gen'[w.sec] = gen[w.sec]
                          /\ sweep'[w.sec] \subseteq sweep[w.sec]
  BY <1>2, <1>4, <1>6, <1>7
<1>10. /\ page' \in 1 .. MaxPages /\ going' \in BOOLEAN /\ chain' = P!OnPage(page')
       /\ going' => page' < MaxPages
       /\ page <= page' /\ bundle' \in [{"tv", "radio"} -> {"none", "loading", "ready"}]
       /\ awaiting' \subseteq awaiting /\ late' \subseteq P!Presses
       /\ label' \in [P!Sections -> Rows \cup {None}]
       /\ row' \in [P!Sections -> [Rows -> {"off", "open", "on", "gone"}]]
       /\ stray' \in [P!Sections -> SUBSET Rows] /\ faults' \in 0 .. MaxFaults
  BY <1>0, <1>1 DEF P!TypeOK, TabInv, P!ConstantsType
<1>11. \A q \in P!Sections : handle'[q] \in {handle[q], None}
  BY <1>2
<1>12. /\ \A w \in awaiting' : gen[w.sec] < gen'[w.sec] \/ sweep'[w.sec] \subseteq sweep[w.sec]
       /\ \A w \in awaiting' \cup running' : w.sec[2] = page' \/ w \in late'
  BY <1>1, <1>2, <1>7, <1>8
<1> QED
  BY <1>2, <1>3, <1>5, <1>6, <1>9, <1>10, <1>11, <1>12, Quieter
\* The press that plays is newer than any, and it waits for its bundle with its section silent.
LEMMA Playing ==
  ASSUME P!ConstantsType, PlayerInv, NEW s \in P!Sections, NEW r \in Rows, P!PressPlay(s, r)
  PROVE  PlayerInv'
<1>0. P!TypeOK /\ TabInv /\ HeldInv /\ WaitInv
  BY DEF PlayerInv
<1> DEFINE stops == P!StoppedBy(s)
           w0 == [sec |-> s, row |-> r, gen |-> gen[s] + 1]
<1>1. /\ UNCHANGED <<page, going, chain, row, stray, late, faults>>
      /\ presses < MaxPresses /\ presses' = presses + 1 /\ s \in P!OnPage(page)
      /\ gen' = [gen EXCEPT ![s] = gen[s] + 1] /\ sweep' = [sweep EXCEPT ![s] = {}]
      /\ P!Teardown(stops) /\ awaiting' = awaiting \cup {w0}
      /\ label' = [q \in P!Sections |->
           IF q = s \/ (q \in stops /\ P!Sort(q) = "radio") THEN None ELSE label[q]]
      /\ bundle' = [bundle EXCEPT ![P!Sort(s)] = IF @ = "none" THEN "loading" ELSE @]
  BY DEF P!PressPlay, P!NextGen
<1>2. stops \in SUBSET P!Sections /\ s \in stops
  BY <1>0, <1>1 DEF P!StoppedBy, P!OnPage, TabInv
<1> HIDE DEF stops
<1>3. /\ running' \subseteq running /\ \A w \in running' : w.sec \notin stops
      /\ handle' \in [P!Sections -> P!Presses \cup {None}]
      /\ \A q \in stops : handle'[q] = None
      /\ \A q \in P!Sections : q \notin stops => handle'[q] = handle[q]
  BY <1>0, <1>1, <1>2, TornDown
<1>4. /\ presses' \in 0 .. MaxPresses /\ presses \in Int /\ gen[s] + 1 \in 1 .. MaxPresses
      /\ gen[s] + 1 <= presses'
      /\ \A q \in P!Sections : gen[q] \in 0 .. MaxPresses /\ gen[q] <= presses
  BY <1>0, <1>1 DEF P!TypeOK, TabInv, P!ConstantsType
<1>5. /\ gen'[s] = gen[s] + 1 /\ sweep'[s] = {}
      /\ \A q \in P!Sections : q # s => gen'[q] = gen[q] /\ sweep'[q] = sweep[q]
      /\ gen' \in [P!Sections -> 0 .. MaxPresses] /\ sweep' \in [P!Sections -> SUBSET Rows]
  BY <1>0, <1>1, <1>4 DEF P!TypeOK
<1>6. /\ w0 \in P!Presses /\ w0.sec = s /\ w0.gen = gen[s] + 1 /\ s[2] = page
      /\ \A w \in awaiting \cup running : w \in P!Presses /\ w.sec \in P!Sections /\ w.gen \in Int
  BY <1>0, <1>1, <1>4 DEF P!TypeOK, P!Presses, P!OnPage
<1> HIDE DEF w0
<1>7. P!TypeOK'
  <2>1. bundle' \in [{"tv", "radio"} -> {"none", "loading", "ready"}]
    BY <1>0, <1>1 DEF P!TypeOK
  <2>2. label' \in [P!Sections -> Rows \cup {None}]
    BY <1>0, <1>1 DEF P!TypeOK
  <2>3. awaiting' \subseteq P!Presses /\ running' \subseteq P!Presses
    BY <1>0, <1>1, <1>3, <1>6 DEF P!TypeOK
  <2> QED
    BY <1>0, <1>1, <1>3, <1>4, <1>5, <2>1, <2>2, <2>3 DEF P!TypeOK
<1>8. TabInv'
  <2>1. ASSUME NEW q \in P!Sections PROVE gen'[q] <= presses'
    BY <1>1, <1>4, <1>5
  <2> QED
    BY <1>0, <1>1, <2>1 DEF TabInv
<1>9. HeldInv'
  <2>1. ASSUME NEW w \in running'
        PROVE  /\ handle'[w.sec] = w /\ w.gen = gen'[w.sec] /\ sweep'[w.sec] = {}
               /\ w.sec[2] <= page' /\ (w.sec[2] = page' \/ w \in late')
    <3>1. w.sec \in P!Sections /\ w.sec # s /\ w.sec \notin stops
      BY <1>2, <1>3, <1>6
    <3>2. /\ handle[w.sec] = w /\ w.gen = gen[w.sec] /\ sweep[w.sec] = {}
          /\ w.sec[2] <= page /\ (w.sec[2] = page \/ w \in late)
      BY <1>0, <1>3 DEF HeldInv
    <3> QED
      BY <1>1, <1>3, <1>5, <3>1, <3>2
  <2> QED
    BY <2>1 DEF HeldInv
<1>10. ASSUME NEW w \in awaiting
       PROVE  /\ w.gen <= gen[w.sec] /\ w.gen \in Int /\ w.sec \in P!Sections
              /\ w.sec[2] <= page /\ (w.sec[2] = page \/ w \in late)
              /\ w.gen = gen[w.sec] => handle[w.sec] = None /\ sweep[w.sec] = {}
              /\ \A v \in awaiting : v.sec = w.sec /\ v.gen = w.gen => v = w
              /\ ~(w.sec = s /\ w.gen = gen[s] + 1)
  <2>1. /\ w.gen <= gen[w.sec] /\ w.gen \in Int /\ w.sec \in P!Sections
        /\ w.sec[2] <= page /\ (w.sec[2] = page \/ w \in late)
        /\ w.gen = gen[w.sec] => handle[w.sec] = None /\ sweep[w.sec] = {}
        /\ \A v \in awaiting : v.sec = w.sec /\ v.gen = w.gen => v = w
    BY <1>0, <1>6 DEF WaitInv
  <2>2. \A a, b \in Int : a <= b => a # b + 1
    OBVIOUS
  <2>3. gen[s] \in Int
    BY <1>4
  <2> QED
    BY <2>1, <2>2, <2>3
<1>11. WaitInv'
  <2>1. ASSUME NEW w \in awaiting'
        PROVE  /\ w.gen <= gen'[w.sec]
               /\ w.sec[2] <= page' /\ (w.sec[2] = page' \/ w \in late')
               /\ w.gen = gen'[w.sec] => handle'[w.sec] = None /\ sweep'[w.sec] = {}
               /\ \A v \in awaiting' : v.sec = w.sec /\ v.gen = w.gen => v = w
    <3>1. CASE w = w0
      <4>1. \A v \in awaiting : ~(v.sec = w.sec /\ v.gen = w.gen)
        BY <1>6, <1>10, <3>1
      <4>2. page' = page /\ page \in Int /\ gen[s] + 1 \in Int
        BY <1>0, <1>1, <1>4 DEF P!TypeOK, P!ConstantsType
      <4> QED
        BY <1>1, <1>2, <1>3, <1>5, <1>6, <3>1, <4>1, <4>2
    <3>2. CASE w \in awaiting
      <4>1. \A v \in awaiting' : v.sec = w.sec /\ v.gen = w.gen => v = w
        BY <1>1, <1>6, <1>10, <3>2
      <4>2. CASE w.sec = s
        <5>1. \A a, b \in Int : a <= b => a <= b + 1
          OBVIOUS
        <5>2. gen[s] \in Int /\ w.gen <= gen'[w.sec]
          BY <1>4, <1>5, <1>10, <3>2, <4>2, <5>1
        <5> QED
          BY <1>1, <1>5, <1>10, <3>2, <4>1, <4>2, <5>2
      <4>3. CASE w.sec # s
        <5>1. handle[w.sec] = None => handle'[w.sec] = None
          BY <1>2, <1>3, <1>10, <3>2
        <5> QED
          BY <1>1, <1>5, <1>10, <3>2, <4>1, <4>3, <5>1
      <4> QED
        BY <4>2, <4>3
    <3> QED
      BY <1>1, <3>1, <3>2
  <2> QED
    BY <2>1 DEF WaitInv
<1> QED
  BY <1>7, <1>8, <1>9, <1>11 DEF PlayerInv
\* A press whose bundle is there: the newest plays, for none of its generation waits beside it.
LEMMA Proceeding ==
  ASSUME P!ConstantsType, PlayerInv, NEW w \in awaiting, P!Proceed(w)
  PROVE  PlayerInv'
<1>0. P!TypeOK /\ TabInv /\ HeldInv /\ WaitInv
  BY DEF PlayerInv
<1>1. /\ awaiting' = awaiting \ {w}
      /\ UNCHANGED <<page, going, chain, bundle, gen, row, sweep, stray, late, presses, faults>>
  BY DEF P!Proceed, P!tab, P!rows, P!bounds
<1>2. /\ w \in P!Presses /\ w.sec \in P!Sections /\ w.row \in Rows
      /\ \A v \in awaiting \cup running : v.sec \in P!Sections
      /\ w.sec[2] <= page /\ (w.sec[2] = page \/ w \in late)
      /\ w.gen = gen[w.sec] => sweep[w.sec] = {}
      /\ \A v \in awaiting : v.sec = w.sec /\ v.gen = w.gen => v = w
  BY <1>0 DEF P!TypeOK, P!Presses, WaitInv
<1>3. CASE w.gen = gen[w.sec]
  <2>1. /\ handle' = [handle EXCEPT ![w.sec] = w] /\ running' = running \cup {w}
        /\ label' = [label EXCEPT ![w.sec] = w.row]
    BY <1>3 DEF P!Proceed
  <2>2. /\ handle'[w.sec] = w
        /\ \A s \in P!Sections : s # w.sec => handle'[s] = handle[s]
    BY <1>0, <1>2, <2>1 DEF P!TypeOK
  <2>3. \A v \in running : v.sec # w.sec
    <3>1. w # None /\ handle[w.sec] = None
      BY <1>0, <1>2, <1>3 DEF WaitInv, P!ConstantsType
    <3>2. \A v \in running : v \in P!Presses /\ handle[v.sec] = v
      BY <1>0 DEF HeldInv, P!TypeOK
    <3> QED
      BY <3>1, <3>2 DEF P!ConstantsType
  <2>4. P!TypeOK'
    <3>1. handle' \in [P!Sections -> P!Presses \cup {None}]
          /\ label' \in [P!Sections -> Rows \cup {None}]
      BY <1>0, <1>2, <2>1 DEF P!TypeOK
    <3> QED
      BY <1>0, <1>1, <1>2, <2>1, <3>1 DEF P!TypeOK
  <2>5. TabInv'
    BY <1>0, <1>1 DEF TabInv
  <2>6. HeldInv'
    BY <1>0, <1>1, <1>2, <1>3, <2>1, <2>2, <2>3 DEF HeldInv
  <2>7. WaitInv'
    <3>1. \A v \in awaiting' : v.gen = gen[v.sec] => v.sec # w.sec
      BY <1>1, <1>2, <1>3
    <3> QED
      BY <1>0, <1>1, <1>2, <2>2, <3>1 DEF WaitInv
  <2> QED
    BY <2>4, <2>5, <2>6, <2>7 DEF PlayerInv
<1>4. CASE w.gen # gen[w.sec]
  <2>1. UNCHANGED <<handle, running, label>>
    BY <1>4 DEF P!Proceed
  <2> QED
    BY <1>0, <1>1, <2>1 DEF PlayerInv, P!TypeOK, TabInv, HeldInv, WaitInv
<1> QED
  BY <1>3, <1>4

\* A bundle that does not arrive, a player that gives up: nothing is left of these sections.
LEMMA Failing ==
  ASSUME P!ConstantsType, PlayerInv, NEW some \in SUBSET P!Sections, P!Fail(some),
         bundle' \in [{"tv", "radio"} -> {"none", "loading", "ready"}],
         awaiting' \subseteq awaiting, \A w \in awaiting' : w.gen = gen[w.sec] => w.sec \notin some,
         sweep' \in [P!Sections -> SUBSET Rows], stray' \in [P!Sections -> SUBSET Rows],
         \A s \in P!Sections : s \notin some => sweep'[s] = sweep[s],
         UNCHANGED <<page, going, chain, gen, late, presses>>
  PROVE  PlayerInv'
<1>0. P!TypeOK /\ TabInv /\ HeldInv /\ WaitInv
  BY DEF PlayerInv
<1>1. /\ running' \subseteq running /\ \A w \in running' : w.sec \notin some
      /\ handle' \in [P!Sections -> P!Presses \cup {None}]
      /\ \A q \in some : handle'[q] = None
      /\ \A q \in P!Sections : q \notin some => handle'[q] = handle[q]
  BY <1>0, TornDown DEF P!Fail
<1>2. /\ label' \in [P!Sections -> Rows \cup {None}]
      /\ row' \in [P!Sections -> [Rows -> {"off", "open", "on", "gone"}]]
      /\ faults' \in 0 .. MaxFaults
  <2>1. label' \in [P!Sections -> Rows \cup {None}]
    BY <1>0 DEF P!Fail, P!TypeOK
  <2>2. row' \in [P!Sections -> [Rows -> {"off", "open", "on", "gone"}]]
    BY <1>0 DEF P!Fail, P!TypeOK
  <2>3. faults' \in 0 .. MaxFaults
    BY <1>0 DEF P!Fail, P!TypeOK, P!ConstantsType
  <2> QED
    BY <2>1, <2>2, <2>3
<1>3. /\ \A w \in awaiting \cup running : w.sec \in P!Sections
      /\ \A w \in awaiting \cup running : w.sec[2] = page \/ w \in late
      /\ \A s \in P!Sections : gen[s] <= gen[s] /\ gen[s] <= presses
      /\ page <= page /\ chain = P!OnPage(page) /\ (going => page < MaxPages)
  BY <1>0 DEF P!TypeOK, TabInv, HeldInv, WaitInv, P!Presses, P!ConstantsType
<1>4. \A w \in awaiting' : \/ gen[w.sec] < gen'[w.sec]
                           \/ w.gen # gen'[w.sec]
                           \/ sweep'[w.sec] \subseteq sweep[w.sec]
  BY <1>3
<1>5. \A w \in running' : /\ handle'[w.sec] = handle[w.sec] /\ gen'[w.sec] = gen[w.sec]
                          /\ sweep'[w.sec] \subseteq sweep[w.sec]
  BY <1>1, <1>3
<1>6. /\ page' \in 1 .. MaxPages /\ going' \in BOOLEAN /\ chain' = P!OnPage(page')
      /\ page <= page' /\ (going' => page' < MaxPages) /\ late' \subseteq P!Presses
      /\ gen' \in [P!Sections -> 0 .. MaxPresses]
      /\ \A s \in P!Sections : gen'[s] <= presses' /\ gen[s] <= gen'[s]
      /\ presses' \in 0 .. MaxPresses
  BY <1>0, <1>3 DEF P!TypeOK
<1>7. /\ \A s \in P!Sections : handle'[s] \in {handle[s], None}
      /\ \A w \in awaiting' \cup running' : w.sec[2] = page' \/ w \in late'
  BY <1>1, <1>3
<1> QED
  BY <1>1, <1>2, <1>4, <1>5, <1>6, <1>7, Quieter

LEMMA Failures ==
  ASSUME P!ConstantsType, PlayerInv,
         \/ \E k \in {"tv", "radio"} : P!BundleFails(k)
         \/ \E w \in running : P!StreamFails(w)
  PROVE  PlayerInv'
<1>0. P!TypeOK /\ TabInv /\ HeldInv /\ WaitInv
  BY DEF PlayerInv
<1>1. CASE \E k \in {"tv", "radio"} : P!BundleFails(k)
  <2> PICK k \in {"tv", "radio"} : P!BundleFails(k)
    BY <1>1
  <2> DEFINE some == {w.sec : w \in {v \in awaiting : P!Sort(v.sec) = k}}
             twice == {s \in some : P!Cardinality({w \in awaiting : w.sec = s}) > 1}
  <2>1. /\ bundle' = [bundle EXCEPT ![k] = "none"]
        /\ awaiting' = {w \in awaiting : P!Sort(w.sec) # k}
        /\ P!Fail(some)
        /\ sweep' = [s \in P!Sections |-> IF s \in some /\ k = "tv" THEN P!Unasked(s) ELSE sweep[s]]
        /\ stray' =
             [s \in P!Sections |-> IF s \in twice /\ k = "tv" THEN P!Unasked(s) ELSE stray[s]]
        /\ UNCHANGED <<page, going, chain, gen, late, presses>>
    BY DEF P!BundleFails
  <2>2. some \in SUBSET P!Sections
    BY <1>0 DEF P!TypeOK, P!Presses
  <2>3. \A w \in awaiting' : w.sec \notin some
    BY <2>1
  <2>4. \A s \in P!Sections : P!Unasked(s) \in SUBSET Rows
    BY DEF P!Unasked
  <2> HIDE DEF some, twice
  <2>5. /\ sweep' \in [P!Sections -> SUBSET Rows]
        /\ \A s \in P!Sections : s \notin some => sweep'[s] = sweep[s]
    BY <1>0, <2>1, <2>4 DEF P!TypeOK
  <2>6. stray' \in [P!Sections -> SUBSET Rows]
    BY <1>0, <2>1, <2>4 DEF P!TypeOK
  <2>7. bundle' \in [{"tv", "radio"} -> {"none", "loading", "ready"}]
        /\ awaiting' \subseteq awaiting
    BY <1>0, <2>1 DEF P!TypeOK
  <2> QED
    BY <2>1, <2>2, <2>3, <2>5, <2>6, <2>7, Failing
<1>2. CASE \E w \in running : P!StreamFails(w)
  <2> PICK w \in running : P!StreamFails(w)
    BY <1>2
  <2> DEFINE tv == {w.sec} \cap {s \in P!Sections : P!Sort(s) = "tv"}
  <2>1. /\ P!Fail({w.sec}) /\ P!StartSweeps(tv)
        /\ UNCHANGED <<page, going, chain, bundle, awaiting, gen, late, presses>>
    BY DEF P!StreamFails, P!tab
  <2>2. {w.sec} \in SUBSET P!Sections /\ tv \subseteq {w.sec} /\ w \in P!Presses
        /\ handle[w.sec] = w
    BY <1>0 DEF P!TypeOK, P!Presses, HeldInv
  <2>3. \A v \in awaiting' : v.gen = gen[v.sec] => v.sec \notin {w.sec}
    BY <1>0, <2>1, <2>2 DEF WaitInv, P!ConstantsType
  <2> HIDE DEF tv
  <2>4. \A s \in P!Sections : P!Unasked(s) \in SUBSET Rows
    BY DEF P!Unasked
  <2>5. /\ sweep' \in [P!Sections -> SUBSET Rows]
        /\ \A s \in P!Sections : s \notin {w.sec} => sweep'[s] = sweep[s]
    BY <1>0, <2>1, <2>2, <2>4 DEF P!TypeOK, P!StartSweeps
  <2>6. stray' \in [P!Sections -> SUBSET Rows]
    BY <1>0, <2>1 DEF P!TypeOK, P!StartSweeps
  <2>7. bundle' \in [{"tv", "radio"} -> {"none", "loading", "ready"}]
        /\ awaiting' \subseteq awaiting
    BY <1>0, <2>1 DEF P!TypeOK
  <2> QED
    BY <2>1, <2>2, <2>3, <2>5, <2>6, <2>7, Failing
<1> QED
  BY <1>1, <1>2

\* The page is replaced: what its sections play is destroyed, and the new ones are silent.
LEMMA Navigating ==
  ASSUME P!ConstantsType, PlayerInv, P!Arrive \/ P!Reload
  PROVE  PlayerInv'
<1>0. P!TypeOK /\ TabInv /\ HeldInv /\ WaitInv
  BY DEF PlayerInv
<1>1. PICK some \in SUBSET P!Sections :
        /\ P!OnPage(page) \subseteq some /\ P!Teardown(some)
        /\ \A s \in P!Sections : label'[s] \in {label[s], None}
  <2>1. CASE P!Arrive
    BY <1>0, <2>1 DEF P!Arrive, TabInv, P!OnPage
  <2>2. CASE P!Reload
    BY <1>0, <2>2 DEF P!Reload, P!OnPage
  <2> QED
    BY <2>1, <2>2
<1>2. /\ running' \subseteq running /\ \A w \in running' : w.sec \notin some
      /\ handle' \in [P!Sections -> P!Presses \cup {None}]
      /\ \A q \in some : handle'[q] = None
      /\ \A q \in P!Sections : q \notin some => handle'[q] = handle[q]
  BY <1>0, <1>1, TornDown
<1>3. /\ \A w \in awaiting \cup running : w.sec \in P!Sections /\ w \in P!Presses
      /\ \A w \in awaiting \cup running : w.sec[2] <= page /\ (w.sec[2] = page \/ w \in late)
      /\ \A s \in P!Sections : gen[s] <= gen[s] /\ gen[s] <= presses
      /\ page \in Nat
  BY <1>0 DEF P!TypeOK, TabInv, HeldInv, WaitInv, P!Presses, P!ConstantsType
<1>4. /\ going' \in BOOLEAN /\ page' = page + 1 /\ chain' = P!OnPage(page + 1)
      /\ UNCHANGED <<gen, row, presses, faults>>
      /\ awaiting' \subseteq awaiting
      /\ bundle' \in [{"tv", "radio"} -> {"none", "loading", "ready"}]
      /\ label' \in [P!Sections -> Rows \cup {None}] /\ stray' \in [P!Sections -> SUBSET Rows]
      /\ sweep' \in [P!Sections -> SUBSET Rows]
      /\ \A s \in P!Sections : s[2] # page + 1 => sweep'[s] \subseteq sweep[s]
      /\ late' \subseteq P!Presses
      /\ \A w \in awaiting' : w \in late'
  <2>1. CASE P!Arrive
    <3>1. /\ going' = FALSE /\ page' = page + 1 /\ chain' = P!OnPage(page + 1)
          /\ UNCHANGED <<bundle, awaiting, gen, row, stray, presses, faults>>
          /\ late' = late \cup awaiting
          /\ label' = [s \in P!Sections |->
               IF s \in chain /\ P!Sort(s) = "radio" THEN None ELSE label[s]]
          /\ sweep' = [s \in P!Sections |-> IF s \in P!TvOn(page + 1) THEN Rows ELSE sweep[s]]
      BY <2>1 DEF P!Arrive, P!bounds
    <3>2. label' \in [P!Sections -> Rows \cup {None}]
      BY <1>0, <3>1 DEF P!TypeOK
    <3>3. /\ sweep' \in [P!Sections -> SUBSET Rows]
          /\ \A s \in P!Sections : s[2] # page + 1 => sweep'[s] \subseteq sweep[s]
      BY <1>0, <3>1 DEF P!TypeOK, P!TvOn, P!OnPage
    <3> QED
      BY <1>0, <3>1, <3>2, <3>3 DEF P!TypeOK
  <2>2. CASE P!Reload
    <3>1. /\ going' = FALSE /\ page' = page + 1 /\ chain' = P!OnPage(page + 1)
          /\ UNCHANGED <<gen, row, presses, faults>>
          /\ awaiting' = {} /\ late' = {}
          /\ bundle' = [k \in {"tv", "radio"} |-> "none"]
          /\ label' = [s \in P!Sections |-> None] /\ stray' = [s \in P!Sections |-> {}]
          /\ sweep' = [s \in P!Sections |-> IF s \in P!TvOn(page + 1) THEN Rows ELSE {}]
      BY <2>2 DEF P!Reload, P!bounds
    <3>2. bundle' \in [{"tv", "radio"} -> {"none", "loading", "ready"}]
      BY <3>1
    <3>3. /\ sweep' \in [P!Sections -> SUBSET Rows]
          /\ \A s \in P!Sections : s[2] # page + 1 => sweep'[s] \subseteq sweep[s]
      BY <3>1 DEF P!TvOn, P!OnPage
    <3> QED
      BY <3>1, <3>2, <3>3
  <2> QED
    BY <2>1, <2>2
<1>5. page' \in 1 .. MaxPages /\ page <= page' /\ ~going'
  <2>1. page < MaxPages /\ ~going'
    BY <1>0 DEF P!Arrive, P!Reload, TabInv
  <2> QED
    BY <1>0, <1>3, <1>4, <2>1 DEF P!TypeOK, P!ConstantsType
<1>6. \A w \in awaiting' \cup running' : w.sec[2] = page' \/ w \in late'
  <2>1. CASE P!Arrive
    <3>1. late \subseteq late'
      BY <2>1 DEF P!Arrive
    <3>2. \A w \in running' : w.sec[2] # page
      BY <1>1, <1>2, <1>3 DEF P!OnPage
    <3> QED
      BY <1>2, <1>3, <1>4, <3>1, <3>2
  <2>2. CASE P!Reload
    <3>1. P!Teardown(P!Sections)
      BY <2>2 DEF P!Reload
    <3>2. \A w \in running' : w.sec \notin P!Sections /\ w \in running
      BY <1>0, <3>1, TornDown
    <3> QED
      BY <1>3, <1>4, <3>2
  <2> QED
    BY <2>1, <2>2
<1>7. \A w \in awaiting \cup running : w.sec \in P!Sections /\ sweep'[w.sec] \subseteq sweep[w.sec]
  <2>1. \A w \in awaiting \cup running : w.sec[2] \in Int
    BY <1>3 DEF P!Sections
  <2>2. \A w \in awaiting \cup running : w.sec[2] # page + 1
    BY <1>3, <2>1
  <2> QED
    BY <1>3, <1>4, <2>2
<1>8. /\ \A w \in running' : /\ handle'[w.sec] = handle[w.sec] /\ gen'[w.sec] = gen[w.sec]
                             /\ sweep'[w.sec] \subseteq sweep[w.sec]
      /\ \A w \in awaiting' : \/ gen[w.sec] < gen'[w.sec]
                              \/ w.gen # gen'[w.sec]
                              \/ sweep'[w.sec] \subseteq sweep[w.sec]
      /\ \A q \in P!Sections : handle'[q] \in {handle[q], None}
  BY <1>2, <1>4, <1>7
<1>9. /\ gen' \in [P!Sections -> 0 .. MaxPresses]
      /\ \A s \in P!Sections : gen'[s] <= presses' /\ gen[s] <= gen'[s]
      /\ row' \in [P!Sections -> [Rows -> {"off", "open", "on", "gone"}]]
      /\ presses' \in 0 .. MaxPresses /\ faults' \in 0 .. MaxFaults
      /\ chain' = P!OnPage(page')
  BY <1>0, <1>3, <1>4 DEF P!TypeOK
<1> QED
  BY <1>2, <1>4, <1>5, <1>6, <1>8, <1>9, Quieter

\* Every step keeps the invariant.
LEMMA PlayerInvariance == ASSUME P!ConstantsType, PlayerInv, [P!Next]_(P!vars) PROVE PlayerInv'
<1>1. CASE UNCHANGED P!vars
  BY <1>1, Sweeping
<1>2. CASE \E s \in P!Sections, r \in Rows : P!PressStop(s, r)
  BY <1>2, Stopping
<1>3. CASE \E s \in P!Sections, r \in Rows : P!PressPlay(s, r)
  BY <1>3, Playing
<1>4. CASE \/ \E s \in P!Sections, r \in Rows : P!Checked(s, r) \/ P!CheckLost(s, r)
           \/ \E s \in P!Sections : P!Skipped(s)
           \/ \E k \in {"tv", "radio"} : P!BundleArrives(k)
           \/ P!Go
  BY <1>4, Sweeping
<1>5. CASE \E w \in awaiting : P!Proceed(w)
  BY <1>5, Proceeding
<1>6. CASE \/ \E k \in {"tv", "radio"} : P!BundleFails(k)
           \/ \E w \in running : P!StreamFails(w)
  BY <1>6, Failures
<1>7. CASE P!Arrive \/ P!Reload
  BY <1>7, Navigating
<1> QED
  BY <1>1, <1>2, <1>3, <1>4, <1>5, <1>6, <1>7 DEF P!Next

\* Type correctness of the browser player.
THEOREM PlayerTypesCorrect == ASSUME P!ConstantsType PROVE P!Spec => []P!TypeOK
<1>1. P!Init => PlayerInv
  BY PlayerBegins
<1>2. PlayerInv /\ [P!Next]_(P!vars) => PlayerInv'
  BY PlayerInvariance
<1>3. PlayerInv => P!TypeOK
  BY DEF PlayerInv
<1> QED
  BY <1>1, <1>2, <1>3, PTL DEF P!Spec

\* What plays can be stopped: NoStrayPlayer of the browser player.
THEOREM NothingPlaysAstray == ASSUME P!ConstantsType PROVE P!Spec => []P!NoStrayPlayer
<1>1. P!Init => PlayerInv
  BY PlayerBegins
<1>2. PlayerInv /\ [P!Next]_(P!vars) => PlayerInv'
  BY PlayerInvariance
<1>3. PlayerInv => P!NoStrayPlayer
  BY DEF PlayerInv, HeldInv, P!NoStrayPlayer
<1> QED
  BY <1>1, <1>2, <1>3, PTL DEF P!Spec

\* A page that was left is silent: LeftPagesSilent of the browser player.
THEOREM LeftIsSilent == ASSUME P!ConstantsType PROVE P!Spec => []P!LeftPagesSilent
<1>1. P!Init => PlayerInv
  BY PlayerBegins
<1>2. PlayerInv /\ [P!Next]_(P!vars) => PlayerInv'
  BY PlayerInvariance
<1>3. PlayerInv => P!LeftPagesSilent
  BY DEF PlayerInv, HeldInv, P!LeftPagesSilent
<1> QED
  BY <1>1, <1>2, <1>3, PTL DEF P!Spec

\* No section is probed beside its own stream: NoCheckBesideStream of the browser player.
THEOREM UnprobedWhilePlaying == ASSUME P!ConstantsType PROVE P!Spec => []P!NoCheckBesideStream
<1>1. P!Init => PlayerInv
  BY PlayerBegins
<1>2. PlayerInv /\ [P!Next]_(P!vars) => PlayerInv'
  BY PlayerInvariance
<1>3. PlayerInv => P!NoCheckBesideStream
  BY DEF PlayerInv, HeldInv, P!NoCheckBesideStream
<1> QED
  BY <1>1, <1>2, <1>3, PTL DEF P!Spec
=============================================================================
