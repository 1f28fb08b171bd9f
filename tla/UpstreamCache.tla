----------------------------- MODULE UpstreamCache -----------------------------
(***************************************************************************)
(* sharedFetch of the radio proxy: one upstream request per key, however   *)
(* many readers ask, and a small cache of the answers with a lifetime and  *)
(* a bound on its bytes.                                                   *)
(***************************************************************************)
EXTENDS Integers, Sequences, SequencesExt

CONSTANTS
  Keys,         \* upstream URLs
  Manifests,    \* those of them that name playlists
  Readers,      \* requests of browsers, each asking again and again
  None,         \* no key
  ManifestTtl,  \* how long a playlist is held (2 s)
  SegmentTtl,   \* how long a segment is held (30 s)
  MaxBytes,     \* what the cache may hold (32 MiB)
  MaxSize,      \* bound: the size of one answer
  MaxTime       \* bound: the clock stops here

\* What the composing module and the proofs assume of them.
ConstantsType == None \notin Keys

Ttl(k) == IF k \in Manifests THEN ManifestTtl ELSE SegmentTtl

VARIABLES
  now,
  cached,    \* the keys of the cache, in the order a Map keeps them
  size,      \* entry.bytes
  expires,   \* entry.expiresAt
  held,      \* heldBytes
  inFlight,  \* the keys of inFlight
  fetching,  \* upstream requests open, per key
  settled,   \* how the promise of a key settled: "no", "good" or "bad"
  waiting    \* the key a reader awaits the shared promise of

vars == <<now, cached, size, expires, held, inFlight, fetching, settled, waiting>>

TypeOK ==
  /\ now \in 0 .. MaxTime
  /\ cached \in Seq(Keys)
  /\ size \in [Keys -> 0 .. MaxSize]
  /\ expires \in [Keys -> Nat]
  /\ held \in Nat
  /\ inFlight \subseteq Keys
  /\ fetching \in [Keys -> Nat]
  /\ settled \in [Keys -> {"no", "good", "bad"}]
  /\ waiting \in [Readers -> Keys \cup {None}]

Init ==
  /\ now = 0 /\ cached = <<>> /\ held = 0
  /\ size = [k \in Keys |-> 0]
  /\ expires = [k \in Keys |-> 0]
  /\ inFlight = {}
  /\ fetching = [k \in Keys |-> 0]
  /\ settled = [k \in Keys |-> "no"]
  /\ waiting = [r \in Readers |-> None]

-----------------------------------------------------------------------------
(* The cache.                                                              *)

Hit(k) == Contains(cached, k) /\ expires[k] > now

\* The bytes of the entries ks, with sizes sz.
Bytes(ks, sz) == FoldLeft(LAMBDA sum, k : sum + sz[k], 0, ks)

\* Mutation: one entry makes room, whatever its size.
RoomByOne(ks, sz, h) == 1

\* How many of the oldest entries go before h fits: at least one, at most all.
RoomBy(ks, sz, h) ==
  CHOOSE n \in 1 .. Len(ks) :
    /\ n = Len(ks) \/ h - Bytes(SubSeq(ks, 1, n), sz) <= MaxBytes
    /\ \A m \in 1 .. n - 1 : h - Bytes(SubSeq(ks, 1, m), sz) > MaxBytes

\* Mutation: expired bytes are given back twice.
EvictTwice(ks, sz, ex, h) ==
  LET stale == SelectSeq(ks, LAMBDA k : ex[k] <= now)
  IN  /\ cached' = SelectSeq(ks, LAMBDA k : ex[k] > now)
      /\ held' = h - 2 * Bytes(stale, sz)

\* evict: what has expired, then the oldest until the rest fits.
Evict(ks, sz, ex, h) ==
  LET fresh == SelectSeq(ks, LAMBDA k : ex[k] > now)
      stale == SelectSeq(ks, LAMBDA k : ex[k] <= now)
      rest  == h - Bytes(stale, sz)
      n     == RoomBy(fresh, sz, rest)
  IN  IF rest <= MaxBytes \/ fresh = <<>>
      THEN /\ cached' = fresh
           /\ held' = rest
      ELSE /\ cached' = SubSeq(fresh, n + 1, Len(fresh))
           /\ held' = rest - Bytes(SubSeq(fresh, 1, n), sz)

\* A Map keeps the place of a key it already has.
Store(k, bytes) ==
  LET ks == IF Contains(cached, k) THEN cached ELSE Append(cached, k)
      sz == [size EXCEPT ![k] = bytes]
      ex == [expires EXCEPT ![k] = now + Ttl(k)]
  IN  /\ size' = sz
      /\ expires' = ex
      /\ Evict(ks, sz, ex, held + bytes)

-----------------------------------------------------------------------------
(* sharedFetch; a hit changes nothing.                                     *)

Join(r, k) ==
  /\ waiting[r] = None /\ ~Hit(k) /\ k \in inFlight
  /\ waiting' = [waiting EXCEPT ![r] = k]
  /\ UNCHANGED <<now, cached, size, expires, held, inFlight, fetching, settled>>

\* Mutation: the check for a request under way is missing.
FetchRegardless(r, k) ==
  /\ waiting[r] = None /\ ~Hit(k)
  /\ waiting' = [waiting EXCEPT ![r] = k]
  /\ inFlight' = inFlight \cup {k}
  /\ fetching' = [fetching EXCEPT ![k] = @ + 1]
  /\ UNCHANGED <<now, cached, size, expires, held, settled>>

Fetch(r, k) ==
  /\ waiting[r] = None /\ ~Hit(k) /\ k \notin inFlight
  /\ waiting' = [waiting EXCEPT ![r] = k]
  /\ inFlight' = inFlight \cup {k}
  /\ fetching' = [fetching EXCEPT ![k] = @ + 1]
  /\ UNCHANGED <<now, cached, size, expires, held, settled>>

\* A 2xx answer.
Answer(k, bytes) ==
  /\ fetching[k] > 0
  /\ fetching' = [fetching EXCEPT ![k] = @ - 1]
  /\ settled' = [settled EXCEPT ![k] = "good"]
  /\ Store(k, bytes)
  /\ UNCHANGED <<now, inFlight, waiting>>

\* Any other status is handed on and not held; a fetcher that throws rejects.
Fail(k) ==
  /\ fetching[k] > 0
  /\ fetching' = [fetching EXCEPT ![k] = @ - 1]
  /\ settled' = [settled EXCEPT ![k] = "bad"]
  /\ UNCHANGED <<now, cached, size, expires, held, inFlight, waiting>>

\* Mutation: the key is deleted after the await, not in a finally.
SettleGoodOnly(k) ==
  /\ settled[k] # "no"
  /\ settled' = [settled EXCEPT ![k] = "no"]
  /\ inFlight' = IF settled[k] = "good" THEN inFlight \ {k} ELSE inFlight
  /\ waiting' = [r \in Readers |-> IF waiting[r] = k THEN None ELSE waiting[r]]
  /\ UNCHANGED <<now, cached, size, expires, held, fetching>>

\* Whoever awaited the promise goes on; the finally deletes the key.
Settle(k) ==
  /\ settled[k] # "no"
  /\ settled' = [settled EXCEPT ![k] = "no"]
  /\ inFlight' = inFlight \ {k}
  /\ waiting' = [r \in Readers |-> IF waiting[r] = k THEN None ELSE waiting[r]]
  /\ UNCHANGED <<now, cached, size, expires, held, fetching>>

Tick ==
  /\ now < MaxTime
  /\ now' = now + 1
  /\ UNCHANGED <<cached, size, expires, held, inFlight, fetching, settled, waiting>>

Next ==
  \/ \E r \in Readers, k \in Keys : Join(r, k) \/ Fetch(r, k)
  \/ \E k \in Keys : Fail(k) \/ Settle(k) \/ \E bytes \in 1 .. MaxSize : Answer(k, bytes)
  \/ Tick

Spec == Init /\ [][Next]_vars

\* The upstream answers or the connection breaks, and promises settle.
Fairness ==
  \A k \in Keys :
    /\ WF_vars(Fail(k) \/ \E bytes \in 1 .. MaxSize : Answer(k, bytes))
    /\ WF_vars(Settle(k))

FairSpec == Spec /\ Fairness

-----------------------------------------------------------------------------
(* Properties.                                                             *)

\* "concurrent requests for one URL share a single promise": a subscription never
\* pulls the same bytes twice at once, whatever expires or is evicted meanwhile.
OneFetchPerKey == \A k \in Keys : fetching[k] <= 1

\* The cache holds no more than MAX_BYTES between two answers, and its counter is
\* never below what it holds.
CacheBounded == Bytes(cached, size) <= MaxBytes /\ Bytes(cached, size) <= held

\* A request that failed is forgotten like any other, so that the next reader asks
\* again instead of being handed the old failure.
FetchesEnd == \A k \in Keys : k \in inFlight ~> k \notin inFlight
=============================================================================
