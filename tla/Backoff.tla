--------------------------------- MODULE Backoff ---------------------------------
(***************************************************************************)
(* auth-throttle: the doubling wait in front of the sign-in routes.  One   *)
(* Map in the web process, kept in the order its keys were first put in,   *)
(* for everybody who asks.                                                 *)
(***************************************************************************)
EXTENDS Integers, Sequences, SequencesExt

CONSTANTS
  Callers,
  Free,        \* FREE_ATTEMPTS
  BaseLock,    \* BASE_LOCK_MS
  MaxLock,     \* MAX_LOCK_MS
  Decay,       \* DECAY_MS
  Longest,     \* the longest decay of all curves
  MaxTracked,  \* MAX_TRACKED
  MaxAtOnce,   \* bound: requests of one caller at once
  MaxTime      \* bound: the clock stops here

VARIABLES
  now,
  seen,     \* the keys of the Map, in the order they were put in
  entry,    \* strikes, lockedUntil and lastAt of each
  working,  \* requests of each that were let through and have not been answered
  lastLock  \* ghost: the last lock a caller earned and was not forgiven

vars == <<now, seen, entry, working, lastLock>>

Clean == [strikes |-> 0, lockedUntil |-> 0, lastAt |-> 0]
Tracked == ToSet(seen)
LockedOut(c) == c \in Tracked /\ entry[c].lockedUntil > now

Init ==
  /\ now = 0 /\ seen = <<>>
  /\ entry = [c \in Callers |-> Clean]
  /\ working = [c \in Callers |-> 0]
  /\ lastLock = [c \in Callers |-> 0]

\* sweep, when the Map is full: what is long quiet, and then the oldest beyond the limit.
Swept ==
  LET kept ==
    SelectSeq(seen, LAMBDA c : entry[c].lockedUntil > now \/ now - entry[c].lastAt <= Longest)
      excess == Len(kept) - MaxTracked
  IN IF Len(seen) < MaxTracked THEN seen
     ELSE IF excess > 0 THEN SubSeq(kept, excess + 1, Len(kept)) ELSE kept

\* Mutation: no ceiling.
LockForUncapped(strikes) == BaseLock * 2 ^ (strikes - Free - 1)

\* Mutation: the penalty does not grow.
LockForFlat(strikes) == BaseLock

\* A lock doubles with each strike beyond the free ones, up to the ceiling.
LockFor(strikes) ==
  LET doubled == BaseLock * 2 ^ (strikes - Free - 1)
  IN IF doubled < MaxLock THEN doubled ELSE MaxLock

\* One attempt counted: none while locked, from one again after a long quiet.
Charged(e) ==
  IF e.lockedUntil > now THEN [e EXCEPT !.lastAt = now]
  ELSE LET strikes == IF now - e.lastAt > Decay THEN 1 ELSE e.strikes + 1
       IN [strikes |-> strikes, lastAt |-> now,
           lockedUntil |-> IF strikes > Free THEN now + LockFor(strikes) ELSE e.lockedUntil]

Attempt(c) ==
  LET kept == Swept
      known == c \in ToSet(kept)
      e == IF known THEN entry[c] ELSE [Clean EXCEPT !.lastAt = now]
  IN
  /\ working[c] < MaxAtOnce
  /\ entry' = [d \in Callers |-> IF d = c THEN Charged(e)
                                 ELSE IF d \in ToSet(kept) THEN entry[d] ELSE Clean]
  /\ seen' = IF known THEN kept ELSE Append(kept, c)
  /\ working' = [working EXCEPT ![c] = @ + (IF entry'[c].lockedUntil > now THEN 0 ELSE 1)]
  /\ lastLock' = [d \in Callers |->
       IF d \notin ToSet(kept) \cup {c} THEN 0
       ELSE IF d # c THEN lastLock[d]
       ELSE IF ~LockedOut(c) /\ entry'[c].lockedUntil > now THEN entry'[c].lockedUntil - now
       ELSE IF ~known \/ (~LockedOut(c) /\ now - e.lastAt > Decay) THEN 0 ELSE lastLock[c]]
  /\ UNCHANGED now

\* A request that was let through fails, or its caller had gone.
Fail(c) ==
  /\ working[c] > 0 /\ working' = [working EXCEPT ![c] = @ - 1]
  /\ UNCHANGED <<now, seen, entry, lastLock>>

\* It signs its caller in: whatever the Map holds of the caller by now is forgotten.
Forgive(c) ==
  /\ working[c] > 0 /\ working' = [working EXCEPT ![c] = @ - 1]
  /\ seen' = SelectSeq(seen, LAMBDA d : d # c)
  /\ entry' = [entry EXCEPT ![c] = Clean]
  /\ lastLock' = [lastLock EXCEPT ![c] = 0]
  /\ UNCHANGED now

Tick == now < MaxTime /\ now' = now + 1 /\ UNCHANGED <<seen, entry, working, lastLock>>

Next == Tick \/ \E c \in Callers : Attempt(c) \/ Fail(c) \/ Forgive(c)

Spec == Init /\ [][Next]_vars

TypeOK ==
  /\ now \in 0 .. MaxTime /\ seen \in Seq(Callers) /\ IsInjective(seen)
  /\ entry \in [Callers -> [strikes : Nat, lockedUntil : Nat, lastAt : 0 .. MaxTime]]
  /\ working \in [Callers -> 0 .. MaxAtOnce] /\ lastLock \in [Callers -> 0 .. MaxLock]

\* "it needs a bound": however many callers come, the Map holds one more than
\* MAX_TRACKED at most, the one whose attempt the next sweep counts.
MapBounded == Len(seen) <= MaxTracked + 1

\* "The penalty escalates", "once per lock earned, not once per request refused": the lock that
\* a caller earns after another is twice as long, up to the ceiling, unless in between it was
\* forgiven, shed or quiet for Decay.
Doubles(c) ==
  lastLock[c] > 0 /\ ~LockedOut(c) /\ LockedOut(c)' =>
    entry'[c].lockedUntil - now = IF 2 * lastLock[c] < MaxLock THEN 2 * lastLock[c] ELSE MaxLock
PenaltyDoubles == [][\A c \in Callers : Doubles(c)]_vars

\* A lock is served: it ends early only by a sweep of the full Map, which sheds the oldest and
\* never whoever was put in last, and by a sign-in of the same caller that was let through
\* before the lock and is answered during it.
NewestStaysLocked ==
  [][\A c \in Callers :
       LockedOut(c) /\ Last(seen) = c /\ now' = now =>
         LockedOut(c)' \/ working'[c] < working[c]]_vars

\* A lock is earned in full and served in full.
LocksHold == PenaltyDoubles /\ NewestStaysLocked
=============================================================================
