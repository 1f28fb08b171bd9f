--------------------------------- MODULE Vault ---------------------------------
(***************************************************************************)
(* One reader's key vault: a row made in the browser, a playlist key held  *)
(* in the memory of the web process while the reader is unlocked and lent  *)
(* to the worker, and the move of what was sealed under the server's key   *)
(* (v1) to the vault's (v2), after each unlock, while both processes go on *)
(* writing.  Each process keeps who has a vault in memory and hears of     *)
(* others' within a minute.                                                *)
(***************************************************************************)
EXTENDS Integers, Sequences, SequencesExt

CONSTANTS
  Migrations, \* unlocks that may run at once
  Order,      \* the sealed values, in the order they are moved
  None,
  MaxEdits,   \* bound: writes of the processes
  MaxFaults   \* bound: locks, expiries and restarts

Procs == {"web", "worker"}
Values == ToSet(Order)
Early == Values \cap {"address", "line"}
Keys == {"v1", "v2"}
Sealed == [edit : 0 .. MaxEdits, under : Keys]
Drafts == [of : Values, under : Keys]

\* What the composing module and the proofs assume of them.
ConstantsType ==
  /\ Order \in Seq(Values) /\ Order # <<>>
  /\ None \notin BOOLEAN /\ None \notin Keys /\ None \notin Sealed /\ None \notin Drafts
  /\ MaxEdits \in Nat /\ MaxFaults \in Nat

VARIABLES
  vault,    \* the row of user_vaults
  noting,   \* it is made, and onCreate has yet to note it
  owners,   \* a process knows of it
  heard,    \* what a process's sync read and has yet to keep, or None
  key,      \* a process holds the playlist key
  stored,   \* a sealed value: which edit it is of, and the key it is under
  draft,    \* what a process has sealed and not yet written, or None
  at, got, hand, \* a migration: which value it is at, those it has read, and what it read
  sure,     \* ghost: nothing v1 can be written any more, and nothing has failed
  edits,    \* ghost: edits of a value
  crossed,  \* ghost: values edited while a migration had them in hand
  settled,  \* ghost: a migration that was sure ended
  faults

memory == <<owners, heard, key>>
moves == <<at, got, hand, sure>>
ghosts == <<edits, crossed, settled>>
vars == <<vault, noting, memory, stored, draft, moves, ghosts, faults>>

Init ==
  /\ vault = FALSE /\ noting = FALSE
  /\ owners = [p \in Procs |-> FALSE] /\ heard = [p \in Procs |-> None]
  /\ key = [p \in Procs |-> FALSE]
  /\ stored = [v \in Values |-> [edit |-> 0, under |-> "v1"]]
  /\ draft = [p \in Procs |-> None]
  /\ at = [m \in Migrations |-> 0] /\ got = [m \in Migrations |-> {}]
  /\ hand = [m \in Migrations |-> [v \in Values |-> None]]
  /\ sure = [m \in Migrations |-> FALSE]
  /\ edits = [v \in Values |-> 0] /\ crossed = {} /\ settled = FALSE
  /\ faults = 0

Fault == faults < MaxFaults /\ faults' = faults + 1

-----------------------------------------------------------------------------
(* The vault and what each process knows of it.                            *)

\* createUserVault, and then onCreate.
Create ==
  /\ ~vault /\ vault' = TRUE /\ noting' = TRUE
  /\ UNCHANGED <<memory, stored, draft, moves, ghosts, faults>>

NoteOwner ==
  /\ noting /\ noting' = FALSE /\ owners' = [owners EXCEPT !["web"] = TRUE]
  /\ UNCHANGED <<vault, heard, key, stored, draft, moves, ghosts, faults>>

\* startVaultOwnerSync: the whole set is read, and then replaces the one in memory.
ReadOwners(p) ==
  /\ heard[p] = None /\ heard' = [heard EXCEPT ![p] = vault]
  /\ UNCHANGED <<vault, noting, owners, key, stored, draft, moves, ghosts, faults>>

SetOwners(p) ==
  /\ heard[p] # None
  /\ owners' = [owners EXCEPT ![p] = heard[p]] /\ heard' = [heard EXCEPT ![p] = None]
  /\ UNCHANGED <<vault, noting, key, stored, draft, moves, ghosts, faults>>

\* ensurePlaylistKey: the worker is lent the key of a reader who is unlocked, if it knows
\* that it needs one.
Adopt ==
  /\ key["web"] /\ ~key["worker"] /\ owners["worker"] /\ key' = [key EXCEPT !["worker"] = TRUE]
  /\ UNCHANGED <<vault, noting, owners, heard, stored, draft, moves, ghosts, faults>>

\* Locked, or its time is over.
Lock(p) ==
  /\ key[p] /\ Fault
  /\ key' = [key EXCEPT ![p] = FALSE]
  /\ UNCHANGED <<vault, noting, owners, heard, stored, draft, moves, ghosts>>

Nothing == [v \in Values |-> None]

Ends(m) ==
  /\ at' = [at EXCEPT ![m] = 0] /\ sure' = [sure EXCEPT ![m] = FALSE]
  /\ got' = [got EXCEPT ![m] = {}] /\ hand' = [hand EXCEPT ![m] = Nothing]

\* A process comes back knowing the vaults there are, and no key.
Restart(p) ==
  /\ Fault
  /\ key' = [key EXCEPT ![p] = FALSE] /\ owners' = [owners EXCEPT ![p] = vault]
  /\ heard' = [heard EXCEPT ![p] = None] /\ draft' = [draft EXCEPT ![p] = None]
  /\ IF p = "web"
     THEN /\ noting' = FALSE
          /\ at' = [m \in Migrations |-> 0] /\ sure' = [m \in Migrations |-> FALSE]
          /\ got' = [m \in Migrations |-> {}] /\ hand' = [m \in Migrations |-> Nothing]
     ELSE UNCHANGED <<noting, moves>>
  /\ UNCHANGED <<vault, stored, ghosts>>

-----------------------------------------------------------------------------
(* Writing.                                                                *)

\* Mutation: a reader who is locked writes under the server's key.
SealUnderLocked(p) == IF key[p] THEN "v2" ELSE "v1"

\* seal: under the vault while it is open, under the server's key while there is none that
\* this process knows of; otherwise it is refused.
SealUnder(p) == IF key[p] THEN "v2" ELSE IF owners[p] THEN None ELSE "v1"

\* A sign-in, an import or a new line seals what it will write.
Seal(p, v) ==
  /\ draft[p] = None /\ SealUnder(p) # None /\ edits[v] < MaxEdits
  /\ draft' = [draft EXCEPT ![p] = [of |-> v, under |-> SealUnder(p)]]
  /\ UNCHANGED <<vault, noting, memory, stored, moves, ghosts, faults>>

Write(p) ==
  LET d == draft[p] IN
  /\ d # None /\ edits[d.of] < MaxEdits
  /\ edits' = [edits EXCEPT ![d.of] = @ + 1]
  /\ stored' = [stored EXCEPT ![d.of] = [edit |-> edits[d.of] + 1, under |-> d.under]]
  /\ draft' = [draft EXCEPT ![p] = None]
  /\ crossed' = IF \E m \in Migrations : at[m] # 0 /\ hand[m][d.of] # None
                THEN crossed \cup {d.of} ELSE crossed
  /\ UNCHANGED <<vault, noting, memory, moves, settled, faults>>

-----------------------------------------------------------------------------
(* The move: migrateLegacyFor and migrateChannels.                         *)

\* onUnlock keeps the key and begins.
Unlock(m) ==
  /\ vault /\ at[m] = 0
  /\ key' = [key EXCEPT !["web"] = TRUE]
  /\ at' = [at EXCEPT ![m] = 1]
  /\ sure' = [sure EXCEPT ![m] =
       /\ \A p \in Procs : owners[p] /\ heard[p] # FALSE
       /\ \A p \in Procs : draft[p] # None => draft[p].under = "v2"]
  /\ UNCHANGED <<vault, noting, owners, heard, stored, draft, got, hand, ghosts, faults>>

Value(m) == Order[at[m]]
Together(v) == IF v \in Early THEN Early ELSE {v}

NextValue(m, still) ==
  IF at[m] = Len(Order)
  THEN Ends(m) /\ settled' = (settled \/ still)
  ELSE /\ at' = [at EXCEPT ![m] = @ + 1] /\ sure' = [sure EXCEPT ![m] = still]
       /\ hand' = [hand EXCEPT ![m][Value(m)] = None]
       /\ UNCHANGED <<got, settled>>

\* What is still v1 is read: addresses and lines together, the others at their turn.
\* Before the channels it asks whether the reader is still unlocked.
Look(m) ==
  /\ at[m] # 0 /\ Value(m) \notin got[m]
  /\ IF Value(m) = "channel" /\ ~key["web"]
     THEN Ends(m)
     ELSE /\ got' = [got EXCEPT ![m] = @ \cup Together(Value(m))]
          /\ hand' = [hand EXCEPT ![m] = [v \in Values |->
               IF v \in Together(Value(m)) /\ stored[v].under = "v1" THEN stored[v] ELSE @[v]]]
          /\ UNCHANGED <<at, sure>>
  /\ UNCHANGED <<vault, noting, memory, stored, draft, ghosts, faults>>

Skip(m) ==
  /\ at[m] # 0 /\ Value(m) \in got[m] /\ hand[m][Value(m)] = None
  /\ NextValue(m, sure[m])
  /\ UNCHANGED <<vault, noting, memory, stored, draft, edits, crossed, faults>>

\* Mutation: an address is written back whatever has become of it.
ResealedBlind(v, old, under) == [old EXCEPT !.under = under]

\* An address is matched on the old value and a channel on its row, which an import replaces;
\* a line and a radio session are written over whatever is there.
Resealed(v, old, under) ==
  IF v \in {"address", "channel"} /\ stored[v] # old THEN stored[v]
  ELSE [old EXCEPT !.under = under]

Reseal(m) ==
  LET v == Value(m) IN
  /\ at[m] # 0 /\ v \in got[m] /\ hand[m][v] # None /\ SealUnder("web") # None
  /\ stored' = [stored EXCEPT ![v] = Resealed(v, hand[m][v], SealUnder("web"))]
  /\ IF v = "channel"
     THEN /\ got' = [got EXCEPT ![m] = @ \ {v}] /\ hand' = [hand EXCEPT ![m][v] = None]
          /\ UNCHANGED <<at, sure, settled>>
     ELSE NextValue(m, sure[m])
  /\ UNCHANGED <<vault, noting, memory, draft, edits, crossed, faults>>

\* The reader was locked meanwhile: a line is left as it is, and anything else ends the move.
ResealRefused(m) ==
  /\ at[m] # 0 /\ Value(m) \in got[m] /\ hand[m][Value(m)] # None /\ SealUnder("web") = None
  /\ IF Value(m) = "line" THEN NextValue(m, FALSE) ELSE Ends(m) /\ UNCHANGED settled
  /\ UNCHANGED <<vault, noting, memory, stored, draft, edits, crossed, faults>>

Next ==
  \/ Create \/ NoteOwner \/ Adopt
  \/ \E p \in Procs : ReadOwners(p) \/ SetOwners(p) \/ Lock(p) \/ Restart(p) \/ Write(p)
  \/ \E p \in Procs, v \in Values : Seal(p, v)
  \/ \E m \in Migrations : Unlock(m) \/ Look(m) \/ Skip(m) \/ Reseal(m) \/ ResealRefused(m)

Spec == Init /\ [][Next]_vars

-----------------------------------------------------------------------------
TypeOK ==
  /\ vault \in BOOLEAN /\ noting \in BOOLEAN
  /\ owners \in [Procs -> BOOLEAN] /\ key \in [Procs -> BOOLEAN]
  /\ heard \in [Procs -> BOOLEAN \cup {None}]
  /\ stored \in [Values -> Sealed]
  /\ draft \in [Procs -> Drafts \cup {None}]
  /\ at \in [Migrations -> 0 .. Len(Order)] /\ got \in [Migrations -> SUBSET Values]
  /\ hand \in [Migrations -> [Values -> Sealed \cup {None}]]
  /\ sure \in [Migrations -> BOOLEAN] /\ settled \in BOOLEAN
  /\ edits \in [Values -> 0 .. MaxEdits] /\ crossed \subseteq Values
  /\ faults \in 0 .. MaxFaults

\* "Matched on the old value so a concurrent edit wins" (migrateLegacyFor): what is stored is
\* the last edit, whichever key it is under; a line or a radio session, which are not
\* matched, only where no edit crossed the move.
EditsWin == \A v \in Values :
  v \in {"address", "channel"} \/ v \notin crossed => stored[v].edit = edits[v]

\* Once both processes know of the vault and a move that began after that has ended, nothing
\* of the reader is under the server's key again.
NothingLeftUnderServerKey ==
  settled => \A v \in Values : stored[v].under = "v2"

\* The move to the vault loses no edit and leaves nothing behind.
VaultKeeps == EditsWin /\ NothingLeftUnderServerKey
=============================================================================
