----------------------------- MODULE Vault_proofs -----------------------------
(***************************************************************************)
(* Proofs about Vault, for any values in any order, any number of unlocks  *)
(* that run at once, and any number of edits, locks and restarts; and      *)
(* about the one thing sealed under it that is opened and held, the radio: *)
(* RadioSession, for any number of calls, sign-ins, refreshes and locks,   *)
(* and SharedRadio, for any number of lines, listeners, edits and tunes.   *)
(***************************************************************************)
EXTENDS Vault, SequenceTheorems, FiniteSetTheorems, TLAPS

CONSTANTS Calls, MaxLogins, MaxTurns, MaxForgets, Owners, Readers, Requests, Edits, MaxMinted

VARIABLES row, unlocked, bearer, inflight, lapsed, pc, held, waits, pending, verify, logins,
          dropped, forgets, line, grants, members, edit, page, turn, asking, tuned, lineOf, fresh,
          chosen, named, raced, kept

\* The radio session, a row sealed under the vault, and the bearers opened from it.
R == INSTANCE RadioSession WITH stored <- row, crossed <- dropped

\* The same lines, opened to others.
H == INSTANCE SharedRadio WITH pc <- turn, at <- asking, crossed <- raced

\* Both processes know of the vault, nothing they have read says otherwise, and nothing
\* sealed before they knew is still to be written.
Known ==
  /\ vault
  /\ \A p \in Procs : owners[p] /\ heard[p] # FALSE
  /\ \A p \in Procs : draft[p] # None => draft[p].under = "v2"

\* What a migration has in hand is of the server's key, and of a value it has read.
HandInv == \A m \in Migrations :
  /\ at[m] = 0 => got[m] = {}
  /\ \A v \in Values :
       hand[m][v] # None => at[m] # 0 /\ v \in got[m] /\ hand[m][v].under = "v1"

\* It is the last edit, or the database refuses it, or the edit is known to have crossed.
EditInv == \A m \in Migrations, v \in Values :
  hand[m][v] # None /\ v \notin {"address", "channel"} /\ v \notin crossed
    => hand[m][v].edit = edits[v]

\* A sure migration leaves nothing behind it, and of what it has read all that is still under
\* the server's key is in its hand.
MoveInv == \A m \in Migrations : sure[m] =>
  /\ Known /\ at[m] # 0
  /\ \A i \in DOMAIN Order : i < at[m] => stored[Order[i]].under = "v2"
  /\ \A v \in got[m] : stored[v].under = "v2" \/ hand[m][v] = stored[v]

SettledInv == settled => Known /\ \A v \in Values : stored[v].under = "v2"

IInv == TypeOK /\ HandInv /\ EditsWin /\ EditInv /\ MoveInv /\ SettledInv

-----------------------------------------------------------------------------
(* Values.                                                                 *)

\* A value sealed again is the same edit under another key.
LEMMA SealedAgain ==
  ASSUME NEW r \in Sealed, NEW u \in Keys
  PROVE  /\ [r EXCEPT !.under = u] \in Sealed
         /\ [r EXCEPT !.under = u].under = u
         /\ [r EXCEPT !.under = u].edit = r.edit
BY DEF Sealed

\* Every value has its turn in the order.
LEMMA InOrder ==
  ASSUME ConstantsType
  PROVE  /\ Len(Order) \in Nat \ {0} /\ DOMAIN Order = 1 .. Len(Order)
         /\ \A v \in Values : \E i \in DOMAIN Order : Order[i] = v
         /\ \A i \in 1 .. Len(Order) : Order[i] \in Values
<1>1. Order \in Seq(Values) /\ Order # <<>>
  BY DEF ConstantsType
<1>2. Len(Order) \in Nat /\ DOMAIN Order = 1 .. Len(Order)
  BY <1>1, LenProperties
<1>3. Len(Order) # 0
  BY <1>1, EmptySeq
<1>4. \A v \in Values : \E i \in DOMAIN Order : Order[i] = v
  BY DEF Values, ToSet
<1>5. \A i \in 1 .. Len(Order) : Order[i] \in Values
  BY <1>1, <1>2
<1> QED
  BY <1>2, <1>3, <1>4, <1>5

\* What a process seals under is a key, or nothing.
LEMMA SealUnderType ==
  ASSUME NEW p \in Procs
  PROVE  SealUnder(p) \in Keys \cup {None}
BY DEF SealUnder, Keys

\* The database keeps what it has, or takes what was in hand.
LEMMA ResealedType ==
  ASSUME TypeOK, NEW v \in Values, NEW old \in Sealed, NEW u \in Keys
  PROVE  Resealed(v, old, u) \in Sealed
BY SealedAgain DEF Resealed, TypeOK

-----------------------------------------------------------------------------
(* Types.                                                                  *)

Moving ==
  /\ at \in [Migrations -> 0 .. Len(Order)] /\ got \in [Migrations -> SUBSET Values]
  /\ hand \in [Migrations -> [Values -> Sealed \cup {None}]]
  /\ sure \in [Migrations -> BOOLEAN]

LEMMA EndsTyped ==
  ASSUME ConstantsType, TypeOK, NEW m \in Migrations, Ends(m)
  PROVE  Moving'
<1>1. at' = [at EXCEPT ![m] = 0] /\ got' = [got EXCEPT ![m] = {}]
      /\ hand' = [hand EXCEPT ![m] = Nothing] /\ sure' = [sure EXCEPT ![m] = FALSE]
  BY DEF Ends
<1>2. Nothing \in [Values -> Sealed \cup {None}]
  BY DEF Nothing
<1>3. 0 \in 0 .. Len(Order)
  BY InOrder
<1>4. at' \in [Migrations -> 0 .. Len(Order)] /\ got' \in [Migrations -> SUBSET Values]
      /\ hand' \in [Migrations -> [Values -> Sealed \cup {None}]]
  BY <1>1, <1>2, <1>3 DEF TypeOK
<1>5. sure' \in [Migrations -> BOOLEAN]
  BY <1>1, Zenon DEF TypeOK
<1> QED
  BY <1>4, <1>5 DEF Moving

LEMMA NextTyped ==
  ASSUME ConstantsType, TypeOK, NEW m \in Migrations, at[m] # 0,
         NEW still \in BOOLEAN, NextValue(m, still)
  PROVE  Moving' /\ settled' \in BOOLEAN
<1>1. CASE at[m] = Len(Order)
  <2>1. Ends(m) /\ settled' = (settled \/ still)
    BY <1>1 DEF NextValue
  <2>2. settled' \in BOOLEAN
    BY <2>1, Zenon
  <2> QED
    BY <2>1, <2>2, EndsTyped
<1>2. CASE at[m] # Len(Order)
  <2>1. at' = [at EXCEPT ![m] = @ + 1] /\ sure' = [sure EXCEPT ![m] = still]
        /\ hand' = [hand EXCEPT ![m][Value(m)] = None] /\ UNCHANGED <<got, settled>>
    BY <1>2 DEF NextValue
  <2>2. at[m] + 1 \in 0 .. Len(Order)
    BY <1>2, InOrder DEF TypeOK
  <2>3. at' \in [Migrations -> 0 .. Len(Order)] /\ got' \in [Migrations -> SUBSET Values]
    BY <2>1, <2>2 DEF TypeOK
  <2>4. hand' \in [Migrations -> [Values -> Sealed \cup {None}]]
    BY <2>1 DEF TypeOK
  <2>5. sure' \in [Migrations -> BOOLEAN]
    BY <2>1, Zenon DEF TypeOK
  <2>6. settled' = settled
    BY <2>1
  <2>7. settled' \in BOOLEAN
    BY <2>6, Zenon DEF TypeOK
  <2> QED
    BY <2>3, <2>4, <2>5, <2>7 DEF Moving
<1> QED
  BY <1>1, <1>2

LEMMA StartsTyped == ASSUME ConstantsType, Init PROVE TypeOK
<1>1. [edit |-> 0, under |-> "v1"] \in Sealed
  BY DEF Sealed, Keys, ConstantsType
<1>2. stored \in [Values -> Sealed]
  BY <1>1 DEF Init
<1>3. /\ vault \in BOOLEAN /\ noting \in BOOLEAN /\ settled \in BOOLEAN
      /\ owners \in [Procs -> BOOLEAN] /\ key \in [Procs -> BOOLEAN]
      /\ sure \in [Migrations -> BOOLEAN]
  BY Zenon DEF Init
<1>4. /\ heard \in [Procs -> BOOLEAN \cup {None}]
      /\ draft \in [Procs -> Drafts \cup {None}]
  BY DEF Init
<1>5. /\ at \in [Migrations -> 0 .. Len(Order)] /\ got \in [Migrations -> SUBSET Values]
      /\ hand \in [Migrations -> [Values -> Sealed \cup {None}]]
  BY InOrder DEF Init
<1>6. edits \in [Values -> 0 .. MaxEdits] /\ crossed \subseteq Values /\ faults \in 0 .. MaxFaults
  BY DEF Init, ConstantsType
<1> QED
  BY <1>2, <1>3, <1>4, <1>5, <1>6 DEF TypeOK

LEMMA StaysTyped ==
  ASSUME ConstantsType, TypeOK, [Next]_vars
  PROVE  TypeOK'
<1> DEFINE Knowing == /\ vault \in BOOLEAN /\ noting \in BOOLEAN
                      /\ owners \in [Procs -> BOOLEAN] /\ key \in [Procs -> BOOLEAN]
                      /\ heard \in [Procs -> BOOLEAN \cup {None}]
           Writing == /\ stored \in [Values -> Sealed]
                      /\ draft \in [Procs -> Drafts \cup {None}]
           Ghosts == /\ settled \in BOOLEAN /\ edits \in [Values -> 0 .. MaxEdits]
                     /\ crossed \subseteq Values /\ faults \in 0 .. MaxFaults
<1>1. TypeOK <=> Knowing /\ Writing /\ Moving /\ Ghosts
  BY Zenon DEF TypeOK, Moving
<1>2. TypeOK' <=> Knowing' /\ Writing' /\ Moving' /\ Ghosts'
  BY Zenon DEF TypeOK, Moving
<1>3. ASSUME UNCHANGED <<vault, noting, memory>> PROVE Knowing'
  BY <1>1, <1>3, Zenon DEF memory
<1>4. ASSUME UNCHANGED <<stored, draft>> PROVE Writing'
  BY <1>1, <1>4
<1>5. ASSUME UNCHANGED moves PROVE Moving'
  BY <1>1, <1>5, Zenon DEF moves, Moving
<1>6. ASSUME UNCHANGED ghosts, faults' \in 0 .. MaxFaults PROVE Ghosts'
  BY <1>1, <1>6, Zenon DEF ghosts
<1>7. faults \in 0 .. MaxFaults
  BY DEF TypeOK
<1>8. Fault => faults' \in 0 .. MaxFaults
  BY <1>7 DEF Fault, ConstantsType
<1> HIDE DEF Knowing, Writing, Ghosts
<1>9. CASE Create
  <2>1. vault' = TRUE /\ noting' = TRUE /\ UNCHANGED memory
    BY <1>9 DEF Create
  <2>2. Knowing'
    BY <1>1, <2>1, Zenon DEF Knowing, memory
  <2>3. UNCHANGED <<stored, draft>> /\ UNCHANGED moves /\ UNCHANGED ghosts /\ UNCHANGED faults
    BY <1>9 DEF Create
  <2> QED
    BY <1>2, <1>4, <1>5, <1>6, <1>7, <2>2, <2>3
<1>10. CASE NoteOwner
  <2>1. noting' = FALSE /\ owners' = [owners EXCEPT !["web"] = TRUE]
        /\ UNCHANGED <<vault, heard, key>>
    BY <1>10 DEF NoteOwner
  <2>2. Knowing'
    BY <1>1, <2>1, Zenon DEF Knowing
  <2>3. UNCHANGED <<stored, draft>> /\ UNCHANGED moves /\ UNCHANGED ghosts /\ UNCHANGED faults
    BY <1>10 DEF NoteOwner
  <2> QED
    BY <1>2, <1>4, <1>5, <1>6, <1>7, <2>2, <2>3
<1>11. CASE Adopt
  <2>1. key' = [key EXCEPT !["worker"] = TRUE] /\ UNCHANGED <<vault, noting, owners, heard>>
    BY <1>11 DEF Adopt
  <2>2. Knowing'
    BY <1>1, <2>1, Zenon DEF Knowing
  <2>3. UNCHANGED <<stored, draft>> /\ UNCHANGED moves /\ UNCHANGED ghosts /\ UNCHANGED faults
    BY <1>11 DEF Adopt
  <2> QED
    BY <1>2, <1>4, <1>5, <1>6, <1>7, <2>2, <2>3
<1>12. ASSUME NEW p \in Procs, ReadOwners(p)
       PROVE  TypeOK'
  <2>1. heard' = [heard EXCEPT ![p] = vault] /\ UNCHANGED <<vault, noting, owners, key>>
    BY <1>12 DEF ReadOwners
  <2>2. heard' \in [Procs -> BOOLEAN \cup {None}]
    BY <1>1, <2>1, Zenon DEF Knowing
  <2>3. Knowing'
    BY <1>1, <2>1, <2>2, Zenon DEF Knowing
  <2>4. UNCHANGED <<stored, draft>> /\ UNCHANGED moves /\ UNCHANGED ghosts /\ UNCHANGED faults
    BY <1>12 DEF ReadOwners
  <2> QED
    BY <1>2, <1>4, <1>5, <1>6, <1>7, <2>3, <2>4
<1>13. ASSUME NEW p \in Procs, SetOwners(p)
       PROVE  TypeOK'
  <2>1. heard[p] # None /\ owners' = [owners EXCEPT ![p] = heard[p]]
        /\ heard' = [heard EXCEPT ![p] = None] /\ UNCHANGED <<vault, noting, key>>
    BY <1>13 DEF SetOwners
  <2>2. heard[p] \in BOOLEAN
    BY <1>1, <2>1, Zenon DEF Knowing
  <2>3. owners' \in [Procs -> BOOLEAN] /\ heard' \in [Procs -> BOOLEAN \cup {None}]
    BY <1>1, <2>1, <2>2, Zenon DEF Knowing
  <2>4. Knowing'
    BY <1>1, <2>1, <2>3, Zenon DEF Knowing
  <2>5. UNCHANGED <<stored, draft>> /\ UNCHANGED moves /\ UNCHANGED ghosts /\ UNCHANGED faults
    BY <1>13 DEF SetOwners
  <2> QED
    BY <1>2, <1>4, <1>5, <1>6, <1>7, <2>4, <2>5
<1>14. ASSUME NEW p \in Procs, Lock(p)
       PROVE  TypeOK'
  <2>1. key' = [key EXCEPT ![p] = FALSE] /\ UNCHANGED <<vault, noting, owners, heard>>
    BY <1>14 DEF Lock
  <2>2. Knowing'
    BY <1>1, <2>1, Zenon DEF Knowing
  <2>3. UNCHANGED <<stored, draft>> /\ UNCHANGED moves /\ UNCHANGED ghosts /\ Fault
    BY <1>14 DEF Lock
  <2> QED
    BY <1>2, <1>4, <1>5, <1>6, <1>8, <2>2, <2>3
<1>15. ASSUME NEW p \in Procs, Restart(p)
       PROVE  TypeOK'
  <2>1. /\ key' = [key EXCEPT ![p] = FALSE] /\ owners' = [owners EXCEPT ![p] = vault]
        /\ heard' = [heard EXCEPT ![p] = None] /\ draft' = [draft EXCEPT ![p] = None]
        /\ vault' = vault /\ stored' = stored /\ UNCHANGED ghosts /\ Fault
    BY <1>15 DEF Restart
  <2>2. noting' = FALSE \/ noting' = noting
    BY <1>15, Zenon DEF Restart
  <2>3. noting' \in BOOLEAN
    BY <1>1, <2>2, Zenon DEF Knowing
  <2>4. owners' \in [Procs -> BOOLEAN] /\ key' \in [Procs -> BOOLEAN]
    BY <1>1, <2>1, Zenon DEF Knowing
  <2>5. heard' \in [Procs -> BOOLEAN \cup {None}]
    BY <1>1, <2>1, Zenon DEF Knowing
  <2>6. Knowing'
    BY <1>1, <2>1, <2>3, <2>4, <2>5, Zenon DEF Knowing
  <2>7. Writing'
    BY <1>1, <2>1 DEF Writing
  <2>8. Moving'
    <3>1. CASE UNCHANGED moves
      BY <1>5, <3>1
    <3>2. CASE /\ at' = [m \in Migrations |-> 0] /\ sure' = [m \in Migrations |-> FALSE]
               /\ got' = [m \in Migrations |-> {}] /\ hand' = [m \in Migrations |-> Nothing]
      <4>1. sure' \in [Migrations -> BOOLEAN]
        BY <3>2, Zenon
      <4>2. Nothing \in [Values -> Sealed \cup {None}]
        BY DEF Nothing
      <4> QED
        BY <3>2, <4>1, <4>2, InOrder DEF Moving
    <3> QED
      BY <1>15, <3>1, <3>2, Zenon DEF Restart
  <2> QED
    BY <1>2, <1>6, <1>8, <2>1, <2>6, <2>7, <2>8
<1>16. ASSUME NEW p \in Procs, NEW v \in Values, Seal(p, v)
       PROVE  TypeOK'
  <2>1. draft' = [draft EXCEPT ![p] = [of |-> v, under |-> SealUnder(p)]] /\ SealUnder(p) # None
        /\ stored' = stored
    BY <1>16 DEF Seal
  <2>2. [of |-> v, under |-> SealUnder(p)] \in Drafts
    BY <2>1, SealUnderType DEF Drafts
  <2>3. Writing'
    BY <1>1, <2>1, <2>2 DEF Writing
  <2>4. UNCHANGED <<vault, noting, memory>> /\ UNCHANGED moves /\ UNCHANGED ghosts
        /\ UNCHANGED faults
    BY <1>16 DEF Seal
  <2> QED
    BY <1>2, <1>3, <1>5, <1>6, <1>7, <2>3, <2>4
<1>17. ASSUME NEW p \in Procs, Write(p)
       PROVE  TypeOK'
  <2> DEFINE d == draft[p]
             new == [edit |-> edits[d.of] + 1, under |-> d.under]
  <2>1. d \in Drafts /\ edits[d.of] < MaxEdits
    BY <1>1, <1>17 DEF Write, Writing
  <2>2. d.of \in Values /\ d.under \in Keys
    BY <2>1 DEF Drafts
  <2>3. edits[d.of] + 1 \in 0 .. MaxEdits
    BY <1>1, <2>1, <2>2 DEF Ghosts, ConstantsType
  <2>4. new \in Sealed
    BY <2>2, <2>3 DEF Sealed
  <2>5. stored' = [stored EXCEPT ![d.of] = new] /\ draft' = [draft EXCEPT ![p] = None]
        /\ edits' = [edits EXCEPT ![d.of] = edits[d.of] + 1]
    BY <1>17 DEF Write
  <2>6. crossed' = crossed \cup {d.of} \/ crossed' = crossed
    BY <1>17, Zenon DEF Write
  <2> HIDE DEF d, new
  <2>7. Writing'
    BY <1>1, <2>4, <2>5 DEF Writing
  <2>8. settled' = settled /\ faults' = faults
    BY <1>17 DEF Write
  <2>9. settled' \in BOOLEAN
    BY <1>1, <2>8, Zenon DEF Ghosts
  <2>10. Ghosts'
    BY <1>1, <2>2, <2>3, <2>5, <2>6, <2>8, <2>9 DEF Ghosts
  <2>11. UNCHANGED <<vault, noting, memory>> /\ UNCHANGED moves
    BY <1>17 DEF Write
  <2> QED
    BY <1>2, <1>3, <1>5, <2>7, <2>10, <2>11
<1>18. ASSUME NEW m \in Migrations, Unlock(m)
       PROVE  TypeOK'
  <2>1. /\ key' = [key EXCEPT !["web"] = TRUE] /\ at' = [at EXCEPT ![m] = 1]
        /\ UNCHANGED <<vault, noting, owners, heard>> /\ UNCHANGED <<got, hand>>
    BY <1>18 DEF Unlock
  <2>2. Knowing'
    BY <1>1, <2>1, Zenon DEF Knowing
  <2>3. sure' \in [Migrations -> BOOLEAN]
    BY <1>1, <1>18, Zenon DEF Unlock, Moving
  <2>4. at' \in [Migrations -> 0 .. Len(Order)]
    BY <1>1, <2>1, InOrder DEF Moving
  <2>5. Moving'
    BY <1>1, <2>1, <2>3, <2>4 DEF Moving
  <2>6. UNCHANGED <<stored, draft>> /\ UNCHANGED ghosts /\ UNCHANGED faults
    BY <1>18 DEF Unlock
  <2> QED
    BY <1>2, <1>4, <1>6, <1>7, <2>2, <2>5, <2>6
<1>19. ASSUME NEW m \in Migrations, at[m] # 0
       PROVE  Value(m) \in Values
  BY <1>1, <1>19, InOrder DEF Value, Moving
<1>20. ASSUME NEW m \in Migrations, Look(m)
       PROVE  TypeOK'
  <2>1. at[m] # 0
    BY <1>20 DEF Look
  <2>2. Moving'
    <3>1. CASE Ends(m)
      BY <3>1, EndsTyped
    <3>2. CASE /\ got' = [got EXCEPT ![m] = @ \cup Together(Value(m))]
               /\ hand' = [hand EXCEPT ![m] = [v \in Values |->
                    IF v \in Together(Value(m)) /\ stored[v].under = "v1" THEN stored[v] ELSE @[v]]]
               /\ UNCHANGED <<at, sure>>
      <4>1. Together(Value(m)) \subseteq Values
        BY <1>19, <2>1 DEF Together, Early
      <4>2. got' \in [Migrations -> SUBSET Values]
        BY <1>1, <3>2, <4>1 DEF Moving
      <4>3. hand' \in [Migrations -> [Values -> Sealed \cup {None}]]
        BY <1>1, <3>2 DEF Moving, Writing
      <4> QED
        BY <1>1, <3>2, <4>2, <4>3, Zenon DEF Moving
    <3> QED
      BY <1>20, <3>1, <3>2, Zenon DEF Look
  <2>3. UNCHANGED <<vault, noting, memory>> /\ UNCHANGED <<stored, draft>> /\ UNCHANGED ghosts
        /\ UNCHANGED faults
    BY <1>20 DEF Look
  <2> QED
    BY <1>2, <1>3, <1>4, <1>6, <1>7, <2>2, <2>3
<1>21. ASSUME NEW m \in Migrations, at[m] # 0, Moving', settled' \in BOOLEAN,
              UNCHANGED <<vault, noting, memory, draft, edits, crossed, faults>>,
              stored' \in [Values -> Sealed]
       PROVE  TypeOK'
  <2>1. Knowing'
    BY <1>1, <1>21, Zenon DEF Knowing, memory
  <2>2. draft' = draft /\ edits' = edits /\ crossed' = crossed /\ faults' = faults
    BY <1>21
  <2>3. Writing'
    BY <1>1, <1>21, <2>2 DEF Writing
  <2>4. Ghosts'
    BY <1>1, <1>21, <2>2, Zenon DEF Ghosts
  <2> QED
    BY <1>2, <1>21, <2>1, <2>3, <2>4
<1>22. ASSUME NEW m \in Migrations, Skip(m)
       PROVE  TypeOK'
  <2>1. at[m] # 0 /\ NextValue(m, sure[m])
        /\ UNCHANGED <<vault, noting, memory, draft, edits, crossed, faults>> /\ stored' = stored
    BY <1>22 DEF Skip
  <2>2. sure[m] \in BOOLEAN
    BY <1>1, Zenon DEF Moving
  <2>3. stored' \in [Values -> Sealed]
    BY <1>1, <2>1 DEF Writing
  <2> QED
    BY <1>21, <2>1, <2>2, <2>3, NextTyped
<1>23. ASSUME NEW m \in Migrations, Reseal(m)
       PROVE  TypeOK'
  <2> DEFINE v == Value(m)
  <2>1. /\ at[m] # 0 /\ hand[m][v] # None /\ SealUnder("web") # None
        /\ stored' = [stored EXCEPT ![v] = Resealed(v, hand[m][v], SealUnder("web"))]
        /\ UNCHANGED <<vault, noting, memory, draft, edits, crossed, faults>>
    BY <1>23 DEF Reseal
  <2>2. v \in Values
    BY <1>19, <2>1
  <2>3. hand[m][v] \in Sealed
    BY <1>1, <2>1, <2>2 DEF Moving
  <2>4. SealUnder("web") \in Keys
    BY <2>1, SealUnderType DEF Procs
  <2>5. stored' \in [Values -> Sealed]
    BY <1>1, <2>1, <2>2, <2>3, <2>4, ResealedType DEF Writing
  <2>6. Moving' /\ settled' \in BOOLEAN
    <3>1. CASE NextValue(m, sure[m])
      <4>1. sure[m] \in BOOLEAN
        BY <1>1, Zenon DEF Moving
      <4> QED
        BY <2>1, <3>1, <4>1, NextTyped
    <3>2. CASE /\ got' = [got EXCEPT ![m] = @ \ {v}] /\ hand' = [hand EXCEPT ![m][v] = None]
               /\ UNCHANGED <<at, sure, settled>>
      <4>1. got' \in [Migrations -> SUBSET Values]
            /\ hand' \in [Migrations -> [Values -> Sealed \cup {None}]]
        BY <1>1, <3>2 DEF Moving
      <4>2. at' = at /\ sure' = sure /\ settled' = settled
        BY <3>2
      <4> QED
        BY <1>1, <4>1, <4>2, Zenon DEF Moving, Ghosts
    <3> QED
      BY <1>23, <3>1, <3>2, Zenon DEF Reseal
  <2> QED
    BY <1>21, <2>1, <2>5, <2>6
<1>24. ASSUME NEW m \in Migrations, ResealRefused(m)
       PROVE  TypeOK'
  <2>1. at[m] # 0 /\ stored' = stored
        /\ UNCHANGED <<vault, noting, memory, draft, edits, crossed, faults>>
    BY <1>24 DEF ResealRefused
  <2>2. Moving' /\ settled' \in BOOLEAN
    <3>1. CASE NextValue(m, FALSE)
      BY <2>1, <3>1, NextTyped, Zenon
    <3>2. CASE Ends(m) /\ UNCHANGED settled
      BY <1>1, <3>2, EndsTyped, Zenon DEF Ghosts
    <3> QED
      BY <1>24, <3>1, <3>2, Zenon DEF ResealRefused
  <2>3. stored' \in [Values -> Sealed]
    BY <1>1, <2>1 DEF Writing
  <2> QED
    BY <1>21, <2>1, <2>2, <2>3
<1>25. CASE UNCHANGED vars
  <2>1. UNCHANGED <<vault, noting, memory>> /\ UNCHANGED <<stored, draft>> /\ UNCHANGED moves
        /\ UNCHANGED ghosts /\ UNCHANGED faults
    BY <1>25 DEF vars
  <2> QED
    BY <1>2, <1>3, <1>4, <1>5, <1>6, <1>7, <2>1
<1> QED
  BY <1>9, <1>10, <1>11, <1>12, <1>13, <1>14, <1>15, <1>16, <1>17, <1>18, <1>20, <1>22, <1>23,
     <1>24, <1>25 DEF Next

-----------------------------------------------------------------------------
(* How a migration goes on.                                                *)

Same(n) == at'[n] = at[n] /\ got'[n] = got[n] /\ hand'[n] = hand[n] /\ sure'[n] = sure[n]

LEMMA EndsShape ==
  ASSUME TypeOK, NEW m \in Migrations, Ends(m)
  PROVE  /\ at'[m] = 0 /\ got'[m] = {} /\ (\A v \in Values : hand'[m][v] = None) /\ sure'[m] = FALSE
         /\ \A n \in Migrations \ {m} : Same(n)
<1>1. at' = [at EXCEPT ![m] = 0] /\ got' = [got EXCEPT ![m] = {}]
      /\ hand' = [hand EXCEPT ![m] = Nothing] /\ sure' = [sure EXCEPT ![m] = FALSE]
  BY DEF Ends
<1>2. \A v \in Values : Nothing[v] = None
  BY DEF Nothing
<1>3. at'[m] = 0 /\ got'[m] = {} /\ hand'[m] = Nothing
  BY <1>1 DEF TypeOK
<1>4. sure'[m] = FALSE /\ \A n \in Migrations \ {m} : sure'[n] = sure[n]
  BY <1>1, Zenon DEF TypeOK
<1>5. \A n \in Migrations \ {m} : at'[n] = at[n] /\ got'[n] = got[n] /\ hand'[n] = hand[n]
  BY <1>1 DEF TypeOK
<1> QED
  BY <1>2, <1>3, <1>4, <1>5, Zenon DEF Same

LEMMA NextShape ==
  ASSUME TypeOK, NEW m \in Migrations, NEW still \in BOOLEAN, NextValue(m, still)
  PROVE  /\ \/ Ends(m) /\ at[m] = Len(Order)
            \/ /\ at'[m] = at[m] + 1 /\ got'[m] = got[m] /\ sure'[m] = still
               /\ \A v \in Values : hand'[m][v] = IF v = Value(m) THEN None ELSE hand[m][v]
         /\ \A n \in Migrations \ {m} : Same(n)
         /\ settled' => settled \/ (still /\ at[m] = Len(Order))
<1>1. CASE at[m] = Len(Order)
  <2>1. Ends(m) /\ settled' = (settled \/ still)
    BY <1>1 DEF NextValue
  <2>2. settled' => settled \/ still
    BY <2>1, Zenon
  <2> QED
    BY <1>1, <2>1, <2>2, EndsShape
<1>2. CASE at[m] # Len(Order)
  <2>1. at' = [at EXCEPT ![m] = @ + 1] /\ sure' = [sure EXCEPT ![m] = still]
        /\ hand' = [hand EXCEPT ![m][Value(m)] = None] /\ UNCHANGED <<got, settled>>
    BY <1>2 DEF NextValue
  <2>2. at'[m] = at[m] + 1 /\ got' = got
    BY <2>1 DEF TypeOK
  <2>3. sure'[m] = still /\ \A n \in Migrations \ {m} : sure'[n] = sure[n]
    BY <2>1, Zenon DEF TypeOK
  <2>4. \A v \in Values : hand'[m][v] = IF v = Value(m) THEN None ELSE hand[m][v]
    BY <2>1 DEF TypeOK
  <2>5. \A n \in Migrations \ {m} : at'[n] = at[n] /\ hand'[n] = hand[n]
    BY <2>1 DEF TypeOK
  <2>6. settled' = settled
    BY <2>1
  <2>7. \A n \in Migrations \ {m} : Same(n)
    BY <2>2, <2>3, <2>5, Zenon DEF Same
  <2>8. settled' => settled
    BY <2>6, Zenon
  <2> QED
    BY <2>2, <2>3, <2>4, <2>7, <2>8, Zenon
<1> QED
  BY <1>1, <1>2

\* A sealed value is what it was or what a migration makes of it, the other processes apart.
LEMMA ResealedIs ==
  ASSUME NEW v \in Values, NEW old \in Sealed, NEW u \in Keys
  PROVE  \/ Resealed(v, old, u) = stored[v] /\ v \in {"address", "channel"} /\ stored[v] # old
         \/ /\ Resealed(v, old, u).under = u /\ Resealed(v, old, u).edit = old.edit
            /\ v \in {"address", "channel"} => stored[v] = old
BY SealedAgain DEF Resealed

\* Only looking puts anything in a migration's hand.
LEMMA HandShrinks ==
  ASSUME ConstantsType, TypeOK, HandInv, [Next]_vars, \A m \in Migrations : ~Look(m)
  PROVE  \A n \in Migrations :
           /\ at'[n] = 0 => got'[n] = {}
           /\ \A v \in Values : hand'[n][v] # None =>
                hand'[n][v] = hand[n][v] /\ at'[n] # 0 /\ v \in got'[n]
<1> DEFINE Kept(n) == /\ at'[n] = 0 => got'[n] = {}
                      /\ \A v \in Values : hand'[n][v] # None =>
                           hand'[n][v] = hand[n][v] /\ at'[n] # 0 /\ v \in got'[n]
<1>1. ASSUME NEW n \in Migrations, at'[n] = at[n], got'[n] = got[n], hand'[n] = hand[n]
      PROVE  Kept(n)
  BY <1>1 DEF HandInv
<1>2. ASSUME NEW m \in Migrations, Ends(m)
      PROVE  \A n \in Migrations : Kept(n)
  <2>1. Kept(m)
    BY <1>2, EndsShape
  <2>2. \A n \in Migrations \ {m} : at'[n] = at[n] /\ got'[n] = got[n] /\ hand'[n] = hand[n]
    BY <1>2, EndsShape, Zenon DEF Same
  <2> QED
    BY <1>1, <2>1, <2>2
<1>3. ASSUME NEW m \in Migrations, at[m] # 0, NEW still \in BOOLEAN, NextValue(m, still)
      PROVE  \A n \in Migrations : Kept(n)
  <2>1. CASE Ends(m)
    BY <1>2, <2>1
  <2>2. CASE /\ at'[m] = at[m] + 1 /\ got'[m] = got[m]
             /\ \A v \in Values : hand'[m][v] = IF v = Value(m) THEN None ELSE hand[m][v]
    <3>1. at'[m] # 0
      BY <1>3, <2>2 DEF TypeOK
    <3>2. Kept(m)
      BY <2>2, <3>1 DEF HandInv
    <3>3. \A n \in Migrations \ {m} : at'[n] = at[n] /\ got'[n] = got[n] /\ hand'[n] = hand[n]
      BY <1>3, NextShape, Zenon DEF Same
    <3> QED
      BY <1>1, <3>2, <3>3
  <2> QED
    BY <1>3, <2>1, <2>2, NextShape, Zenon
<1>4. ASSUME UNCHANGED moves
      PROVE  \A n \in Migrations : Kept(n)
  BY <1>1, <1>4 DEF moves
<1>5. ASSUME NEW m \in Migrations, Unlock(m)
      PROVE  \A n \in Migrations : Kept(n)
  <2>1. at[m] = 0 /\ at' = [at EXCEPT ![m] = 1] /\ got' = got /\ hand' = hand
    BY <1>5 DEF Unlock
  <2>2. Kept(m)
    BY <2>1 DEF HandInv, TypeOK
  <2> QED
    BY <1>1, <2>1, <2>2 DEF TypeOK
<1>6. ASSUME NEW p \in Procs, Restart(p)
      PROVE  \A n \in Migrations : Kept(n)
  <2>1. CASE UNCHANGED moves
    BY <1>4, <2>1
  <2>2. CASE /\ at' = [m \in Migrations |-> 0] /\ got' = [m \in Migrations |-> {}]
             /\ hand' = [m \in Migrations |-> Nothing]
    BY <2>2 DEF Nothing
  <2> QED
    BY <1>6, <2>1, <2>2, Zenon DEF Restart
<1>7. \A m \in Migrations : sure[m] \in BOOLEAN
  BY Zenon DEF TypeOK
<1>8. ASSUME NEW m \in Migrations, Skip(m)
      PROVE  \A n \in Migrations : Kept(n)
  BY <1>3, <1>7, <1>8 DEF Skip
<1>9. ASSUME NEW m \in Migrations, ResealRefused(m)
      PROVE  \A n \in Migrations : Kept(n)
  <2>1. at[m] # 0 /\ (NextValue(m, FALSE) \/ Ends(m))
    BY <1>9, Zenon DEF ResealRefused
  <2> QED
    BY <1>2, <1>3, <2>1
<1>10. ASSUME NEW m \in Migrations, Reseal(m)
       PROVE  \A n \in Migrations : Kept(n)
  <2> DEFINE v == Value(m)
  <2>1. at[m] # 0
    BY <1>10 DEF Reseal
  <2>2. CASE NextValue(m, sure[m])
    BY <1>3, <1>7, <2>1, <2>2
  <2>3. CASE /\ got' = [got EXCEPT ![m] = @ \ {v}] /\ hand' = [hand EXCEPT ![m][v] = None]
             /\ UNCHANGED <<at, sure, settled>>
    <3>1. Kept(m)
      BY <2>1, <2>3 DEF HandInv, TypeOK
    <3>2. \A n \in Migrations \ {m} : at'[n] = at[n] /\ got'[n] = got[n] /\ hand'[n] = hand[n]
      BY <2>3 DEF TypeOK
    <3> QED
      BY <1>1, <3>1, <3>2
  <2> QED
    BY <1>10, <2>2, <2>3, Zenon DEF Reseal
<1> HIDE DEF Kept
<1>11. ASSUME \/ Create \/ NoteOwner \/ Adopt \/ UNCHANGED vars
              \/ \E p \in Procs : ReadOwners(p) \/ SetOwners(p) \/ Lock(p) \/ Write(p)
              \/ \E p \in Procs, v \in Values : Seal(p, v)
       PROVE  \A n \in Migrations : Kept(n)
  <2>1. UNCHANGED moves
    <3>1. ASSUME NEW p \in Procs, ReadOwners(p) \/ SetOwners(p) \/ Lock(p) \/ Write(p)
          PROVE  UNCHANGED moves
      BY <3>1 DEF ReadOwners, SetOwners, Lock, Write
    <3>2. ASSUME NEW p \in Procs, NEW v \in Values, Seal(p, v)
          PROVE  UNCHANGED moves
      BY <3>2 DEF Seal
    <3>3. CASE Create \/ NoteOwner \/ Adopt \/ UNCHANGED vars
      BY <3>3 DEF Create, NoteOwner, Adopt, vars
    <3> QED
      BY <1>11, <3>1, <3>2, <3>3, Zenon
  <2> QED
    BY <1>4, <2>1
<1>12. \A n \in Migrations : Kept(n)
  BY <1>5, <1>6, <1>8, <1>9, <1>10, <1>11, Zenon DEF Next
<1> QED
  BY <1>12, Zenon DEF Kept

-----------------------------------------------------------------------------
(* No edit is lost.                                                        *)

LEMMA EditsStay ==
  ASSUME ConstantsType, TypeOK, HandInv, EditsWin, EditInv, [Next]_vars
  PROVE  HandInv' /\ EditsWin' /\ EditInv'
<1>1. ASSUME NEW m \in Migrations, Look(m)
      PROVE  HandInv' /\ EditsWin' /\ EditInv'
  <2>1. UNCHANGED <<stored, edits, crossed>>
    BY <1>1 DEF Look, ghosts
  <2>2. EditsWin'
    BY <2>1 DEF EditsWin
  <2>3. CASE Ends(m)
    <3>1. \A n \in Migrations \ {m} : at'[n] = at[n] /\ got'[n] = got[n] /\ hand'[n] = hand[n]
      BY <2>3, EndsShape, Zenon DEF Same
    <3>2. at'[m] = 0 /\ got'[m] = {} /\ \A v \in Values : hand'[m][v] = None
      BY <2>3, EndsShape
    <3>3. HandInv'
      BY <3>1, <3>2 DEF HandInv
    <3>4. EditInv'
      BY <2>1, <3>1, <3>2 DEF EditInv
    <3> QED
      BY <2>2, <3>3, <3>4
  <2>4. CASE /\ got' = [got EXCEPT ![m] = @ \cup Together(Value(m))]
             /\ hand' = [hand EXCEPT ![m] = [v \in Values |->
                  IF v \in Together(Value(m)) /\ stored[v].under = "v1" THEN stored[v] ELSE @[v]]]
             /\ UNCHANGED <<at, sure>>
    <3>1. at' = at /\ at[m] # 0 /\ got'[m] = got[m] \cup Together(Value(m))
      BY <1>1, <2>4 DEF Look, TypeOK
    <3>2. \A v \in Values :
            hand'[m][v] = IF v \in Together(Value(m)) /\ stored[v].under = "v1"
                          THEN stored[v] ELSE hand[m][v]
      BY <2>4 DEF TypeOK
    <3>3. \A n \in Migrations \ {m} : got'[n] = got[n] /\ hand'[n] = hand[n]
      BY <2>4 DEF TypeOK
    <3>4. HandInv'
      BY <3>1, <3>2, <3>3 DEF HandInv
    <3>5. EditInv'
      BY <2>1, <3>2, <3>3 DEF EditInv, EditsWin
    <3> QED
      BY <2>2, <3>4, <3>5
  <2> QED
    BY <1>1, <2>3, <2>4, Zenon DEF Look
<1>2. SUFFICES ASSUME \A m \in Migrations : ~Look(m)
               PROVE  HandInv' /\ EditsWin' /\ EditInv'
  BY <1>1
<1>3. \A n \in Migrations :
        /\ at'[n] = 0 => got'[n] = {}
        /\ \A v \in Values : hand'[n][v] # None =>
             hand'[n][v] = hand[n][v] /\ at'[n] # 0 /\ v \in got'[n]
  BY <1>2, HandShrinks
<1>4. HandInv'
  BY <1>3 DEF HandInv
<1>5. ASSUME UNCHANGED <<edits, crossed>>
      PROVE  EditInv'
  BY <1>3, <1>5 DEF EditInv
<1>6. ASSUME UNCHANGED <<stored, edits, crossed>>
      PROVE  EditsWin'
  BY <1>6 DEF EditsWin
<1>7. ASSUME NEW p \in Procs, Write(p)
      PROVE  EditsWin' /\ EditInv'
  <2> DEFINE v == draft[p].of
             new == [edit |-> edits[v] + 1, under |-> draft[p].under]
  <2>1. draft[p] \in Drafts
    BY <1>7 DEF Write, TypeOK
  <2>2. v \in Values
    BY <2>1 DEF Drafts
  <2>3. stored' = [stored EXCEPT ![v] = new] /\ edits' = [edits EXCEPT ![v] = edits[v] + 1]
        /\ crossed' = IF \E m \in Migrations : at[m] # 0 /\ hand[m][v] # None
                      THEN crossed \cup {v} ELSE crossed
    BY <1>7 DEF Write
  <2>4. crossed \subseteq crossed'
        /\ ((\E m \in Migrations : at[m] # 0 /\ hand[m][v] # None) => v \in crossed')
    BY <2>3
  <2>5. new.edit = edits[v] + 1
    OBVIOUS
  <2> HIDE DEF v, new
  <2>6. stored'[v].edit = edits'[v]
    BY <2>2, <2>3, <2>5 DEF TypeOK
  <2>7. \A u \in Values : u # v => stored'[u] = stored[u] /\ edits'[u] = edits[u]
    BY <2>2, <2>3 DEF TypeOK
  <2>8. EditsWin'
    BY <2>4, <2>6, <2>7 DEF EditsWin
  <2>9. ASSUME NEW n \in Migrations, NEW u \in Values, hand'[n][u] # None,
               u \notin {"address", "channel"}, u \notin crossed'
        PROVE  hand'[n][u].edit = edits'[u]
    <3>1. hand'[n][u] = hand[n][u] /\ at[n] # 0
      BY <1>3, <2>9 DEF HandInv
    <3>2. u # v
      BY <2>4, <2>9, <3>1
    <3> QED
      BY <2>4, <2>7, <2>9, <3>1, <3>2 DEF EditInv
  <2>10. EditInv'
    BY <2>9 DEF EditInv
  <2> QED
    BY <2>8, <2>10
<1>8. ASSUME NEW m \in Migrations, Reseal(m)
      PROVE  EditsWin' /\ EditInv'
  <2> DEFINE v == Value(m)
             old == hand[m][v]
             u == SealUnder("web")
  <2>1. /\ at[m] # 0 /\ old # None /\ u # None
        /\ stored' = [stored EXCEPT ![v] = Resealed(v, old, u)]
        /\ UNCHANGED <<edits, crossed>>
    BY <1>8 DEF Reseal
  <2>2. v \in Values
    BY <2>1, InOrder DEF Value, TypeOK
  <2>3. old \in Sealed /\ u \in Keys
    BY <2>1, <2>2, SealUnderType DEF TypeOK, Procs
  <2>4. \/ Resealed(v, old, u) = stored[v] /\ v \in {"address", "channel"}
        \/ /\ Resealed(v, old, u).edit = old.edit
           /\ v \in {"address", "channel"} => stored[v] = old
    BY <2>2, <2>3, ResealedIs
  <2>5. v \notin {"address", "channel"} /\ v \notin crossed => old.edit = edits[v]
    BY <2>1, <2>2 DEF EditInv
  <2> HIDE DEF v, old, u
  <2>6. v \in {"address", "channel"} \/ v \notin crossed => stored'[v].edit = edits[v]
    BY <2>1, <2>2, <2>4, <2>5 DEF EditsWin, TypeOK
  <2>7. \A w \in Values : w # v => stored'[w] = stored[w]
    BY <2>1, <2>2 DEF TypeOK
  <2>8. EditsWin'
    BY <2>1, <2>6, <2>7 DEF EditsWin
  <2> QED
    BY <1>5, <2>1, <2>8
<1>9. ASSUME \/ Create \/ NoteOwner \/ Adopt \/ UNCHANGED vars
             \/ \E p \in Procs : ReadOwners(p) \/ SetOwners(p) \/ Lock(p) \/ Restart(p)
             \/ \E p \in Procs, v \in Values : Seal(p, v)
             \/ \E m \in Migrations : Unlock(m) \/ Skip(m) \/ ResealRefused(m)
      PROVE  UNCHANGED <<stored, edits, crossed>>
  <2>1. CASE Create \/ NoteOwner \/ Adopt \/ UNCHANGED vars
    BY <2>1 DEF Create, NoteOwner, Adopt, vars, ghosts
  <2>2. ASSUME NEW p \in Procs, ReadOwners(p) \/ SetOwners(p) \/ Lock(p) \/ Restart(p)
        PROVE  UNCHANGED <<stored, edits, crossed>>
    BY <2>2 DEF ReadOwners, SetOwners, Lock, Restart, ghosts
  <2>3. ASSUME NEW p \in Procs, NEW v \in Values, Seal(p, v)
        PROVE  UNCHANGED <<stored, edits, crossed>>
    BY <2>3 DEF Seal, ghosts
  <2>4. ASSUME NEW m \in Migrations, Unlock(m) \/ Skip(m) \/ ResealRefused(m)
        PROVE  UNCHANGED <<stored, edits, crossed>>
    BY <2>4 DEF Unlock, Skip, ResealRefused, ghosts
  <2> QED
    BY <1>9, <2>1, <2>2, <2>3, <2>4, Zenon
<1>10. EditsWin' /\ EditInv'
  <2>1. ASSUME UNCHANGED <<stored, edits, crossed>>
        PROVE  EditsWin' /\ EditInv'
    BY <1>5, <1>6, <2>1
  <2> QED
    BY <1>2, <1>7, <1>8, <1>9, <2>1, Zenon DEF Next
<1> QED
  BY <1>4, <1>10

-----------------------------------------------------------------------------
(* Nothing goes back under the server's key.                               *)

\* Once both processes know of the vault they do for good, and from then on a sealed value
\* only changes to come under the vault's key.
LEMMA KnownStays ==
  ASSUME ConstantsType, TypeOK, Known, [Next]_vars
  PROVE  /\ Known'
         /\ \A v \in Values : stored'[v] = stored[v] \/ stored'[v].under = "v2"
<1> DEFINE Better == \A v \in Values : stored'[v] = stored[v] \/ stored'[v].under = "v2"
<1>1. ASSUME UNCHANGED <<vault, owners, heard, draft>>
      PROVE  Known'
  BY <1>1, Zenon DEF Known
<1>2. ASSUME UNCHANGED stored
      PROVE  Better
  BY <1>2
<1>3. \A p \in Procs : SealUnder(p) # None => SealUnder(p) = "v2"
  BY Zenon DEF SealUnder, Known
<1>4. ASSUME Create \/ NoteOwner \/ Adopt \/ UNCHANGED vars
      PROVE  Known' /\ Better
  <2>1. UNCHANGED stored
    BY <1>4 DEF Create, NoteOwner, Adopt, vars
  <2>2. CASE Create
    BY <2>2, Zenon DEF Create, Known
  <2>3. CASE NoteOwner
    <3>1. owners' = [owners EXCEPT !["web"] = TRUE] /\ UNCHANGED <<vault, heard, draft>>
      BY <2>3 DEF NoteOwner
    <3>2. \A p \in Procs : owners'[p]
      BY <3>1, Zenon DEF Known, TypeOK
    <3>3. Known'
      BY <3>1, <3>2, Zenon DEF Known
    <3> QED
      BY <1>2, <2>1, <3>3
  <2>4. CASE Adopt \/ UNCHANGED vars
    <3>1. UNCHANGED <<vault, owners, heard, draft>>
      BY <2>4 DEF Adopt, vars, memory
    <3> QED
      BY <1>1, <1>2, <2>1, <3>1
  <2> QED
    BY <1>4, <2>2, <2>3, <2>4
<1>5. ASSUME NEW p \in Procs, ReadOwners(p) \/ SetOwners(p) \/ Restart(p)
      PROVE  Known' /\ Better
  <2>1. UNCHANGED <<vault, stored>>
    BY <1>5 DEF ReadOwners, SetOwners, Restart
  <2>2. vault = TRUE /\ \A q \in Procs : owners[q] = TRUE
    BY Zenon DEF Known, TypeOK
  <2>3. None # FALSE /\ TRUE # FALSE
    BY Zenon DEF ConstantsType
  <2>4. CASE ReadOwners(p)
    <3>1. heard' = [heard EXCEPT ![p] = TRUE] /\ owners' = owners /\ draft' = draft
      BY <2>2, <2>4 DEF ReadOwners
    <3>2. \A q \in Procs : heard'[q] # FALSE
      BY <2>3, <3>1, Zenon DEF Known, TypeOK
    <3>3. Known'
      BY <2>1, <3>1, <3>2, Zenon DEF Known
    <3> QED
      BY <1>2, <2>1, <3>3
  <2>5. CASE SetOwners(p)
    <3>1. heard[p] # None /\ heard[p] # FALSE
      BY <2>5 DEF SetOwners, Known
    <3>2. heard[p] = TRUE
      BY <3>1, Zenon DEF TypeOK
    <3>3. owners' = [owners EXCEPT ![p] = TRUE] /\ heard' = [heard EXCEPT ![p] = None]
          /\ draft' = draft
      BY <2>5, <3>2 DEF SetOwners
    <3>4. \A q \in Procs : owners'[q] = TRUE
      BY <2>2, <3>3, Zenon DEF TypeOK
    <3>5. \A q \in Procs : heard'[q] # FALSE
      BY <2>3, <3>3, Zenon DEF Known, TypeOK
    <3>6. Known'
      BY <2>1, <3>3, <3>4, <3>5, Zenon DEF Known
    <3> QED
      BY <1>2, <2>1, <3>6
  <2>6. CASE Restart(p)
    <3>1. owners' = [owners EXCEPT ![p] = TRUE] /\ heard' = [heard EXCEPT ![p] = None]
          /\ draft' = [draft EXCEPT ![p] = None]
      BY <2>2, <2>6 DEF Restart
    <3>2. \A q \in Procs : owners'[q] = TRUE
      BY <2>2, <3>1, Zenon DEF TypeOK
    <3>3. \A q \in Procs : heard'[q] # FALSE
      BY <2>3, <3>1, Zenon DEF Known, TypeOK
    <3>4. \A q \in Procs : draft'[q] # None => draft'[q].under = "v2"
      BY <3>1 DEF Known, TypeOK
    <3>5. Known'
      BY <2>1, <3>2, <3>3, <3>4, Zenon DEF Known
    <3> QED
      BY <1>2, <2>1, <3>5
  <2> QED
    BY <1>5, <2>4, <2>5, <2>6
<1>6. ASSUME NEW p \in Procs, Lock(p)
      PROVE  Known' /\ Better
  BY <1>1, <1>2, <1>6 DEF Lock
<1>7. ASSUME NEW p \in Procs, NEW v \in Values, Seal(p, v)
      PROVE  Known' /\ Better
  <2>1. draft' = [draft EXCEPT ![p] = [of |-> v, under |-> "v2"]]
        /\ UNCHANGED <<vault, memory, stored>>
    BY <1>3, <1>7 DEF Seal
  <2>2. \A q \in Procs : draft'[q] # None => draft'[q].under = "v2"
    BY <2>1 DEF Known, TypeOK
  <2>3. vault' = vault /\ owners' = owners /\ heard' = heard
    BY <2>1 DEF memory
  <2>4. Known'
    BY <2>2, <2>3, Zenon DEF Known
  <2> QED
    BY <1>2, <2>1, <2>4
<1>8. ASSUME NEW p \in Procs, Write(p)
      PROVE  Known' /\ Better
  <2>1. draft[p] # None /\ draft' = [draft EXCEPT ![p] = None] /\ UNCHANGED <<vault, memory>>
        /\ stored' = [stored EXCEPT ![draft[p].of] =
             [edit |-> edits[draft[p].of] + 1, under |-> draft[p].under]]
    BY <1>8 DEF Write
  <2>2. draft[p].under = "v2"
    BY <2>1 DEF Known
  <2>3. Better
    BY <2>1, <2>2 DEF TypeOK
  <2>4. \A q \in Procs : draft'[q] # None => draft'[q].under = "v2"
    BY <2>1 DEF Known, TypeOK
  <2>5. vault' = vault /\ owners' = owners /\ heard' = heard
    BY <2>1 DEF memory
  <2>6. Known'
    BY <2>4, <2>5, Zenon DEF Known
  <2> QED
    BY <2>3, <2>6
<1>9. ASSUME NEW m \in Migrations, Unlock(m) \/ Look(m) \/ Skip(m) \/ ResealRefused(m)
      PROVE  Known' /\ Better
  <2>1. UNCHANGED <<vault, owners, heard, draft>> /\ UNCHANGED stored
    BY <1>9 DEF Unlock, Look, Skip, ResealRefused, memory
  <2> QED
    BY <1>1, <1>2, <2>1
<1>10. ASSUME NEW m \in Migrations, Reseal(m)
       PROVE  Known' /\ Better
  <2> DEFINE v == Value(m)
             old == hand[m][v]
  <2>1. /\ at[m] # 0 /\ old # None
        /\ stored' = [stored EXCEPT ![v] = Resealed(v, old, "v2")]
        /\ UNCHANGED <<vault, memory, draft>>
    BY <1>3, <1>10 DEF Reseal, Procs
  <2>2. v \in Values
    BY <2>1, InOrder DEF Value, TypeOK
  <2>3. old \in Sealed /\ "v2" \in Keys
    BY <2>1, <2>2 DEF TypeOK, Keys
  <2>4. Resealed(v, old, "v2") = stored[v] \/ Resealed(v, old, "v2").under = "v2"
    BY <2>2, <2>3, ResealedIs
  <2> HIDE DEF v, old
  <2>5. Better
    BY <2>1, <2>2, <2>4 DEF TypeOK
  <2>6. UNCHANGED <<vault, owners, heard, draft>>
    BY <2>1 DEF memory
  <2> QED
    BY <1>1, <2>5, <2>6
<1> HIDE DEF Better
<1>11. Known' /\ Better
  BY <1>4, <1>5, <1>6, <1>7, <1>8, <1>9, <1>10, Zenon DEF Next
<1> QED
  BY <1>11 DEF Better

\* What a migration goes through keeps what is behind it and in its hand.
LEMMA MoveKeeps ==
  ASSUME ConstantsType, TypeOK, HandInv, MoveInv, [Next]_vars,
         NEW m \in Migrations, sure[m], Same(m)
  PROVE  /\ Known' /\ at'[m] # 0
         /\ \A i \in DOMAIN Order : i < at'[m] => stored'[Order[i]].under = "v2"
         /\ \A v \in got'[m] : stored'[v].under = "v2" \/ hand'[m][v] = stored'[v]
<1>1. Known /\ at[m] # 0
      /\ (\A i \in DOMAIN Order : i < at[m] => stored[Order[i]].under = "v2")
      /\ \A v \in got[m] : stored[v].under = "v2" \/ hand[m][v] = stored[v]
  BY DEF MoveInv
<1>2. Known' /\ \A v \in Values : stored'[v] = stored[v] \/ stored'[v].under = "v2"
  BY <1>1, KnownStays
<1>3. at'[m] = at[m] /\ got'[m] = got[m] /\ hand'[m] = hand[m]
  BY Zenon DEF Same
<1>4. got[m] \subseteq Values
  BY DEF TypeOK
<1>5. \A i \in DOMAIN Order : Order[i] \in Values
  BY InOrder
<1> QED
  BY <1>1, <1>2, <1>3, <1>4, <1>5

\* One value further: what was at its turn has to be under the vault's key.
LEMMA MoveGoesOn ==
  ASSUME ConstantsType, TypeOK, HandInv, MoveInv, [Next]_vars,
         NEW m \in Migrations, sure[m], at[m] # 0, NextValue(m, sure[m]),
         stored'[Value(m)].under = "v2"
  PROVE  /\ sure'[m] => /\ Known' /\ at'[m] # 0
                        /\ \A i \in DOMAIN Order : i < at'[m] => stored'[Order[i]].under = "v2"
                        /\ \A v \in got'[m] : stored'[v].under = "v2" \/ hand'[m][v] = stored'[v]
         /\ at[m] = Len(Order) => \A v \in Values : stored'[v].under = "v2"
<1>1. Known /\ at[m] \in Nat
      /\ (\A i \in DOMAIN Order : i < at[m] => stored[Order[i]].under = "v2")
      /\ \A v \in got[m] : stored[v].under = "v2" \/ hand[m][v] = stored[v]
  BY DEF MoveInv, TypeOK
<1>2. Known' /\ \A v \in Values : stored'[v] = stored[v] \/ stored'[v].under = "v2"
  BY <1>1, KnownStays
<1>3. got[m] \subseteq Values /\ DOMAIN Order = 1 .. Len(Order) /\ Len(Order) \in Nat
      /\ \A i \in DOMAIN Order : Order[i] \in Values
  BY InOrder DEF TypeOK
<1>4. \A i \in DOMAIN Order : i <= at[m] => stored'[Order[i]].under = "v2"
  <2> SUFFICES ASSUME NEW i \in DOMAIN Order, i <= at[m]
               PROVE  stored'[Order[i]].under = "v2"
    OBVIOUS
  <2>1. CASE i = at[m]
    BY <2>1 DEF Value
  <2>2. CASE i < at[m]
    BY <1>1, <1>2, <1>3, <2>2
  <2> QED
    BY <1>1, <1>3, <2>1, <2>2
<1>5. at[m] = Len(Order) => \A v \in Values : stored'[v].under = "v2"
  BY <1>3, <1>4, InOrder
<1>6. sure[m] \in BOOLEAN
  BY Zenon DEF TypeOK
<1>7. \/ sure'[m] = FALSE
      \/ /\ at'[m] = at[m] + 1 /\ got'[m] = got[m]
         /\ \A v \in Values : hand'[m][v] = IF v = Value(m) THEN None ELSE hand[m][v]
  BY <1>6, NextShape, EndsShape, Zenon
<1>8. CASE /\ at'[m] = at[m] + 1 /\ got'[m] = got[m]
           /\ \A v \in Values : hand'[m][v] = IF v = Value(m) THEN None ELSE hand[m][v]
  <2>1. \A i \in DOMAIN Order : i < at'[m] => stored'[Order[i]].under = "v2"
    BY <1>1, <1>3, <1>4, <1>8
  <2>2. \A v \in got'[m] : stored'[v].under = "v2" \/ hand'[m][v] = stored'[v]
    BY <1>1, <1>2, <1>3, <1>8
  <2>3. at'[m] # 0
    BY <1>1, <1>8
  <2> QED
    BY <1>2, <1>5, <2>1, <2>2, <2>3
<1> QED
  BY <1>5, <1>7, <1>8, Zenon

LEMMA MoveStays ==
  ASSUME ConstantsType, TypeOK, HandInv, MoveInv, SettledInv, [Next]_vars
  PROVE  MoveInv' /\ SettledInv'
<1> DEFINE Good(m) ==
      /\ Known' /\ at'[m] # 0
      /\ \A i \in DOMAIN Order : i < at'[m] => stored'[Order[i]].under = "v2"
      /\ \A v \in got'[m] : stored'[v].under = "v2" \/ hand'[m][v] = stored'[v]
    Clear == Known' /\ \A v \in Values : stored'[v].under = "v2"
<1>1. ASSUME NEW m \in Migrations, Same(m)
      PROVE  sure'[m] => Good(m)
  <2>1. sure'[m] => sure[m]
    BY <1>1, Zenon DEF Same
  <2> QED
    BY <1>1, <2>1, MoveKeeps
<1>2. settled => Clear
  BY KnownStays DEF SettledInv
<1>3. ASSUME NEW m \in Migrations, Ends(m)
      PROVE  \A n \in Migrations : sure'[n] => Good(n)
  <2>1. sure'[m] => Good(m)
    BY <1>3, EndsShape, Zenon
  <2>2. \A n \in Migrations \ {m} : Same(n)
    BY <1>3, EndsShape
  <2> HIDE DEF Good
  <2> QED
    BY <1>1, <2>1, <2>2
<1>4. ASSUME NEW m \in Migrations, at[m] # 0, NextValue(m, sure[m]),
             sure[m] => stored'[Value(m)].under = "v2"
      PROVE  (\A n \in Migrations : sure'[n] => Good(n)) /\ (settled' => Clear)
  <2>1. sure[m] \in BOOLEAN
    BY Zenon DEF TypeOK
  <2>2. \A n \in Migrations \ {m} : Same(n)
    BY <1>4, <2>1, NextShape
  <2>3. sure'[m] => sure[m]
    <3>1. sure'[m] = FALSE \/ sure'[m] = sure[m]
      BY <1>4, <2>1, NextShape, EndsShape, Zenon
    <3> QED
      BY <3>1, Zenon
  <2>4. sure[m] => (sure'[m] => Good(m))
    BY <1>4, MoveGoesOn
  <2>5. settled' => settled \/ (sure[m] /\ at[m] = Len(Order))
    BY <1>4, <2>1, NextShape
  <2>6. sure[m] /\ at[m] = Len(Order) => Clear
    <3>1. sure[m] => Known
      BY DEF MoveInv
    <3> QED
      BY <1>4, <3>1, MoveGoesOn, KnownStays
  <2> HIDE DEF Good, Clear
  <2>7. sure'[m] => Good(m)
    BY <2>3, <2>4, Zenon
  <2>8. \A n \in Migrations : sure'[n] => Good(n)
    BY <1>1, <2>2, <2>7
  <2> QED
    BY <1>2, <2>5, <2>6, <2>8, Zenon
<1>5. ASSUME UNCHANGED <<at, got, hand, sure>>
      PROVE  \A n \in Migrations : sure'[n] => Good(n)
  <2>1. \A n \in Migrations : Same(n)
    BY <1>5 DEF Same
  <2> HIDE DEF Good
  <2> QED
    BY <1>1, <2>1
<1>6. ASSUME settled' = settled
      PROVE  settled' => Clear
  BY <1>2, <1>6, Zenon
<1>7. ASSUME NEW m \in Migrations, Unlock(m)
      PROVE  (\A n \in Migrations : sure'[n] => Good(n)) /\ (settled' => Clear)
  <2>1. at[m] = 0 /\ at' = [at EXCEPT ![m] = 1] /\ got' = got /\ hand' = hand
        /\ vault /\ settled' = settled
    BY <1>7 DEF Unlock, ghosts
  <2>2. sure'[m] => /\ \A p \in Procs : owners[p] /\ heard[p] # FALSE
                    /\ \A p \in Procs : draft[p] # None => draft[p].under = "v2"
    BY <1>7, Zenon DEF Unlock, TypeOK
  <2>3. sure'[m] => Known
    BY <2>1, <2>2, Zenon DEF Known
  <2>4. at'[m] = 1 /\ got'[m] = {}
    BY <2>1 DEF HandInv, TypeOK
  <2>5. \A i \in DOMAIN Order : ~(i < 1)
    BY InOrder
  <2>6. sure'[m] => Good(m)
    BY <2>3, <2>4, <2>5, KnownStays
  <2>7. \A n \in Migrations \ {m} : sure'[n] = sure[n]
    BY <1>7, Zenon DEF Unlock, TypeOK
  <2>8. \A n \in Migrations \ {m} : Same(n)
    <3>1. \A n \in Migrations \ {m} : at'[n] = at[n]
      BY <2>1 DEF TypeOK
    <3> QED
      BY <2>1, <2>7, <3>1, Zenon DEF Same
  <2> HIDE DEF Good, Clear
  <2> QED
    BY <1>1, <1>6, <2>1, <2>6, <2>8
<1>8. ASSUME NEW m \in Migrations, Look(m)
      PROVE  (\A n \in Migrations : sure'[n] => Good(n)) /\ (settled' => Clear)
  <2>1. settled' = settled /\ stored' = stored
    BY <1>8 DEF Look, ghosts
  <2>2. CASE Ends(m)
    BY <1>3, <1>6, <2>1, <2>2
  <2>3. CASE /\ got' = [got EXCEPT ![m] = @ \cup Together(Value(m))]
             /\ hand' = [hand EXCEPT ![m] = [v \in Values |->
                  IF v \in Together(Value(m)) /\ stored[v].under = "v1" THEN stored[v] ELSE @[v]]]
             /\ UNCHANGED <<at, sure>>
    <3>1. at' = at /\ sure' = sure /\ got'[m] = got[m] \cup Together(Value(m))
      BY <2>3 DEF TypeOK
    <3>2. \A v \in Values :
            hand'[m][v] = IF v \in Together(Value(m)) /\ stored[v].under = "v1"
                          THEN stored[v] ELSE hand[m][v]
      BY <2>3 DEF TypeOK
    <3>3. \A n \in Migrations \ {m} : Same(n)
      <4>1. \A n \in Migrations \ {m} : got'[n] = got[n] /\ hand'[n] = hand[n]
        BY <2>3 DEF TypeOK
      <4> QED
        BY <3>1, <4>1, Zenon DEF Same
    <3>4. sure'[m] => sure[m]
      BY <3>1, Zenon
    <3>5. sure[m] => Good(m)
      <4>1. SUFFICES ASSUME sure[m] PROVE Good(m)
        OBVIOUS
      <4>2. Known /\ at[m] # 0
            /\ (\A i \in DOMAIN Order : i < at[m] => stored[Order[i]].under = "v2")
            /\ \A v \in got[m] : stored[v].under = "v2" \/ hand[m][v] = stored[v]
        BY <4>1 DEF MoveInv
      <4>3. Known'
        BY <4>2, KnownStays
      <4>4. Value(m) \in Values
        BY <4>2, InOrder DEF Value, TypeOK
      <4>5. got'[m] \subseteq Values
        BY <3>1, <4>4 DEF Together, Early, TypeOK
      <4>6. \A v \in Values : stored[v].under \in {"v1", "v2"}
        BY DEF TypeOK, Sealed, Keys
      <4>7. \A v \in got'[m] : stored[v].under = "v2" \/ hand'[m][v] = stored[v]
        BY <3>1, <3>2, <4>2, <4>5, <4>6
      <4> QED
        BY <2>1, <3>1, <4>2, <4>3, <4>7
    <3> HIDE DEF Good, Clear
    <3>6. sure'[m] => Good(m)
      BY <3>4, <3>5, Zenon
    <3> QED
      BY <1>1, <1>6, <2>1, <3>3, <3>6
  <2> QED
    BY <1>8, <2>2, <2>3, Zenon DEF Look
<1>9. ASSUME NEW m \in Migrations, at[m] # 0
      PROVE  Value(m) \in Values
  BY <1>9, InOrder DEF Value, TypeOK
<1>10. ASSUME NEW m \in Migrations, Skip(m)
       PROVE  (\A n \in Migrations : sure'[n] => Good(n)) /\ (settled' => Clear)
  <2>1. at[m] # 0 /\ Value(m) \in got[m] /\ hand[m][Value(m)] = None
        /\ NextValue(m, sure[m]) /\ stored' = stored
    BY <1>10 DEF Skip
  <2>2. stored[Value(m)] # None
    BY <1>9, <2>1 DEF TypeOK, ConstantsType
  <2>3. sure[m] => stored'[Value(m)].under = "v2"
    BY <2>1, <2>2 DEF MoveInv
  <2> HIDE DEF Good, Clear
  <2> QED
    BY <1>4, <2>1, <2>3
<1>11. ASSUME NEW m \in Migrations, Reseal(m)
       PROVE  (\A n \in Migrations : sure'[n] => Good(n)) /\ (settled' => Clear)
  <2> DEFINE w == Value(m)
             old == hand[m][w]
             u == SealUnder("web")
  <2>1. /\ at[m] # 0 /\ w \in got[m] /\ old # None /\ u # None
        /\ stored' = [stored EXCEPT ![w] = Resealed(w, old, u)]
    BY <1>11 DEF Reseal
  <2>2. w \in Values
    BY <1>9, <2>1
  <2>3. old \in Sealed /\ u \in Keys
    BY <2>1, <2>2, SealUnderType DEF TypeOK, Procs
  <2>4. sure[m] => u = "v2"
    <3>1. sure[m] => owners["web"]
      BY Zenon DEF MoveInv, Known, Procs
    <3> QED
      BY <2>1, <3>1, Zenon DEF SealUnder
  <2>5. sure[m] => stored[w].under = "v2" \/ stored[w] = old
    BY <2>1 DEF MoveInv
  <2>6. stored'[w] = Resealed(w, old, u)
    BY <2>1, <2>2 DEF TypeOK
  <2>7. \/ Resealed(w, old, u) = stored[w] /\ stored[w] # old
        \/ Resealed(w, old, u).under = u
    BY <2>2, <2>3, ResealedIs
  <2>8. sure[m] => stored'[Value(m)].under = "v2"
    BY <2>4, <2>5, <2>6, <2>7
  <2>9. CASE NextValue(m, sure[m])
    <3> HIDE DEF Good, Clear
    <3> QED
      BY <1>4, <2>1, <2>8, <2>9
  <2>10. CASE /\ got' = [got EXCEPT ![m] = @ \ {w}] /\ hand' = [hand EXCEPT ![m][w] = None]
              /\ UNCHANGED <<at, sure, settled>>
    <3>1. at' = at /\ sure' = sure /\ settled' = settled /\ got'[m] = got[m] \ {w}
      BY <2>10 DEF TypeOK
    <3>2. \A v \in Values : v # w => hand'[m][v] = hand[m][v]
      BY <2>10 DEF TypeOK
    <3>3. \A n \in Migrations \ {m} : Same(n)
      <4>1. \A n \in Migrations \ {m} : got'[n] = got[n] /\ hand'[n] = hand[n]
        BY <2>10 DEF TypeOK
      <4> QED
        BY <3>1, <4>1, Zenon DEF Same
    <3>4. sure'[m] => sure[m]
      BY <3>1, Zenon
    <3>5. sure[m] => Good(m)
      <4>1. SUFFICES ASSUME sure[m] PROVE Good(m)
        OBVIOUS
      <4>2. Known
            /\ (\A i \in DOMAIN Order : i < at[m] => stored[Order[i]].under = "v2")
            /\ \A v \in got[m] : stored[v].under = "v2" \/ hand[m][v] = stored[v]
        BY <4>1 DEF MoveInv
      <4>3. Known' /\ \A v \in Values : stored'[v] = stored[v] \/ stored'[v].under = "v2"
        BY <4>2, KnownStays
      <4>4. got[m] \subseteq Values /\ \A i \in DOMAIN Order : Order[i] \in Values
        BY InOrder DEF TypeOK
      <4>5. \A i \in DOMAIN Order : i < at'[m] => stored'[Order[i]].under = "v2"
        BY <3>1, <4>2, <4>3, <4>4
      <4>6. \A v \in got'[m] : stored'[v].under = "v2" \/ hand'[m][v] = stored'[v]
        BY <3>1, <3>2, <4>2, <4>3, <4>4
      <4> QED
        BY <2>1, <3>1, <4>3, <4>5, <4>6
    <3> HIDE DEF Good, Clear
    <3>6. sure'[m] => Good(m)
      BY <3>4, <3>5, Zenon
    <3> QED
      BY <1>1, <1>6, <3>1, <3>3, <3>6
  <2> QED
    BY <1>11, <2>9, <2>10, Zenon DEF Reseal
<1>12. ASSUME NEW m \in Migrations, ResealRefused(m)
       PROVE  (\A n \in Migrations : sure'[n] => Good(n)) /\ (settled' => Clear)
  <2>1. CASE NextValue(m, FALSE)
    <3>1. sure'[m] = FALSE /\ \A n \in Migrations \ {m} : Same(n)
      BY <2>1, NextShape, EndsShape, Zenon
    <3>2. settled' => settled
      BY <2>1, NextShape, Zenon
    <3>3. sure'[m] => Good(m)
      BY <3>1, Zenon
    <3> HIDE DEF Good, Clear
    <3> QED
      BY <1>1, <1>2, <3>1, <3>2, <3>3
  <2>2. CASE Ends(m) /\ UNCHANGED settled
    BY <1>3, <1>6, <2>2
  <2> QED
    BY <1>12, <2>1, <2>2, Zenon DEF ResealRefused
<1>13. ASSUME NEW p \in Procs, Restart(p)
       PROVE  (\A n \in Migrations : sure'[n] => Good(n)) /\ (settled' => Clear)
  <2>1. settled' = settled
    BY <1>13 DEF Restart, ghosts
  <2>2. CASE UNCHANGED moves
    BY <1>5, <1>6, <2>1, <2>2 DEF moves
  <2>3. CASE sure' = [m \in Migrations |-> FALSE]
    <3>1. \A n \in Migrations : sure'[n] = FALSE
      BY <2>3
    <3>2. \A n \in Migrations : sure'[n] => Good(n)
      BY <3>1, Zenon
    <3> QED
      BY <1>6, <2>1, <3>2
  <2> QED
    BY <1>13, <2>2, <2>3, Zenon DEF Restart
<1>14. ASSUME \/ Create \/ NoteOwner \/ Adopt \/ UNCHANGED vars
              \/ \E p \in Procs : ReadOwners(p) \/ SetOwners(p) \/ Lock(p) \/ Write(p)
              \/ \E p \in Procs, v \in Values : Seal(p, v)
       PROVE  (\A n \in Migrations : sure'[n] => Good(n)) /\ (settled' => Clear)
  <2>1. UNCHANGED moves /\ UNCHANGED settled
    <3>1. ASSUME NEW p \in Procs, ReadOwners(p) \/ SetOwners(p) \/ Lock(p) \/ Write(p)
          PROVE  UNCHANGED moves /\ UNCHANGED settled
      BY <3>1 DEF ReadOwners, SetOwners, Lock, Write, ghosts
    <3>2. ASSUME NEW p \in Procs, NEW v \in Values, Seal(p, v)
          PROVE  UNCHANGED moves /\ UNCHANGED settled
      BY <3>2 DEF Seal, ghosts
    <3>3. CASE Create \/ NoteOwner \/ Adopt \/ UNCHANGED vars
      BY <3>3 DEF Create, NoteOwner, Adopt, vars, ghosts
    <3> QED
      BY <1>14, <3>1, <3>2, <3>3, Zenon
  <2> QED
    BY <1>5, <1>6, <2>1 DEF moves
<1>15. (\A n \in Migrations : sure'[n] => Good(n)) /\ (settled' => Clear)
  <2> HIDE DEF Good, Clear
  <2> QED
    BY <1>7, <1>8, <1>10, <1>11, <1>12, <1>13, <1>14, Zenon DEF Next
<1> QED
  BY <1>15 DEF MoveInv, SettledInv

-----------------------------------------------------------------------------
(* The theorems.                                                           *)

LEMMA StartsRight == ASSUME ConstantsType, Init PROVE IInv
<1>1. TypeOK
  BY StartsTyped
<1>2. \A m \in Migrations : at[m] = 0 /\ got[m] = {} /\ \A v \in Values : hand[m][v] = None
  BY DEF Init
<1>3. HandInv /\ EditInv
  BY <1>2 DEF HandInv, EditInv
<1>4. EditsWin
  BY DEF Init, EditsWin
<1>5. \A m \in Migrations : ~sure[m]
  BY Zenon DEF Init
<1>6. ~settled
  BY Zenon DEF Init
<1> QED
  BY <1>1, <1>3, <1>4, <1>5, <1>6 DEF IInv, MoveInv, SettledInv

LEMMA Invariance == ASSUME ConstantsType PROVE Spec => []IInv
<1>1. Init => IInv
  BY StartsRight
<1>2. IInv /\ [Next]_vars => IInv'
  BY StaysTyped, EditsStay, MoveStays DEF IInv
<1> QED
  BY <1>1, <1>2, PTL DEF Spec

\* Every step keeps the vault, what the processes know of it and the values of their types.
THEOREM TypeCorrect == ASSUME ConstantsType PROVE Spec => []TypeOK
<1>1. IInv => TypeOK
  BY DEF IInv
<1> QED
  BY <1>1, Invariance, PTL

\* However unlocks, edits, locks and restarts interleave, the move to the vault loses no edit,
\* and when one that began after both processes knew of the vault has come to its end, no
\* value is under the server's key again.
THEOREM NothingIsLostOrLeft == ASSUME ConstantsType PROVE Spec => []VaultKeeps
<1>1. IInv => VaultKeeps
  BY DEF IInv, SettledInv, VaultKeeps, NothingLeftUnderServerKey
<1> QED
  BY <1>1, Invariance, PTL

\* Once both processes know of the vault no step takes a value from the vault's key back to
\* the server's, a migration that began before they knew included.
THEOREM NothingGoesBack ==
  ASSUME ConstantsType
  PROVE  Spec => [][Known => \A v \in Values :
                      stored[v].under = "v2" => stored'[v].under = "v2"]_vars
<1>1. IInv /\ [Next]_vars =>
        (Known => \A v \in Values : stored[v].under = "v2" => stored'[v].under = "v2")
  BY KnownStays DEF IInv
<1> QED
  BY <1>1, Invariance, PTL DEF Spec
-----------------------------------------------------------------------------
(* The radio session: RadioSession.                                        *)

\* Its Cardinality, instanced, is the one the theorems are about.
LEMMA SameCount ==
  ASSUME NEW S
  PROVE  R!Cardinality(S) = Cardinality(S)
BY DEF R!Cardinality, Cardinality

\* The entry in flight is of a load under way, every load that was not dropped is the one in
\* flight, and whoever waits, waits for a load.
LoadInv ==
  /\ inflight # None => inflight \in R!Loading
  /\ ~dropped => \A r \in R!Loading : inflight = r
  /\ R!WaitsForALoad

\* A load that was not dropped works on a token of the session that is stored, and saves and
\* holds one only while the vault is open; a code that is tried is of a sign-in.
TokenInv ==
  /\ verify.step # "none" => verify.jar \in R!Jars
  /\ \A r \in Calls : pc[r] \in {"refreshing", "saving", "caching"} => held[r] # None
  /\ ~dropped => \A r \in R!Loading :
       /\ pc[r] # "reading" /\ held[r] # None => row # None /\ row[1] = held[r][1]
       /\ pc[r] \in {"saving", "caching"} => unlocked

RadioInv == R!TypeOK /\ LoadInv /\ TokenInv /\ R!HeldIsStored

-----------------------------------------------------------------------------
(* What a step may do.                                                     *)

Stages == {"reading", "opening", "refreshing", "saving", "caching"}

\* A token is told from None, and has a session.
LEMMA TokenIs ==
  ASSUME R!ConstantsType, NEW t \in R!Tokens
  PROVE  t # None /\ t[1] \in R!Jars /\ t[2] \in 0 .. MaxTurns /\ t = <<t[1], t[2]>>
BY DEF R!ConstantsType, R!Tokens

\* The end of a load takes its call out of those that load, with those that wait for it, and
\* leaves the other calls alone.
LEMMA EndIs ==
  ASSUME R!TypeOK, NEW r \in Calls, NEW token \in R!Tokens \cup {None}, R!EndLoad(r, token)
  PROVE  /\ inflight' = None
         /\ pc' \in [Calls -> {"idle", "waiting", "got", "failed"} \cup Stages]
         /\ held' \in [Calls -> R!Tokens \cup {None}] /\ waits' \in [Calls -> Calls \cup {None}]
         /\ R!Loading' = R!Loading \ {r}
         /\ \A w \in Calls : pc'[w] \in Stages =>
              w # r /\ pc'[w] = pc[w] /\ held'[w] = held[w]
         /\ \A w \in Calls : pc'[w] = "waiting" =>
              pc[w] = "waiting" /\ waits[w] # r /\ waits'[w] = waits[w]
<1> DEFINE hears == {r} \cup {w \in Calls : pc[w] = "waiting" /\ waits[w] = r}
<1>1. \A w \in Calls : /\ w \in hears => pc'[w] \in {"got", "failed"} /\ held'[w] = token
                                         /\ waits'[w] = None
                       /\ w \notin hears => pc'[w] = pc[w] /\ held'[w] = held[w]
                                            /\ waits'[w] = waits[w]
  BY DEF R!EndLoad
<1>2. /\ inflight' = None
      /\ pc' \in [Calls -> {"idle", "waiting", "got", "failed"} \cup Stages]
      /\ held' \in [Calls -> R!Tokens \cup {None}] /\ waits' \in [Calls -> Calls \cup {None}]
  BY DEF R!EndLoad, R!TypeOK, Stages
<1>3. \A w \in Calls : pc'[w] \in Stages => w # r /\ pc'[w] = pc[w] /\ held'[w] = held[w]
  BY <1>1 DEF Stages
<1>4. \A w \in Calls : pc'[w] = "waiting" =>
        pc[w] = "waiting" /\ waits[w] # r /\ waits'[w] = waits[w]
  BY <1>1
<1>5. R!Loading' = R!Loading \ {r}
  <2>1. \A w \in Calls : pc'[w] \in Stages <=> pc[w] \in Stages /\ w # r
    BY <1>1 DEF Stages
  <2> QED
    BY <2>1 DEF R!Loading, Stages
<1> QED
  BY <1>2, <1>3, <1>4, <1>5

\* A load's own steps, by what they leave of it: it goes on with a token, or ends with one.
GoesOn(r, stage, token) ==
  /\ pc' = [pc EXCEPT ![r] = stage] /\ held' = [held EXCEPT ![r] = token]
  /\ UNCHANGED <<waits, inflight>>

LEMMA GoesOnIs ==
  ASSUME R!TypeOK, NEW r \in Calls, pc[r] \in Stages, NEW stage \in Stages,
         NEW token \in R!Tokens \cup {None}, GoesOn(r, stage, token)
  PROVE  /\ inflight' = inflight
         /\ pc' \in [Calls -> {"idle", "waiting", "got", "failed"} \cup Stages]
         /\ held' \in [Calls -> R!Tokens \cup {None}] /\ waits' \in [Calls -> Calls \cup {None}]
         /\ R!Loading' = R!Loading
         /\ pc'[r] = stage /\ held'[r] = token
         /\ \A w \in Calls : w # r => pc'[w] = pc[w] /\ held'[w] = held[w]
         /\ \A w \in Calls : pc'[w] = "waiting" => pc[w] = "waiting" /\ waits'[w] = waits[w]
<1>1. \A w \in Calls : /\ pc'[w] = IF w = r THEN stage ELSE pc[w]
                       /\ held'[w] = IF w = r THEN token ELSE held[w]
  BY DEF GoesOn, R!TypeOK
<1>2. \A w \in Calls : pc'[w] \in Stages <=> pc[w] \in Stages
  BY <1>1
<1>3. R!Loading' = R!Loading
  BY <1>2 DEF R!Loading, Stages
<1>4. stage # "waiting"
  BY DEF Stages
<1> QED
  BY <1>1, <1>3, <1>4 DEF GoesOn, R!TypeOK, Stages

\* How a load can go: it reads, goes on, or ends, and what each leaves behind.
LEMMA LoadIs ==
  ASSUME R!ConstantsType, R!TypeOK, TokenInv, NEW r \in Calls, R!Load(r)
  PROVE  /\ pc[r] \in Stages
         /\ UNCHANGED <<lapsed, unlocked, R!signIn, dropped, forgets>>
         /\ \/ /\ pc[r] = "reading" /\ GoesOn(r, "opening", row)
               /\ UNCHANGED <<row, bearer>>
            \/ /\ pc[r] = "opening" /\ held[r] \in R!Tokens /\ GoesOn(r, "refreshing", held[r])
               /\ UNCHANGED <<row, bearer>>
            \/ /\ pc[r] = "refreshing" /\ unlocked /\ held[r] \in R!Tokens
               /\ <<held[r][1], held[r][2] + 1>> \in R!Tokens
               /\ GoesOn(r, "saving", <<held[r][1], held[r][2] + 1>>)
               /\ UNCHANGED <<row, bearer>>
            \/ /\ pc[r] = "saving" /\ held[r] \in R!Tokens /\ GoesOn(r, "caching", held[r])
               /\ row' = held[r] /\ UNCHANGED bearer
            \/ /\ pc[r] \in {"opening", "refreshing"} /\ R!EndLoad(r, None)
               /\ UNCHANGED <<row, bearer>>
            \/ /\ pc[r] = "opening" /\ unlocked /\ held[r] \in R!Tokens /\ R!EndLoad(r, held[r])
               /\ bearer' = held[r] /\ UNCHANGED row
            \/ /\ pc[r] = "caching" /\ held[r] \in R!Tokens /\ R!EndLoad(r, held[r])
               /\ bearer' = held[r] /\ UNCHANGED row
<1>1. held[r] \in R!Tokens \cup {None} /\ held = [held EXCEPT ![r] = held[r]]
  BY DEF R!TypeOK
<1>2. CASE R!ReadRow(r)
  BY <1>2 DEF R!ReadRow, GoesOn, Stages, R!session
<1>3. CASE R!Open(r)
  BY <1>1, <1>3 DEF R!Open, GoesOn, Stages
<1>4. CASE R!Refreshed(r)
  <2>1. held[r] \in R!Tokens
    BY <1>1, <1>4 DEF R!Refreshed, TokenInv
  <2> QED
    BY <1>4, <2>1 DEF R!Refreshed, GoesOn, Stages
<1>5. CASE R!RefreshFails(r)
  BY <1>5 DEF R!RefreshFails, Stages
<1>6. CASE R!SaveRow(r)
  <2>1. held[r] \in R!Tokens
    BY <1>1, <1>6 DEF R!SaveRow, TokenInv
  <2> QED
    BY <1>1, <1>6, <2>1 DEF R!SaveRow, GoesOn, Stages
<1>7. CASE R!Cache(r)
  <2>1. held[r] \in R!Tokens
    BY <1>1, <1>7 DEF R!Cache, TokenInv
  <2> QED
    BY <1>7, <2>1 DEF R!Cache, Stages
<1> QED
  BY <1>2, <1>3, <1>4, <1>5, <1>6, <1>7 DEF R!Load

\* Who asks gets what is held, waits for the load in flight, or begins one.
LEMMA AskIs ==
  ASSUME R!TypeOK, NEW r \in Calls, R!Ask(r)
  PROVE  /\ pc[r] = "idle"
         /\ UNCHANGED <<row, bearer, lapsed, unlocked, R!signIn, dropped, forgets>>
         /\ pc' \in [Calls -> {"idle", "waiting", "got", "failed"} \cup Stages]
         /\ held' \in [Calls -> R!Tokens \cup {None}] /\ waits' \in [Calls -> Calls \cup {None}]
         /\ inflight' \in Calls \cup {None}
         /\ \A w \in Calls : w # r => pc'[w] = pc[w] /\ held'[w] = held[w] /\ waits'[w] = waits[w]
         /\ \/ pc'[r] = "got" /\ inflight' = inflight /\ R!Loading' = R!Loading
            \/ /\ pc'[r] = "waiting" /\ inflight # None /\ waits'[r] = inflight
               /\ inflight' = inflight /\ R!Loading' = R!Loading
            \/ /\ pc'[r] = "reading" /\ inflight = None /\ inflight' = r
               /\ R!Loading' = R!Loading \cup {r}
<1> DEFINE Moved(stage) == /\ pc' = [pc EXCEPT ![r] = stage]
                           /\ pc[r] = "idle"
                           /\ pc \in [Calls -> {"idle", "waiting", "got", "failed"} \cup Stages]
<1>1. /\ pc[r] = "idle" /\ pc \in [Calls -> {"idle", "waiting", "got", "failed"} \cup Stages]
      /\ held \in [Calls -> R!Tokens \cup {None}] /\ waits \in [Calls -> Calls \cup {None}]
      /\ inflight \in Calls \cup {None} /\ bearer \in R!Tokens \cup {None}
      /\ UNCHANGED <<row, bearer, lapsed, unlocked, R!signIn, dropped, forgets>>
  BY DEF R!Ask, R!TypeOK, Stages
<1>2. \A stage \in {"got", "waiting"} : Moved(stage) => R!Loading' = R!Loading
  BY DEF R!Loading, Stages
<1>3. Moved("reading") => R!Loading' = R!Loading \cup {r}
  BY DEF R!Loading, Stages
<1>4. CASE /\ pc' = [pc EXCEPT ![r] = "got"] /\ held' = [held EXCEPT ![r] = bearer]
           /\ UNCHANGED <<waits, inflight>>
  BY <1>1, <1>2, <1>4
<1>5. CASE /\ inflight # None
           /\ pc' = [pc EXCEPT ![r] = "waiting"] /\ waits' = [waits EXCEPT ![r] = inflight]
           /\ UNCHANGED <<held, inflight>>
  BY <1>1, <1>2, <1>5
<1>6. CASE /\ inflight = None
           /\ pc' = [pc EXCEPT ![r] = "reading"] /\ inflight' = r
           /\ UNCHANGED <<held, waits>>
  <2>1. /\ pc' \in [Calls -> {"idle", "waiting", "got", "failed"} \cup Stages]
           /\ pc'[r] = "reading"
        /\ \A w \in Calls : w # r => pc'[w] = pc[w]
    BY <1>1, <1>6 DEF Stages
  <2> QED
    BY <1>1, <1>3, <1>6, <2>1
<1> QED
  BY <1>4, <1>5, <1>6 DEF R!Ask

\* Who got an answer, or none, goes idle.
LEMMA DoneIs ==
  ASSUME R!TypeOK, NEW r \in Calls, R!Answered(r) \/ R!Refused(r)
  PROVE  /\ pc[r] \in {"got", "failed"}
         /\ UNCHANGED <<row, lapsed, unlocked, R!signIn, waits>>
         /\ pc' \in [Calls -> {"idle", "waiting", "got", "failed"} \cup Stages]
         /\ held' \in [Calls -> R!Tokens \cup {None}]
         /\ pc'[r] = "idle" /\ \A w \in Calls : w # r => pc'[w] = pc[w] /\ held'[w] = held[w]
         /\ R!Loading' = R!Loading
         /\ \/ UNCHANGED <<bearer, inflight, dropped, forgets>>
            \/ R!Drop
<1>1. /\ pc[r] \in {"got", "failed"}
      /\ pc' = [pc EXCEPT ![r] = "idle"] /\ held' = [held EXCEPT ![r] = None]
      /\ UNCHANGED <<row, lapsed, unlocked, R!signIn, waits>>
      /\ UNCHANGED <<bearer, inflight, dropped, forgets>> \/ R!Drop
  BY DEF R!Answered, R!Refused, R!session
<1>2. /\ pc' \in [Calls -> {"idle", "waiting", "got", "failed"} \cup Stages] /\ pc'[r] = "idle"
      /\ held' \in [Calls -> R!Tokens \cup {None}]
      /\ \A w \in Calls : w # r => pc'[w] = pc[w] /\ held'[w] = held[w]
  BY <1>1 DEF R!TypeOK, Stages
<1>3. R!Loading' = R!Loading
  BY <1>1, <1>2 DEF R!Loading, Stages
<1> QED
  BY <1>1, <1>2, <1>3

\* What happens to no call in particular.
Around == \/ R!Lock \/ R!Unlock \/ R!Disconnect
          \/ R!Connect \/ R!GiveUp \/ R!Verify \/ R!CodeRight \/ R!PutBack \/ R!VerifyFails
          \/ R!SaveSession \/ R!Connected \/ \E t \in R!Tokens : R!Lapse(t)

LEMMA RadioStepsAre ==
  ASSUME [R!Next]_(R!vars)
  PROVE  \/ \E r \in Calls : R!Ask(r) \/ R!Load(r) \/ R!Answered(r) \/ R!Refused(r)
         \/ Around
         \/ UNCHANGED R!vars
BY DEF R!Next, Around

\* It moves no call, and of the session only drops what is held, empties or fills the row, or
\* lets time pass; a drop that takes a load with it is remembered, and so is a row filled under
\* one.
LEMMA AroundIs ==
  ASSUME Around
  PROVE  /\ UNCHANGED R!calls /\ R!Loading' = R!Loading
         /\ \/ UNCHANGED <<row, bearer, inflight, dropped>>
               /\ (unlocked' = unlocked \/ unlocked')
            \/ R!Forget /\ UNCHANGED <<row, unlocked>>
            \/ R!Forget /\ UNCHANGED row /\ unlocked' = FALSE
            \/ R!Forget /\ row' = None /\ UNCHANGED unlocked
            \/ /\ verify.step = "saving" /\ row' = <<verify.jar, 0>>
               /\ dropped' = (dropped \/ R!Loading # {})
                  /\ UNCHANGED <<bearer, inflight, unlocked>>
<1>1. UNCHANGED R!calls
  BY DEF Around, R!Lock, R!Unlock, R!Disconnect, R!Connect, R!GiveUp, R!Verify, R!CodeRight,
      R!PutBack, R!VerifyFails,
    R!SaveSession, R!Connected, R!Lapse, R!calls
<1>2. R!Loading' = R!Loading
  BY <1>1 DEF R!calls, R!Loading
<1> QED
  BY <1>1, <1>2 DEF Around, R!Lock, R!Unlock, R!Disconnect, R!Connect, R!GiveUp, R!Verify,
      R!CodeRight, R!PutBack,
    R!VerifyFails, R!SaveSession, R!Connected, R!Lapse, R!Drop, R!session

-----------------------------------------------------------------------------
(* Each part of the invariant.                                             *)

LEMMA RadioTypesKept ==
  ASSUME R!ConstantsType, R!TypeOK, TokenInv, [R!Next]_(R!vars)
  PROVE  R!TypeOK'
<1> USE DEF Stages
<1>1. ASSUME NEW r \in Calls, R!Load(r) PROVE R!TypeOK'
  <2>1. UNCHANGED <<lapsed, unlocked, R!signIn, dropped, forgets>>
    BY <1>1, LoadIs
  <2>0. row \in R!Tokens \cup {None} /\ bearer \in R!Tokens \cup {None}
    BY DEF R!TypeOK
  <2>2. row' \in R!Tokens \cup {None} /\ bearer' \in R!Tokens \cup {None}
    <3>1. /\ row' = row \/ (held[r] \in R!Tokens /\ row' = held[r])
          /\ bearer' = bearer \/ (held[r] \in R!Tokens /\ bearer' = held[r])
      BY <1>1, LoadIs
    <3> QED
      BY <2>0, <3>1
  <2> DEFINE Typed ==
        /\ inflight' \in Calls \cup {None}
        /\ pc' \in [Calls -> {"idle", "waiting", "got", "failed"} \cup Stages]
        /\ held' \in [Calls -> R!Tokens \cup {None}] /\ waits' \in [Calls -> Calls \cup {None}]
  <2>3. Typed
    <3>1. ASSUME NEW stage \in Stages, NEW token \in R!Tokens \cup {None}, GoesOn(r, stage, token)
          PROVE  Typed
      <4>1. pc[r] \in Stages /\ inflight \in Calls \cup {None}
        BY <1>1, LoadIs DEF R!TypeOK
      <4> QED
        BY <3>1, <4>1, GoesOnIs
    <3>2. ASSUME NEW token \in R!Tokens \cup {None}, R!EndLoad(r, token) PROVE Typed
      BY <3>2, EndIs
    <3>3. row \in R!Tokens \cup {None}
      BY DEF R!TypeOK
    <3> QED
      BY <1>1, <3>1, <3>2, <3>3, LoadIs
  <2> QED
    BY <2>1, <2>2, <2>3 DEF R!TypeOK, R!signIn
<1>2. ASSUME NEW r \in Calls, R!Ask(r) PROVE R!TypeOK'
  BY <1>2, AskIs DEF R!TypeOK, R!signIn
<1>3. ASSUME NEW r \in Calls, R!Answered(r) \/ R!Refused(r) PROVE R!TypeOK'
  <2>0. UNCHANGED <<bearer, inflight, dropped, forgets>> \/ R!Drop
    BY <1>3, DoneIs
  <2>1. /\ bearer' \in R!Tokens \cup {None} /\ inflight' \in Calls \cup {None}
        /\ forgets' \in 0 .. MaxForgets
    BY <2>0 DEF R!TypeOK, R!Drop, R!Forget, R!ConstantsType
  <2>2. dropped' \in BOOLEAN
    BY <2>0 DEF R!TypeOK, R!Drop, R!Forget
  <2> QED
    BY <1>3, <2>1, <2>2, DoneIs DEF R!TypeOK, R!signIn
<1>4. CASE Around
  <2>1. UNCHANGED R!calls
    BY <1>4, AroundIs
  <2>2. /\ row' \in R!Tokens \cup {None} /\ bearer' \in R!Tokens \cup {None}
        /\ inflight' \in Calls \cup {None} /\ unlocked' \in BOOLEAN /\ dropped' \in BOOLEAN
    <3>1. verify.step = "saving" => <<verify.jar, 0>> \in R!Tokens
      BY DEF TokenInv, R!Tokens, R!ConstantsType
    <3> QED
      BY <1>4, <3>1, AroundIs DEF R!TypeOK, R!Forget
  <2>3. /\ pending' \in R!Jars \cup {None} /\ logins' \in 0 .. MaxLogins
        /\ verify' \in [jar : R!Jars \cup {None}, step : {"none", "trying", "saving", "saved"}]
    <3>1. logins < MaxLogins => logins + 1 \in R!Jars /\ logins + 1 \in 0 .. MaxLogins
      BY DEF R!TypeOK, R!Jars, R!ConstantsType
    <3> QED
      BY <1>4, <3>1 DEF Around, R!Lock, R!Unlock, R!Disconnect, R!Connect, R!GiveUp, R!Verify,
          R!CodeRight,
        R!PutBack, R!VerifyFails, R!SaveSession, R!Connected, R!Lapse, R!TypeOK, R!Idle, R!signIn
  <2>4. forgets' \in 0 .. MaxForgets
    BY <1>4 DEF Around, R!Lock, R!Unlock, R!Disconnect, R!Connect, R!GiveUp, R!Verify,
        R!CodeRight,
      R!PutBack, R!VerifyFails, R!SaveSession, R!Connected, R!Lapse, R!TypeOK, R!Drop,
      R!ConstantsType
  <2>5. lapsed' \subseteq R!Tokens
    BY <1>4 DEF Around, R!Lock, R!Unlock, R!Disconnect, R!Connect, R!GiveUp, R!Verify,
        R!CodeRight,
      R!PutBack, R!VerifyFails, R!SaveSession, R!Connected, R!Lapse, R!TypeOK, R!session
  <2> QED
    BY <2>1, <2>2, <2>3, <2>4, <2>5 DEF R!TypeOK, R!calls
<1>5. CASE UNCHANGED R!vars
  BY <1>5 DEF R!vars, R!session, R!calls, R!signIn, R!TypeOK
<1> QED
  BY <1>1, <1>2, <1>3, <1>4, <1>5, RadioStepsAre

LEMMA LoadsKept ==
  ASSUME R!ConstantsType, R!TypeOK, LoadInv, TokenInv, [R!Next]_(R!vars)
  PROVE  LoadInv'
<1>0. /\ None \notin Calls /\ inflight \in Calls \cup {None}
      /\ \A r : r \in R!Loading => r \in Calls
      /\ \A r \in Calls : r \in R!Loading <=> pc[r] \in Stages
  BY DEF R!ConstantsType, R!TypeOK, R!Loading, Stages
<1>1. ASSUME NEW r \in Calls, R!Load(r) PROVE LoadInv'
  <2>0. r \in R!Loading /\ dropped' = dropped /\ row \in R!Tokens \cup {None}
    BY <1>0, <1>1, LoadIs DEF R!TypeOK
  <2>1. ASSUME NEW stage \in Stages, NEW token \in R!Tokens \cup {None}, GoesOn(r, stage, token)
        PROVE  LoadInv'
    <3>1. /\ inflight' = inflight /\ R!Loading' = R!Loading
          /\ \A w \in Calls : pc'[w] = "waiting" => pc[w] = "waiting" /\ waits'[w] = waits[w]
      BY <1>0, <2>0, <2>1, GoesOnIs
    <3> QED
      BY <2>0, <3>1 DEF LoadInv, R!WaitsForALoad
  <2>2. ASSUME NEW token \in R!Tokens \cup {None}, R!EndLoad(r, token) PROVE LoadInv'
    <3>1. /\ inflight' = None /\ R!Loading' = R!Loading \ {r}
          /\ \A w \in Calls : pc'[w] = "waiting" =>
               pc[w] = "waiting" /\ waits[w] # r /\ waits'[w] = waits[w]
      BY <2>2, EndIs
    <3>2. ~dropped => R!Loading' = {}
      BY <2>0, <3>1 DEF LoadInv
    <3> QED
      BY <2>0, <3>1, <3>2 DEF LoadInv, R!WaitsForALoad
  <2> QED
    BY <1>1, <2>0, <2>1, <2>2, LoadIs DEF Stages
<1>2. ASSUME NEW r \in Calls, R!Ask(r) PROVE LoadInv'
  <2>1. ~dropped /\ inflight = None => R!Loading = {}
    BY <1>0 DEF LoadInv
  <2>2. \A w \in Calls : w # r => pc'[w] = pc[w] /\ waits'[w] = waits[w]
    BY <1>2, AskIs
  <2>3. CASE pc'[r] = "got" /\ inflight' = inflight /\ R!Loading' = R!Loading
    BY <1>2, <2>2, <2>3, AskIs DEF LoadInv, R!WaitsForALoad
  <2>4. CASE /\ pc'[r] = "waiting" /\ inflight # None /\ waits'[r] = inflight
             /\ inflight' = inflight /\ R!Loading' = R!Loading
    BY <1>2, <2>2, <2>4, AskIs DEF LoadInv, R!WaitsForALoad
  <2>5. CASE /\ pc'[r] = "reading" /\ inflight = None /\ inflight' = r
             /\ R!Loading' = R!Loading \cup {r}
    BY <1>2, <2>1, <2>2, <2>5, AskIs DEF LoadInv, R!WaitsForALoad
  <2> QED
    BY <1>2, <2>3, <2>4, <2>5, AskIs
<1>3. ASSUME NEW r \in Calls, R!Answered(r) \/ R!Refused(r) PROVE LoadInv'
  <2>1. /\ waits' = waits /\ R!Loading' = R!Loading
        /\ \A w \in Calls : pc'[w] = "waiting" => pc[w] = "waiting"
    BY <1>3, DoneIs
  <2>2. UNCHANGED <<bearer, inflight, dropped, forgets>> \/ R!Drop
    BY <1>3, DoneIs
  <2>3. \/ inflight' = inflight /\ dropped' = dropped
        \/ inflight' = None /\ dropped' = (dropped \/ R!Loading # {})
    BY <2>2 DEF R!Drop, R!Forget
  <2> QED
    BY <2>1, <2>3 DEF LoadInv, R!WaitsForALoad
<1>4. CASE Around
  <2>1. /\ UNCHANGED R!calls /\ R!Loading' = R!Loading
        /\ \/ inflight' = inflight
              /\ (dropped' = dropped \/ dropped' = (dropped \/ R!Loading # {}))
           \/ inflight' = None /\ dropped' = (dropped \/ R!Loading # {})
    BY <1>4, AroundIs DEF R!Forget
  <2> QED
    BY <2>1 DEF LoadInv, R!WaitsForALoad, R!calls
<1>5. CASE UNCHANGED R!vars
  BY <1>5 DEF R!vars, R!session, R!calls, LoadInv, R!WaitsForALoad, R!Loading
<1> QED
  BY <1>1, <1>2, <1>3, <1>4, <1>5, RadioStepsAre

LEMMA TokensKept ==
  ASSUME R!ConstantsType, R!TypeOK, LoadInv, TokenInv, [R!Next]_(R!vars)
  PROVE  TokenInv'
<1>0. /\ None \notin Calls
      /\ \A r \in Calls : r \in R!Loading <=> pc[r] \in Stages
      /\ \A r : r \in R!Loading => r \in Calls
      /\ \A r \in Calls : held[r] \in R!Tokens \cup {None}
      /\ row \in R!Tokens \cup {None}
  BY DEF R!ConstantsType, R!TypeOK, R!Loading, Stages
<1>1. ASSUME NEW r \in Calls, R!Load(r) PROVE TokenInv'
  <2>0. /\ r \in R!Loading
        /\ dropped' = dropped /\ unlocked' = unlocked /\ verify' = verify
    BY <1>0, <1>1, LoadIs DEF R!signIn
  <2>1. ~dropped => R!Loading = {r}
    BY <1>0, <2>0 DEF LoadInv
  <2>2. ASSUME NEW stage \in Stages \ {"reading"}, NEW token \in R!Tokens \cup {None},
               GoesOn(r, stage, token),
               stage # "opening" => token # None,
               ~dropped /\ token # None => row' # None /\ row'[1] = token[1],
               ~dropped /\ stage \in {"saving", "caching"} => unlocked
        PROVE  TokenInv'
    <3>1. /\ R!Loading' = R!Loading /\ pc'[r] = stage /\ held'[r] = token
          /\ \A w \in Calls : w # r => pc'[w] = pc[w] /\ held'[w] = held[w]
      BY <1>0, <2>0, <2>2, GoesOnIs
    <3>2. \A w \in Calls : pc'[w] \in {"refreshing", "saving", "caching"} => held'[w] # None
      BY <2>2, <3>1 DEF TokenInv
    <3> QED
      BY <2>0, <2>1, <2>2, <3>1, <3>2 DEF TokenInv
  <2>3. ASSUME NEW token \in R!Tokens \cup {None}, R!EndLoad(r, token) PROVE TokenInv'
    <3>1. /\ R!Loading' = R!Loading \ {r}
          /\ \A w \in Calls : pc'[w] \in Stages => pc'[w] = pc[w] /\ held'[w] = held[w]
      BY <2>3, EndIs
    <3> QED
      BY <2>0, <2>1, <3>1 DEF TokenInv, Stages
  <2>4. \A t \in R!Tokens : t # None
    BY TokenIs
  <2>5. ~dropped => /\ pc[r] # "reading" /\ held[r] # None => row # None /\ row[1] = held[r][1]
                    /\ pc[r] \in {"saving", "caching"} => unlocked
    BY <2>0 DEF TokenInv
  <2>6. CASE pc[r] = "reading" /\ GoesOn(r, "opening", row) /\ UNCHANGED <<row, bearer>>
    BY <1>0, <2>2, <2>6 DEF Stages
  <2>7. CASE /\ pc[r] = "opening" /\ held[r] \in R!Tokens /\ GoesOn(r, "refreshing", held[r])
             /\ UNCHANGED <<row, bearer>>
    BY <2>2, <2>4, <2>5, <2>7 DEF Stages
  <2>8. CASE /\ pc[r] = "refreshing" /\ unlocked /\ held[r] \in R!Tokens
             /\ <<held[r][1], held[r][2] + 1>> \in R!Tokens
             /\ GoesOn(r, "saving", <<held[r][1], held[r][2] + 1>>)
             /\ UNCHANGED <<row, bearer>>
    BY <2>2, <2>4, <2>5, <2>8 DEF Stages
  <2>9. CASE /\ pc[r] = "saving" /\ held[r] \in R!Tokens /\ GoesOn(r, "caching", held[r])
             /\ row' = held[r] /\ UNCHANGED bearer
    BY <2>2, <2>4, <2>5, <2>9 DEF Stages
  <2>10. CASE \E token \in R!Tokens \cup {None} : R!EndLoad(r, token)
    BY <2>3, <2>10
  <2> QED
    BY <1>1, <2>6, <2>7, <2>8, <2>9, <2>10, LoadIs
<1>2. ASSUME NEW r \in Calls, R!Ask(r) PROVE TokenInv'
  <2>1. /\ dropped' = dropped /\ unlocked' = unlocked /\ verify' = verify /\ row' = row
        /\ \A w \in Calls : w # r => pc'[w] = pc[w] /\ held'[w] = held[w]
        /\ pc'[r] \in {"got", "waiting", "reading"} /\ R!Loading' \subseteq R!Loading \cup {r}
        /\ pc[r] = "idle"
    BY <1>2, AskIs DEF R!signIn
  <2>2. r \in R!Loading' => pc'[r] = "reading"
    BY <2>1 DEF R!Loading
  <2> QED
    BY <1>0, <2>1, <2>2 DEF TokenInv
<1>3. ASSUME NEW r \in Calls, R!Answered(r) \/ R!Refused(r) PROVE TokenInv'
  <2>1. /\ unlocked' = unlocked /\ verify' = verify /\ row' = row
        /\ pc'[r] = "idle" /\ \A w \in Calls : w # r => pc'[w] = pc[w] /\ held'[w] = held[w]
        /\ R!Loading' = R!Loading /\ pc[r] \in {"got", "failed"}
    BY <1>3, DoneIs DEF R!signIn
  <2>2. UNCHANGED <<bearer, inflight, dropped, forgets>> \/ R!Drop
    BY <1>3, DoneIs
  <2>3. dropped => dropped'
    BY <2>2 DEF R!Drop, R!Forget
  <2>4. r \notin R!Loading
    BY <1>0, <2>1 DEF Stages
  <2> QED
    BY <1>0, <2>1, <2>3, <2>4 DEF TokenInv
<1>4. CASE Around
  <2>1. UNCHANGED R!calls /\ R!Loading' = R!Loading
    BY <1>4, AroundIs
  <2>2. verify'.step # "none" => verify'.jar \in R!Jars
    BY <1>4, R!ConstantsType DEF TokenInv, R!TypeOK, Around, R!Lock, R!Unlock, R!Disconnect,
        R!Connect, R!GiveUp,
      R!Verify, R!CodeRight, R!PutBack, R!VerifyFails, R!SaveSession, R!Connected, R!Lapse,
      R!Idle, R!signIn
  <2>3. ~dropped' => /\ ~dropped
                     /\ R!Loading = {} \/ (row' = row /\ (unlocked => unlocked'))
    BY <1>4, AroundIs DEF R!Forget
  <2> QED
    BY <2>1, <2>2, <2>3 DEF TokenInv, R!calls
<1>5. CASE UNCHANGED R!vars
  BY <1>5 DEF R!vars, R!session, R!calls, R!signIn, TokenInv, R!Loading
<1> QED
  BY <1>1, <1>2, <1>3, <1>4, <1>5, RadioStepsAre

LEMMA HeldKept ==
  ASSUME R!ConstantsType, R!TypeOK, LoadInv, TokenInv, R!HeldIsStored, [R!Next]_(R!vars)
  PROVE  R!HeldIsStored'
<1>0. \A t \in R!Tokens : t # None
  BY TokenIs
<1>1. ASSUME NEW r \in Calls, R!Load(r) PROVE R!HeldIsStored'
  <2>1. /\ r \in R!Loading /\ dropped' = dropped /\ unlocked' = unlocked /\ verify' = verify
        /\ \/ UNCHANGED <<row, bearer>>
           \/ /\ pc[r] = "saving" /\ held[r] \in R!Tokens /\ row' = held[r] /\ bearer' = bearer
           \/ /\ pc[r] = "opening" /\ unlocked /\ held[r] \in R!Tokens
              /\ bearer' = held[r] /\ row' = row
           \/ /\ pc[r] = "caching" /\ held[r] \in R!Tokens
              /\ bearer' = held[r] /\ row' = row
    BY <1>1, LoadIs DEF R!signIn, R!Loading, Stages
  <2>2. ~dropped => /\ pc[r] # "reading" /\ held[r] # None => row # None /\ row[1] = held[r][1]
                    /\ pc[r] \in {"saving", "caching"} => unlocked
    BY <2>1 DEF TokenInv
  <2> QED
    BY <1>0, <2>1, <2>2 DEF R!HeldIsStored
<1>2. ASSUME NEW r \in Calls, R!Ask(r) PROVE R!HeldIsStored'
  BY <1>2, AskIs DEF R!HeldIsStored, R!signIn
<1>3. ASSUME NEW r \in Calls, R!Answered(r) \/ R!Refused(r) PROVE R!HeldIsStored'
  <2>1. unlocked' = unlocked /\ verify' = verify /\ row' = row
    BY <1>3, DoneIs DEF R!signIn
  <2>2. UNCHANGED <<bearer, inflight, dropped, forgets>> \/ R!Drop
    BY <1>3, DoneIs
  <2> QED
    BY <2>1, <2>2 DEF R!HeldIsStored, R!Drop, R!Forget
<1>4. CASE Around
  <2>1. CASE bearer' = None
    BY <2>1 DEF R!HeldIsStored
  <2>2. CASE /\ row' = row /\ bearer' = bearer /\ dropped' = dropped
             /\ (unlocked' = unlocked \/ unlocked')
    <3>1. verify.step = "saved" => verify'.step = "saved" \/ bearer' = None
      BY <1>4 DEF Around, R!Lock, R!Unlock, R!Disconnect, R!Connect, R!GiveUp, R!Verify,
          R!CodeRight, R!PutBack,
        R!VerifyFails, R!SaveSession, R!Connected, R!Lapse, R!Idle, R!signIn, R!Forget, R!Drop
    <3> QED
      BY <2>2, <3>1 DEF R!HeldIsStored
  <2>3. CASE R!SaveSession
    BY <2>3 DEF R!SaveSession, R!HeldIsStored, R!TypeOK
  <2> QED
    BY <1>4, <2>1, <2>2, <2>3 DEF Around, R!Lock, R!Unlock, R!Disconnect, R!Connect, R!GiveUp,
        R!Verify,
      R!CodeRight, R!PutBack, R!VerifyFails, R!Connected, R!Lapse, R!Forget, R!Drop, R!session
<1>5. CASE UNCHANGED R!vars
  BY <1>5 DEF R!vars, R!session, R!signIn, R!HeldIsStored
<1> QED
  BY <1>1, <1>2, <1>3, <1>4, <1>5, RadioStepsAre

LEMMA RadioInit == ASSUME R!ConstantsType, R!Init PROVE RadioInv
<1>1. R!TypeOK
  <2>1. 0 \in 0 .. MaxLogins /\ 0 \in 0 .. MaxForgets
    BY DEF R!ConstantsType
  <2> QED
    BY <2>1 DEF R!Init, R!TypeOK, R!Idle
<1>2. R!Loading = {}
  BY DEF R!Init, R!Loading
<1>3. LoadInv
  BY <1>2 DEF R!Init, LoadInv, R!WaitsForALoad
<1>4. TokenInv
  BY <1>2 DEF R!Init, TokenInv, R!Idle
<1> QED
  BY <1>1, <1>3, <1>4 DEF RadioInv, R!Init, R!HeldIsStored

LEMMA RadioInvariance == ASSUME R!ConstantsType PROVE R!Spec => []RadioInv
<1>1. R!Init => RadioInv
  BY RadioInit
<1>2. RadioInv /\ [R!Next]_(R!vars) => RadioInv'
  BY RadioTypesKept, LoadsKept, TokensKept, HeldKept DEF RadioInv
<1> QED
  BY <1>1, <1>2, PTL DEF R!Spec

\* TypeOK of RadioSession: every step keeps the row, the bearers, the calls and the sign-in of
\* their types.
THEOREM RadioTypesCorrect == ASSUME R!ConstantsType PROVE R!Spec => []R!TypeOK
<1>1. RadioInv => R!TypeOK
  BY DEF RadioInv
<1> QED
  BY <1>1, RadioInvariance, PTL

\* HeldIsStored of RadioSession: however calls, refreshes, locks, sign-ins and disconnections
\* interleave, the bearer that is held is of the session that is stored and the vault is
\* open, as long as nothing was dropped or replaced under a load.
THEOREM HeldAsStored == ASSUME R!ConstantsType PROVE R!Spec => []R!HeldIsStored
<1>1. RadioInv => R!HeldIsStored
  BY DEF RadioInv
<1> QED
  BY <1>1, RadioInvariance, PTL

\* OneLoad and WaitsForALoad of RadioSession: bearerFor lets one load through for all who ask
\* meanwhile, and nobody waits for a load that has ended, whatever was dropped.
THEOREM OneLoadForAll == ASSUME R!ConstantsType PROVE R!Spec => [](R!OneLoad /\ R!WaitsForALoad)
<1>1. ASSUME RadioInv PROVE R!OneLoad /\ R!WaitsForALoad
  <2>1. ~dropped => R!Loading \subseteq {inflight}
    BY <1>1 DEF RadioInv, LoadInv
  <2>2. ~dropped => Cardinality(R!Loading) <= 1
    <3>1. IsFiniteSet({inflight}) /\ Cardinality({inflight}) = 1
      BY FS_Singleton
    <3> QED
      BY <2>1, <3>1, FS_Subset
  <2> QED
    BY <1>1, <2>2, SameCount DEF RadioInv, LoadInv, R!OneLoad
<1> QED
  BY <1>1, RadioInvariance, PTL
-----------------------------------------------------------------------------
(* The lines opened to others: SharedRadio.                                *)

\* An edit past its gate was its owner's to make.
GateInv == \A e \in Edits : edit[e] # H!Idle /\ edit[e].what \in {"friends", "name"} => edit[e].paid

\* What is open is what the owner asked for, and who may come in is whom the owner named.
OpenInv ==
  /\ \A o \in Owners : line[o] \in {"friends", "everyone"} => chosen[o] = line[o]
  /\ grants \subseteq named

\* A request that uses a line is over somebody's.
OnLineInv == \A r \in Requests :
  turn[r] \in {"tuning", "minting", "fetching"} => asking[r].line \in Owners

\* What is held was minted for the line and has not lapsed; it is all that has not, unless
\* two were minting at once, and nobody mints while it is held.
AddressInv ==
  /\ \A n \in fresh : n \in DOMAIN lineOf
  /\ \A n \in fresh : lineOf[n] \notin raced => tuned[lineOf[n]] = n
  /\ \A o \in Owners : tuned[o] # None => tuned[o] \in fresh /\ lineOf[tuned[o]] = o
  /\ \A r \in Requests :
       turn[r] = "minting" /\ asking[r].line \notin raced => tuned[asking[r].line] = None
  /\ \A q, r \in Requests :
       turn[q] = "minting" /\ turn[r] = "minting" /\ asking[q].line = asking[r].line =>
         q = r \/ asking[r].line \in raced

\* A request that goes to the cache names an address.
AddressedInv == \A r \in Requests :
  turn[r] \in {"asking", "fetching"} => asking[r].address \in H!Addresses

\* Whoever asks over a line was let in when they asked.
GateOpenInv == \A r \in Requests :
  turn[r] # "idle" /\ asking[r].line # None => asking[r].opened

\* What a request does, of whoever's.
Heard(r) ==
  \/ \E v \in Readers : H!Stream(r, v)
  \/ \E v \in Readers, n \in H!Addresses : H!Proxy(r, v, n)
  \/ \E v \in Readers, n \in H!Addresses, o \in Owners : H!SharedProxy(r, v, o, n)
  \/ H!Tune(r) \/ H!Mint(r) \/ H!Collapse(r) \/ H!Fetch(r) \/ H!Reply(r)

LEMMA SharedTypesInit == H!ConstantsType /\ H!Init => H!TypeOK
<1> SUFFICES ASSUME H!ConstantsType, H!Init PROVE H!TypeOK
  OBVIOUS
<1>1. lineOf \in [1 .. 0 -> Owners]
  <2>1. 1 .. 0 = {}
    OBVIOUS
  <2> QED
    BY <2>1 DEF H!Init
<1>2. 0 \in 0 .. MaxMinted
  BY DEF H!ConstantsType
<1>3. \E n \in 0 .. MaxMinted : lineOf \in [1 .. n -> Owners]
  BY <1>1, <1>2
<1>4. H!Silent \in [line : Owners \cup {None},
                    address : H!Addresses \cup {None}, opened : BOOLEAN]
  BY DEF H!Silent
<1> QED
  BY <1>3, <1>4 DEF H!Init, H!TypeOK, H!Idle, H!Audiences

\* An edit that names or removes somebody says whom.
LEMMA NamesSomebody ==
  ASSUME H!ConstantsType, H!TypeOK, NEW e \in Edits, edit[e].what \in {"name", "remove"}
  PROVE  edit[e].by \in Owners /\ edit[e].whom \in Readers
<1>1. edit[e] # H!Idle
  BY DEF H!Idle, H!ConstantsType
<1>2. edit[e] \notin [by : Owners, what : H!Audiences, whom : {None}, paid : BOOLEAN]
  <2> SUFFICES ASSUME edit[e].what \in H!Audiences PROVE FALSE
    OBVIOUS
  <2>1. edit[e].what = "name" \/ edit[e].what = "remove"
    OBVIOUS
  <2> QED
    BY <2>1 DEF H!Audiences
<1>3. edit[e] \in [by : Owners, what : {"name", "remove"}, whom : Readers, paid : BOOLEAN]
  BY <1>1, <1>2 DEF H!TypeOK
<1> QED
  BY <1>3

LEMMA MakesForItself ==
  ASSUME H!ConstantsType, H!TypeOK, NEW e \in Edits, edit[e].what \in H!Audiences
  PROVE  edit[e].by \in Owners /\ edit[e] # H!Idle
<1>1. edit[e] # H!Idle
  BY DEF H!Idle, H!ConstantsType
<1> QED
  BY <1>1 DEF H!TypeOK

\* The edits: a row, a gate, a statement.
LEMMA TypeRows ==
  ASSUME H!ConstantsType, H!TypeOK, NEW o \in Owners,
         H!Connect(o) \/ H!Disconnect(o) \/ H!Membership(o)
  PROVE  H!TypeOK'
<1>1. CASE H!Connect(o)
  BY <1>1 DEF H!TypeOK, H!Connect, H!Audiences, H!listening, H!tunes, H!Addresses
<1>2. CASE H!Disconnect(o)
  BY <1>2 DEF H!TypeOK, H!Disconnect, H!Audiences, H!listening, H!tunes, H!Addresses
<1>3. CASE H!Membership(o)
  BY <1>3 DEF H!TypeOK, H!Membership, H!rows, H!listening, H!tunes, H!Addresses
<1> QED
  BY <1>1, <1>2, <1>3

LEMMA TypeEdits ==
  ASSUME H!ConstantsType, H!TypeOK, NEW e \in Edits, NEW o \in Owners, NEW v \in Readers,
         NEW audience \in H!Audiences, NEW what \in {"name", "remove"},
         H!AskShare(e, o, audience) \/ H!AskGrant(e, o, v, what) \/ H!SetSharing(e) \/ H!SetGrant(e)
  PROVE  H!TypeOK'
<1>1. CASE H!AskShare(e, o, audience)
  BY <1>1 DEF H!TypeOK, H!AskShare, H!rows, H!listening, H!tunes, H!Addresses
<1>2. CASE H!AskGrant(e, o, v, what)
  BY <1>2 DEF H!TypeOK, H!AskGrant, H!rows, H!listening, H!tunes, H!Addresses
<1>3. CASE H!SetSharing(e)
  <2>1. edit[e] # H!Idle /\ edit[e].by \in Owners
    BY <1>3 DEF H!TypeOK, H!SetSharing, H!Idle, H!Audiences, H!ConstantsType
  <2>2. edit' \in
          [Edits -> {H!Idle} \cup [by : Owners, what : H!Audiences, whom : {None}, paid : BOOLEAN]
          \cup [by : Owners, what : {"name", "remove"}, whom : Readers, paid : BOOLEAN]]
    BY <1>3 DEF H!TypeOK, H!SetSharing
  <2>3. line' \in [Owners -> H!Audiences \cup {None}] /\ chosen' \in [Owners -> H!Audiences]
    BY <1>3, <2>1 DEF H!TypeOK, H!SetSharing
  <2> QED
    BY <1>3, <2>2, <2>3 DEF H!TypeOK, H!SetSharing, H!listening, H!tunes, H!Addresses
<1>4. CASE H!SetGrant(e)
  <2>1. edit[e].by \in Owners /\ edit[e].whom \in Readers
    BY <1>4, NamesSomebody DEF H!SetGrant
  <2>2. edit' \in
          [Edits -> {H!Idle} \cup [by : Owners, what : H!Audiences, whom : {None}, paid : BOOLEAN]
          \cup [by : Owners, what : {"name", "remove"}, whom : Readers, paid : BOOLEAN]]
    BY <1>4 DEF H!TypeOK, H!SetGrant
  <2>3. grants' \subseteq Owners \X Readers /\ named' \subseteq Owners \X Readers
    BY <1>4, <2>1 DEF H!TypeOK, H!SetGrant
  <2> QED
    BY <1>4, <2>2, <2>3 DEF H!TypeOK, H!SetGrant, H!listening, H!tunes, H!Addresses
<1> QED
  BY <1>1, <1>2, <1>3, <1>4

LEMMA TypePages ==
  ASSUME H!ConstantsType, H!TypeOK, NEW v \in Readers, NEW via \in Owners \cup {None},
         H!RadioPage(v, via) \/ H!GamePage(v) \/ H!Find(v, via)
  PROVE  H!TypeOK'
<1>1. \A own \in H!HasOwn(v) : H!Default(v, own) \subseteq Owners \cup {None}
  BY DEF H!HasOwn, H!Default, H!Offered
<1>2. H!Offered(v) \subseteq Owners /\ (TRUE \in H!HasOwn(v) => v \in Owners)
  BY DEF H!Offered, H!HasOwn
<1>3. page' \in [Readers -> Owners \cup {None}]
  BY <1>1, <1>2 DEF H!TypeOK, H!RadioPage, H!GamePage, H!Find
<1>4. UNCHANGED <<H!rows, members, edit, H!listening, H!tunes>>
  BY DEF H!RadioPage, H!GamePage, H!Find
<1> QED
  BY <1>3, <1>4 DEF H!TypeOK, H!rows, H!listening, H!tunes, H!Addresses

LEMMA TypeListening ==
  ASSUME H!ConstantsType, H!TypeOK, OnLineInv, AddressedInv, AddressInv, NEW r \in Requests,
         Heard(r)
  PROVE  H!TypeOK'
<1> DEFINE Asked == [line : Owners \cup {None}, address : H!Addresses \cup {None},
                     opened : BOOLEAN]
           Steps == {"idle", "tuning", "minting", "asking", "fetching"}
<1>1. ASSUME NEW v \in Readers, NEW o \in Owners \cup {None}, NEW n \in H!Addresses \cup {None},
             NEW step \in Steps, H!Asks(r, v, o, n, step)
      PROVE  H!TypeOK'
  <2>1. (o # None /\ (o = v \/ H!Meant(o, v))) \in BOOLEAN
    BY DEF H!Meant
  <2>2. asking' \in [Requests -> Asked]
    BY <1>1, <2>1 DEF H!TypeOK, H!Asks
  <2>3. turn' \in [Requests -> Steps]
    BY <1>1 DEF H!TypeOK, H!Asks
  <2>4. UNCHANGED <<H!rows, members, edit, page, H!tunes, kept>>
    BY <1>1 DEF H!Asks
  <2> QED
    BY <2>2, <2>3, <2>4 DEF H!TypeOK, H!rows, H!tunes, H!Addresses
<1>2. CASE \E v \in Readers : H!Stream(r, v)
  <2> PICK v \in Readers : H!Stream(r, v)
    BY <1>2
  <2>1. page[v] \in Owners \cup {None} /\ H!Asks(r, v, page[v], None, "tuning")
    BY DEF H!TypeOK, H!Stream
  <2> QED
    BY <2>1, <1>1
<1>3. CASE \E v \in Readers, n \in H!Addresses : H!Proxy(r, v, n)
  <2> PICK v \in Readers, n \in H!Addresses : H!Proxy(r, v, n)
    BY <1>3
  <2>1. H!Asks(r, v, IF v \in Owners THEN v ELSE None, n, "asking")
    BY DEF H!Proxy
  <2> QED
    BY <2>1, <1>1
<1>4. CASE \E v \in Readers, n \in H!Addresses, o \in Owners : H!SharedProxy(r, v, o, n)
  <2> PICK v \in Readers, n \in H!Addresses, o \in Owners : H!SharedProxy(r, v, o, n)
    BY <1>4
  <2>1. H!Asks(r, v, o, n, "asking")
    BY DEF H!SharedProxy
  <2> QED
    BY <2>1, <1>1
<1>5. CASE H!Tune(r)
  <2>1. asking[r].line \in Owners
    BY <1>5 DEF OnLineInv, H!Tune
  <2>2. asking' \in [Requests -> Asked]
    <3>1. CASE UNCHANGED asking
      BY <3>1 DEF H!TypeOK
    <3>2. CASE asking' = [asking EXCEPT ![r].address = tuned[asking[r].line]]
      <4>1. tuned[asking[r].line] \in H!Addresses \cup {None}
        BY <2>1 DEF H!TypeOK
      <4> QED
        BY <3>2, <4>1 DEF H!TypeOK
    <3> QED
      BY <1>5, <3>1, <3>2 DEF H!Tune
  <2>3. turn' \in [Requests -> Steps] /\ raced' \subseteq Owners
    BY <1>5, <2>1 DEF H!TypeOK, H!Tune
  <2> QED
    BY <1>5, <2>2, <2>3 DEF H!TypeOK, H!Tune, H!rows, H!Addresses
<1>6. CASE H!Mint(r)
  <2> PICK k \in H!Addresses :
        /\ turn[r] = "minting" /\ DOMAIN lineOf = 1 .. k - 1
        /\ tuned' = [tuned EXCEPT ![asking[r].line] = k] /\ fresh' = fresh \cup {k}
        /\ lineOf' = [m \in 1 .. k |-> IF m = k THEN asking[r].line ELSE lineOf[m]]
        /\ turn' = [turn EXCEPT ![r] = "asking"] /\ asking' = [asking EXCEPT ![r].address = k]
        /\ UNCHANGED <<H!rows, members, edit, page, raced, kept>>
    BY <1>6 DEF H!Mint
  <2>1. asking[r].line \in Owners
    BY DEF OnLineInv
  <2>2. asking' \in [Requests -> Asked] /\ turn' \in [Requests -> Steps]
    BY DEF H!TypeOK
  <2>3. tuned' \in [Owners -> H!Addresses \cup {None}] /\ fresh' \subseteq H!Addresses
    BY <2>1 DEF H!TypeOK
  <2>4. \A m \in 1 .. k : m # k => m \in 1 .. k - 1
    BY DEF H!Addresses, H!ConstantsType
  <2>5. \A m \in 1 .. k - 1 : lineOf[m] \in Owners
    BY DEF H!TypeOK
  <2>6. lineOf' \in [1 .. k -> Owners]
    BY <2>1, <2>4, <2>5
  <2>7. \E m \in 0 .. MaxMinted : lineOf' \in [1 .. m -> Owners]
    BY <2>6 DEF H!Addresses, H!ConstantsType
  <2> QED
    BY <2>2, <2>3, <2>7 DEF H!TypeOK, H!rows, H!Addresses
<1>7. CASE H!Collapse(r)
  BY <1>7 DEF H!TypeOK, H!Collapse, H!Ends, H!Silent, H!rows, H!tunes, H!Addresses
<1>8. CASE H!Fetch(r)
  BY <1>8 DEF H!TypeOK, H!Fetch, H!rows, H!tunes, H!Addresses
<1>9. CASE H!Reply(r)
  <2>1. asking' \in [Requests -> Asked] /\ turn' \in [Requests -> Steps]
    BY <1>9 DEF H!TypeOK, H!Reply, H!Ends, H!Silent
  <2>2. kept' \subseteq H!Addresses
    <3>1. turn[r] = "fetching" => asking[r].address \in H!Addresses
      BY DEF AddressedInv
    <3> QED
      BY <1>9, <3>1 DEF H!TypeOK, H!Reply
  <2>3. UNCHANGED <<H!rows, members, edit, page, H!tunes>>
    BY <1>9 DEF H!Reply
  <2> QED
    BY <2>1, <2>2, <2>3 DEF H!TypeOK, H!rows, H!tunes, H!Addresses
<1> QED
  BY <1>2, <1>3, <1>4, <1>5, <1>6, <1>7, <1>8, <1>9 DEF Heard

LEMMA SharedTypesKept ==
  ASSUME H!ConstantsType, H!TypeOK, OnLineInv, AddressedInv, AddressInv, [H!Next]_(H!vars)
  PROVE  H!TypeOK'
<1>1. CASE \E o \in Owners : H!Connect(o) \/ H!Disconnect(o) \/ H!Membership(o)
  BY <1>1, TypeRows
<1>2. CASE \E e \in Edits, o \in Owners, audience \in H!Audiences : H!AskShare(e, o, audience)
  <2> PICK e \in Edits, o \in Owners, audience \in H!Audiences : H!AskShare(e, o, audience)
    BY <1>2
  <2>1. o \in Readers /\ "name" \in {"name", "remove"}
    BY DEF H!ConstantsType
  <2> QED
    BY <2>1, TypeEdits
<1>3. CASE \E e \in Edits, o \in Owners, v \in Readers, what \in {"name", "remove"} :
             H!AskGrant(e, o, v, what)
  <2>1. "none" \in H!Audiences
    BY DEF H!Audiences
  <2> QED
    BY <1>3, <2>1, TypeEdits
<1>4. CASE \E e \in Edits : H!SetSharing(e) \/ H!SetGrant(e)
  <2> PICK e \in Edits : H!SetSharing(e) \/ H!SetGrant(e)
    BY <1>4
  <2>1. edit[e].by \in Owners /\ edit[e].by \in Readers
    BY DEF H!SetSharing, H!SetGrant, H!TypeOK, H!Idle, H!Audiences, H!ConstantsType
  <2>2. "none" \in H!Audiences /\ "name" \in {"name", "remove"}
    BY DEF H!Audiences
  <2> QED
    BY <2>1, <2>2, TypeEdits
<1>5. CASE \E v \in Readers, via \in Owners \cup {None} : H!RadioPage(v, via) \/ H!Find(v, via)
  BY <1>5, TypePages
<1>6. CASE \E v \in Readers : H!GamePage(v)
  <2>1. None \in Owners \cup {None}
    OBVIOUS
  <2> QED
    BY <1>6, <2>1, TypePages
<1>7. CASE \E r \in Requests : Heard(r)
  BY <1>7, TypeListening
<1>8. CASE \E n \in H!Addresses : H!Lapse(n)
  <2> PICK n \in H!Addresses : H!Lapse(n)
    BY <1>8
  <2>1. tuned \in [Owners -> H!Addresses \cup {None}] /\ fresh \subseteq H!Addresses
    BY DEF H!TypeOK
  <2>2. tuned' \in [Owners -> H!Addresses \cup {None}] /\ fresh' \subseteq H!Addresses
    <3>1. tuned' = [o \in Owners |-> IF tuned[o] = n THEN None ELSE tuned[o]]
      BY DEF H!Lapse
    <3>2. fresh' = fresh \ {n}
      BY DEF H!Lapse
    <3> QED
      BY <2>1, <3>1, <3>2
  <2>3. UNCHANGED <<line, grants, chosen, named, members, edit, page, turn, asking, kept,
                    lineOf, raced>>
    BY DEF H!Lapse, H!rows, H!listening
  <2> QED
    BY <2>2, <2>3 DEF H!TypeOK
<1>9. CASE \E n \in H!Addresses : H!Forget(n)
  BY <1>9 DEF H!TypeOK, H!Forget, H!rows, H!tunes, H!Addresses
<1>10. CASE UNCHANGED H!vars
  BY <1>10 DEF H!TypeOK, H!vars, H!rows, H!listening, H!tunes, H!Addresses
<1> QED
  BY <1>1, <1>2, <1>3, <1>4, <1>5, <1>6, <1>7, <1>8, <1>9, <1>10 DEF H!Next, Heard

-----------------------------------------------------------------------------
\* Which steps are about the rows, and about the edits.
RowStep(o) == H!Connect(o) \/ H!Disconnect(o)
Saved(e) == H!SetSharing(e) \/ H!SetGrant(e)

LEMMA StepKinds ==
  ASSUME [H!Next]_(H!vars)
  PROVE  \/ \E o \in Owners : RowStep(o)
         \/ \E e \in Edits : Saved(e)
         \/ \E e \in Edits, o \in Owners, audience \in H!Audiences : H!AskShare(e, o, audience)
         \/ \E e \in Edits, o \in Owners, v \in Readers, what \in {"name", "remove"} :
              H!AskGrant(e, o, v, what)
         \/ \E r \in Requests : Heard(r)
         \/ \E n \in H!Addresses : H!Lapse(n)
         \/ UNCHANGED <<H!rows, edit, turn, asking, H!tunes>>
<1>1. CASE \E o \in Owners : H!Connect(o) \/ H!Disconnect(o) \/ H!Membership(o)
  BY <1>1 DEF RowStep, H!Membership, H!listening
<1>2. CASE \E v \in Readers, via \in Owners \cup {None} : H!RadioPage(v, via) \/ H!Find(v, via)
  BY <1>2 DEF H!RadioPage, H!Find, H!listening
<1>3. CASE \E v \in Readers : H!GamePage(v)
  BY <1>3 DEF H!GamePage, H!listening
<1>4. CASE \E n \in H!Addresses : H!Forget(n)
  BY <1>4 DEF H!Forget
<1>5. CASE UNCHANGED H!vars
  BY <1>5 DEF H!vars, H!listening
<1> QED
  BY <1>1, <1>2, <1>3, <1>4, <1>5 DEF H!Next, Saved, Heard, H!listening

\* A request changes no row and no edit.
LEMMA HeardIs == ASSUME NEW r \in Requests, Heard(r) PROVE UNCHANGED <<H!rows, edit>>
BY DEF Heard, H!Stream, H!Proxy, H!SharedProxy, H!Asks, H!Tune, H!Mint, H!Collapse, H!Fetch,
       H!Reply

LEMMA EditStep ==
  ASSUME H!ConstantsType, H!TypeOK, GateInv, [H!Next]_(H!vars)
  PROVE  GateInv'
<1>1. CASE \E e \in Edits, o \in Owners, audience \in H!Audiences : H!AskShare(e, o, audience)
  <2> PICK e \in Edits, o \in Owners, audience \in H!Audiences : H!AskShare(e, o, audience)
    BY <1>1
  <2>1. audience # "name"
    BY DEF H!Audiences
  <2>2. edit'[e].what = audience /\ edit'[e].paid = (o \in members)
    BY DEF H!AskShare, H!TypeOK
  <2>3. \A d \in Edits : d # e => edit'[d] = edit[d]
    BY DEF H!AskShare, H!TypeOK
  <2>4. audience = "friends" => o \in members
    BY DEF H!AskShare
  <2> QED
    BY <2>1, <2>2, <2>3, <2>4 DEF GateInv
<1>2. CASE \E e \in Edits, o \in Owners, v \in Readers, what \in {"name", "remove"} :
             H!AskGrant(e, o, v, what)
  <2> PICK e \in Edits, o \in Owners, v \in Readers, what \in {"name", "remove"} :
             H!AskGrant(e, o, v, what)
    BY <1>2
  <2>1. what # "friends"
    OBVIOUS
  <2>2. edit'[e].what = what /\ edit'[e].paid = (o \in members)
    BY DEF H!AskGrant, H!TypeOK
  <2>3. \A d \in Edits : d # e => edit'[d] = edit[d]
    BY DEF H!AskGrant, H!TypeOK
  <2>4. what = "name" => o \in members
    BY DEF H!AskGrant
  <2> QED
    BY <2>1, <2>2, <2>3, <2>4 DEF GateInv
<1>3. CASE \E e \in Edits : Saved(e)
  <2> PICK e \in Edits : Saved(e)
    BY <1>3
  <2>1. edit' = [edit EXCEPT ![e] = H!Idle]
    BY DEF Saved, H!SetSharing, H!SetGrant
  <2> QED
    BY <2>1 DEF GateInv, H!TypeOK
<1>4. CASE UNCHANGED edit
  BY <1>4 DEF GateInv
<1> QED
  BY <1>1, <1>2, <1>3, <1>4, StepKinds, HeardIs DEF RowStep, H!Connect, H!Disconnect, H!Lapse

LEMMA RowsStep ==
  ASSUME H!ConstantsType, H!TypeOK, GateInv, OpenInv, H!NamesGoWithTheLine, [H!Next]_(H!vars)
  PROVE  OpenInv' /\ H!NamesGoWithTheLine'
<1>1. CASE \E o \in Owners : H!Connect(o)
  <2> PICK o \in Owners : H!Connect(o)
    BY <1>1
  <2>1. /\ line' = [line EXCEPT ![o] = "none"]
        /\ UNCHANGED <<grants, chosen, named>>
    BY DEF H!Connect
  <2>2. "none" \notin {"friends", "everyone"} /\ "none" # None
    BY DEF H!ConstantsType, H!Audiences
  <2>3. \A g \in grants : g[1] \in Owners
    BY DEF H!TypeOK
  <2>4. OpenInv'
    BY <2>1, <2>2 DEF OpenInv, H!TypeOK
  <2>5. H!NamesGoWithTheLine'
    BY <2>1, <2>2, <2>3 DEF H!NamesGoWithTheLine, H!TypeOK
  <2> QED
    BY <2>4, <2>5
<1>2. CASE \E o \in Owners : H!Disconnect(o)
  <2> PICK o \in Owners : H!Disconnect(o)
    BY <1>2
  <2>1. /\ line' = [line EXCEPT ![o] = None] /\ grants' = {g \in grants : g[1] # o}
        /\ chosen' = [chosen EXCEPT ![o] = "none"] /\ named' = {g \in named : g[1] # o}
    BY DEF H!Disconnect
  <2>2. None \notin {"friends", "everyone"}
    BY DEF H!ConstantsType, H!Audiences
  <2>3. \A g \in grants : g[1] \in Owners
    BY DEF H!TypeOK
  <2>4. OpenInv'
    BY <2>1, <2>2 DEF OpenInv, H!TypeOK
  <2>5. H!NamesGoWithTheLine'
    BY <2>1, <2>3 DEF H!NamesGoWithTheLine, H!TypeOK
  <2> QED
    BY <2>4, <2>5
<1>3. CASE \E e \in Edits : H!SetSharing(e)
  <2> PICK e \in Edits : H!SetSharing(e)
    BY <1>3
  <2> DEFINE o == edit[e].by
  <2>1. o \in Owners /\ edit[e] # H!Idle /\ edit[e].what \in H!Audiences
    BY MakesForItself DEF H!SetSharing
  <2>2. edit[e].what = "friends" => edit[e].paid
    BY <2>1 DEF GateInv
  <2>3. UNCHANGED <<grants, named>>
    BY DEF H!SetSharing
  <2>4. CASE line[o] = None
    BY <2>3, <2>4 DEF H!SetSharing, OpenInv, H!NamesGoWithTheLine
  <2>5. CASE line[o] # None
    <3>1. /\ line' = [line EXCEPT ![o] = edit[e].what]
          /\ chosen' = [chosen EXCEPT ![o] = edit[e].what]
      BY <2>2, <2>5 DEF H!SetSharing
    <3>2. edit[e].what # None
      BY <2>1 DEF H!ConstantsType
    <3>3. \A g \in grants : g[1] \in Owners
      BY DEF H!TypeOK
    <3>4. OpenInv'
      BY <2>1, <2>3, <3>1 DEF OpenInv, H!TypeOK
    <3>5. H!NamesGoWithTheLine'
      BY <2>1, <2>3, <3>1, <3>2, <3>3 DEF H!NamesGoWithTheLine, H!TypeOK
    <3> QED
      BY <3>4, <3>5
  <2> QED
    BY <2>4, <2>5
<1>4. CASE \E e \in Edits : H!SetGrant(e)
  <2> PICK e \in Edits : H!SetGrant(e)
    BY <1>4
  <2> DEFINE pair == <<edit[e].by, edit[e].whom>>
  <2>1. edit[e] # H!Idle
    BY DEF H!SetGrant, H!Idle, H!ConstantsType
  <2>2. UNCHANGED <<line, chosen>>
    BY DEF H!SetGrant
  <2>3. CASE edit[e].what = "remove"
    <3>1. grants' = grants \ {pair} /\ named' = named \ {pair}
      BY <2>3 DEF H!SetGrant
    <3> QED
      BY <2>2, <3>1 DEF OpenInv, H!NamesGoWithTheLine
  <2>4. CASE edit[e].what # "remove" /\ line[edit[e].by] = None
    BY <2>2, <2>4 DEF H!SetGrant, OpenInv, H!NamesGoWithTheLine
  <2>5. CASE edit[e].what # "remove" /\ line[edit[e].by] # None
    <3>1. edit[e].what = "name"
      BY <2>5 DEF H!SetGrant
    <3>2. edit[e].paid
      BY <2>1, <3>1 DEF GateInv
    <3>3. grants' = grants \cup {pair} /\ named' = named \cup {pair}
      BY <2>5, <3>2 DEF H!SetGrant
    <3>4. pair[1] = edit[e].by
      OBVIOUS
    <3> QED
      BY <2>2, <2>5, <3>3, <3>4 DEF OpenInv, H!NamesGoWithTheLine
  <2> QED
    BY <2>3, <2>4, <2>5
<1>5. CASE UNCHANGED H!rows
  BY <1>5 DEF OpenInv, H!NamesGoWithTheLine, H!rows
<1> QED
  BY <1>1, <1>2, <1>3, <1>4, <1>5, StepKinds, HeardIs
     DEF RowStep, Saved, H!AskShare, H!AskGrant, H!Lapse

-----------------------------------------------------------------------------
\* Whoever a line is open to is somebody its owner means to hear it.
LEMMA OpenedIsMeant ==
  ASSUME H!TypeOK, OpenInv, NEW o \in Owners, NEW v \in Readers, H!Shared(o, v)
  PROVE  o = v \/ H!Meant(o, v)
BY DEF H!Shared, H!Opened, H!Meant, OpenInv

LEMMA AskStep ==
  ASSUME H!ConstantsType, H!TypeOK, OnLineInv, AddressedInv, GateOpenInv, OpenInv, AddressInv,
         [H!Next]_(H!vars)
  PROVE  OnLineInv' /\ AddressedInv' /\ GateOpenInv'
<1> DEFINE Right(r) ==
      /\ turn[r] \in {"tuning", "minting", "fetching"} => asking[r].line \in Owners
      /\ turn[r] \in {"asking", "fetching"} => asking[r].address \in H!Addresses
      /\ turn[r] # "idle" /\ asking[r].line # None => asking[r].opened
<1>1. CASE \E r \in Requests : Heard(r)
  <2> PICK r \in Requests : Heard(r)
    BY <1>1
  <2> SUFFICES Right(r)'
               /\ \A q \in Requests : q # r => turn'[q] = turn[q] /\ asking'[q] = asking[q]
    BY DEF OnLineInv, AddressedInv, GateOpenInv
  <2>0. Right(r)
    BY DEF OnLineInv, AddressedInv, GateOpenInv
  <2>1. CASE \E v \in Readers : H!Stream(r, v)
    <3> PICK v \in Readers : H!Stream(r, v)
      BY <2>1
    <3>1. H!Asks(r, v, page[v], None, "tuning") /\ page[v] \in Owners
      BY DEF H!Stream, H!TypeOK
    <3>2. page[v] = v \/ H!Meant(page[v], v)
      BY <3>1, OpenedIsMeant DEF H!Stream
    <3>3. page[v] # None
      BY <3>1 DEF H!ConstantsType
    <3> QED
      BY <3>1, <3>2, <3>3 DEF H!Asks, H!TypeOK
  <2>2. CASE \E v \in Readers, n \in H!Addresses : H!Proxy(r, v, n)
    <3> PICK v \in Readers, n \in H!Addresses : H!Proxy(r, v, n)
      BY <2>2
    <3> DEFINE o == IF v \in Owners THEN v ELSE None
    <3>1. H!Asks(r, v, o, n, "asking") /\ (o # None => o = v)
      BY DEF H!Proxy
    <3> HIDE DEF o
    <3> QED
      BY <3>1 DEF H!Asks, H!TypeOK
  <2>3. CASE \E v \in Readers, n \in H!Addresses, o \in Owners : H!SharedProxy(r, v, o, n)
    <3> PICK v \in Readers, n \in H!Addresses, o \in Owners : H!SharedProxy(r, v, o, n)
      BY <2>3
    <3>1. H!Asks(r, v, o, n, "asking")
      BY DEF H!SharedProxy
    <3>2. o = v \/ H!Meant(o, v)
      BY OpenedIsMeant DEF H!SharedProxy
    <3>3. o # None
      BY DEF H!ConstantsType
    <3> QED
      BY <3>1, <3>2, <3>3 DEF H!Asks, H!TypeOK
  <2>4. CASE H!Tune(r)
    <3>1. asking[r].line \in Owners /\ asking[r].line # None /\ asking[r].opened
      BY <2>0, <2>4 DEF H!Tune, H!ConstantsType
    <3>2. \A q \in Requests : q # r => turn'[q] = turn[q] /\ asking'[q] = asking[q]
      BY <2>4 DEF H!Tune, H!TypeOK
    <3>3. CASE tuned[asking[r].line] # None
      <4>1. turn'[r] = "asking" /\ asking' = [asking EXCEPT ![r].address = tuned[asking[r].line]]
        BY <2>4, <3>3 DEF H!Tune, H!TypeOK
      <4>2. tuned[asking[r].line] \in H!Addresses
        BY <3>1, <3>3 DEF H!TypeOK
      <4> QED
        BY <3>1, <3>2, <4>1, <4>2 DEF H!TypeOK
    <3>4. CASE tuned[asking[r].line] = None
      <4>1. turn'[r] = "minting" /\ asking' = asking
        BY <2>4, <3>4 DEF H!Tune, H!TypeOK
      <4> QED
        BY <3>1, <3>2, <4>1
    <3> QED
      BY <3>3, <3>4
  <2>5. CASE H!Mint(r)
    <3>1. PICK k \in H!Addresses : /\ turn[r] = "minting"
                                   /\ turn' = [turn EXCEPT ![r] = "asking"]
                                   /\ asking' = [asking EXCEPT ![r].address = k]
      BY <2>5 DEF H!Mint
    <3>2. asking[r].line \in Owners /\ asking[r].line # None /\ asking[r].opened
      BY <2>0, <3>1 DEF H!ConstantsType
    <3> QED
      BY <3>1, <3>2 DEF H!TypeOK
  <2>6. CASE H!Collapse(r) \/ H!Reply(r)
    BY <2>6 DEF H!Collapse, H!Reply, H!Ends, H!TypeOK
  <2>7. CASE H!Fetch(r)
    <3>1. turn[r] = "asking" /\ turn' = [turn EXCEPT ![r] = "fetching"] /\ asking' = asking
          /\ asking[r].line # None
      BY <2>7 DEF H!Fetch
    <3>2. asking[r].line \in Owners
      BY <3>1 DEF H!TypeOK
    <3> QED
      BY <2>0, <3>1, <3>2 DEF H!TypeOK
  <2> QED
    BY <2>1, <2>2, <2>3, <2>4, <2>5, <2>6, <2>7 DEF Heard
<1>2. CASE UNCHANGED <<turn, asking>>
  BY <1>2 DEF OnLineInv, AddressedInv, GateOpenInv
<1> QED
  BY <1>1, <1>2, StepKinds DEF RowStep, H!Connect, H!Disconnect, Saved, H!SetSharing, H!SetGrant,
       H!AskShare, H!AskGrant, H!Lapse, H!listening

-----------------------------------------------------------------------------
\* Whoever does not begin to mint disturbs nothing that is held.
LEMMA NotMinting ==
  ASSUME AddressInv, NEW r \in Requests, UNCHANGED H!tunes,
         turn'[r] # "minting" \/ (turn'[r] = turn[r] /\ asking'[r].line = asking[r].line),
         \A q \in Requests : q # r => turn'[q] = turn[q] /\ asking'[q].line = asking[q].line
  PROVE  AddressInv'
<1>1. \A q \in Requests :
        turn'[q] = "minting" => turn[q] = "minting" /\ asking'[q].line = asking[q].line
  OBVIOUS
<1> QED
  BY <1>1 DEF AddressInv, H!tunes

\* An address found missing: whoever finds it so too is noted.
LEMMA AddressMissed ==
  ASSUME H!TypeOK, OnLineInv, AddressInv, NEW r \in Requests, H!Tune(r),
         tuned[asking[r].line] = None
  PROVE  AddressInv'
<1> DEFINE o == asking[r].line
<1>1. /\ turn' = [turn EXCEPT ![r] = "minting"] /\ UNCHANGED <<asking, tuned, lineOf, fresh>>
      /\ raced' = IF \E q \in Requests : turn[q] = "minting" /\ asking[q].line = o
                  THEN raced \cup {o} ELSE raced
  BY DEF H!Tune
<1>2. raced \subseteq raced'
  BY <1>1
<1>3. turn'[r] = "minting" /\ \A q \in Requests : q # r => turn'[q] = turn[q]
  BY <1>1 DEF H!TypeOK
<1>4. \A q \in Requests : q # r /\ turn[q] = "minting" /\ asking[q].line = o => o \in raced'
  BY <1>1
<1>5. (\A n \in fresh : n \in DOMAIN lineOf)'
  BY <1>1 DEF AddressInv
<1>6. (\A n \in fresh : lineOf[n] \notin raced => tuned[lineOf[n]] = n)'
  BY <1>1, <1>2 DEF AddressInv
<1>7. (\A p \in Owners : tuned[p] # None => tuned[p] \in fresh /\ lineOf[tuned[p]] = p)'
  BY <1>1 DEF AddressInv
<1>8. (\A q \in Requests :
         turn[q] = "minting" /\ asking[q].line \notin raced => tuned[asking[q].line] = None)'
  BY <1>1, <1>2, <1>3 DEF AddressInv
<1>9. ASSUME NEW q \in Requests, NEW s \in Requests,
             turn'[q] = "minting", turn'[s] = "minting", asking'[q].line = asking'[s].line
      PROVE  q = s \/ asking'[s].line \in raced'
  <2>1. CASE q = r /\ s # r
    BY <1>1, <1>3, <1>4, <1>9, <2>1
  <2>2. CASE s = r /\ q # r
    BY <1>1, <1>3, <1>4, <1>9, <2>2
  <2>3. CASE s # r /\ q # r
    BY <1>1, <1>2, <1>3, <1>9, <2>3 DEF AddressInv
  <2> QED
    BY <2>1, <2>2, <2>3
<1> QED
  BY <1>5, <1>6, <1>7, <1>8, <1>9 DEF AddressInv

\* A new address is held over what is held, and nothing is unless two were minting.
LEMMA AddressMinted ==
  ASSUME H!ConstantsType, H!TypeOK, OnLineInv, AddressInv, NEW r \in Requests, H!Mint(r)
  PROVE  AddressInv'
<1> DEFINE o == asking[r].line
<1> PICK k \in H!Addresses :
      /\ turn[r] = "minting" /\ DOMAIN lineOf = 1 .. k - 1
      /\ tuned' = [tuned EXCEPT ![asking[r].line] = k] /\ fresh' = fresh \cup {k}
      /\ lineOf' = [m \in 1 .. k |-> IF m = k THEN asking[r].line ELSE lineOf[m]]
      /\ turn' = [turn EXCEPT ![r] = "asking"] /\ asking' = [asking EXCEPT ![r].address = k]
      /\ UNCHANGED <<H!rows, members, edit, page, raced, kept>>
  BY DEF H!Mint
<1>1. o \in Owners
  BY DEF OnLineInv
<1>2. k \in Nat /\ k # 0 /\ k # None
  BY DEF H!Addresses, H!ConstantsType
<1>3. \A n \in fresh : n \in 1 .. k - 1 /\ n # k /\ n \in 1 .. k /\ n # None /\ lineOf[n] \in Owners
  <2>1. \A n \in fresh : n \in 1 .. k - 1
    BY DEF AddressInv
  <2>2. \A n \in 1 .. k - 1 : n # k /\ n \in 1 .. k
    BY <1>2
  <2>3. \A n \in fresh : n # None
    BY DEF H!TypeOK, H!ConstantsType
  <2>4. \A n \in 1 .. k - 1 : lineOf[n] \in Owners
    BY DEF H!TypeOK
  <2> QED
    BY <2>1, <2>2, <2>3, <2>4
<1>4. /\ k \in 1 .. k /\ lineOf'[k] = o /\ DOMAIN lineOf' = 1 .. k
      /\ \A n \in fresh : lineOf'[n] = lineOf[n]
  BY <1>2, <1>3
<1>5. tuned'[o] = k /\ \A p \in Owners : p # o => tuned'[p] = tuned[p]
  BY <1>1 DEF H!TypeOK
<1>6. turn'[r] = "asking"
      /\ \A q \in Requests : q # r => turn'[q] = turn[q] /\ asking'[q] = asking[q]
  BY DEF H!TypeOK
<1>7. raced' = raced
  OBVIOUS
<1>8. (\A n \in fresh : n \in DOMAIN lineOf)'
  BY <1>3, <1>4
<1>9. ASSUME NEW n \in fresh', lineOf'[n] \notin raced'
      PROVE  tuned'[lineOf'[n]] = n
  <2>1. CASE n = k
    BY <1>4, <1>5, <2>1
  <2>2. CASE n \in fresh
    <3>1. lineOf'[n] = lineOf[n] /\ lineOf[n] \in Owners /\ lineOf[n] \notin raced
      BY <1>3, <1>4, <1>7, <1>9, <2>2
    <3>2. tuned[lineOf[n]] = n
      BY <2>2, <3>1 DEF AddressInv
    <3>3. lineOf[n] # o
      <4> SUFFICES ASSUME lineOf[n] = o PROVE FALSE
        OBVIOUS
      <4>1. tuned[o] = None
        BY <3>1 DEF AddressInv
      <4> QED
        BY <4>1, <3>2, <1>3, <2>2
    <3> QED
      BY <3>1, <3>2, <3>3, <1>5
  <2> QED
    BY <2>1, <2>2
<1>10. ASSUME NEW p \in Owners, tuned'[p] # None
       PROVE  tuned'[p] \in fresh' /\ lineOf'[tuned'[p]] = p
  <2>1. CASE p = o
    BY <1>4, <1>5, <2>1
  <2>2. CASE p # o
    <3>1. tuned'[p] = tuned[p] /\ tuned[p] \in fresh /\ lineOf[tuned[p]] = p
      BY <1>5, <1>10, <2>2 DEF AddressInv
    <3>2. tuned[p] \in fresh'
      BY <3>1
    <3>3. lineOf'[tuned[p]] = lineOf[tuned[p]]
      BY <3>1, <1>4
    <3> QED
      BY <3>1, <3>2, <3>3
  <2> QED
    BY <2>1, <2>2
<1>11. ASSUME NEW q \in Requests, turn'[q] = "minting", asking'[q].line \notin raced'
       PROVE  tuned'[asking'[q].line] = None
  <2>1. q # r
    BY <1>6, <1>11
  <2>2. turn[q] = "minting" /\ asking[q].line \notin raced /\ asking'[q] = asking[q]
    BY <1>6, <1>7, <1>11, <2>1
  <2>3. asking[q].line # o
    BY <2>1, <2>2 DEF AddressInv
  <2>4. asking[q].line \in Owners /\ tuned[asking[q].line] = None
    BY <2>2 DEF AddressInv, OnLineInv
  <2> QED
    BY <2>2, <2>3, <2>4, <1>5
<1>12. ASSUME NEW q \in Requests, NEW s \in Requests,
             turn'[q] = "minting", turn'[s] = "minting", asking'[q].line = asking'[s].line
       PROVE  q = s \/ asking'[s].line \in raced'
  BY <1>6, <1>7, <1>12 DEF AddressInv
<1> QED
  BY <1>8, <1>9, <1>10, <1>11, <1>12 DEF AddressInv

\* An address that has lapsed is not held.
LEMMA AddressLapsed ==
  ASSUME H!ConstantsType, H!TypeOK, OnLineInv, AddressInv, NEW n \in H!Addresses, H!Lapse(n)
  PROVE  AddressInv'
<1>1. /\ fresh' = fresh \ {n} /\ UNCHANGED <<lineOf, raced, turn, asking>>
      /\ tuned' = [p \in Owners |-> IF tuned[p] = n THEN None ELSE tuned[p]]
  BY DEF H!Lapse, H!listening
<1>2. \A p \in Owners : tuned'[p] = IF tuned[p] = n THEN None ELSE tuned[p]
  BY <1>1
<1>3. \A m \in fresh : lineOf[m] \in Owners
  BY DEF H!TypeOK, AddressInv
<1>4. (\A m \in fresh : m \in DOMAIN lineOf)'
  BY <1>1 DEF AddressInv
<1>5. (\A m \in fresh : lineOf[m] \notin raced => tuned[lineOf[m]] = m)'
  BY <1>1, <1>2, <1>3 DEF AddressInv
<1>6. (\A p \in Owners : tuned[p] # None => tuned[p] \in fresh /\ lineOf[tuned[p]] = p)'
  BY <1>1, <1>2 DEF AddressInv
<1>7. ASSUME NEW q \in Requests, turn[q] = "minting", asking[q].line \notin raced
      PROVE  tuned'[asking[q].line] = None
  BY <1>2, <1>7 DEF AddressInv, OnLineInv
<1>8. (\A q, s \in Requests :
         turn[q] = "minting" /\ turn[s] = "minting" /\ asking[q].line = asking[s].line =>
           q = s \/ asking[s].line \in raced)'
  BY <1>1 DEF AddressInv
<1> QED
  BY <1>1, <1>4, <1>5, <1>6, <1>7, <1>8 DEF AddressInv

LEMMA AddressStep ==
  ASSUME H!ConstantsType, H!TypeOK, OnLineInv, AddressInv, [H!Next]_(H!vars)
  PROVE  AddressInv'
<1>1. CASE \E r \in Requests : Heard(r)
  <2> PICK r \in Requests : Heard(r)
    BY <1>1
  <2>1. CASE \/ \E v \in Readers : H!Stream(r, v)
             \/ \E v \in Readers, n \in H!Addresses : H!Proxy(r, v, n)
             \/ \E v \in Readers, n \in H!Addresses, o \in Owners : H!SharedProxy(r, v, o, n)
    <3>1. PICK step \in {"tuning", "asking"} :
            /\ turn' = [turn EXCEPT ![r] = step] /\ UNCHANGED H!tunes
            /\ \E a : asking' = [asking EXCEPT ![r] = a]
      BY <2>1 DEF H!Stream, H!Proxy, H!SharedProxy, H!Asks
    <3>2. turn'[r] # "minting"
      BY <3>1 DEF H!TypeOK
    <3>3. \A q \in Requests : q # r => turn'[q] = turn[q] /\ asking'[q].line = asking[q].line
      BY <3>1 DEF H!TypeOK
    <3> QED
      BY <3>1, <3>2, <3>3, NotMinting
  <2>2. CASE H!Tune(r) /\ tuned[asking[r].line] = None
    BY <2>2, AddressMissed
  <2>3. CASE H!Tune(r) /\ tuned[asking[r].line] # None
    <3>1. /\ turn' = [turn EXCEPT ![r] = "asking"] /\ UNCHANGED H!tunes
          /\ asking' = [asking EXCEPT ![r].address = tuned[asking[r].line]]
      BY <2>3 DEF H!Tune, H!tunes
    <3>2. turn'[r] # "minting"
      BY <3>1 DEF H!TypeOK
    <3>3. \A q \in Requests : q # r => turn'[q] = turn[q] /\ asking'[q].line = asking[q].line
      BY <3>1 DEF H!TypeOK
    <3> QED
      BY <3>1, <3>2, <3>3, NotMinting
  <2>4. CASE H!Mint(r)
    BY <2>4, AddressMinted
  <2>5. CASE H!Collapse(r) \/ H!Fetch(r) \/ H!Reply(r)
    <3>1. PICK step \in {"idle", "fetching"} :
            /\ turn' = [turn EXCEPT ![r] = step] /\ UNCHANGED H!tunes
            /\ asking' = asking \/ asking' = [asking EXCEPT ![r] = H!Silent]
      BY <2>5 DEF H!Collapse, H!Fetch, H!Reply, H!Ends
    <3>2. turn'[r] # "minting"
      BY <3>1 DEF H!TypeOK
    <3>3. \A q \in Requests : q # r => turn'[q] = turn[q] /\ asking'[q].line = asking[q].line
      BY <3>1 DEF H!TypeOK
    <3> QED
      BY <3>1, <3>2, <3>3, NotMinting
  <2> QED
    BY <2>1, <2>2, <2>3, <2>4, <2>5 DEF Heard
<1>2. CASE \E n \in H!Addresses : H!Lapse(n)
  BY <1>2, AddressLapsed
<1>3. CASE UNCHANGED <<turn, asking, H!tunes>>
  BY <1>3 DEF AddressInv, H!tunes
<1> QED
  BY <1>1, <1>2, <1>3, StepKinds DEF RowStep, H!Connect, H!Disconnect, Saved, H!SetSharing,
       H!SetGrant, H!AskShare, H!AskGrant, H!listening

-----------------------------------------------------------------------------
SharedInv == /\ H!TypeOK /\ OnLineInv /\ AddressedInv /\ GateOpenInv /\ GateInv /\ OpenInv
             /\ H!NamesGoWithTheLine /\ AddressInv

LEMMA SharedBegins == ASSUME H!ConstantsType, H!Init PROVE SharedInv
<1>1. H!TypeOK
  BY SharedTypesInit
<1>2. OnLineInv /\ AddressedInv /\ GateOpenInv /\ GateInv
  BY DEF H!Init, OnLineInv, AddressedInv, GateOpenInv, GateInv
<1>3. OpenInv /\ H!NamesGoWithTheLine
  BY DEF H!Init, OpenInv, H!NamesGoWithTheLine, H!ConstantsType, H!Audiences
<1>4. AddressInv
  BY DEF H!Init, AddressInv
<1> QED
  BY <1>1, <1>2, <1>3, <1>4 DEF SharedInv

LEMMA SharedInvariance == ASSUME H!ConstantsType PROVE H!Spec => []SharedInv
<1>1. H!Init => SharedInv
  BY SharedBegins
<1>2. SharedInv /\ [H!Next]_(H!vars) => SharedInv'
  BY SharedTypesKept, EditStep, RowsStep, AskStep, AddressStep DEF SharedInv
<1> QED
  BY <1>1, <1>2, PTL DEF H!Spec

\* TypeOK of SharedRadio: every step keeps the rows, the edits, the pages and the tunes of their
\* types.
THEOREM SharedTypesCorrect == ASSUME H!ConstantsType PROVE H!Spec => []H!TypeOK
<1>1. SharedInv => H!TypeOK
  BY DEF SharedInv
<1> QED
  BY <1>1, SharedInvariance, PTL

\* UsedAsMeant of SharedRadio: a line is tuned and fetched over for its owner, and for whoever
\* the owner meant to hear it when they asked. Neither an old page nor an old address nor a name
\* given on a row since removed nor a membership that is over has it used for anybody else.
THEOREM UsedAsTheOwnerMeant == ASSUME H!ConstantsType PROVE H!Spec => []H!UsedAsMeant
<1>1. SharedInv /\ H!ConstantsType => H!UsedAsMeant
  BY DEF SharedInv, OnLineInv, GateOpenInv, H!UsedAsMeant, H!ConstantsType
<1> QED
  BY <1>1, SharedInvariance, PTL

\* NamesGoWithTheLine of SharedRadio: a removed line keeps nobody's name for the one that is
\* connected after it.
THEOREM NobodyNamedWithoutALine == ASSUME H!ConstantsType PROVE H!Spec => []H!NamesGoWithTheLine
<1>1. SharedInv => H!NamesGoWithTheLine
  BY DEF SharedInv
<1> QED
  BY <1>1, SharedInvariance, PTL

\* OneAddress of SharedRadio: however many listen to a line, it is under one address at a
\* time, unless two requests found none at once.
THEOREM OneAddressALine == ASSUME H!ConstantsType PROVE H!Spec => []H!OneAddress
<1>1. SharedInv => H!OneAddress
  BY DEF SharedInv, AddressInv, H!OneAddress
<1> QED
  BY <1>1, SharedInvariance, PTL
=============================================================================
