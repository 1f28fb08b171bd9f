-------------------------------- MODULE LiveLine --------------------------------
(***************************************************************************)
(* ensureLine: making one reader's live TV pass usable.  A call reads the  *)
(* pass and the row of provider_lines, then opens a line at the provider   *)
(* or extends the one there is, then imports it as the managed list.  The  *)
(* provider is paid per call and nothing there can be undone.  Callers are *)
(* the webhook that granted the pass and the reader's button, at any time. *)
(***************************************************************************)
EXTENDS Integers, FiniteSets, FiniteSetsExt

CONSTANTS
  Calls,       \* calls of ensureLine in progress at a time
  Terms,       \* lengths of a pass one can buy
  Month, Year, \* lengths of the provider's two packages
  None,
  MaxTime,     \* bound: the clock stops here
  MaxEnd,      \* bound: how far passes are stacked
  MaxFaults,   \* bound: calls, and readings of a line, that fail
  MaxLines     \* bound: lines opened

LineIds == 1 .. MaxLines

\* What the composing module and the proofs assume of them.
ConstantsType ==
  /\ Month \in Nat \ {0} /\ Year \in Nat \ {0} /\ Terms \subseteq Nat /\ None \notin LineIds
  /\ MaxTime \in Nat /\ MaxEnd \in Nat /\ MaxLines \in Nat /\ MaxFaults \in Nat

VARIABLES
  now,
  passEnd,    \* when the last term of the pass ends
  unlocked,   \* canSealFor: the reader's key is here
  issued,     \* the provider's lines: when each ends, 0 before it is opened
  row,        \* the line of provider_lines, or None
  rowEnd,     \* its expires_at
  imported,   \* the line the managed list plays, or None
  pc, seen,   \* where a call is, and the pass and line it has read
  faults,
  beside,     \* ghost: calls that began while another was in progress
  orphans,    \* ghost: lines opened by a call that ended before it had saved them
  unread      \* ghost: lines extended without the row having been told since

provider == <<issued>>
rows == <<passEnd, row, rowEnd, imported>>
ghosts == <<beside, orphans, unread>>
vars == <<now, unlocked, provider, rows, pc, seen, faults, ghosts>>

Nothing == [from |-> 0, until |-> 0, line |-> None, end |-> 0]
Lines == {l \in LineIds : issued[l] > 0}

Init ==
  /\ now = 0 /\ passEnd = 0 /\ unlocked = FALSE
  /\ issued = [l \in LineIds |-> 0]
  /\ row = None /\ rowEnd = 0 /\ imported = None
  /\ pc = [c \in Calls |-> "idle"] /\ seen = [c \in Calls |-> Nothing]
  /\ faults = 0 /\ beside = {} /\ orphans = {} /\ unread = {}

Goto(c, label) == pc' = [pc EXCEPT ![c] = label]
End(c) == Goto(c, "idle") /\ seen' = [seen EXCEPT ![c] = Nothing]
See(c, what) == seen' = [seen EXCEPT ![c] = what]

\* A month covers a week or a month; anything longer is a year.
PackageCovering(from, until) == IF until - from > Month THEN Year ELSE Month

\* What the rows read ask for.
AfterReading(line, end, until) ==
  IF line = None THEN "create" ELSE IF end < until THEN "extend" ELSE "list"

\* The pass, the vault, the line: no pass or a locked vault ends the call.
Begin(c) ==
  /\ pc[c] = "idle"
  /\ passEnd > now /\ unlocked
  /\ Goto(c, AfterReading(row, rowEnd, passEnd))
  /\ See(c, [from |-> IF row = None THEN now ELSE rowEnd,
             until |-> passEnd, line |-> row, end |-> rowEnd])
  /\ beside' = IF \E d \in Calls \ {c} : pc[d] # "idle" THEN beside \cup {c} ELSE beside
  /\ UNCHANGED <<now, unlocked, provider, rows, faults, orphans, unread>>

\* provider.createLine has opened the line; its answer is on the way.
Create(c) ==
  /\ pc[c] = "create"
  /\ \E l \in LineIds :
       /\ issued[l] = 0 /\ \A k \in LineIds : k < l => issued[k] > 0
       /\ issued' = [issued EXCEPT ![l] = now + PackageCovering(now, seen[c].until)]
       /\ See(c, [seen[c] EXCEPT !.line = l, !.end = issued'[l]])
  /\ Goto(c, "seal")
  /\ UNCHANGED <<now, unlocked, rows, faults, ghosts>>

\* The answer is there, and its login is sealed: by a vault that may have been locked since.
Seal(c) ==
  /\ pc[c] = "seal"
  /\ IF unlocked
     THEN Goto(c, "save") /\ UNCHANGED <<seen, orphans>>
     ELSE End(c) /\ orphans' = orphans \cup {seen[c].line}
  /\ UNCHANGED <<now, unlocked, provider, rows, faults, beside, unread>>

\* saveProviderLine: on conflict (user_id) do update.
Save(c) ==
  /\ pc[c] = "save"
  /\ row' = seen[c].line /\ rowEnd' = seen[c].end
  /\ Goto(c, "list")
  /\ UNCHANGED <<now, unlocked, provider, passEnd, imported, seen, faults, ghosts>>

\* provider.extendLine has extended; the panel adds to what is left of the line.
Extend(c) ==
  LET l == seen[c].line IN
  /\ pc[c] = "extend"
  /\ issued' = [issued EXCEPT ![l] =
       Max({@, now}) + PackageCovering(seen[c].end, seen[c].until)]
  /\ unread' = unread \cup {l}
  /\ Goto(c, "reread")
  /\ UNCHANGED <<now, unlocked, rows, seen, faults, beside, orphans>>

\* provider.getLine, whose failure is swallowed.
ReadBack(c) ==
  /\ pc[c] = "reread"
  /\ \/ See(c, [seen[c] EXCEPT !.end = issued[seen[c].line]]) /\ UNCHANGED faults
     \/ /\ faults < MaxFaults /\ faults' = faults + 1
        /\ See(c, [seen[c] EXCEPT !.end = 0])
  /\ Goto(c, "touch")
  /\ UNCHANGED <<now, unlocked, provider, rows, ghosts>>

\* The row's line is told of.
Told(c) == unread' = IF seen[c].end # 0 THEN unread \ {seen[c].line} ELSE unread

\* Mutation: the row is not told.
TouchNothing(c) ==
  /\ pc[c] = "touch" /\ Goto(c, "list") /\ Told(c)
  /\ UNCHANGED <<now, unlocked, provider, rows, seen, faults, beside, orphans>>

\* touchProviderLine: what was not read leaves the column alone.
Touch(c) ==
  /\ pc[c] = "touch"
  /\ rowEnd' = IF seen[c].end # 0 THEN seen[c].end ELSE rowEnd
  /\ Told(c)
  /\ Goto(c, "list")
  /\ UNCHANGED <<now, unlocked, provider, passEnd, row, imported, seen, faults, beside, orphans>>

\* managedPlaylistFor, importPlaylist, setPlaylistManaged: the steps are in Playlists.  The
\* address is opened first, which a locked vault refuses.
Import(c) ==
  /\ pc[c] = "list"
  /\ imported' = IF imported = None /\ unlocked THEN seen[c].line ELSE imported
  /\ End(c)
  /\ UNCHANGED <<now, unlocked, provider, passEnd, row, rowEnd, faults, ghosts>>

\* A call ends where it is, with what it has done so far: the provider refuses, or has acted
\* and its answer is lost; a statement fails; the list cannot be read; the process dies.
Stops(c) ==
  /\ pc[c] # "idle" /\ faults < MaxFaults
  /\ faults' = faults + 1
  /\ End(c)
  /\ orphans' = IF pc[c] \in {"seal", "save"} THEN orphans \cup {seen[c].line} ELSE orphans
  /\ UNCHANGED <<now, unlocked, provider, rows, beside, unread>>

\* grantLivePass stacks: Settlement has the statement.
BuyPass(days) ==
  /\ Max({now, passEnd}) + days <= MaxEnd
  /\ passEnd' = Max({now, passEnd}) + days
  /\ UNCHANGED <<now, unlocked, provider, row, rowEnd, imported, pc, seen, faults, ghosts>>

\* The reader unlocks the vault; signing out or time locks it, under a call too.
Unlock ==
  /\ ~unlocked /\ unlocked' = TRUE
  /\ UNCHANGED <<now, provider, rows, pc, seen, faults, ghosts>>
Lock ==
  /\ unlocked /\ unlocked' = FALSE
  /\ UNCHANGED <<now, provider, rows, pc, seen, faults, ghosts>>

\* reconcileLapsed: the list goes, the line stays.
TakeDown ==
  /\ passEnd < now /\ imported # None
  /\ imported' = None
  /\ UNCHANGED <<now, unlocked, provider, passEnd, row, rowEnd, pc, seen, faults, ghosts>>

Tick ==
  /\ now < MaxTime /\ now' = now + 1
  /\ UNCHANGED <<unlocked, provider, rows, pc, seen, faults, ghosts>>

Next ==
  \/ \E c \in Calls : \/ Begin(c) \/ Create(c) \/ Seal(c) \/ Save(c) \/ Extend(c) \/ ReadBack(c)
                      \/ Touch(c) \/ Import(c) \/ Stops(c)
  \/ \E days \in Terms : BuyPass(days)
  \/ Unlock \/ Lock \/ TakeDown \/ Tick

Spec == Init /\ [][Next]_vars

-----------------------------------------------------------------------------
(* Properties.                                                             *)

TypeOK ==
  /\ now \in 0 .. MaxTime /\ passEnd \in 0 .. MaxEnd /\ unlocked \in BOOLEAN
  /\ issued \in [LineIds -> Nat] /\ row \in LineIds \cup {None} /\ rowEnd \in Nat
  /\ imported \in LineIds \cup {None}
  /\ pc \in [Calls -> {"idle", "create", "seal", "save", "extend", "reread", "touch", "list"}]
  /\ seen \in [Calls -> [from : Nat, until : 0 .. MaxEnd, line : LineIds \cup {None}, end : Nat]]
  /\ faults \in 0 .. MaxFaults
  /\ beside \subseteq Calls /\ orphans \subseteq LineIds /\ unread \subseteq LineIds

\* Calls one after another, each ending at any step and the vault locking under any: beside
\* the lines that a call ended without having saved, which nobody finds again, one line is
\* bought, and it is the one the row has and the list plays.
OneLine ==
  beside = {} => /\ Cardinality(Lines \ orphans) <= 1
                 /\ row # None => row \in Lines \ orphans
                 /\ imported # None => imported = row

\* The row never promises more than the provider would, and once a line's end was read back
\* it knows it, so that a line that still covers the pass is not paid for again.
RowKnowsLine ==
  beside = {} /\ row # None => /\ rowEnd <= issued[row]
                               /\ row \notin unread => rowEnd = issued[row]

\* "a line lasts ... until at least `until`" (packageCovering): when a call gets as far
\* as the list, its line covers the pass it read, if one package can.
LineCovers ==
  \A c \in Calls :
    /\ beside = {} /\ pc[c] = "list"
    /\ seen[c].until - seen[c].from <= Year
    => issued[seen[c].line] >= seen[c].until

\* One line, known as it is, and long enough.
LineHeld == OneLine /\ RowKnowsLine /\ LineCovers
=============================================================================
