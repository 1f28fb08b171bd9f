------------------------------- MODULE Playlists -------------------------------
(***************************************************************************)
(* The channel lists of one reader: adding, editing, polling and           *)
(* provisioning one, all of which run importPlaylist; removing, ordering   *)
(* and sharing them; and the tick that takes a lapsed pass's list down.    *)
(* A job is one call of importPlaylist with the route or tick around it;   *)
(* its steps are the statements between two awaits.  The body of a list is *)
(* whose address it came from and the provider's version of it.            *)
(***************************************************************************)
EXTENDS Naturals, FiniteSets

CONSTANTS
  Lists,        \* row ids of user_playlists
  Own,          \* addresses the reader brings
  Line,         \* the address of the line a pass comes with
  Jobs,         \* imports in progress at a time
  Friends,      \* readers who may be named on a list
  None,
  MaxPlaylists, \* MAX_PLAYLISTS
  MaxVersion,   \* bound: how often a provider rewrites its list
  MaxStarts,    \* bound: imports we look at
  MaxChanges,   \* bound: how often the reader removes, moves or opens a list
  MaxStops      \* bound: imports that an error or a restart ends

Urls == Own \cup {Line}
Bodies == [of : Urls, version : 0 .. MaxVersion]
Kinds == {"add", "edit", "poll", "provision"}
Audiences == {"none", "friends", "everyone"}
Steps == {"idle", "reread", "save", "fetch", "restore", "replace", "fresh", "panel", "own"}
Saved == {"fetch", "restore", "replace", "fresh", "panel", "own"}
Locals == [kind : Kinds, list : Lists \cup {None}, url : Urls \cup {None},
           previous : Urls \cup {None}, known : Bodies \cup {None},
           body : Bodies \cup {None}, was : {"ours", "own"}]
Wrongs == {"hash", "channels", "owner"}
NoJob == [kind |-> "add", list |-> None, url |-> None, previous |-> None,
          known |-> None, body |-> None, was |-> "own"]

\* What the composing module and the proofs assume of them.
ConstantsType ==
  /\ Line \notin Own /\ None \notin Urls /\ None \notin Lists /\ None \notin Bodies
  /\ MaxVersion \in Nat /\ MaxStarts \in Nat /\ MaxChanges \in Nat /\ MaxStops \in Nat

VARIABLES
  rows,       \* the rows of the reader
  before,     \* their order (position, id): pairs of which the first comes first
  url,        \* source_url
  channels,   \* user_playlist_channels of the row: the body they were parsed from
  hash,       \* content_hash
  panel,      \* the address whose panel panel_connections came from
  managed,    \* rows that are ours
  audience,   \* share_audience
  named,      \* playlist_share_grants
  pass,       \* the reader's pass: "held", or "lapsed" past the grace hours
  version,    \* what the provider answers at an address
  doomed,     \* rows reconcileLapsed has read and not deleted yet
  pc, job,    \* where an import is, and its locals
  starts, changes, stops,
  amiss,      \* ghost: what imports that were ended left wrong with a row
  disturbed   \* ghost: rows two imports were at work on, or opened under one

shelf == <<rows, before>>
rowVars == <<url, channels, hash, panel, managed, audience, named>>
bounds == <<starts, changes, stops>>
vars == <<shelf, rowVars, pass, version, doomed, pc, job, bounds, amiss, disturbed>>

AtWork(l) == {j \in Jobs : pc[j] # "idle" /\ job[j].list = l}

\* A reader with one list, added before we look.
Init ==
  /\ \E l \in Lists, u \in Own :
       /\ rows = {l} /\ before = {}
       /\ url = [k \in Lists |-> IF k = l THEN u ELSE None]
       /\ channels = [k \in Lists |-> IF k = l THEN [of |-> u, version |-> 0] ELSE None]
       /\ hash = channels
       /\ panel = url
  /\ managed = {} /\ named = [l \in Lists |-> {}]
  /\ audience = [l \in Lists |-> "none"]
  /\ pass = "held" /\ doomed = {}
  /\ version = [u \in Urls |-> 0]
  /\ pc = [j \in Jobs |-> "idle"] /\ job = [j \in Jobs |-> NoJob]
  /\ starts = 0 /\ changes = 0 /\ stops = 0
  /\ amiss = [l \in Lists |-> {}] /\ disturbed = {}

-----------------------------------------------------------------------------
(* The four ways into importPlaylist.                                      *)

Goto(j, label) == pc' = [pc EXCEPT ![j] = label]
Begin(j, locals) ==
  /\ pc[j] = "idle" /\ starts < MaxStarts
  /\ starts' = starts + 1
  /\ job' = [job EXCEPT ![j] = locals]
  /\ disturbed' = IF locals.list # None /\ AtWork(locals.list) # {}
                  THEN disturbed \cup {locals.list} ELSE disturbed
  /\ UNCHANGED <<shelf, rowVars, pass, version, doomed, changes, stops, amiss>>

\* POST /api/playlist without an id: the cap is read now and the row comes later.
BeginAdd(j, u) ==
  /\ Cardinality(rows) < MaxPlaylists
  /\ Begin(j, [NoJob EXCEPT !.url = u]) /\ Goto(j, "save")

\* With an id: the hash counts only if the address stays the same.
BeginEdit(j, l, u) ==
  /\ l \in rows
  /\ Begin(j, [NoJob EXCEPT !.kind = "edit", !.list = l, !.url = u, !.previous = url[l],
                            !.known = IF url[l] = u THEN hash[l] ELSE None,
                            !.was = IF l \in managed THEN "ours" ELSE "own"])
  /\ Goto(j, "save")

\* refreshDuePlaylists reads the rows that are due, with their hashes; the button of
\* /api/playlist/refresh brings none.
BeginPoll(j, l, known) ==
  /\ l \in rows /\ known \in {hash[l], None}
  /\ Begin(j, [NoJob EXCEPT !.kind = "poll", !.list = l, !.known = known])
  /\ Goto(j, "reread")

\* ensureLine, when no list of the reader is managed.
BeginProvision(j) ==
  /\ pass = "held" /\ managed = {}
  /\ Begin(j, [NoJob EXCEPT !.kind = "provision", !.url = Line]) /\ Goto(j, "save")

-----------------------------------------------------------------------------
(* importPlaylist.                                                         *)

Note(j, locals) == job' = [job EXCEPT ![j] = locals]
Done(j) == Goto(j, "idle") /\ job' = [job EXCEPT ![j] = NoJob]
Around == UNCHANGED <<pass, version, doomed, bounds, disturbed>>
Elsewhere == Around /\ UNCHANGED amiss

\* refreshPlaylist: the address as it is now, or the row is gone.
Reread(j) ==
  LET l == job[j].list IN
  /\ pc[j] = "reread"
  /\ IF l \in rows
     THEN Goto(j, "save") /\ Note(j, [job[j] EXCEPT !.url = url[l], !.previous = url[l]])
     ELSE Done(j)
  /\ UNCHANGED <<shelf, rowVars>> /\ Elsewhere

\* savePlaylist: an insert at the end of the order, or an update of the row named.
Save(j) ==
  LET l == job[j].list IN
  /\ pc[j] = "save"
  /\ IF l # None
     THEN /\ url' = [url EXCEPT ![l] = IF l \in rows THEN job[j].url ELSE @]
          /\ UNCHANGED <<shelf, job>>
     ELSE \E new \in Lists \ (rows \cup doomed \cup {job[i].list : i \in Jobs}) :
            /\ rows' = rows \cup {new}
            /\ before' = before \cup (rows \X {new})
            /\ url' = [url EXCEPT ![new] = job[j].url]
            /\ Note(j, [job[j] EXCEPT !.list = new])
  /\ Goto(j, "fetch")
  /\ UNCHANGED <<channels, hash, panel, managed, audience, named>> /\ Elsewhere

\* The download: it fails, or holds no channels, or hashes to what is known.
Fetch(j) ==
  LET u == job[j].url
      body == [of |-> u, version |-> version[u]]
  IN
  /\ pc[j] = "fetch"
  /\ \/ Goto(j, "restore") /\ UNCHANGED job
     \/ /\ Note(j, [job[j] EXCEPT !.body = body])
        /\ Goto(j, IF job[j].known = body THEN "fresh" ELSE "replace")
  /\ UNCHANGED <<shelf, rowVars>> /\ Elsewhere

\* What deleting a row takes with it.
Drop(gone) ==
  /\ rows' = rows \ gone
  /\ before' = before \cap (rows' \X rows')
  /\ url' = [l \in Lists |-> IF l \in gone THEN None ELSE url[l]]
  /\ channels' = [l \in Lists |-> IF l \in gone THEN None ELSE channels[l]]
  /\ hash' = [l \in Lists |-> IF l \in gone THEN None ELSE hash[l]]
  /\ panel' = [l \in Lists |-> IF l \in gone THEN None ELSE panel[l]]
  /\ managed' = managed \ gone
  /\ audience' = [l \in Lists |-> IF l \in gone THEN "none" ELSE audience[l]]
  /\ named' = [l \in Lists |-> IF l \in gone THEN {} ELSE named[l]]

\* Mutation: an edit that failed keeps the address that failed.
RestoreAddsOnly(j) ==
  /\ pc[j] = "restore"
  /\ IF job[j].previous = None
     THEN Drop({job[j].list})
     ELSE UNCHANGED <<shelf, rowVars>>
  /\ Done(j) /\ Elsewhere

\* restorePrevious: an add leaves nothing behind, an edit gets its address back.
Restore(j) ==
  LET l == job[j].list IN
  /\ pc[j] = "restore"
  /\ IF job[j].previous = None
     THEN Drop({l})
     ELSE /\ url' = [url EXCEPT ![l] = IF l \in rows THEN job[j].previous ELSE @]
          /\ UNCHANGED <<shelf, channels, hash, panel, managed, audience, named>>
  /\ Done(j) /\ Elsewhere

\* replacePlaylistChannels: one transaction, on a row that may be gone; an empty list is a
\* failed fetch, and any other error ends the import (Stops).
Replace(j) ==
  LET l == job[j].list IN
  /\ pc[j] = "replace"
  /\ channels' = [channels EXCEPT ![l] = IF l \in rows THEN job[j].body ELSE @]
  /\ Goto(j, "fresh")
  /\ UNCHANGED <<shelf, url, hash, panel, managed, audience, named, job>> /\ Elsewhere

Replaced(j) == job[j].known # job[j].body

\* markPlaylistFresh; a list that was read anew is mended.
MarkFresh(j) ==
  LET l == job[j].list IN
  /\ pc[j] = "fresh"
  /\ hash' = [hash EXCEPT ![l] = IF l \in rows THEN job[j].body ELSE @]
  /\ amiss' = [amiss EXCEPT ![l] = IF Replaced(j) THEN @ \ {"hash", "channels"} ELSE @]
  /\ Goto(j, "panel")
  /\ UNCHANGED <<shelf, url, channels, panel, managed, audience, named, job>> /\ Around

\* askPanel and recordPanelInfo: where user_id = the reader, which is every list; an error
\* is swallowed.
AskPanel(j) ==
  /\ pc[j] = "panel"
  /\ \/ \E said \in {job[j].url, None} :
          panel' = [l \in Lists |-> IF l \in rows THEN said ELSE panel[l]]
     \/ UNCHANGED panel
  /\ IF job[j].kind = "provision" \/ job[j].was = "ours"
     THEN Goto(j, "own") /\ UNCHANGED job
     ELSE Done(j)
  /\ UNCHANGED <<shelf, url, channels, hash, managed, audience, named>> /\ Elsewhere

\* Mutation: a list with the reader's own address stays ours.
SetManagedOnly(j) ==
  /\ pc[j] = "own"
  /\ managed' = managed \cup ({job[j].list} \cap rows)
  /\ Done(j)
  /\ UNCHANGED <<shelf, url, channels, hash, panel, audience, named>> /\ Elsewhere

\* Mutation: an upsert, which brings a removed list back as ours.
SetManagedBlind(j) ==
  LET l == job[j].list IN
  /\ pc[j] = "own"
  /\ managed' = IF job[j].kind = "provision" THEN managed \cup {l} ELSE managed \ {l}
  /\ Done(j)
  /\ UNCHANGED <<shelf, url, channels, hash, panel, audience, named>> /\ Elsewhere

\* setPlaylistManaged: ours after a provision, the reader's after an edit.
SetManaged(j) ==
  LET l == job[j].list IN
  /\ pc[j] = "own"
  /\ managed' = IF job[j].kind = "provision" THEN managed \cup ({l} \cap rows) ELSE managed \ {l}
  /\ Done(j)
  /\ UNCHANGED <<shelf, url, channels, hash, panel, audience, named>> /\ Elsewhere

\* What stays wrong with the list when an import ends where it is: the hash is not of the
\* channels, these are not of the address, or whose the list is has not been said.
LeavesWrong(j) ==
  LET its == job[j] IN
  (IF pc[j] = "fresh" /\ Replaced(j) THEN {"hash"} ELSE {}) \cup
  (IF pc[j] \in {"fetch", "restore", "replace"} /\ its.previous # its.url
   THEN {"channels"} ELSE {}) \cup
  (IF pc[j] \in Saved /\ (its.kind = "provision" \/ its.was = "ours") THEN {"owner"} ELSE {})

\* An import ends where it is: a statement throws, the vault is locked, the process restarts.
\* No catch but those of the download and of an empty list puts the address back.
Stops(j) ==
  LET l == job[j].list IN
  /\ pc[j] # "idle" /\ stops < MaxStops
  /\ stops' = stops + 1
  /\ amiss' = IF l = None THEN amiss ELSE [amiss EXCEPT ![l] = @ \cup LeavesWrong(j)]
  /\ Done(j)
  /\ UNCHANGED <<shelf, rowVars, pass, version, doomed, starts, changes, disturbed>>

-----------------------------------------------------------------------------
(* The other operations, one statement each.                               *)

Quiet == UNCHANGED <<pc, job, starts, stops, pass, version, amiss>>
Changed == changes < MaxChanges /\ changes' = changes + 1

\* (ghost) a list was opened under an import.
MarkIfAtWork(l) == disturbed' = IF AtWork(l) # {} THEN disturbed \cup {l} ELSE disturbed

\* POST /api/playlist/delete: one list, by its id.
Delete(l) ==
  /\ l \in rows /\ Drop({l})
  /\ UNCHANGED <<doomed, disturbed>> /\ Quiet /\ Changed

\* makePlaylistPrimary: in front of all others.
MakePrimary(l) ==
  /\ l \in rows
  /\ before' = (before \ (rows \X {l})) \cup ({l} \X (rows \ {l}))
  /\ UNCHANGED <<rows, rowVars, doomed, disturbed>> /\ Quiet /\ Changed

\* setPlaylistSharing, which the route and the query both refuse to our list.
Share(l, to) ==
  /\ l \in rows \ managed
  /\ audience' = [audience EXCEPT ![l] = to]
  /\ MarkIfAtWork(l)
  /\ UNCHANGED <<shelf, url, channels, hash, panel, managed, named, doomed>> /\ Quiet /\ Changed

\* setPlaylistShareGrant; taking somebody off is refused to nobody.
Grant(l, f) ==
  /\ l \in rows \ managed
  /\ named' = [named EXCEPT ![l] = @ \cup {f}]
  /\ MarkIfAtWork(l)
  /\ UNCHANGED <<shelf, url, channels, hash, panel, managed, audience, doomed>> /\ Quiet /\ Changed
Revoke(l, f) ==
  /\ l \in rows
  /\ named' = [named EXCEPT ![l] = @ \ {f}]
  /\ UNCHANGED <<shelf, url, channels, hash, panel, managed, audience, doomed, disturbed>>
  /\ Quiet /\ Changed

\* reconcileLapsed: managedPlaylistsLapsed, then a delete per row.
ReadLapsed ==
  /\ pass = "lapsed" /\ doomed = {} /\ managed # {}
  /\ doomed' = managed
  /\ UNCHANGED <<shelf, rowVars, disturbed>> /\ Quiet /\ UNCHANGED changes
DeleteLapsed(l) ==
  /\ l \in doomed
  /\ doomed' = doomed \ {l}
  /\ IF l \in rows THEN Drop({l}) ELSE UNCHANGED <<shelf, rowVars>>
  /\ UNCHANGED disturbed /\ Quiet /\ UNCHANGED changes

PassLapses ==
  /\ pass = "held" /\ pass' = "lapsed"
  /\ UNCHANGED <<shelf, rowVars, version, doomed, pc, job, bounds, amiss, disturbed>>

ProviderRewrites(u) ==
  /\ version[u] < MaxVersion
  /\ version' = [version EXCEPT ![u] = @ + 1]
  /\ UNCHANGED <<shelf, rowVars, pass, doomed, pc, job, bounds, amiss, disturbed>>

Next ==
  \/ \E j \in Jobs, u \in Own : BeginAdd(j, u) \/ \E l \in Lists : BeginEdit(j, l, u)
  \/ \E j \in Jobs, l \in Lists, known \in Bodies \cup {None} : BeginPoll(j, l, known)
  \/ \E j \in Jobs : \/ BeginProvision(j) \/ Reread(j) \/ Save(j) \/ Fetch(j) \/ Restore(j)
                     \/ Replace(j) \/ MarkFresh(j) \/ AskPanel(j) \/ SetManaged(j) \/ Stops(j)
  \/ \E l \in Lists : \/ Delete(l) \/ MakePrimary(l) \/ DeleteLapsed(l)
                      \/ \E to \in Audiences : Share(l, to)
                      \/ \E f \in Friends : Grant(l, f) \/ Revoke(l, f)
  \/ ReadLapsed \/ PassLapses
  \/ \E u \in Urls : ProviderRewrites(u)

Spec == Init /\ [][Next]_vars

-----------------------------------------------------------------------------
(* Properties.                                                             *)

\* The reader's order is one: every two lists are in it one way round.
Ordered ==
  /\ before \subseteq rows \X rows
  /\ \A k, l \in rows : <<k, l>> \in before <=> k # l /\ <<l, k>> \notin before
  /\ \A k, l, m \in rows : <<k, l>> \in before /\ <<l, m>> \in before => <<k, m>> \in before

TypeOK ==
  /\ rows \subseteq Lists /\ Ordered
  /\ url \in [Lists -> Urls \cup {None}] /\ panel \in [Lists -> Urls \cup {None}]
  /\ channels \in [Lists -> Bodies \cup {None}] /\ hash \in [Lists -> Bodies \cup {None}]
  /\ managed \subseteq rows /\ doomed \subseteq Lists /\ disturbed \subseteq Lists
  /\ audience \in [Lists -> Audiences] /\ named \in [Lists -> SUBSET Friends]
  /\ pass \in {"held", "lapsed"} /\ version \in [Urls -> 0 .. MaxVersion]
  /\ pc \in [Jobs -> Steps] /\ job \in [Jobs -> Locals]
  /\ amiss \in [Lists -> SUBSET Wrongs]
  /\ starts \in 0 .. MaxStarts /\ changes \in 0 .. MaxChanges /\ stops \in 0 .. MaxStops

\* Lists that no import is at work on, that two never were, and of which none that was ended
\* left this wrong.
Right(what) == {l \in rows : AtWork(l) = {} /\ l \notin disturbed /\ what \notin amiss[l]}

\* A poll that finds "what we already stored" by its hash skips the parse: the hash of a list
\* is of the very channels it holds, unless an import ended between writing the two and no
\* list was read anew since.
HashDescribesChannels == \A l \in Right("hash") : hash[l] = channels[l]

\* Whatever failed, was edited or came unchanged, the channels on offer are those of the
\* address the list has: a failed edit does not keep the address that failed, a failed add
\* leaves no empty list, and no import writes into another list.  Only an add or an edit to
\* another address that ended between its save and its channels leaves them apart, until the
\* list is read anew; a poll never does.
ChannelsComeFromAddress ==
  \A l \in Right("channels") : channels[l] # None /\ channels[l].of = url[l]

\* A list is ours exactly when it is our line: what lapses with the pass is never an address
\* the reader brought, unless an import of our list ended before it had said so.
ManagedIsOurs == \A l \in Right("owner") : l \in managed <=> url[l] = Line

\* Our line is opened to nobody, unless it was while it was being imported; no import that
\* ended excuses it.
ManagedStaysClosed ==
  \A l \in managed \ disturbed : AtWork(l) = {} => audience[l] = "none" /\ named[l] = {}

\* What a list holds and remembers is of the address it has; ours is what we brought, and
\* opened to nobody.
ListsHonest ==
  /\ HashDescribesChannels /\ ChannelsComeFromAddress
  /\ ManagedIsOurs /\ ManagedStaysClosed
=============================================================================
