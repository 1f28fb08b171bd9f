---------------------------------- MODULE People ----------------------------------
(***************************************************************************)
(* Readers among themselves: following, blocking, messages and comments.   *)
(* A request is handled once, one statement a step: what it checked first  *)
(* (a block, a rate) may have changed when it writes.                      *)
(***************************************************************************)
EXTENDS Integers, Sequences, FiniteSets

CONSTANTS
  Requests,
  Readers,
  None,
  MessageRate,  \* MESSAGE_RATE_PER_HOUR
  CommentRate,  \* COMMENT_RATE
  History,      \* historyWindowDays of a reader who is no member
  ThreadLimit,  \* how many messages a thread shows
  MaxTime       \* bound: the clock stops here; an hour and a minute are one unit

\* What the composing module and the proofs assume of them.
ConstantsType ==
  /\ MessageRate \in Nat /\ CommentRate \in Nat /\ History \in Nat /\ ThreadLimit \in Nat
  /\ MaxTime \in Nat \ {0}

VARIABLES
  now,
  follows,   \* user_follows: pairs <<follower, followee>>
  blocks,    \* user_blocks: pairs <<blocker, blocked>>
  messages,  \* messages: from whom, to whom, when, and whether it is read
  comments,  \* event_comments
  pc, at,    \* where a request is, what it is of, and the thread it read and what it shows of it
  crossed,   \* ghost: pairs whose follow was checked before and written after a block
  together   \* ghost: readers with two requests under way at once

rows == <<follows, blocks, messages, comments>>
ghosts == <<crossed, together>>
vars == <<now, rows, pc, at, ghosts>>

Kinds == {"follow", "unfollow", "block", "unblock", "send", "open", "comment", "delete"}
Blank == [kind |-> "open", by |-> None, of |-> None, seen |-> 0, page |-> {}]

Init ==
  /\ now = 1 /\ follows = {} /\ blocks = {} /\ messages = <<>> /\ comments = <<>>
  /\ pc = [r \in Requests |-> "idle"] /\ at = [r \in Requests |-> Blank]
  /\ crossed = {} /\ together = {}

Goto(r, label) == pc' = [pc EXCEPT ![r] = label]
Busy(r) == pc[r] \notin {"idle", "refused", "done"}
By(r) == at[r].by
Of(r) == at[r].of
BlockExists(u, v) == <<u, v>> \in blocks \/ <<v, u>> \in blocks

\* Where a handler starts: whoever follows, unfollows, writes or reads asks for a block.
FirstOf(kind) == CASE kind \in {"follow", "unfollow", "send", "open"} -> "check"
                   [] kind = "comment" -> "count"
                   [] OTHER -> kind

Begin(r, kind, u, v) ==
  /\ pc[r] = "idle" /\ u # v
  /\ at' = [at EXCEPT ![r] = [kind |-> kind, by |-> u, of |-> v, seen |-> 0, page |-> {}]]
  /\ Goto(r, FirstOf(kind))
  /\ together' = IF \E q \in Requests : Busy(q) /\ By(q) = u THEN together \cup {u} ELSE together
  /\ UNCHANGED <<now, rows, crossed>>

CheckBlock(r) ==
  /\ pc[r] = "check"
  /\ Goto(r, IF BlockExists(By(r), Of(r)) THEN "refused"
             ELSE IF at[r].kind = "send" THEN "count" ELSE at[r].kind)
  /\ UNCHANGED <<now, rows, at, ghosts>>

\* followUser, unfollowUser.
Follow(r) ==
  /\ pc[r] = "follow"
  /\ follows' = follows \cup {<<By(r), Of(r)>>}
  /\ crossed' = IF BlockExists(By(r), Of(r)) THEN crossed \cup {{By(r), Of(r)}} ELSE crossed
  /\ Goto(r, "done")
  /\ UNCHANGED <<now, blocks, messages, comments, at, together>>
Unfollow(r) ==
  /\ pc[r] = "unfollow"
  /\ follows' = follows \ {<<By(r), Of(r)>>}
  /\ Goto(r, "done")
  /\ UNCHANGED <<now, blocks, messages, comments, at, ghosts>>

\* blockUser: the block, and then the relationship in both directions.
Block(r) ==
  /\ pc[r] = "block"
  /\ blocks' = blocks \cup {<<By(r), Of(r)>>}
  /\ Goto(r, "part")
  /\ UNCHANGED <<now, follows, messages, comments, at, ghosts>>

\* Mutation: only the blocker stops following.
PartOneWay(r) ==
  /\ pc[r] = "part"
  /\ follows' = follows \ {<<By(r), Of(r)>>}
  /\ Goto(r, "done")
  /\ UNCHANGED <<now, blocks, messages, comments, at, ghosts>>

Part(r) ==
  /\ pc[r] = "part"
  /\ follows' = follows \ {<<By(r), Of(r)>>, <<Of(r), By(r)>>}
  /\ Goto(r, "done")
  /\ UNCHANGED <<now, blocks, messages, comments, at, ghosts>>

Unblock(r) ==
  /\ pc[r] = "unblock"
  /\ blocks' = blocks \ {<<By(r), Of(r)>>}
  /\ Goto(r, "done")
  /\ UNCHANGED <<now, follows, messages, comments, at, ghosts>>

\* Those of a log a reader wrote within the last unit.
Lately(log, u) == {i \in DOMAIN log : log[i].by = u /\ log[i].at = now}

\* messagesSentSince, recentCommentCount.
Count(r) ==
  /\ pc[r] = "count"
  /\ Goto(r, IF at[r].kind = "send"
             THEN IF Cardinality(Lately(messages, By(r))) >= MessageRate THEN "refused" ELSE "send"
             ELSE IF Cardinality(Lately(comments, By(r))) >= CommentRate THEN "refused"
                  ELSE "comment")
  /\ UNCHANGED <<now, rows, at, ghosts>>

SendMessage(r) ==
  /\ pc[r] = "send"
  /\ messages' = Append(messages, [by |-> By(r), to |-> Of(r), at |-> now, read |-> FALSE])
  /\ Goto(r, "done")
  /\ UNCHANGED <<now, follows, blocks, comments, at, ghosts>>

InsertComment(r) ==
  /\ pc[r] = "comment"
  /\ comments' = Append(comments, [by |-> By(r), at |-> now, deleted |-> FALSE])
  /\ Goto(r, "done")
  /\ UNCHANGED <<now, follows, blocks, messages, at, ghosts>>

\* A comment of one's own: the row stays.
DeleteComment(r) ==
  /\ pc[r] = "delete"
  /\ \E i \in DOMAIN comments :
       comments' = [comments EXCEPT ![i].deleted = @ \/ comments[i].by = By(r)]
  /\ Goto(r, "done")
  /\ UNCHANGED <<now, follows, blocks, messages, at, ghosts>>

\* thread: a reader is shown the last messages of the two, as far back as the window
\* reaches ...
Pair(i) == {messages[i].by, messages[i].to}
FromOther(r, i) == messages[i].by = Of(r) /\ messages[i].to = By(r)
Later(i) == {j \in DOMAIN messages : j > i /\ Pair(j) = Pair(i)}
Recent(i) == now - messages[i].at < History /\ Cardinality(Later(i)) < ThreadLimit
OpenThread(r) ==
  /\ pc[r] = "open"
  /\ at' = [at EXCEPT ![r].seen = Len(messages),
                      ![r].page = {i \in DOMAIN messages : Pair(i) = {By(r), Of(r)} /\ Recent(i)}]
  /\ Goto(r, "mark")
  /\ UNCHANGED <<now, rows, ghosts>>

\* ... and then everything from the other is read, what was not shown too.
MarkRead(r) ==
  /\ pc[r] = "mark"
  /\ messages' = [i \in DOMAIN messages |->
       [messages[i] EXCEPT !.read = @ \/ FromOther(r, i)]]
  /\ Goto(r, "done")
  /\ UNCHANGED <<now, follows, blocks, comments, at, ghosts>>

Tick == now < MaxTime /\ now' = now + 1 /\ UNCHANGED <<rows, pc, at, ghosts>>

Next ==
  \/ \E r \in Requests :
       \/ \E kind \in Kinds, u, v \in Readers : Begin(r, kind, u, v)
       \/ CheckBlock(r) \/ Follow(r) \/ Unfollow(r) \/ Block(r) \/ Part(r) \/ Unblock(r)
       \/ Count(r) \/ SendMessage(r) \/ InsertComment(r) \/ DeleteComment(r)
       \/ OpenThread(r) \/ MarkRead(r)
  \/ Tick

Spec == Init /\ [][Next]_vars

-----------------------------------------------------------------------------
(* Properties.                                                             *)

TypeOK ==
  /\ now \in 1 .. MaxTime
  /\ follows \subseteq Readers \X Readers /\ blocks \subseteq Readers \X Readers
  /\ messages \in Seq([by : Readers, to : Readers, at : 1 .. MaxTime, read : BOOLEAN])
  /\ comments \in Seq([by : Readers, at : 1 .. MaxTime, deleted : BOOLEAN])
  /\ pc \in [Requests -> Kinds \cup {"idle", "check", "part", "count", "mark", "refused", "done"}]
  /\ at \in [Requests -> [kind : Kinds, by : Readers \cup {None}, of : Readers \cup {None},
                          seen : Nat, page : SUBSET Nat]]
  /\ crossed \subseteq SUBSET Readers /\ together \subseteq Readers

\* "A block ends the relationship in both directions" (blockUser): once it is through,
\* neither follows the other, unless a follow was checked before it and written after.
Parting(u, v) == \E r \in Requests : pc[r] = "part" /\ {By(r), Of(r)} = {u, v}
BlockedDoNotFollow ==
  \A u, v \in Readers : BlockExists(u, v) /\ <<u, v>> \in follows =>
    Parting(u, v) \/ {u, v} \in crossed

\* The two rates hold however requests interleave with each other, with deletions and
\* with the clock, except for a reader whose own requests overlapped.
RatesKept ==
  \A u \in Readers \ together : /\ Cardinality(Lately(messages, u)) <= MessageRate
                                /\ Cardinality(Lately(comments, u)) <= CommentRate

\* "a number ... they have no way to clear" (thread): when a conversation has been opened,
\* what was in it is read, shown or withheld.
Opened(r) == at[r].kind = "open" /\ pc[r] = "done"
BadgeClears ==
  \A r \in Requests : Opened(r) =>
    \A i \in 1 .. at[r].seen : FromOther(r, i) => messages[i].read

\* A message is read only by opening its own conversation, and one that is recent was shown
\* there, unless it came between the select and the update ("in the same round trip").
ReadInItsThread ==
  \A i \in DOMAIN messages : messages[i].read =>
    \E r \in Requests : /\ Opened(r) /\ FromOther(r, i)
                        /\ Recent(i) /\ i <= at[r].seen => i \in at[r].page

\* A conversation is read where it is opened, and only there.
ThreadsRead == BadgeClears /\ ReadInItsThread
=============================================================================
