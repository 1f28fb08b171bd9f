--------------------------------- MODULE Sweeps ---------------------------------
(***************************************************************************)
(* The schedule of the league sweeps: repeatable jobs whose timers every   *)
(* boot starts anew, the look each boot takes at how old the data is, the  *)
(* jobs it adds by id, and the workers that run them one at a time while   *)
(* processes are deployed and die.  The direct adapters, SYNC_ON_BOOT off. *)
(***************************************************************************)
EXTENDS Integers, FiniteSets, FiniteSetsExt

CONSTANTS
  Processes,
  Leagues, Born, \* the leagues, and those in the catalogue to begin with
  Dead,          \* leagues the provider answers nothing for
  None,
  Hour, Day,     \* in minutes of an instance; no job takes one
  Stale,         \* SYNC_STALE_HOURS
  NearEvery,     \* the near pass: 3 hours
  MaxTime,       \* bound: the clock stops here
  MaxDeploys,    \* bound: deploys
  MaxFaults      \* bound: deaths, and stamps that fail

\* What the composing module assumes of them.
ConstantsType ==
  /\ Hour \in Nat \ {0} /\ Day \in Nat \ {0} /\ Stale \in Nat /\ NearEvery \in Nat \ {0}
  /\ Born \subseteq Leagues /\ Born # {} /\ Dead \subseteq Leagues

VARIABLES
  now,
  known, created, synced, named, \* leagues, created_at, rosters_synced_at, a real name
  repeat,      \* when the repeatable of each kind fires next, or None
  jobs,        \* the sync queue
  boot, found, \* where a process is in its boot, and what it found out
  job, todo,   \* the job its worker has, and the leagues that has left
  swept,       \* ghost: when a league was last swept, or came in
  lost,        \* ghost: sweeps given up for good, and stamps that failed
  deploys, faults

data == <<known, created, synced, named, swept>>
vars == <<now, data, repeat, jobs, boot, found, job, todo, lost, deploys, faults>>

Kinds == {"all", "near", "catalogue"}
Every == [k \in Kinds |-> IF k = "near" THEN NearEvery ELSE Day]
Nothing == [catalogue |-> FALSE, stale |-> FALSE, backfill |-> FALSE]

Init ==
  /\ now = 0
  /\ known = Born /\ created = [l \in Leagues |-> 0] /\ swept = created
  /\ synced = [l \in Leagues |-> None] /\ named = {}
  /\ repeat = [k \in Kinds |-> None] /\ jobs = {}
  /\ boot = [p \in Processes |-> "down"] /\ found = [p \in Processes |-> Nothing]
  /\ job = [p \in Processes |-> None] /\ todo = [p \in Processes |-> {}]
  /\ lost = 0 /\ deploys = 0 /\ faults = 0

-----------------------------------------------------------------------------
(* The queue.                                                              *)

\* An id that is still there, done or not, is not added again.
With(queue, id, kind) ==
  IF \E j \in queue : j.id = id THEN queue
  ELSE queue \cup {[id |-> id, kind |-> kind, state |-> "waiting", at |-> 0, stalls |-> 0]}

Stamp(why, bucket) == <<why, now \div bucket>>

\* A repeatable runs one interval from when it was declared or last ran.
Fire(k) ==
  /\ repeat[k] # None /\ repeat[k] <= now
  /\ jobs' = With(jobs, <<k, now>>, k)
  /\ repeat' = [repeat EXCEPT ![k] = now + Every[k]]
  /\ UNCHANGED <<now, data, boot, found, job, todo, lost, deploys, faults>>

\* Completed jobs are kept for an hour.
Kept(queue) == {j \in queue : j.state = "done" => j.at + Hour > now}

-----------------------------------------------------------------------------
(* A boot.                                                                 *)

At(p, from, to) == boot[p] = from /\ boot' = [boot EXCEPT ![p] = to]

Clear(p) ==
  /\ At(p, "down", "declare")
  /\ repeat' = [k \in Kinds |-> None]
  /\ UNCHANGED <<now, data, jobs, found, job, todo, lost, deploys, faults>>

\* Two processes that boot together declare one repeatable.
Declare(p) ==
  /\ At(p, "declare", "look")
  /\ repeat' = [k \in Kinds |-> IF repeat[k] = None THEN now + Every[k] ELSE repeat[k]]
  /\ UNCHANGED <<now, data, jobs, found, job, todo, lost, deploys, faults>>

StaleBy(times, ms) == times = {} \/ now - Max(times) > ms

\* The newest league and the newest stamp.
Look(p) ==
  /\ At(p, "look", "count")
  /\ found' = [found EXCEPT ![p] =
       [catalogue |-> StaleBy({created[l] : l \in known}, Day),
        stale |-> StaleBy({synced[l] : l \in known} \ {None}, Stale),
        backfill |-> FALSE]]
  /\ UNCHANGED <<now, data, repeat, jobs, job, todo, lost, deploys, faults>>

Unnamed == known \ named
Rosterless == {l \in known : synced[l] = None}

SeedCatalogue(p) ==
  /\ At(p, "count", "seed")
  /\ jobs' = IF found[p].catalogue THEN With(jobs, Stamp("seed-cat", Day), "catalogue") ELSE jobs
  /\ found' = [found EXCEPT ![p].backfill = Unnamed \cup Rosterless # {}]
  /\ UNCHANGED <<now, data, repeat, job, todo, lost, deploys, faults>>

\* A backfill's id is of its minute, the routine sweep's of its hour.
Reason(f) == IF f.backfill THEN Stamp("backfill", 1) ELSE Stamp("seed-all", Hour)

Seed(p) ==
  LET f == found[p]
      sweep == IF f.stale \/ f.backfill THEN With(jobs, Reason(f), "all") ELSE jobs
  IN
  /\ At(p, "seed", "up")
  /\ jobs' = With(sweep, Stamp("seed-near", Hour), "near")
  /\ found' = [found EXCEPT ![p] = Nothing]
  /\ UNCHANGED <<now, data, repeat, job, todo, lost, deploys, faults>>

-----------------------------------------------------------------------------
(* The worker of the sync queue.                                           *)

Take(p, j) ==
  /\ boot[p] = "up" /\ job[p] = None
  /\ j.state = "waiting" /\ jobs' = (jobs \ {j}) \cup {[j EXCEPT !.state = "active"]}
  /\ job' = [job EXCEPT ![p] = j.id]
  /\ todo' = [todo EXCEPT ![p] = IF j.kind = "all" THEN known ELSE {}]
  /\ UNCHANGED <<now, data, repeat, boot, found, lost, deploys, faults>>

\* A league that fails is stamped all the same; its name waits for an answer.
SweepLeague(p, l) ==
  /\ l \in todo[p] /\ todo' = [todo EXCEPT ![p] = @ \ {l}]
  /\ synced' = [synced EXCEPT ![l] = now]
  /\ named' = IF l \in Dead THEN named ELSE named \cup {l}
  /\ swept' = [swept EXCEPT ![l] = now]
  /\ UNCHANGED <<now, known, created, repeat, jobs, boot, found, job, lost, deploys, faults>>

StampFails(p, l) ==
  /\ l \in todo[p] /\ todo' = [todo EXCEPT ![p] = @ \ {l}]
  /\ faults < MaxFaults /\ faults' = faults + 1 /\ lost' = lost + 1
  /\ UNCHANGED <<now, data, repeat, jobs, boot, found, job, deploys>>

\* Mutation: the near pass stamps what it touched.
NearStamps(kind) == IF kind = "near" THEN [l \in Leagues |-> now] ELSE synced

\* Only a pass that fetched the rosters stamps them.
Stamps(kind) == synced

\* The catalogue brings in the leagues that are new.
Finish(p, j) ==
  /\ job[p] = j.id /\ todo[p] = {}
  /\ jobs' = Kept(jobs \ {j}) \cup {[j EXCEPT !.state = "done", !.at = now]}
  /\ job' = [job EXCEPT ![p] = None]
  /\ synced' = Stamps(j.kind)
  /\ IF j.kind = "catalogue"
     THEN \E new \in SUBSET (Leagues \ known) :
            /\ known' = known \cup new
            /\ created' = [l \in Leagues |-> IF l \in new THEN now ELSE created[l]]
            /\ swept' = [l \in Leagues |-> IF l \in new THEN now ELSE swept[l]]
     ELSE UNCHANGED <<known, created, swept>>
  /\ UNCHANGED <<now, named, repeat, boot, found, todo, lost, deploys, faults>>

-----------------------------------------------------------------------------
(* Processes come and go.                                                  *)

\* A deploy waits for the job in hand.
Deploy(p) ==
  /\ deploys < MaxDeploys /\ deploys' = deploys + 1
  /\ job[p] = None /\ At(p, "up", "down")
  /\ UNCHANGED <<now, data, repeat, jobs, found, job, todo, lost, faults>>

\* A job whose process died runs again, once.
Dies(p) ==
  /\ boot[p] # "down" /\ boot' = [boot EXCEPT ![p] = "down"]
  /\ faults < MaxFaults /\ faults' = faults + 1
  /\ found' = [found EXCEPT ![p] = Nothing]
  /\ job' = [job EXCEPT ![p] = None] /\ todo' = [todo EXCEPT ![p] = {}]
  /\ IF job[p] = None THEN UNCHANGED <<jobs, lost>>
     ELSE \E j \in {i \in jobs : i.id = job[p]} :
            /\ jobs' = (jobs \ {j}) \cup
                 {[j EXCEPT !.state = IF @ = "active" /\ j.stalls = 0 THEN "waiting" ELSE "failed",
                            !.stalls = @ + 1]}
            /\ lost' = IF j.stalls > 0 /\ j.kind = "all" THEN lost + 1 ELSE lost
  /\ UNCHANGED <<now, data, repeat, deploys>>

\* What is to be done is done within the minute.
Tick ==
  /\ now < MaxTime /\ now' = now + 1
  /\ \A p \in Processes : boot[p] = "up" /\ job[p] = None
  /\ \A j \in jobs : j.state # "waiting"
  /\ \A k \in Kinds : repeat[k] # None => repeat[k] > now
  /\ UNCHANGED <<data, repeat, jobs, boot, found, job, todo, lost, deploys, faults>>

Next ==
  \/ \E k \in Kinds : Fire(k)
  \/ \E p \in Processes :
       \/ Clear(p) \/ Declare(p) \/ Look(p) \/ SeedCatalogue(p) \/ Seed(p)
       \/ \E j \in jobs : Take(p, j) \/ Finish(p, j)
       \/ \E l \in Leagues : SweepLeague(p, l) \/ StampFails(p, l)
       \/ Deploy(p) \/ Dies(p)
  \/ Tick

Spec == Init /\ [][Next]_vars

-----------------------------------------------------------------------------
TypeOK ==
  /\ now \in 0 .. MaxTime /\ known \subseteq Leagues /\ named \subseteq known
  /\ created \in [Leagues -> 0 .. MaxTime] /\ synced \in [Leagues -> 0 .. MaxTime \cup {None}]
  /\ repeat \in [Kinds -> Nat \cup {None}]
  /\ \A j \in jobs : j.kind \in Kinds /\ j.state \in {"waiting", "active", "done", "failed"}
  /\ boot \in [Processes -> {"down", "declare", "look", "count", "seed", "up"}]
  /\ \A p \in Processes : todo[p] \subseteq known

\* However often deploys start the timers anew, no league waits for its sweep longer than
\* the data may be stale and a timer runs; and a sweep that is lost costs that once more.
LeaguesSwept == \A l \in known : now - swept[l] <= (1 + lost) * (Stale + Day)
=============================================================================
