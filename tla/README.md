# Models of TipoffWatch

TLA+ models of the parts of TipoffWatch where order, failure and shared state decide whether
the code is right. TLC checks every module on small instances; TLAPS proves the most important
results for every value of the constants. `PROJECT.json` holds the components, the runs, the
lines of source each definition stands for, the hazards, the findings and the theorems.

## 1. The system

One web process (`apps/web`, Bun) and any number of worker processes (`apps/worker`) share
Postgres and Redis. Redis carries BullMQ queues; everything durable is a row. Within a process
one event loop runs everything, so another request gets in only at an `await`.

| component | source | state it keeps | operations |
|---|---|---|---|
| reminder scan, fan-out | `packages/queue/src/workers.js`, `db/src/queries.js` | `events`, `follows`; jobs `fo-*`, `bt-*` in Redis | every 30 s match fixtures crossing a threshold, page their followers into batch jobs |
| reminder delivery | `workers.js` (runBatch), `packages/notify` | `reminder_deliveries`, push subscriptions | claim a page's rows, send, mark failures |
| schedules and sweeps | `queue/src/index.js`, `apps/web/src/main.js` | repeatables, retained jobs, `leagues` | declare repeatables at boot, look whether the data is stale, sweep the leagues |
| stream proxy | `playlists/src/proxy.js`, `line.js`, the `stream.ts` routes of `apps/web/src/app.js` | in memory: a Set of slots per account | claim a slot, evict the oldest, open the provider's stream, give the slot back |
| playlists | `packages/playlists` | `user_playlists`, channels, grants | import, refresh, provision, order, share, remove |
| channels on offer | `playlists/src/probe.js`, check routes, `db/src/queries.js` | verdicts on channel rows | choose candidates, probe them, write down dead and live |
| matching | `sports/src/m3u.js`, `broadcasters.js` | none | narrow and rank channels for a fixture, read broadcasters' names |
| payments, membership, pay-per-view | `packages/payments`, buy and webhook routes | `payments`, `memberships`, `entitlements`, offer seats | check out, settle a webhook, grant |
| live TV pass | `packages/live` | `live_passes`, `provider_lines`, the managed list | grant, open or extend a line, reconcile what lapsed |
| radio | `packages/radio` | in memory: answers, bearers, pending sign-ins; sealed sessions | collapse fetches, renew a bearer, two-step sign-in |
| radio lines opened to others | `/radio` and `/api/radio/share` routes, `db/src/queries.js`, `session.js` (tune) | `siriusxm_sessions`, share grants; in memory: tune addresses | open or narrow a line, name a listener, play somebody else's |
| sessions and sign-in | `packages/auth`, `lib/coinpay-signin.js`, `lib/auth-throttle.js` | `sessions`, login tokens, identities, passkeys, password attempts; in memory: strikes | issue and consume a link, bind an identity, verify, throttle |
| key vault | `auth/src/vault*.js` | vault rows, sealed values; in memory: unlocked keys and who has a vault | unlock, lock, lend to the worker, move what was sealed before |
| readers among themselves | `app.js`, `queries.js` | follows, blocks, messages, comments | the routes of these |
| invites, credits, codes | `auth/src/invites.js`, `packages/credits` | ledger, codes, invites, sends | mail, mint, redeem, accept, revoke |
| fixture sync | `packages/sports` | `leagues`, `teams`, `events`, cursors, logs | sweep, near pass, live tick, plays tick, broadcast fill; the mirror of nichedb |
| outgoing webhooks | `packages/webhooks` | endpoints, marks, hourly counts | scan for changes, announce, prune |
| pages | `public/*.js` | in memory of a tab: players, sweeps, the push toggle | play, stop, probe, navigate, subscribe |

How they meet:

- A sync writes `events`; the scan reads it half a minute later and adds a fan-out job; the
  fan-out reads `follows` page by page and adds batch jobs; a batch job inserts claims and calls
  the senders. Each tier trusts only a job id or a primary key to keep it from doing things twice.
  The webhook scanners read the same `events` rows in every worker.
- The direct pollers and the mirror write the same fixtures, each from an answer it asked for
  minutes before.
- A payment reaches its grant through a webhook that may be repeated, late, or concurrent with
  another. A pass opens a line, the line becomes a managed list, and a lapse takes the list down.
- Imports, removals and edits of a list meet on its row; streams of its channels meet in the
  proxy's registry; the probes of the page meet them on the provider's line.
- An unlocked vault is what lists, provider lines and the radio session are opened with, and a
  lock may come between any two awaits of those who use it.

What is hard: retries of work half done; two executions of one job; an id that outlives, or does
not outlive, the reason for it; a value read before an await and written after it; a lost
answer; a departure at every stage; counters kept beside the thing they count; a deploy in the
middle. What makes each part correct is stated by the properties of section 3.

## 2. Modules

| module | models | about |
|---|---|---|
| `OncePerReminder` | the promise: at most one successful send per reader, reminder and channel | abstract |
| `DeliveryClaims` | `runBatch`, `claimDeliveries`, `markDeliveryFailed`, the sends, and the BullMQ job around them | implements `OncePerReminder` |
| `ReminderFanout` | `runScan`, `eventsDueForReminder`, `runFanout`, `followersOfEventPage`, ids, retention | one fixture, one offset, a clock |
| `Sweeps` | `installSchedules`, the look at boot, the sync worker and its ids | leagues, processes, deploys |
| `StreamSlots` | `claimStreamSlot`, `openStream`, `lineAllowance`, the three `stream.ts` routes | one account's line |
| `UpstreamCache` | `sharedFetch`, `evict` | keys, readers, a clock |
| `PaidOnce` | the promise of a checkout: money buys once, and a commission is earned in that step | abstract |
| `Settlement` | `createCheckout`, the CoinPay webhook, `settleWebhook` and its grants at READ COMMITTED | implements `PaidOnce` |
| `LiveLine` | `ensureLine` and the provider's line | one reader |
| `Playlists` | `importPlaylist` under its four callers, removal, order, sharing, the lapse tick | one reader's lists |
| `Channels` | candidates, probes of the check routes and the download, verdicts | one fixture's rows |
| `Ranking`, `Carriers` | `m3u.js` terms and tiers; `broadcasters.js` readings of a name | functions, on `MatchCases` |
| `SignIn` | emailed links, CoinPay logins, claimed and redeemed invites | links, subs, accounts |
| `Guesses`, `Passkeys`, `Backoff` | `verifyPassword`; challenges and counters; `auth-throttle` | |
| `People`, `InviteMail` | follows, blocks, messages, comments; `sendInvites` | requests statement by statement |
| `Mirror` | `nichedbsports.js`: walks, cursor, budget, retirement | items of four kinds |
| `Fixtures` | sweep, near pass, live tick, plays tick, broadcast fill | fixtures of one league |
| `Webhooks` | `scanOnce`, claims, caps, pruning | scanners, owners, fixtures |
| `RadioSession` | `session.js`, `pending.js`, the two-step sign-in | one reader, several calls |
| `SharedRadio` | sharing routes and queries of a SiriusXM line, the pages drawn for one, `tune` | owners, listeners, requests |
| `PagePlayer`, `Push` | the sections of a page; the notification toggle | one tab; pages of one browser |
| `Credits` | codes and scarce invites, and the grants after them | requests |
| `Vault` | vault rows, who knows of them, sealing, `vault-migrate.js` | one reader, web and worker |
| `*_proofs` | theorems about the module named | section 5 |
| `MC*` | the values of the constants for TLC | section 3 |

Conventions. A step is what the code does between two awaits, or one SQL statement; `pc` names
the await something is suspended at, and `at`, `job` or `seen` hold its locals. Ghost variables
are marked so in their comment. An operator under a comment *Mutation* is not part of the
specification: it is a plausible bug, and shows that a property depends on the code.

Some correspondences that are not plain from the names:

- **DeliveryClaims.** Jobs are pages of users; *slots* are worker executions. `job`, `owner`,
  `attempts`, `stalls` and `adds` are BullMQ's bookkeeping; `row` is `reminder_deliveries`.
  `LoadEvent`, `LoadTargets`, `Claim`, `SendOk`, `SendRejected`, `MarkFailed`, `AllSettled` and
  `NextChannel` are `runBatch`. `Throw` and `Finish` end an execution and count only if it still
  holds the lock. `Crash` kills a worker anywhere, `Stalled` gives its job away while it may
  still be running, `Fault` is a database error before or after its statement took effect.
- **ReminderFanout.** `Scan` adds `fo-<event>-<offset>` unless Redis still has that id; `PageFollowers` is
  one turn of the loop; `FanoutFails` and `Backoff` retry from the first page; `EvictFanout` and
  `EvictBatch` are retention by age. `Sync` is `upsertEvents`: the start and the state become whatever the
  source says, also a start whose window is over, and a fixture that had kicked off may be scheduled again;
  `since` is when the row last got what it has. A batch job is one step, since `DeliveryClaims` has its detail.
- **StreamSlots.** `Claim` is the eviction loop, the registration and the call of `fetch`, which have
  no await between them. `linked` holds the requests whose controller can still close their
  provider connection. Requests in `Viewers` use the shared route.
- **UpstreamCache.** `cached` is the Map in insertion order. `Answer` stores, counts and evicts in one
  step; `Settle` is the later microtask in which the waiting go on and the key leaves the map.
- **Settlement.** A handler is a webhook request; its transaction's statements see what was
  committed when each began, an updated row is locked until the commit, and writes land at it.
  `together` is a ghost of the pairs of one reader's terms of which each was granted before the other was
  committed; a rollback (`Undone`) takes its pairs with it.
- **LiveLine.** `issued` is the provider's lines and when each ends. `Create` and `Extend` are the provider's
  effect; the answer, the seal, the row and the list come in later steps. `Stops` ends a call at
  any of its steps and keeps what was done so far: a refusal before the effect, a lost answer after it,
  a statement that fails, a death. `Lock` may come under a call, and `Seal` and `Import` look
  at the vault again. `beside` (calls that met another), `orphans` (lines whose call ended before it
  had saved them) and `unread` (lines extended without the row knowing) are ghosts.
- **Playlists.** A body is the address it came from and the provider's version of it. The order by
  position and id is a relation, `before`, on the set `rows`: an insert comes after all rows,
  `makePlaylistPrimary` puts one in front. `Stops` ends an import after any of its statements,
  without `restorePrevious`: a statement that throws outside the one `catch` that restores, or a death.
  `disturbed` are the rows two imports were at work on, or opened under one; `amiss` says of each row
  what an import that ended had still to write, until the list is read anew.
- **Mirror.** Time is in units of which `Lag` of upstream's stamps may be late; `owes` and `orphaned`
  are ghosts. A parked walk is `pending` in the cursor, as in the row.
- **Guesses.** A try is under way from its count to its record. `atOnce` is how many were at most, `since`
  what the account's password has been since a try was counted, `tested` the guesses that were hashed.
- **InviteMail.** `together` has a reader of whom two submissions overlapped, and an address two of them had in
  hand between the look and the row; `unwritten` whom a mail was not written down for.
- **Channels.** A check is a probe of one row after another; a play (`Play`, `PlayShared`) is one request
  of `openStream`. Both write through `verdictToStore`. `basis` is a ghost: what the last verdict of a row
  was taken from. The window is of the rows a term finds, and ranking comes after it.
- **SharedRadio.** `AskShare` and `AskGrant` are the routes up to and with `isMember`, `SetSharing` and
  `SetGrant` the statements after it. `page` is the line a page was drawn for, `lineOf` the line an
  address was minted for: a player may come back with either whenever it likes. `Proxy` takes any address
  and uses the asker's own line, `SharedProxy` any address over a line that is shared with them now; with an
  address whose bytes are in memory or on their way (`kept`, `Collapse`) no line is used and none is asked
  about. `UsedAsMeant` is about the use of a line, and not about those bytes. `chosen` and `named` are
  ghosts of what the owner asked for while entitled to, `crossed` the lines over which two requests
  found no address at once. The bytes are `UpstreamCache`'s and the bearer `RadioSession`'s.
- **Webhooks.** A scanner is one worker's loop; `kind` counts through the kinds of a pass, `rows` are
  its candidates and then the one it is sending, `todo` what it claimed and has not counted yet. A
  fixture keeps its start. `told` and `spent` are ghosts beside `marks` and `rate`.
- **Credits.** A redemption or an acceptance and its grant are separate statements; `job` is what a
  request has between them, `lost` a ghost of the grants that failed or died there, which
  `GrantByHand` repeats. `most` is a ghost: the largest quota a reader had.
- **Vault.** `memory` is each process's list of who has a vault, which lags behind the row; `stored`
  is a value and the key it is under (`v1` the server's, `v2` the vault's); `hand` is what a
  migration has read and not written back; `crossed` are values it wrote over a blind write.
- **Composites.** `MCLive`, `MCSources`, `MCAccounts` and `MCReaders` put parts that share no state
  with each other into one run: a behaviour is of one `subject`, and the others stay as they
  begin. They add no interaction; each property is a conjunction over the parts.

## 3. Runs

All runs are for `tlc -config <run>.cfg <MC module>`. `CHECK_DEADLOCK FALSE` is set because every
model has an end: jobs finish, requests are made once, and clocks are bounded.

| run | question | answer |
|---|---|---|
| `claims_core` | do claims stay exclusive, is what is left at sent only what an execution that died or threw had not settled, and do they implement the promise? | yes |
| `fanout_moved` | is every due reminder matched, if it stood for an interval of its window, and fanned out once, while syncs move the fixture anywhere and readers come and go? | yes |
| `fanout_skip` | can paging skip a row it read? (`workers.js:92-93` says not) | **it can**, on a retry |
| `slots_core` | ceiling, accounting of every way a stream ends | hold |
| `slots_sniff` | is an evicted connection gone before the next is opened? (`proxy.js:273-274`) | **not** once its body was sniffed |
| `sale_core` | seats, terms that stack onto what is committed, and what is paid given once, through repeated and concurrent webhooks | hold |
| `sale_terms` | does computing the start in the statement keep two webhooks' terms apart? (`live/src/index.js:71-72`, `membership.js:52-55`) | **not** when both are open at once |
| `sale_seats` | does a payment claim one seat? (`app.js:4163`) | **not** a buyer's second for the same fixture |
| `parts_live` | do jobs end, is whoever follows throughout told over full and short pages, do slots come back, fetches end, payments get granted, plays reach their log? and the cache's safety | yes, under the fairness below |
| `sources_core` | lists and lines, the mirror, the pollers, the sweeps | hold |
| `accounts_core` | sign-in, passwords, passkeys, backoff, invite mail, readers, channels and matching | hold |
| `readers_core` | webhooks, radio and shared lines, players, the push toggle, credits, the vault | hold |

Each bold answer is a disagreement between the code and what it says of itself, described under
`findings`. Every property of a passing run falls to the mutant listed for it.

### Bounds

- *claims_core*: two jobs with one reader, one of which is added again after its id is evicted; two
  slots, two attempts. Exclusion is a matter of two executions and one key.
- *fanout_moved*: two readers on pages of one; in *parts_live* full and short last pages. A window longer than the interval by one tick is the smallest the code's own
  assumption allows; the clock ends well after the first job has left retention.
- *slots_core*: two requests of the owner and one viewer, a line of up to two: enough for an
  eviction of two at once after the allowance was lowered, and a viewer facing a full line.
- *sale_core*: one seat for two readers and one reader with two memberships, two handlers, one death;
  one payment is an abandoned attempt that expires, one gets the second settling event.
- *sources_core*: three list ids, one address of the reader's own and the line, two imports of which one
  ends early; three lines over one month boundary, with one call that ends early; a mirror of two fixtures, one log
  and one league with a budget of two pages an hour; two fixtures under the pollers; two leagues, one
  born during the run and one dead, two processes, a deploy and a fault.
- *accounts_core*: two links and two requests for sign-in; three callers, a map of one and two attempts in
  progress for the backoff; three tries of a password at a limit of one; three checks of two challenges;
  two submissions to three addresses; three requests between two readers whose threads show one
  message; four rows on two lists and a window of three for the offers.
- *readers_core*: two scanners and one fixture with two kinds, or one line that moves; three calls of a
  radio session and two sign-ins; one line with its owner, one listener, two requests, one edit at
  a time and two addresses, so that one lapses while the other is handed out; two pages and three presses; two pages, two users and two
  endpoints for the toggle; two requests for a code, and two invites; two sealed values, one
  migration, one edit, one fault for the vault.
- *parts_live*: one job, one owner and one viewer on a line of one, two keys, one pass, two fixtures.

A bound is a constant and its declaration says so.

### Fairness

Used in `parts_live` only.

- *Claims*: a living worker goes on, the queue hands out waiting jobs again and again and notices
  abandoned ones; no death, fault or success of a send is assumed.
- *Fan-out*: workers and timers go on.
- *Slots*: database reads answer, the connect timer ends a silent connect, an aborted fetch rejects,
  and a pipe with a dead end is torn down. No provider is assumed to send anything: `sniffAndRewind`
  (`proxy.js:58`) has no timer after the headers, so a body being sniffed for a reader who left before
  the claim, whom its abort no longer reaches, may hold its slot for good. `GoneGivesBack` says so.
- *Cache*: the upstream answers or fails within its timeout, and promises settle.
- *Payments*: requests go on, and CoinPay repeats what was not answered with a 200.
- *Fixtures*: the timers of the sweep, the live and the plays tick fire. Failed reads are left out of
  that run (`MaxFaults` 0): with them a read may fail for ever.

## 4. Findings

- **fanout_skip** (`workers.js:126`): a batch job's id names its place in the paging and not its
  readers, so a retried fan-out whose first page changed adds nothing and moves past somebody.
- **slots_sniff** (`proxy.js:222`): once a body was sniffed nothing listens to the eviction any more.
- **sale_seats** (`app.js:4170`): the guard of a seat asks for an entitlement that names the payment;
  a second payment of one buyer never gets one, and claims a seat with every delivery.
- **sale_terms** (`live/src/index.js:91`, `membership.js:74`): a statement at READ COMMITTED reads what was
  committed when it began, so two transactions of one reader start their terms at the same day.

## 5. Proofs

| module | theorem | says |
|---|---|---|
| `DeliveryClaims_proofs` | `TypeCorrect`, `ClaimsConsistent` | `TypeOK`; `ClaimInvariant` |
| | `AtMostOnce`, `OneHolderAlways`, `NothingAfterSuccess` | one successful send; one holder per claim; no send after a success |
| | `NothingDropped` | `SentMeansTold` |
| | `Refinement` | `Spec => ImplementsPromise` |
| | `PushTypesCorrect`, `SubscribedAreStored` | `TypeOK`, `SubscribedIsStored` of `Push` |
| `ReminderFanout_proofs` | `TypesKept`, `NothingMissed`, `OneFanout` | `TypeOK`, `NeverMissed`, `OneFanoutPerDue` |
| | `HookTypesCorrect`, `ToldOnceEach`, `CapIsKept` | `TypeOK`, `AnnouncedOnce`, `CapKept` of `Webhooks` |
| `StreamSlots_proofs` | `TypeCorrect`, `CeilingIsKept`, `RegistryIsHonest`, `ClosableAreBounded`, `ViewersAreGuests` | `TypeOK`, `CeilingKept`, `RegistryHonest`, the closable connections within the allowance, `ViewersEvictNobody` |
| | `OneFetchAtATime` | `OneFetchPerKey` of `UpstreamCache`, and that nobody awaits a fetch that has ended |
| | `PlayerTypesCorrect`, `NothingPlaysAstray`, `LeftIsSilent`, `UnprobedWhilePlaying` | `TypeOK`, `NoStrayPlayer`, `LeftPagesSilent`, `NoCheckBesideStream` of `PagePlayer` |
| `Settlement_proofs` | `TypeCorrect`, `SeatsAreRight`, `TermsAreStacked` | `TypeOK`, `SeatsRight`, `TermsStack` |
| | `Refinement` | `NoRebuy => (Spec => ImplementsPaidOnce)` |
| | `CreditTypesCorrect`, `NothingIsSpentForNothing`, `DaysAreEarned`, `InvitesAreScarce`, `LiveIsUsable` | `TypeOK`, `SpentIsGranted` and `BothSidesGranted`, `TermsEarned`, `InvitesScarce`, `LiveSpentWhereUsable` of `Credits` |
| `SignIn_proofs` | `TypeCorrect`, `LinksAreSpent`, `ArrivalsArePaidOnce`, `NobodyIsLockedOut`, `BindingsStay` | `TypeOK`, `OneSessionPerLink`, `RewardsOnce`, `NobodyLockedOut`, `BindingNeverMoves` |
| | `ChallengesAreSpent`, `CountersAdvance` | `ChallengeUsedOnce`, `CounterAdvances` of `Passkeys` |
| | `NoneIsNoPassword`, `GuessesAreCounted` | `NoPasswordNoEntry`, and `GuessesBounded` where tries come one after another, of `Guesses` |
| | `BlocksPart`, `RatesHold`, `ThreadsAreRead` | `BlockedDoNotFollow`, `RatesKept`, `ThreadsRead` of `People` |
| | `RelayIsClosed`, `MonthIsQuiet` | `DailyLimitKept`, `MonthOfQuiet` of `InviteMail` |
| `Mirror_proofs` | `TypeCorrect`, `NothingIsPassedBy` | `TypeOK`, `MirrorMissesNothing` |
| | `FeedTypesCorrect`, `ClosedLogsAreWhole`, `ListingsStay` | `TypeOK`, `ClosedIsComplete`, `ListingNeverUndone` of `Fixtures` |
| `Playlists_proofs` | `TypeCorrect`, `ListsAreHonest` | `TypeOK`, `ListsHonest` of `Playlists` |
| | `LineTypeCorrect`, `OneLineIsHeld` | `TypeOK`, `LineHeld` of `LiveLine` |
| | `ChannelTypesCorrect`, `VerdictsAreEarned` | `TypeOK`, `VerdictsEarned` of `Channels` |
| | `RankedRowsAreAll`, `NamedComeFirst` | `NarrowingLosesNothing`, `RightOneFirst` of `Ranking` |
| `Vault_proofs` | `TypeCorrect`, `NothingIsLostOrLeft`, `NothingGoesBack` | `TypeOK`, `VaultKeeps`, no value back from v2 to v1 |
| | `RadioTypesCorrect`, `HeldAsStored`, `OneLoadForAll` | `TypeOK`, `HeldIsStored`, `OneLoad` and `WaitsForALoad` of `RadioSession` |
| | `SharedTypesCorrect`, `UsedAsTheOwnerMeant`, `NobodyNamedWithoutALine`, `OneAddressALine` | `TypeOK`, `UsedAsMeant`, `NamesGoWithTheLine`, `OneAddress` of `SharedRadio` |

The properties of `DeliveryClaims`, `ReminderFanout`, `StreamSlots` and `Settlement` are checked by runs
of their own; those of all the others are conjuncts of what the composites' runs check. Every further
component of a proof module is a named instance there, with variables of its own: `Push`, the endpoints
that reminders go to, in `DeliveryClaims_proofs`; `Webhooks`, the other scan that announces a fixture, in
`ReminderFanout_proofs`; `UpstreamCache` and `PagePlayer`, the radio's streams and what a tab plays, in
`StreamSlots_proofs`; `Credits`, the other way to a term, in `Settlement_proofs`; `LiveLine`,
`Channels` and `Ranking`, the line that a provisioned list plays, what is known of its channels and
which of them a fixture is offered, in `Playlists_proofs`; `RadioSession`, whose token and row are sealed by the vault, and `SharedRadio`, the
same lines opened to others, in `Vault_proofs`; `Fixtures`, the direct pollers, in `Mirror_proofs`; and
in `SignIn_proofs` `Passkeys` and `Guesses`, the other ways into an account, with `People` and
`InviteMail`, what is done from one.

### Arguments

Few of these properties are inductive as they stand; what is added, and why:

- *Claims.* What an execution holds was claimed and is held by nobody else, a key told is closed for
  good, an execution's lists are disjoint, and an idle one holds nothing (`Consistent`). The
  refinement maps each key to a phase of the promise and follows from the same invariant. For
  `SentMeansTold`, `InTurn` says that an execution settles one channel after the other and holds nothing when it
  is done, and `Accounted` that a row at `sent` whose reader was not told is in some execution's hands
  or fell from them: `dropped`, a ghost, has the keys an execution held when it died or threw. Retries,
  stalls, lost locks and ids added again need no exemption.
- *Fan-out.* `FanoutInv`: once a fan-out of the present due has completed, its job is retained or the
  window has passed, because retention is at least the lookback and a job ends after it was due.
  `OnTime`: an unmatched fixture was not due before the last scan, or was written after it (`since`), so that
  with a lookback longer than the interval the windows overlap. A job that may still run has an attempt left.
- *Webhooks.* A fixture or reading is `Open` while a scan may still announce it by the clock, and
  `Closed` when it has a mark or is no longer open. Closed is for good: the clock only goes on, and
  a mark is pruned only when what it marks is over, since a mark outlives the window (`MarkInv`). What was
  told, and what a scanner holds to tell, is closed, and nobody else holds it (`ToldInv`, `WorkInv`);
  what a scanner claims was open and unmarked (`ReadInv`), therefore neither told nor held. What the pollers
  write into a fixture's state plays no part, which is why it may go back and forth. For the cap,
  what was sent is at most what was counted (`SpentInv`).
- *Slots.* `RegistryInv`: the registry has no request twice, no slot stands before the allowance of the
  newest, no request that ended has one, and a connection that can be closed has one. The newest slot's
  own allowance is what bounds the rest, since older ones may have been claimed under a higher one.
- *Toggle.* `HandInv`: a page knows of no subscription that was not handed out, and since an endpoint
  never comes back the one a page has turned off is not the browser's any more. So forgetting a row is
  never forgetting the row of what the browser has.
- *Player.* A section's player is the one it holds and is of its newest press, with nothing left to
  sweep (`HeldInv`); a waiting press that is the newest finds its section silent, and no two of one
  section have a generation (`WaitInv`). The chain is of the sections of the page that is shown
  (`TabInv`), so that nothing but a press that still waited outlives the page.
- *Channels.* `ProbeInv`: a request that reads a body has its headers, and one that has heard
  something has either no verdict or one that the answer, or the declared type, proves, so that what
  it writes is earned whatever became of the slot and the row meanwhile.
- *Ranking.* The two properties are of one answer and need nothing before it: `RankedAreAskedFor`, that an
  entry of any tier says a word or phrase the rows were narrowed by, if the game has one; `NamedIsCertain`, that an
  entry with both names is of the first tier unless a name is under four letters (`Brief`); and
  `ScoreCountsWords`, that in the second the entries with every word of both names come first.
- *Cache.* `FlightInv`: a key has one fetch while it is in the map of those in flight and has not
  settled, and none otherwise; a reader waits for a key that is in that map.
- *Settlement.* `IInv` has one writer per row (the lock of READ COMMITTED, held until the commit), only
  what was paid in a transaction, each kind's rows apart, the seats sold as the holders of committed
  and pending claims, each term's row with its payment, terms that overlap only as pairs of `together`, also those about to be committed (`StackInv`), and
  a credit only with what is given. The refinement assumes `NoRebuy`, nobody pays twice for one
  fixture, because without it the code breaks the promise (`sale_seats`).
- *Credits.* What a request has in hand was spent by it (`InHand`); what was granted or lost has the
  redemption or the invite that it is for, and one reader has one term for one reason (`EarnedInv`); an
  invite's two sides are in the hands of at most one request, which has not granted yet what it is
  about to grant (`SidesInv`). An invite that was used
  counts among those held (`QuotaInv`), so that withdrawing it while it is accepted gives nothing
  back. What is owed is either granted or lost when a request ends, in any way (`DueStays`).
- *Sign-in.* What each stage of a request has read (`StageInv`), who spent a link (`LinkInv`), whose
  session it is, which requests made which account, what an invite was used for, and for each account
  without an address the identity or the request that still answers for it (`PlaceholderInv`).
- *Passkeys.* An answer names a challenge that was issued, one that is spent is live no longer, and
  two checks that hold one challenge undeleted are in `raced` (`ChallengeInv`). The counts an
  authenticator signs only grow, so of two answers with one credential the earlier has the smaller
  count unless they are the same answer; the stored counter is of an answer that was verified
  (`CounterInv`).
- *Guesses.* `TryInv`: the password of the account has been in `since` all the while a try is under way, so
  the hash it read is in it too. As long as no two tries overlapped the log of attempts is, entry by entry, what was
  hashed, but for the one about to be recorded, and no entry was hashed later than it was recorded
  (`OneTryInv`); so the wrong ones hashed within a window are among those counted, plus one.
- *People.* `CheckInv`: a follow past its check found no block, or its pair is in `crossed`. `RateInv`:
  whoever has one request at a time still has room for what that request is about to write; time
  only empties the window. `ThreadInv`: a request that opened a thread has read what it shows before
  it marks, messages are only added, and one that is not recent never is again.
- *Mail.* A reader without overlapping submissions has one under way, and an address outside `together` is in one
  hand (`OnePostInv`), whatever the others do. In any stretch of time such a reader's mails are at most the rows that say so, plus the one
  about to be written down (`LimitInv`), for every stretch because the day moves; and the rows of a
  day leave room for what the post under way is still allowed. A mail that went is in the rows, not
  earlier than it went, or is in hand or in `unwritten`; an address in hand had its quiet when it was
  picked and nobody else had it since (`QuietInv`).
- *Mirror.* A change is *late* when its item is behind the walk in progress. The invariant says of the
  saved cursor, of the pass's copy, of the walk in progress and of a parked one that every change
  before their `since` is on its row or still ahead of the walk, and that a stamp is never older
  than `Lag`; the step in which a walk ends moves `since` to its start less the overlap, which
  covers what came late. Types need the walks a cursor can park (`Walks`, `Cursors`).
- *Lists.* A row that is gone, or not there yet, has left nothing (`NothingLeft`), and two imports at one
  list are in `disturbed` (`Lone`), so that of any other list at most one import is to be looked at.
  `JobInv` says what an import's locals hold by the way it came in and how far it got; `ListInv` of a
  list, that it is `Sound` when nobody is at work on it and otherwise what the stage of its import has
  done so far: `Adding` while it has no channels yet, `Changing` while it keeps those of the address
  it had. Each part is asked of a list only if `amiss` does not name it; an import that stops names just what
  its later statements would have put right, and the next that gets as far clears it. A list that vanishes under an import takes the whole claim with it, and an id comes back
  only when no import names it.
- *Line.* While nothing overlapped one call is alone; every line that is open is an orphan, the row's, or in the
  hands of the call that opened it (`Placed`); the row knows its line unless that is `unread`
  (`RowKnown`); and per stage what the call has read is what the row or the provider has (`Hand`). A call that stops
  lets go of its line, which is an orphan then. `LineKnown` holds throughout.
- *Vault.* For each value, a migration's copy is of the latest edit or the value is `crossed`
  (`HandInv`, `EditInv`); once both processes know of the vault (`Known`) no draft is under v1 and
  none can be begun, so a migration that is `sure` has left v2 behind it at every value it passed
  (`MoveInv`), and `SettledInv` keeps that after it ended.
- *Radio.* `LoadInv`: the load that callers find in flight is one that is under way, a load that was
  not dropped is that one, and whoever waits waits for a load under way. `TokenInv`: a load that was
  not dropped works on a token of the session that is stored, and saves or holds what it got only
  with the vault open, so what is held is of the row.
- *Shared lines.* An edit past its gate was its owner's to make (`GateInv`), so that a row that is open
  is open to whom the owner asked for and whoever is granted was named (`OpenInv`), in spite of a
  membership that ends between the gate and the statement; with it every request let in was meant to
  be (`GateOpenInv`), and one that uses a line is over somebody's (`OnLineInv`), whatever address it
  names (`AddressedInv`). `AddressInv`: an address that has not lapsed is the one that is held for its line, and whoever
  is minting found none and still finds none, unless two are at it.
- *Pollers.* A fixture that a row or an answer calls over is over (`PollsInv`); a log has nothing that
  was not told, and a closed one is of a fixture that is over, whole and recapped (`LogsInv`). `TickInv` follows a fixture that was over when it was chosen through
  the insert, after which it has every play, the recap and the close.

### Assumptions

The named `ASSUME`s of the modules, and `ConstantsType` in the modules that composites
instantiate, where the theorem reads `ASSUME ConstantsType PROVE ...` and the composite assumes it, so that
TLC evaluates it. They say that bounds are naturals, that `None` is not a value, and, where the
code has it, an inequality between its own constants (a lookback longer than the interval, retention at
least the window, a mark kept longer than the window, a lag within the overlap). `Ranking`'s says only that names
are sequences of words; games of short names are among the cases, and the properties name the gap they fall into
(`HasTerms`, `Brief`). `GuessesAreCounted` is of tries one after another (`atOnce = 1`); the bound for tries
that overlap stays with TLC.

### What stays with TLC

Liveness, and `ENABLED` with it. Induction over data: `CacheBounded` is about a fold over what is
cached, `MapBounded` of `Backoff` about how many of a sequence a filter leaves, its locks grow by a
power, and `EveryLineSpeaks` of `Channels` is about rows put in order and lists strung together.
Recursive operators: `Carriers` reads names letter by letter. `OtherGamesStayOut` of `Ranking`, which
is about the words of the given cases and need not hold of others. The composites, which add no interaction: what their invariants say is proved part by part. `Sweeps`,
whose bound is about the order of boots, timers and jobs within one instant, is model-checked only.

## 6. What was met on the way

Disagreements and limits seen while modelling, which no run is kept for.

- Reminders: `runBatch` settles its sends and returns, so a failed one is never retried (contrary to
  `notify/src/index.js:23-24`), and does not look at the clock, so a batch that waited is late (contrary
  to `README.md:70-71`); a send whose answer is lost is repeated by nobody but a second execution
  can duplicate it (`README.md:68-69`). After a move of more than an hour retained page ids can swallow pages. A fixture that a sync pulls forward
  past its window, or so far into it that less than an interval of it is left, gets no reminder
  (`queries.js:1807-1820`); `NeverMissed` asks for that interval.
- Streams: an earlier press may evict a later one (`app.js:2031-2032`), since claims follow the database's
  order; slots are counted per account, lines are per list. The cache's byte counter drifts from
  what it holds, so an entry may go earlier than it must.
- Payments: a call that ends between the line at the provider and its row, or finds the vault locked
  there, loses the line, and the next buys another (`live/src/index.js:140-153`); reconnecting a CoinPay account grants the first pass again.
- Lists: an error other than an empty list in `replacePlaylistChannels` is thrown on without
  `restorePrevious` (`playlists/src/index.js:255`), so an edit keeps the new address over the old channels and
  an add leaves an empty list; likewise a throw of `markPlaylistFresh` (`:272`) leaves the hash behind, and one before
  `setPlaylistManaged` leaves our line in a list that is not marked as ours. `MAX_PLAYLISTS` is read before the download, so two adds may pass it. The panel's answer for
  one list is written to every list of the reader (`queries.js:1061`, against `:1003`).
  `reorderPlaylists` is used by nobody.
- Channels: three large lists share one window, so the third may go unasked; the owner's check looks at
  the slots before the row, the shared one after; a verdict that hides a row moves the numbers of `?n=`.
  A body cut short, by the timeout or because the reader left, is judged by its declared type, so a declared page
  is written down dead although `probe.js:238-242` rules that out. A player believes a declared page
  before any byte, and a channel that is an HLS playlist, which other players take, is hidden for the half hour of a
  definite no once it was pressed in the page's player.
- Matching: `hasWhole` takes no name under four letters (`m3u.js:139`), so a row that names "PSG" and the other
  side in full is never of the first tier. A fixture of short words only ("Li Na" v "Wu Di") would rank but is never asked of the
  database (`m3u.js:411-417`); two broadcasters of one listing may name the same row.
- Feeds: the walk of the broadcast pass clears a parked walk (against `nichedbsports.js:36-40`); a
  death loses what was spent of the hour; the stale sweep may put a row back until the next pass; a
  finished fixture whose log always fails holds its place until the catch-up ends; `syncLeague` names
  an undefined `log` in its failure path (`sports/src/index.js:430`).
- Sweeps: leagues that stay unnamed start a full sweep at every boot; the newest stamp is fresh after the
  first league of a sweep; two processes run two sync jobs at once, whatever the concurrency of each.
- Webhooks: a claim is written before the announcement, so a failure in between drops it; an endpoint
  added during a pass is not told; a fixture postponed past the pruning is announced again.
- Radio: a load in flight revives a session that was disconnected or locked meanwhile (`session.js:163`);
  a failed verify puts an older sign-in back over a newer one (`pending.js:40`).
- Shared lines: `/radio/proxy` takes any SiriusXM address, whoever it was minted for, and `sharedFetch` goes by
  the address alone (`app.js:3922-3929`, `upstream-cache.js:57-62`), so what is in memory is served without
  asking whose line it came over. `tune` collapses nothing, so two listeners who find no address at once, or who hold
  addresses minted a minute apart, are two upstream fetches of one channel (`app.js:3952-3953`
  says "Twenty followers on one channel is still one connection"); a lapsed member may open a line
  from friends to everyone and may not narrow it from everyone to friends (`app.js:4003-4005`).
- Pages: a press that waits for its bundle outlives a navigation; two presses whose bundle fails start two
  sweeps. A subscribe that completes after its deadline leaves the browser subscribed without a
  row, and a save that lands after "turn off" leaves the toggle on with no subscription.
- Vault: provider lines and radio sessions are written back without looking
  (`queries.js:4628-4633`, `:4679-4684`), which is why `crossed` exists; a worker may seal under the
  server's key for up to a minute after a vault is made.

### Not modelled

- Contents: message texts, formats, parsing of lists and provider answers, hashing and sealing.
- More than one offset or fixture at once in `ReminderFanout`; eviction by count; two executions of one fan-out.
- More than one reader's lists, line or vault at once (rows are per reader).
- The 12-hour window and the odds archive of the pollers; `SYNC_ON_BOOT`; pruning of rate rows.
- What the vendored packages for credits, throttling and web push do inside a call: it is atomic here.
- The components marked `not_modelled` or `partly` in `PROJECT.json`, with the reason for each.

## 7. Plan

1. A proof of `LeaguesSwept`, from what a boot, a timer and a job owe each other within an instant.
2. `Mirror`: that the cursor never goes back.
3. A composition of `ReminderFanout` with `DeliveryClaims`, for the claim that a repeated page tells
   nobody twice.
