# TLA+ verification of ourdao-backend

ourdao-backend tails the events of one or several Soroban contracts, keeps them
in a raw log, folds them into derived tables (members, loans, proposals,
treasury, tallies) and serves those over a REST API and an SSE stream. This
directory holds TLA+ models of it, TLC configurations that check them on
small instances, and TLAPS proofs that hold for every value of the constants.

Running it (from this directory):

    tlc -workers 2 -config IndexerFaults.cfg MCIndexer     # any run of PROJECT.json
    tlapm IndexerProofs.tla                                # any module with theorems

`PROJECT.json` maps every definition to the lines it models and lists the runs,
the mutants (each property with a plausible bug that breaks it), the hazards,
the findings and the theorems.

## 1. Inventory

| Part | Source | State | Operations | What makes it correct |
|---|---|---|---|---|
| Indexer worker | `src/indexer/poller.ts`, `src/worker.ts` | `indexer_cursor`, `events` (raw log, `folded_at`), derived tables, the locals of a `fetchOnce` call | poll, fetch a page, fold it in one transaction, save the cursor, drain | nothing the cursor passed is lost; nothing is applied twice |
| Quarantine | `poller.ts` 412-735 | `failed_events`, `quarantine_state` and its copy in memory | count failures of a page, per-event mode, record an event | a failing event neither blocks the page nor disappears |
| Replay | `src/indexer/replay.ts` | `failed_events`, the lock | fold one quarantined event | folded once, under the lock |
| Reindex | `src/indexer/reindex.ts` | every derived table, the lock | truncate, apply the whole log, resolve the books | the result is the fold of the log |
| Reset | `poller.ts` 116-195 | cursors, derived tables | on a contract change, start again | the log still covers the cursors |
| Admin, retention | `routes/index.ts`, `schema.sql` | `failed_events` | batch-resolve, delete expired rows | no open row disappears |
| Reorg detection | `poller.ts`, `clear-reorg.ts` | `reorg_halts`, the cursor's ledger hash and resume token | compare tip, hash and page, halt, refuse to resume, clear | events of two histories are not folded into one log; a false alarm ends |
| Fold | `handlers.ts`, `stellar/events.ts` | derived tables | one handler per event symbol | tables mirror the contract; totals, days and rows agree in any order of replay |
| Notifications | `handlers.ts`, `routes/index.ts`, `reindex.ts` | `notifications`, read flags | notify, mark read, save and restore flags | owners only; read stays read; nobody is told twice |
| SSE stream | `src/api/stream.ts` | clients, queues, frontier, last reorg | dispatch, write, queue, drain, heartbeat, close | frames kept, no client wedged, a client that missed something is told |
| LISTEN connection, admission | `stream.ts` 244-422, 800-873 | one pg client, reconnect timer, counts per address | connect, reconnect with back-off, shut down, admit a stream | it comes back; a shutdown ends; the caps hold |
| Authentication | `src/auth.ts` | nonces, in memory or in Postgres | issue, consume, expire | a nonce is used once, by its address; caps hold |
| Caches | `cache/redis.ts`, `api/history-cache.ts` | Redis keys, a local copy | read through, invalidate | who is told of a change reads it; nothing stays stale |
| `GET /stats` | `routes/index.ts` 1376-1606, `load-shedding.ts` | cached figures, a gate | recompute, serve, shed | figures do not go back |
| Other routes, rate limits | `api/*` | none | reads | - |
| Migrations, start-up, shutdown | `db/*`, `index.ts`, `worker.ts` | schema version, process state | migrate, close in order | - |

How they interact. The worker, `replay` and `reindex` are separate processes that
share nothing but Postgres; one session-level advisory lock (`REINDEX_LOCK_KEY`)
serializes their folds. The raw insert of per-event mode, the fold's
transaction, the `failed_events` upsert, the quarantine count and the cursor
write are separate statements or transactions, so a crash or a failing
statement fits between any two. After a commit the folder sends NOTIFYs; the
API process receives them on one LISTEN connection and fans them out to its
SSE clients in memory. A recorded reorg halts the worker and is broadcast to
the clients.

What is hard here: crashes and failing writes between those steps, page
retries, two workers during a handoff, an operator at work while the worker
polls, a quarantine count that lives in two places; a chain that forks between a
check and the write that relies on it; events folded after later ones; on the
stream, backpressure, timers that race a 'drain', browsers that come and go and
a connection that is lost while it is being replaced; in the API, checks and
updates in separate statements, and caches filled from reads that an
invalidation overtakes.
`PROJECT.json` lists each hazard at its line with the property that would catch
it.

## 2. Modules

| Module | Contents |
|---|---|
| `Indexer` | the worker with its quarantine, replay, reindex, reset, admin and retention |
| `IndexerProofs` | type correctness, the freshness of fold decisions, the invariants on log, counts and books, and the theorems about loss and double counting |
| `MCIndexer` | instances of `Indexer` for TLC |
| `Reorg` | a chain that forks, the worker's three checks, halts, `reorg:clear`, the reindex that clears one |
| `ReorgProofs` | one history in the log, nothing skipped, and what a halt of the continuity check means, proved |
| `EventFold` | every handler on the derived tables, beside the contract's own state; replay, redelivery, rebuild |
| `FoldProofs` | what every handler does, the books, mirroring, and that a rebuild is what the worker built, proved |
| `Stream` | NOTIFY dispatch and the SSE clients |
| `StreamProofs` | type correctness, absence of lost wake-ups, the id frontier and that no frame is lost or repeated, proved |
| `MCStream` | instances of `Stream` for TLC |
| `StreamListener` | the LISTEN connection, its reconnect and shutdown, and stream admission |
| `NonceStore` | abstract: what a store of nonces promises |
| `MemoryNonces`, `PostgresNonces` | the two stores, each shown to implement `NonceStore` |
| `NonceProofs` | both refinements, the exact counts of one store and the overshoot of the other, proved |
| `Notifications` | the notifications table, its routes with authentication, and the rebuild |
| `MemberCache` | the Redis read-through cache of members against three kinds of invalidation |
| `CacheProofs` | that nothing older than an announcement is served, proved |
| `HistoryCache` | the history cache, in Redis and in each API process |
| `StatsRoute` | the gate and the cached figures of `GET /stats` |
| `MCFolding` | for TLC: `Reorg`, and `EventFold` in four scenarios |
| `Serving` | both nonce stores, `Notifications` and `MemberCache` side by side |
| `ServingProofs` | `Notifications`, and that the composition adds nothing to its components, proved |
| `MCServing` | an instance of `Serving` for TLC |
| `Recovery` | `StreamListener`, `Reorg`, `MemberCache`, `HistoryCache` and `StatsRoute` side by side, with fairness |
| `RecoveryProofs` | stream admission, the two caches of figures, and the types of the composition, proved |
| `MCRecovery` | an instance of `Recovery` for TLC |

`MCFolding`, `Serving` and `Recovery` hold several components that share no variable.
Their full product would only multiply states, so a variable `subject`, chosen at the
start, says which component a behaviour follows; the others stand still. A property of
one component's variables holds in that sum exactly if it holds of the component
alone: when another one is the subject, its variables keep their initial values,
in which none of the properties has anything left to come
(and a fair behaviour of the component is one of the sum in which it is the subject,
since each fairness condition is guarded by `subject`). That a component's
specification follows from the composition's is the lemma `ComponentsImplied` of
`ServingProofs` and of `RecoveryProofs`; what is proved of a component thereby holds of
the composition a run checks.

### Indexer

An event is a pair `<<contract, position>>`. What a handler writes is abstracted
to `derived[e]`, how often the event's effect is in the derived tables: tallies
and balances are increments, so they are right exactly when each event is in
them once. `raw`, `folded`, `failed`, `cursor`, `rows` and `quarantine` are the
tables and columns of the same names; `lock` is the set of sessions holding the
advisory lock. A worker's `step` says where it stands:

    down -> idle -> fetch -> load -> page -> txn -> clear -> save -> idle or fetch
                                       \-> failed -> idle, or each
                                           each -> fold -> each   (or record -> each)
                                           each -> clear

`page` is `ingestPageWithQuarantine` before the whole-page transaction, `txn` the
open transaction (`todo` are its needsFold answers), `failed` the catch block
that counts, `each`/`fold`/`record` the per-event mode, `save` the cursor
write. One action is what runs between two awaits that another session can
observe; `Fault` marks the alternatives in which a statement fails, also a
COMMIT that took effect and whose acknowledgement was lost. `Exit` takes the
process down at any step, and its session-level lock goes with it.

Abstractions: pages are intervals of positions behind the cursor; a page's key
(first event, last event, error message) is kept because the count depends on
it; the count saturates at the threshold; back-off delays are not modelled (a
poll may come at any time); the chain only grows.

`dismissed`, `lost` and `rebuilt` are history: an admin resolved an event that
was not folded, the upsert of an event failed and only a log line names it, a
reindex applied an event whose `folded_at` was NULL.

### Reorg

The chain is a sequence of ledgers with or without an event; a fork drops a
suffix and begins a new branch, and a ledger's hash is the branch it comes
from. An RPC answer comes from some node up to `MaxLag` ledgers behind, and a
page covers at least one and at most `ScanWindow` ledgers, so empty pages whose token
moves on occur. A node may also not honour the token it is given and answer from a
position behind it (`Froms`), which is what the continuity check is there for.
`fetchOnce` is `tip -> hash -> page -> save`, once per page of the drain;
`page` is the open transaction, `halting` the catch that records the halt (and may
fail to, `RecordHaltFails`). The log maps an event id to the branch its row was
taken from: a row that exists keeps its body. `unchecked` is history: a fold went
ahead without a hash check that vouched for it, because the RPC could not answer
for the pinned ledger or the chain forked after the check. `undercut`: a fork dropped
ledgers the resume token had passed. `backtracks` counts the pages that began behind
their token.

### EventFold

Each handler of `handlers.ts` is an operator from an event and the tables to the
tables, under the source's name; `Required(symbol)` are the fields a handler throws
without. The contract is external: `contract` is its own state, and its actions
append to `published` the events that its transitions imply. Amounts are small
numbers (a loan of 2 that costs 3), `DayLength` events make a day of
`daily_loan_stats`. `Fold`, `Quarantine`, `Redeliver`, `Replay` and
`reindexFromEventLog` are each the one transaction they commit; how they exclude each
other is the subject of `Indexer`. `Rebuild(log, n)` is what a reindex computes from
the first `n` rows. `applied` is history: the order the tables were folded in.
A `scenario`, chosen at the start, says which symbols and loans of the contract occur and
how many events, quarantined events, redeliveries (and of pages of which size) and
rebuilds there may be; the theorems hold for any set of scenarios.

### Notifications

`Challenge`, `Admit` (signature first, then the nonce, as `authenticateRequest`
does), `Select` and `Update` are the statements of a request; `SaveReads` and
`RebuildTable` the two halves of a rebuild. A muxed address proves its base
account, a contract address proves none. `renumbered` and `missed` mark the two
windows named in section 4.

### Nonce stores

`NonceStore` says of a nonce that it is fresh, then live for one address, then used
by it or lapsed. Both stores map to it: a nonce is used once an address
consumed it, lapsed once it is out of the map (or its row past its expiry). The
in-memory store is one synchronous step per call; the table takes two
statements to issue, which several instances interleave.

### StreamListener

One step is what runs between two awaits. `setup` is where `connect()` stands,
`client` may be live or dead; the request side keeps what a handshake read
before it waited (`saw`). `intruded`: a request began a connect while the lost
connection was being ended. `overlapped`: a handshake waited while another one, or a
close, changed the counts.

### Caches and statistics

A value in `MemberCache` is the version of the database it was read from. After a
commit the poller, a replay or a reindex has a list of jobs (SCAN, DEL, NOTIFY);
any of them may fail, or the process may exit, and a request may have read
before and write after. `HistoryCache` has a copy in Redis and one in each API
process, which nobody but its own process deletes; the indexer invalidates
inside the transaction that increments. `StatsRoute` follows the code to the
letter: `liveStreams` is not defined in the route's scope, so a recomputation caches its
figures and then answers with an error, as does the path that means to serve
stale figures.

### Stream

A message is its number. `conn[c]` is the `StreamClient` of browser `c`
(`paused`, `queue`, `stall`, `retry`, `lastSentLedger` as `sent`) with Node's side
of the socket (`sock`, `needDrain`); `known` and `lastReorg` are
`knownLedger.value` and `lastReorgLedger.value` (0 for null). JavaScript runs a
callback to its end, so every action is one callback. `write()` answers false
when the buffer holds `HighWater` frames, and Node owes a 'drain' after that.
`Outage` is the loss of the LISTEN connection with its return: the clients are
told, NOTIFYs on the way are gone, the frontier is seeded from the cursor.
`Restart` is the end of the process and the start of another one, in a deploy
or after an uncaught exception (one is a payload `null`, which parses at
`stream.ts:193` and throws at line 206): sockets, clients and the module's variables
are gone, and the frontier is what `indexer_cursor` holds then, which the poller writes
only after its NOTIFYs. Another instance behind the same load balancer is to a
browser the same as a new process. `elsewhere` is history: the browsers whose last
id was given by an earlier process and that have received nothing from this one.
NOTIFYs without a ledger are real: `replay` and `reindex` send them.
A broadcast puts its copies on the wire together; a copy whose NOTIFY failed is
not modelled (it would only make the finding below easier to reach).

## 3. Runs

| Run | Instance | Distinct states | Result |
|---|---|---|---|
| `IndexerFaults` | 1 contract, 3 events, pages of 2, threshold 2, first handler broken, 1 fault, 1 exit, replay/reindex/resolve | 466,721 | holds |
| `IndexerHandoff` | 2 workers, 2 events, 1 exit, replay/reindex | 815,379 (symmetric) | holds |
| `IndexerReset` | 2 contracts, 1 event each, reset flag, repointing, 1 fault, 1 exit | 752,741 | holds |
| `IndexerProgress` | 2 contracts, 2 events each, broken handler, 1 fault, 1 exit, fair | 227,535 | holds |
| `IndexerReindexTwice` | as Faults, `AtMostOnce` | - | violated (finding) |
| `IndexerResetKept` | reset flag, `NoSilentLoss` | - | violated (finding) |
| `StreamClients` | 1 browser, 2 channels, queue 2, high-water mark 2, 1 change, 1 reorg, 1 outage, 1 restart, ledgers 0 to 2, fair timers | 370,156 | holds |
| `StreamMissed` | 1 browser, 2 changes | - | violated (finding) |
| `StreamReorg` | 2 browsers, 1 reorg | - | violated (finding) |
| `Folding` | reorg: 3 ledgers, 1 fork, lag 1, grace 1, pages of 1, 2 pages from behind the token; `Members`: 1 loan, 6 events in order; `Lending`: 2 loans, 6 events, 1 quarantined, 1 redelivery, 1 rebuild; `Retrying`: 1 loan, 5 events, 2 quarantined, a page of two redelivered, 1 rebuild; `Treasury`: 3 events, 1 of each fault | 1,528,696 (symmetric) | holds |
| `Serving` | 3 nonces, 2 addresses, caps of 2 (in the table 1 per address), 2 concurrent challenges; 2 accounts, 3 notifications, 2 requests, 1 rebuild; member cache with 2 limits, 2 commits, 1 fault | 571,764 | holds |
| `Recovery` | 3 stream requests from 2 addresses, 2 losses, 2 failed connects; 2 ledgers, 1 fork, lag 1, no grace, 1 page from behind the token; caches with TTL 2, 2 commits, 1 fault, 2 API processes; 3 statistics requests; fair | 294,534 | holds |

What the last three show.

- `Folding`. `NeverFoldsAcrossAFork`: the log holds rows of one history as long as a
  hash check vouched for every fold. `ContinuityHaltMeansBacktrack`: the page check
  halts the worker only if the RPC has answered from behind a token, and no fork,
  lag, empty page or failed poll makes it do so; the run reaches such halts, with a page
  from behind and also with a later one whose own token was honoured. `NothingSkipped`: with START_LEDGER, nothing between it and the token is
  missing. `MirrorsContract`: in order, the tables are the contract's state.
  `BooksBalance`, `NotifiedOnce`, `StaysClosed`: what holds in any order of replay,
  redelivery and rebuild.
- `Serving`. `KeepsPromise` and `TableKeepsPromise`: both stores implement `NonceStore`.
  `CountsExact`, `OvershootBounded`: what the caps amount to. `OnlySignersRead`,
  `ReadStays`: notifications. `ToldIsFresh`: whoever refetches on an announcement reads
  what was announced, and which entries are excused.
- `Recovery`. `ListenerReturns`, `ShutdownReturns`, `FalseAlarmEnds`, `EventuallyFresh`,
  `HistorySettles` under fairness; `AdmissionExact`, `NeverEmptyAgain`,
  `CacheNeverGoesBack` beside them.

`IndexerHandoff` and `IndexerReset` check one property each: `NoSilentLoss` and
`NoDoubleFold` are theorems for any number of workers and, the second, with resets.

Why the bounds are enough. Three events in pages of two give a full page, a
page that ends the drain and a page whose key changes when the tail grows; a
threshold of two separates the first failure from the one that switches modes.
One fault and one exit put every single failure at every point, also together;
more only repeat. Two workers are what an overlapping deployment has. Repointing
needs two contracts and one event. A queue and a buffer of two frames
reach the pause, the overflow, a flush that leaves frames behind (the frames of a
reorg, of a change and of the notices add up), and forced
heartbeats on a full and on a drained buffer (`SocketBound` 3); ledgers 1 and 2 are
enough for a message that is newer than the client's baseline and one that is not,
and for a new process whose frontier is below the id a browser brings.
For safety the bounds do not matter in the end: every invariant and action property
of the passing runs is proved for every value of the constants (section 5).

Three ledgers with a grace of one hold a fold, a fork below, at and above it, a
tip that is behind by less and by more than the grace, and an empty page from behind
the token followed by a full one below the folded ledger. (In `Folding` the chain never
settles: that matters for liveness only, which `Recovery` checks.) Six events take a loan
from `joined` to `loan_rpy` or `loan_dflt` with one to spare; one quarantined event can be
folded before or after any later one; a page of two puts a second fold of an event behind
another event. Two nonces fill a store capped at two and a third is
refused; `Ttl` 1 and three ticks let a nonce expire and be presented, swept or both.
Three notifications of two accounts change their numbers when the first one was
quarantined. Three requests from two addresses fill either cap; two losses and two
failed connects reach a loss during a reconnect. A TTL of one or two ticks lets an
entry outlive a commit and then expire.

Fairness. `Indexer!FairSpec` assumes that a supervisor starts a worker that
exited, that a running worker takes its next step (every await settles; a failing
one is a `Fault`, and those are finitely many), and strong fairness of
`LoadCursor` per contract: the loop of `runIndexer` goes over `contractIds` in
turn, so polls of one contract cannot put off another forever. `Stream!FairSpec`
assumes that the heartbeat interval and the stall timer of a running process
fire; nothing is assumed of the network, the browser or the indexer.

`RecoverySpec` asks weak fairness only, of the component it follows. Listener:
promises settle (`ConnectStep`, `ConnectOk`, `EndSettled`, `ShutdownEnds`) and the reconnect
timer fires; failures are finitely many, and no request ever has to come. Worker:
its steps go on, a supervisor restarts it, and an operator answers a halt as
`docs/REORG_RECOVERY.md` asks. Caches: time passes, requests and
invalidations under way go on. No fairness is asked of commits, new requests or
faults.

`Folding` and `Serving` say CHECK_DEADLOCK FALSE: their contract has published its
last event, or their clock has reached its last tick, and nothing is left to do. The
other runs check for deadlock.

## 4. Findings

1. `IndexerReindexTwice`: `reindex` applies rows whose `folded_at` is NULL and
   never sets it. After a crash between the raw insert and the fold, reindex
   and then the worker's retry both apply the event.
2. `IndexerResetKept`: the reset empties the derived tables and keeps
   `folded_at`. Events of a contract that is tailed again look folded and are
   skipped.
3. `StreamMissed`: `missed: false` is answered to a browser that did miss a
   change, because an SSE id is a ledger sequence: a second change of one
   ledger, or one without a ledger, leaves the frontier where it was.
4. `StreamReorg`: all copies of a reorg broadcast carry the same `reorg_ledger`,
   and the process-wide monotonic check drops every copy after the first: a
   client that subscribed to a later channel only is not told.

The other way round, `docs/DEPLOYMENT.md` and the README warn that two workers
corrupt the tallies silently. The theorems `FoldDecisionsAreFresh` and
`FoldedAtMostOnce` show that the lock and `folded_at` prevent that for any number
of workers; the warning is stricter than the code needs.

### Disagreements that have no run of their own

Met while modelling: each names the exception it left in a property, or the
formula TLC refutes when the exception is dropped.

| Where | What a doc, comment or test says | What the code does | In the model |
|---|---|---|---|
| `poller.ts:782` | `docs/REORG_RECOVERY.md:112`: "the folded state still describes a consistent prefix of *some* history" | a hash the RPC cannot answer for is not an alarm, and a fork after the check is not seen: rows of two branches meet in the log | `OneHistory` fails; hence `unchecked` in `NeverFoldsAcrossAFork` |
| `reindex.ts:188` | `REORG_RECOVERY.md:373`: "the tail of that prefix may no longer match the chain — which is what the rebuild fixes" | the rebuild folds the same raw rows, the orphaned ones included | `OnChain` fails after `Reindex` |
| `reindex.ts:188` | `REORG_RECOVERY.md:376`: "Once the worker restarts after the rebuild, it resumes from its paging token and drains the backlog" | the cursor keeps the hash of the abandoned ledger: the worker halts again | `settled ~> CaughtUp` fails; hence the premises of `FalseAlarmEnds` |
| `poller.ts:849` | `REORG_RECOVERY.md:376`: "Only events pruned from the RPC before any poll fetched them are lost" | after a fork below the token, replacement events behind the token are not asked for | `NothingSkipped` fails without `undercut` |
| `poller.ts:849` | `REORG_RECOVERY.md:363`: "A halt that reproduces on restart is, by construction, real" | an empty page that a node answered from behind the token passes the check and saves a token below the folded ledger; the events between the two then come with a token that is honoured, and every later poll halts, on an unchanged chain and after `reorg:clear` | `FalseAlarmEnds` fails without `backtracks = 0` |
| `stream.ts:312` | the repository's `README.md:310` promises a reconnecting browser `missed`, and names "a rolling deploy" | the new process seeds its frontier from a cursor saved after the NOTIFYs: a browser's id may be above it, and the answer is `missed: false` until the frontier catches up | `IdsBehindFrontier` fails without `elsewhere` |
| `stream.ts:842` | `docs/DEPLOYMENT.md:255`: "The hard per-instance limit on streams is `STREAM_MAX_CONNECTIONS`" | handshakes that wait for the listener together all pass the check | `AdmissionExact` fails without `overlapped` |
| `stream.ts:846` | `stream.ts:124`: "Each StreamClient removes itself on close" | the count of its address is written from a value read before the wait, and drifts | likewise |
| `stream.ts:271` | `stream.ts:265`: "retry connect() with exponential backoff until it succeeds (or shutdown() is called)" | a request's connect in the wrong moment cancels the retry, and its failure starts none | `ListenerReturns` fails without `intruded` |
| `auth.ts:278` | `auth.ts:199`: "Max outstanding nonces per address" | an expired nonce presented by another address lowers that one's count | `CountsExact` fails without `crossed` |
| `auth.ts:344` | `test/auth-nonce-postgres.test.ts:211`: "rejects issuance when the unexpired store reaches its configured capacity" | count and insert are two statements | the capacity, and the cap of an address, is exceeded by at most one less than the number of concurrent challenges: `OvershootBounded`, a bound that is reached |
| `replay.ts:146` | `reindex.ts:48`: "The incremental fold the indexer runs and a full rebuild from the log must produce byte-identical derived state" | a replayed event is folded after later ones, the rebuild folds it in order | `derived = Rebuild(published, stored)` fails after a late replay; it is a theorem while events are folded in order (`RebuildAgreesWithWorker`) |
| `handlers.ts:407` | there: "fold the principal into `principal_repaid` exactly once" | a reindex and then a page with approval and repayment delivered again: the approval makes the loan active again | `Retrying` reaches it; hence `RetriedAtOnce` in `BooksBalance` |
| `poller.ts:279` | there: "Only `STREAM_CHANNELS.members` events [...] actually touch cached member state" | loan events write `has_active_loan` and `contribution` of members | hence the keys `ToldIsFresh` excuses |
| `routes/index.ts:868` | the check before it: "Cannot modify notifications for another address" | a rebuild between check and update gives the id to another row | `OnlySignersRead` fails without `renumbered` |
| `reindex.ts:84` | there: "preserve user-authored notification read states across rebuilds" | the flags are read before TRUNCATE locks the table | `ReadStays` fails without `missed` |
| `redis.ts:95` | `routes/index.ts:384`: "a fresh join is never stuck behind a stale negative lookup for the full TTL" | a lookup that read before the join writes after its deletion | hence the entries `ToldIsFresh` excuses |
| `history-cache.ts:72` | `test/api-stats-history.test.ts:71`: "Subsequent request should immediately reflect the new data without waiting for TTL expiration" | the copy of another process, and one filled before the commit, live on to their expiry | only `HistorySettles` holds |
| `routes/index.ts:1594` | there: "A successful prior value remains useful during a transient database failure"; `test/api-proposals-stats-events.test.ts:242` "serves the last stats value when an expired-cache recompute fails" | `liveStreams` is undefined: both paths throw | `LeaveGate` answers `error` |

## 5. Proofs

Every theorem is about any number of workers, browsers, requests, nonces, ledgers,
forks and faults. The assumptions are named in the modules that declare the constants,
and TLC evaluates them on every run:

- `ConstantsAssumption`, `StreamAssumption`: positive page limit and threshold, a first
  contract, disjoint process names; a non-empty channel list, a positive high-water mark;
- `ReorgAssumption`: a chain of at least one ledger, positive page limit and scan
  window, START_LEDGER at most one beyond the bounded chain;
- `MemoryAssumption`, `ServingAssumption`: finitely many nonces and concurrent
  challenges (they are counted); a presented address stands for at most one account,
  and an account for itself, as `classifyStellarAddress` decides;
- `ListenerAssumption`, `RecoveryAssumption`: finitely many requests, each from one address;
- `FoldAssumption`: a positive day length; NULL is neither a number nor an address; a
  scenario's loans are loans of the contract and its bounds are naturals;
- a time to live of at least one tick, since Redis refuses `EX 0`.

**Indexer.** `NeedsFoldIsFresh` alone is not inductive: that nobody folds the
events of an open transaction follows from who holds the lock. `LockInv` says
that `lock` has at most one member, and that a worker in `txn`, `fold` or `record` and an
operator in a session hold it; `FreshInv` adds that what they read is still
right. `RangeInv` keeps `pos <= last`, `next` inside the page and everything below
`head`. On these rest

- `RawInv`, `LogInv`: nothing is folded, applied or on the books without its raw row;
  behind the cursor, and behind a worker's position in its page,
  everything is in the raw log (a worker that is about to save a cursor must
  already have logged its page, although resets and a second worker move the
  cursor meanwhile);
- `OnceInv`: an effect without `folded_at`, or a second one, comes from a reindex
  (`rebuilt`): this is what makes a retry harmless;
- `BooksInv`: what a worker has passed in per-event mode or finished as a page is
  `Accounted`, which carries `NoSilentLoss` across the cursor write.

| Theorem | States |
|---|---|
| `TypeCorrect` | `TypeOK` |
| `FoldDecisionsAreFresh` | `NeedsFoldIsFresh` |
| `LogIsComplete` | `LogCoversCursor`, resets included |
| `FoldedAtMostOnce` | `NoDoubleFold`, resets included |
| `ReplayFindsItsEvent` | `OpenRowsHaveRawEvents` |
| `ReindexIsRepair` | `ReindexRepairs` (an action property) |
| `FoldedStaysApplied` | `FoldedIsApplied`, without the reset flag |
| `NothingLostInSilence` | `NoSilentLoss`, without the reset flag |

The last two need `~ResetOnContractChange`: with the flag they are false, which is
finding 2.

**Stream.** `StreamTypeCorrect`, `BackpressureNeverWedges` (`NeverWedged`) and
`IdsStayBehind` (`IdsBehindFrontier`) are proved together, because each needs the
others: a notice of the error handler is queued only behind a `write()` that
answered false, which follows from an unpaused client having room. `Good(k, b)`
says that connection `k` cannot be wedged and that its ids are at most `b`; one
lemma per method of `StreamClient` (close, writeFrame, enqueue, sendMessage,
flushQueue, the notices, a delivery) shows that the method keeps it, and `ConnInv`
says that every connection is good for `b = knownLedger`, and every browser's last
id at most that, unless an earlier process gave it (`elsewhere`). `GoodLater` carries
this along when the frontier moves. A restart lowers the frontier and closes every
connection with it, so `IdsBehindFrontier` is about the ids the running process gave:
the id a browser brings from elsewhere may be above the frontier (section 4), and the
theorem says that one frame from the running process ends that.

`FramesAreKept` (`FramesKept`) needs to know that a message about to be fanned out is
new to every client, or a frame could be there twice. `FrameInv` says why: NOTIFYs are
numbered in the order they were sent, and what a client has received or holds is
older than everything on the wire. `Held` is the statement about one connection, and
`Carries` shows, method by method, that the frames of socket and queue together only gain
the frame that was sent; `Joined` is the algebra of concatenation under it.

**Reorg.** A log of one history is not inductive. `LogOK` adds where each row stands
with respect to the cursor: rows above the folded ledger are of the present chain, rows
up to it are of the history of the pinned hash, and between the hash check and the save
both are the same history. `RowOK` keeps the folded ledger stored, at or below the token
(until a page began behind its token), and
the pinned hash among the branches that exist, `PollOK` ties the poll's locals to the
cursor it loaded, `NoGap` carries `NothingSkipped` through the token of the poll and of
the page in hand. `ReorgInv` is their conjunction; TLC checked it before the proof.
What a branch's ledgers are is defined through the forks since, so the lemmas `Ancestors`
and `ForkKeeps` (a fork changes nothing below it) argue by a minimal counterexample
(`Least`, the least number principle from the well-foundedness of `<`).

| Theorem | States |
|---|---|
| `ReorgTypeCorrect` | `TypeOK` |
| `FoldsOneHistory` | `NeverFoldsAcrossAFork` |
| `NothingIsSkipped` | `NothingSkipped` |
| `ContinuityHaltsAreReal` | `ContinuityHaltMeansBacktrack` (an action property) |

`ContinuityHaltsAreReal` separates the three checks: as long as the RPC honours its tokens the
folded ledger is never beyond the token and the page's check stays silent, forks or
not, so the detection of forks rests on the hash and tip checks alone. With
an RPC that does not, the check may halt the worker in this poll or in any later one.
`FoldsOneHistory` and `NothingIsSkipped` hold with such an RPC too.

**Fold.** None of the four properties of `EventFold` is inductive, and a rebuild folds a
log of any length in one step. The proof goes through what a single fold does.

- *The rebuild.* `Rebuild` is a recursive function in a LET, that is a CHOOSE: `RunExists`
  and `RunsAgree` show that its recursion has a solution and only one, so that
  `RebuildStep` may unfold it by one row. The library's induction theorems cannot be
  used here (section "Only model-checked"); each induction asks for the least
  counterexample instead (`Least`), which is one step away from a contradiction. The
  same device shows that a sum over a finite table does not depend on the order
  in which its rows are taken (`SumAny`).
- *The handlers.* One lemma per handler (`JoinedMeans` ... `LoanDfltMeans`) says which rows it
  writes and that the tables keep their types, that nobody is told twice and that
  nothing approved or executed is reopened; `ApplyGood` puts them together.
- *The books.* `ApplyBooks`: a fold of any event keeps `Balanced`, and keeps `ClosedBooks` (the
  totals of repaid and defaulted loans) if it does not close a loan a second time
  in the same way. Why that does not happen is not in the tables. `ClosesOnce` says that
  the log has at most one closing event of each kind per loan, `Traced` that a loan
  marked repaid or defaulted has its event among the ones folded, and that the last one
  folded has left its mark. So under `RetriedAtOnce` a second fold of a closing event
  comes right after the first and finds the loan closed. `FoldedFrom` is all of this
  about tables `d` and the sequence `s` of rows they were folded from;
  `FoldedFromStep` is its inductive step and `RebuildFolded` applies it along the log.
- *The contract.* `Transition(c, k, e)`: from any tables that mirror `c`, the fold of `e` gives
  tables that mirror `k` (one lemma per event), closed loans stay closed, and an event
  that closes a loan finds it active. The last part gives `ClosesOnce`. The
  contract's states (`Contracts`) need the side condition that nobody outside has a
  stake or a loan: `joined` leaves the stake as it finds it and clears the loan flag, while
  the contract stores a new record, and the two agree because of it.
- `FoldInv` is `LogInv` (of contract and log, including that the rebuild of the whole
  log mirrors the contract as long as every event can be read) and `TablesInv` (of
  tables and `applied`, including that tables folded in order are the rebuild of that
  prefix). TLC checked it on the run's instance before the proof.

| Theorem | States |
|---|---|
| `FoldInvariant` | `FoldInv` |
| `NobodyToldTwice` | `NotifiedOnce` |
| `BooksAlwaysBalance` | `BooksBalance` |
| `TablesMirrorContract` | `MirrorsContract` |
| `RebuildAgreesWithWorker` | in order, `derived = Rebuild(published, stored)` |
| `ClosedStaysClosed` | `StaysClosed` (an action property) |

`RebuildAgreesWithWorker` is what `reindex.ts:48` asks for ("the incremental fold the indexer runs
and a full rebuild from the log must produce byte-identical derived state"), under
the one condition it needs: that no event was folded late or twice.

**Nonce stores.** For the refinements the abstract life of a nonce must be a function of
the store's state, and each step one of `NonceStore`'s. `MemoryInv` and `TableInv` say
that an accepted nonce is out of the store and had been issued to the address it was
accepted from, and that a stored nonce has exactly one address; without that a second
acceptance, or one by another address, could not be excluded. For the counts,
`CountsExact` itself is inductive on top of it, with the cardinalities that adding,
consuming and sweeping change. `OvershootBounded` is
inductive because it counts the nonces outstanding and the challenges past their check
together: a check that succeeds finds fewer nonces than the cap while at most all the
other challenges are in flight (`CountedBounded`), an insert turns one into the other
(`InsertedBounded`), and expiry and consumption only take away (`FewerBounded`). It is
stated of the table and of each address, and is tight: a cap checked with `<=` breaks it.

| Theorem | States |
|---|---|
| `MemoryImplementsNonceStore` | `KeepsPromise` (a refinement) |
| `TableImplementsNonceStore` | `TableKeepsPromise` (a refinement) |
| `MemoryCountsExact` | `CountsExact` |
| `TableOvershootBounded` | `OvershootBounded` |

**Notifications.** `NotesInv` adds to `OnlySignersRead` that a request was let in only for
accounts that signed, that a request past its ownership check still owns its row
unless the table was renumbered, and that the flags a reindex holds are those of the
table unless a row was marked behind its back. Theorems: `OnlySignersMarkRead`,
`RebuildKeepsReads` (`ReadStays`, an action property).

**Member cache.** `ToldIsFresh` speaks of announcements that were made; `CacheInv` must speak
of those to come. `Fresh(k)`: whenever a folder still has to announce something newer
than entry `k`, it has a job before the announcement that deletes `k`. `Ordered` says
that the announcement is last and that a SCAN is followed by the DEL of what it
finds. Theorems: `CacheTypeCorrect` and `CacheToldIsFresh` of the component,
`ServingToldIsFresh` (`ToldIsFresh`) and `ServingTypeCorrect` (`ServingTypeOK`) of the
composition, and `ServingSafe`, the properties above side by side.

**Listener, history, figures.** `AdmissionInv`: while no handshake overlapped, at most one
waits, the count it read is still the count, and there is room for it; the open
requests are the connected ones. The bound of the counts in `TypeOK` is `MaxPerIp`:
they drift when handshakes overlap, above the number of requests too, yet each is one
more than a value below the cap. `HistoryInv`: neither copy of the history is ever
empty, and a lookup that began after the first commit holds no empty answer. `StatsInv`:
with one recomputation at a time, the one inside the gate has read figures at least as
new as the cached ones.

| Theorem | States |
|---|---|
| `AdmissionIsExact` | `AdmissionExact` |
| `HistoryNeverEmptyAgain` | `NeverEmptyAgain` |
| `StatsNeverGoBack` | `CacheNeverGoesBack` (an action property) |
| `RecoveryTypeCorrect` | `RecoveryTypeOK` |
| `RecoverySafe` | the first three, of the composition |

**Only model-checked.**

- Liveness: `CursorCatchesUp`, `NotHeldHostage`, `StalledReaderIsDropped`,
  `ListenerReturns`, `ShutdownReturns`, `FalseAlarmEnds`, `EventuallyFresh`,
  `HistorySettles`. It needs fairness and ENABLED, out of TLAPS's reach here.
- The counterexamples of the four violation runs.

Induction over data is out of reach as the library states it (its theorems have an operator
as a parameter, which the provers cannot instantiate); where the models need it, on
logs, tables and chains, the proofs above argue by a least counterexample. No module
declares a RECURSIVE operator.

## 6. Not modelled

- Migrations (`db/migrate.ts`): the directory holds two files of version 33, so
  `assertNoDuplicateVersions` throws under the lock, once `schema.sql` was applied;
  at this commit no migration is recorded or run, and a model would be of code
  that cannot be reached.
- The order in which `index.ts` closes its parts: a fixed sequence of awaits.
  `closeRedis` (`index.ts:65`) is not imported there, so the sequence ends at that
  line on every shutdown; no interleaving is involved.
- `AuthFailureTracker` (`auth.ts` 53-150): nothing calls `recordFailure`, its map stays empty.
- Routes that run one SELECT and format its rows, and `server.ts`, which registers
  plugins. `routes/index.ts:292` declares `const { nonceStore, authFailureTracker }` without
  an initializer; the models read it as `= opts`, which is what its parameters and
  `server.ts:269` mean.
- Rate limits and shedding on event loop lag: third-party plugins with thresholds.
- VACUUM in the maintenance loop, telemetry, logging, metrics, configuration parsing, scripts:
  no state the rest of the system reads.
- An 'error' event of the LISTEN connection before its handler is attached
  (`stream.ts:353`): it ends the process, and `Restart` of `Stream` is what follows.
- An 'error' of the LISTEN connection while `this.client` is null (`stream.ts` 377-386),
  which would leave `reconnecting` set: `ConnectionLost` comes from a live client. The
  handler is attached and the client stored in one synchronous step, and `pg` reports no
  error of a connection that is being ended.
- The two clocks of `PostgresNonceStore`: the expiry is computed from the API's clock
  before the INSERT, and compared with the database's. `Insert` computes it in the
  statement; a skew moves the expiry and touches no property, none of which says how long
  a nonce lives.
- In `HistoryCache`, a reset on a contract change, after which the history is rightly
  empty again, and the rollover of a day: `NeverEmptyAgain` and `HistorySettles` are
  about one contract.
- `Reorg` and `Indexer` are not composed: in `Indexer` the chain only grows, in
  `Reorg` every fold succeeds.
