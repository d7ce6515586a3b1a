# The URL shortener, specified

TLA+ modules, TLC configurations and TLAPS proofs for the URL shortener in this
repository: Go services (shortener, resolver, analytics, gateway, load
generator), Postgres with a Debezium outbox, Kafka, and React micro-frontends.
The modules are translated from the code; a comment in a module that says
"external" marks behaviour of Postgres, Kafka or Kubernetes, modelled from how
the code uses it. `PROJECT.json` maps every definition to the lines it models.

    tlc -config MCShortener.cfg MCShortener.tla      # model-check an instance
    tlapm ShortenerProofs.tla                        # check the proofs

## 1. Inventory

| Component | State | Operations | Talks to |
|---|---|---|---|
| shortener repository (`shortener/internal/repo`) | tables `short_urls`, `outbox`; open transactions | Insert, InsertBatch, GetByCode, GetByIdempotencyKey, Migrate | Postgres; its WAL feeds Debezium |
| shortener service (`shortener/internal/service`) | per call only | Shorten, Get | repository, directly or through the batcher |
| write batcher (`shortener/internal/batcher`) | channel, batch, reply channels, one goroutine | Insert, Close | repository |
| shortener process (`shortener/cmd/server`) | gRPC server, batcher | start, graceful shutdown, sudden death | all of the above |
| outbox pipeline (`k8s/base/postgres`, `k8s/base/debezium`) | replication slot, connector offset | decode, publish | Kafka topic `short_url.created` |
| Kafka consumer (`platform-events/events/consumer.go`) | reader position, message in hand, retry clock | Run, Close | broker, handler |
| Kafka publisher (`platform-events/events/publisher.go`, `kafka.go`) | writer | Publish | topic of clicks |
| resolver (`resolver/...`) | SQLite cache, wait group of publishes | Resolve, redirect, handle ShortURLCreated | consumer, publisher |
| analytics (`analytics/...`) | SQLite click table | Stats, handle ClickRecorded | consumer |
| gateway (`gateway/...`) | connections, requests under way | Connect to gRPC, redirect, streams, shutdown | shortener, resolver, analytics, load server |
| load runner (`loadgen/internal/runner`) | job and result channels, window, totals | Run (seed, drive) | gateway, resolver |
| load server (`loadgen/cmd/server`, `internal/server`) | the runs under way | RunLoadTest, shutdown | runner; gateway |
| simulator (`loadgen/cmd/simulate`) | pool of links, window and totals, the crowd's atomics | user, conduct, record, flush, summary | gateway, resolver |
| frontend (`frontend/apps/*`) | React state | fetch, submit, copy, stream | gateway |
| code generator, metrics, scripts, manifests | none of interest | | |

### What is hard, and what makes each part correct

* **Shortener.** Concurrent calls under one idempotency key, duplicate codes, a
  lookup that precedes the insert, a classification (`codeTaken`) made by a later
  statement than the one it explains, commits whose outcome the client does not
  learn, crashes. Correct: two answers under one key agree; an answered code is
  stored; a call leaves one row at most; one event per row, none without.
* **Batcher.** Callers that leave, replies to nobody, a full channel, a batch that
  fails for the sake of one row, shutdown. Correct: every caller gets the outcome
  of its own row; nothing is lost or inserted twice; nobody waits for ever.
* **Consumer.** Retries, give-up, poison, crash between handler and commit,
  rebalance, shutdown. Correct: at least once; again only after a fault;
  everything in the end, unless the handler refuses it.
* **Pipeline, resolver, analytics.** Redelivery, restarts of either end, delay
  between a created code and the resolver's cache, clicks published after the
  answer, two queries behind one statistic, times compared as texts. Correct: what
  is behind an offset is in the table; every row resolves in the end; a click that
  was answered for is settled before main returns; a click counts per delivery.
* **Start and shutdown.** A Postgres that starts late, retries of the schema, the
  publication that must precede the slot; servers that drain with clients that do
  not read. Correct: every outbox row is decoded; what main closes is used by
  nobody; main ends.
* **Load runner and its stream.** Four kinds of goroutines over two channels, the
  order in which they end, totals and windows read in separate steps; two
  connections between a run and the page. Correct: every result is in the terminal
  sample; the run returns; a stream that ends well was a whole run.
* **Simulator.** A pool read in two critical sections, a summary that takes no
  lock, three atomics written one after the other.
* **Gateway.** Statuses mapped twice (Connect, redirect); two redirects in two
  services. Correct: no failure becomes a success, no refusal a fault.
* **Frontend.** Answers that arrive after the component has asked for something
  else.

`PROJECT.json` lists the hazards at their lines, with the properties that would
catch each.

## 2. Modules

    ShortenContract            what clients are promised
       ^ implemented by
    Shortener ---- ShortenService ---- ShortenerRepo
    BatchedShortener ---'  '---- WriteBatcher
    BatcherAlone ----------------------'

    Delivery                   a topic, delivered in order and at least once
       ^ implemented by           ^ built on by
    Consumer                   OutboxPipeline ---- ResolverCache ---- Resolver
                               Startup                                   |
    Analytics, ClickTime       ResolverRedirect -------------------------+
                                     '---- Gateway  (compares its redirect)
    LoadRun                    a run as its sink sees it
       ^ implemented by           ^ built on by
    LoadRunner                 LoadStream ---- LoadPlan
    LoadSeed, Latencies, Simulator, SimulatorCrowd, HomePage

    MCShortener, MCBatchedShortener, MCBatcher, MCLoadRunner, MCAnalytics
    MCPipeline = OutboxPipeline + Startup      MCRedirect = Resolver + Gateway
    MCClients  = Simulator + SimulatorCrowd + LoadSeed + LoadStream + HomePage
                 (and Latencies, which has no state)

    ShortenServiceProofs       repository and handlers, for
      ShortenerProofs, BatchedShortenerProofs
    BatcherProofs, ConsumerProofs, PipelineProofs, RedirectProofs, LoadgenProofs

`MCPipeline`, `MCRedirect` and `MCClients` are sums: the modules they join share no state, so a behaviour of
the sum is a behaviour of one of them, which `part` names, while the variables of
the others keep their first values. That checks the modules exactly as separate
runs would.

**ShortenerRepo** (`postgres.go`). `short_urls` and `outbox` are sets of committed
rows; `wal` is the sequence of outbox INSERT sets in commit order, which is what
logical decoding passes on (the publication carries INSERTs alone). Each
transaction has a `phase`, its `batch`, the outcomes so far (`errs`, as in the
code) and the outbox rows it has not deleted (`kept`). Every SQL statement is one
action: `InsertRow` / `SkipRow` are the two results of INSERT ... ON CONFLICT DO
NOTHING, `CodeTaken` the classifying SELECT, then `NothingInserted`, or
`ClearOutbox` and `Commit`. The isolation level is READ COMMITTED: a statement
sees `short_urls` as it is now plus the rows of its own transaction. A row that
another open transaction holds makes the INSERT wait (the guard of `InsertRow`),
as a unique index does. `CommitLost` commits and reports an error; `Fail` is any
statement failing.

**ShortenService** (`service.go`). One process per call; `pc` names the statement
it is at. The rows of `Requests` and the sets `HttpUrls` and `Unstorable` stand
for the texts that the validation tells apart. `Generate` may draw any code.
`created_at` is the call's identity, which is how properties know who made a row.
The refinement mapping to **ShortenContract** (`C`, `Contract`) is here, since both
wirings have it in common.

**Shortener** is the default wiring (each Insert a transaction of the caller's
own), **BatchedShortener** the one with `SHORTENER_BATCH_SIZE` above one: handlers
put rows in the batcher's channel, its goroutine runs InsertBatch. `Crash` kills
the process: handlers and queue vanish, transactions roll back, except a COMMIT
that was already sent.

**WriteBatcher** (`batcher.go`) has one action per channel operation: `Send`,
`Receive` and `Cancel` for the two selects of Insert; `TakeFirst`, `TakeMore`,
`StopGathering` (full or timer), `LastBatch`, `SendReply` and `FlushDone` for the
goroutine. `reply[c]` is the channel of one place that each Insert makes: `SendReply`
fills it and `Receive` empties it. **BatcherAlone** closes it with callers that retry and cancel, an
InsertBatch that answers anything, and the shutdown of `main.go`.

**Consumer** (`consumer.go`, and `main.go` of the resolver and of analytics). `pc`
follows `Run`, `commit` and `retry`; `waited` is the time since `retry` took
`start`. `MainReturns` is main leaving, after Run or, on shutdown, without waiting
for it. `log`, `committed`, `broker` and `Rebalance` are Kafka and kafka-go.

**LoadRunner** (`runner.go`). The producer, each worker and the collector of
`drive` are processes over the channels `jobs` and `results`; `main` is where
`drive` stands. The collector counts in three steps and `emit` reads in three
(window under its mutex, total, errors), as in the code. `clock` tells only
whether the ends that producer and `drive` compute have passed. Requests end well
or badly; latencies are left out. `sum` in a sample is history: the rates of all
samples so far, kept as a number because a fold over the samples is induction over
data, which a proof could not follow.

**LoadRun** is what a run promises its sink: running samples, then a terminal one,
unless the sink fails. `LoadRunner` implements it (`Implements`), **LoadStream**
builds on it: the adapter of `server.go`, the gateway's copying loop, the state the
panel keeps (`LoadTest.tsx`), two connections with a window of their own that may
break with or without what is under way, and the shutdown of the load generator.
**LoadPlan** is the pure `PlanFromRequest`, with the producer's tick in
nanoseconds. **LoadSeed** is the seeding: links shortened one after the other and
the last one probed. **Latencies** compares both percentile rules of the load
generator, the runner's and the simulator's, with the definition. Sorting is the
choice of an order there, and the samples of an action are those of their places in
the window, not a sequence of their own. A rank is exact in it, while the code
multiplies floats; that the two agree was tried for every window below 200000 samples.

**Delivery** has the promises of the consumer group for one partition: `Produce`,
`Apply` and `Commit`, an offset that only moves over what was applied. `Consumer`
implements it (`InOrderAtLeastOnce`); pipeline and analytics use its conditions,
so what is shown of them does not depend on how Run retries.

**ResolverCache** is the resolver's table and its handler. **OutboxPipeline** takes
committed rows (their uniqueness is proved of ShortenerRepo) through the slot, the
connector that publishes again what it had not confirmed, and the topic into the
cache. Postgres may give up the slot (`max_slot_wal_keep_size`).
**Startup** (`migrateWithRetry`, the schema, `init.sql`) is why the pipeline need
not worry about the publication: a Postgres that starts, goes away and refuses, a
schema applied again after a lost connection, and the rows inserted after it.

**Resolver** (`service.go`, `redirect.go`, `main.go`). Requests over HTTP and gRPC
with one program counter each, the click published by a goroutine of its own, the
ways out of main, and the shutdown: the HTTP server, then the gRPC server, then the
wait group, under one deadline. **ResolverRedirect** is the redirect as a function
of method, path and outcome; `Gateway` compares its own with it.

**Gateway** (`router.go`, `handler.go`, `redirect.go`, `main.go`) follows one
request of any kind, well formed or flawed as the simulator's probes are, to its
HTTP status, whatever the service answered, with the shutdown around it.

**Analytics**. The table is the sequence of inserted clicks. A Stats call makes its
two queries in two steps; range and days are those of `Stats`. `applied` and `seen`
are history. **ClickTime** justifies the numbers that stand for instants: SQLite
compares texts, and their order is that of the instants.

**Simulator**. A user's turn is at "loop", in `pick` between its two critical
sections, in a call, or about to record. Personas, sizes and sleeps only decide who
does what when, which is free here. **SimulatorCrowd** is the conductor and the
order of its stores. **HomePage** is the list of recent codes and its rows: the
effect of an earlier render may be answered last.

Operators commented as mutants are not part of the specifications. Each is a
plausible bug that replaces one definition, and a run must then fail: it shows
that the property can fail.

## 3. Runs

| Run | Shows | Instance |
|---|---|---|
| `MCShortener.cfg` | equal answers under one key, rows and events agree, ShortenContract implemented, every accepted call ends | 2 calls, 2 codes, 2 attempts, requests that share a key, share only its text, have none, or are refused |
| `MCBatchedShortener.cfg` | the same contract with batches; no unstorable row in a batch | 3 calls, batches of 2, channel of 1, 2 transactions |
| `MCBatcher.cfg` | own outcome, no row lost, clean close, every Insert and Close return | 3 callers, one of which tries again, channel of 1, batches of 2 |
| `Consumer.cfg` | Delivery implemented, once more only per fault, eventual consumption, an outage shows | 2 messages of 3 kinds, 3 faults, give-up after 2 ticks |
| `ConsumerIdle.cfg` | violation: an idle topic counts as an outage | 1 fault |
| `ConsumerShutdown.cfg` | violation: clean shutdown applies a message twice | 1 fault |
| `MCLoadRunner.cfg` | channels closed after the last send, samples that keep up, a terminal sample that accounts for every request, LoadRun implemented, the run returns | 2 workers, channels of 1, 2 tokens, 2 running samples |
| `MCLoadRunnerDrops.cfg` | violation: dropped tokens are no errors | 1 worker |
| `MCPipeline.cfg` | table, cache and offset agree, every row resolves unless the slot is lost; every outbox row is decoded from the first | 2 codes, 2 restarts; 3 attempts, 2 outages, 2 restarts of the pod, 2 rows |
| `MCRedirect.cfg` | clean stops, clicks settled, no join of the wait group while it is waited for, shutdown ends; statuses keep their meaning and both redirects agree | 2 HTTP requests and a gRPC call; every kind of request, gRPC status and broken call |
| `MCAnalytics.cfg` | a count per delivery, totals that fit the days; order of the stored times | 2 deliveries, 1 fault, 1 Stats call over 2 days; instants of 3 days, 2 seconds and 3 digits |
| `MCClients.cfg` | no click misses, final summary, flags and phases, seeded links, whole streams, settled page, no stale row, percentiles | 2 users; phases of 2 to 3 seconds; 3 seeds among 2 rows of others; 3 running samples, windows of 1; lists of 2 out of 3 codes, 4 effects; windows of 4 samples |

Why the bounds are enough. Two calls of the direct shortener are the two sides of
every race for a key or a code, with a crash or a lost answer at any moment; more
calls are what the proofs are for. The batched one has three: winner, loser and a
bystander in the same batch. Two codes and two attempts reach the
exhausted loop, and a row that repeats both code and key. A channel of one with
three callers makes senders block; batches of two hold a conflict inside a batch, a
neighbour to hurt, and leave a row behind. Two transactions are the live one and
the one whose COMMIT outlives its process. Two messages make a skipped one visible;
three faults allow an outage, a rebalance and a crash around one delivery. Two
workers and a result channel of one make a worker wait for the collector while the
run is taken down; two tokens over a job channel of one are taken, queued or
dropped. Two committed rows and a slot that may hold back one reach its loss, and
two restarts of connector or resolver republish and handle again. In the resolver
one click can be older and one younger than the drain, and the drain outlasts a
publish by one tick. Two clicks can agree in code and time. Three seeds and two
foreign rows put rows between, before and after the probed one. Symmetry is
declared only where it is sound: calls, codes and transactions of the batched shortener,
which checks no liveness.

`CHECK_DEADLOCK FALSE` stands where bounded faults, requests or samples run out and
the system comes to rest.

Fairness. A handler, Postgres and a goroutine that can go on do (weak fairness;
every Kafka, HTTP and database call of the code has a timeout or a context). A
sender on a full channel is served in order by the Go runtime (strong fairness of
`SendRow`). Clients never have to ask, and no fault has to happen. In `Consumer`
time passes and Kubernetes restarts the pod; nothing is assumed of the broker:
`EventuallyCommitted` and `OutageShows` name what they need of it. In `LoadRunner`
each goroutine runs, requests and `Send` end (the client of a request has a
timeout), and time passes. In the pipeline connector and resolver are started
again and go on. In the resolver publishes have a timeout, time passes and main
goes on; nothing is assumed of the handlers, since a client may read as slowly as
it likes, and `ShutdownEnds` holds without. Of a stream the servers run; that its
page reads is a premise of `PageSettles`.

Liveness of the batched shortener is that of its parts: every Insert returns
(`EverybodyReturns`), and a call whose Insert and queries return ends
(`EveryCallEnds`).

### Findings

* `retry` in `consumer.go` starts its clock before a fetch that blocks while the
  topic is idle, so one failed fetch after five quiet minutes ends Run, although
  its comment asks for failures "without a break for giveUp"
  (`GivesUpOnlyAfterOutage`).
* `main` of the resolver and of analytics does not wait for the consumer
  goroutine, so the last commit that `Run` makes at shutdown may never happen and
  the message is applied twice (`ShutdownAppliesOnce`). For the resolver a second
  application is harmless, analytics counts the click again.
* The load runner's producer drops a token on a full channel without counting an
  error, which its comment says it does (`DropsAreErrors`).

Two smaller remarks, for which there is no run. `init.sql` 1-2 says that the WAL
keeps every outbox event until Debezium first connects; the cap of
`postgres.yaml` 35 on what a slot may hold back applies from the start, which is
why `Resolvable` excepts a lost slot. And `user` of the simulator sets `lastKey`
before the call and `lastCode` after a successful one (`main.go` 311-321): after a
Shorten that failed, the double submission of its key is compared with the code of
an earlier URL and may be reported as a broken key.

## 4. Proofs

Every theorem holds for all values of the constants: any number of calls, codes,
keys, workers or messages, any bound on retries, any batch size and channel
capacity, any number of faults. Each invariant is proved from an inductive one,
which TLC has checked on the run's instance first, with a lemma per action or
group of actions.

**ShortenServiceProofs** is what both wirings share. `RepoInv` is kept by every
statement of every transaction, whatever the length of its batch
(`RepoStepKeepsInv`). Unique rows among the committed ones are not inductive: what
is, is that rows written by open transactions conflict neither with committed rows
nor with each other (`Isolated`), that the outcomes recorded so far are true of the
rows now visible (`OutcomesTrue`), that WAL and table agree (`EventPerRow`), and
that a transaction about to commit keeps none of its outbox rows (`OutboxCleared`).
`Answering` is what holds of a call however its row reaches the repository: where
it can be (`Placed`), what its answer tells (`Told`, `Created`), and that a call
that lost the race for a key has a winner to read (`Winner`). The steps that
implement the contract are the same in both wirings and are proved once.

**ShortenerProofs** (default wiring) adds how call and transaction correspond
(`Linked`) and that a stamp identifies the row (`Stamped`). It has `TypeCorrect`,
`RowsUnique`, `EventsMatchRows`, `OutboxStaysEmpty`, `Durable`, `Dedup`,
`CreatedReportedOnce`, `AtMostOneRow`, `WinnerFound` (each `Spec => []P`),
`NoNotFoundAfterAnswer` (an action property) and `ImplementsContract`.
`WalHasNewCodes` is what `OutboxPipeline!CommitRow` takes for granted: a step that
touches the WAL appends a commit with codes no event had (`WalGrows`, of `Isolated`
and `EventPerRow`).

**BatchedShortenerProofs.** With batches a row outlives its call: the caller may
leave and the process may die while the row is queued, gathered, in a transaction,
or behind a COMMIT that was sent. The invariant says of every row, wherever it is,
that it is the latest row of a call that has given it away (`Issued`, `Settled`,
`Awaiting`); that a call has one row on its way, and a dead process's transaction
none of the live ones (`PathInv`); that a row on its way is not committed yet
(`StoreInv`); that goroutine, batch and transaction keep step, and that each
result is true of its item (`FlushInv`). From it come `NoPoisonInBatches`, the
promises of the default wiring (`BatchedPromises`, `BatchedNoNotFoundAfterAnswer`,
`BatchedWalHasNewCodes`) and `BatchedImplementsContract`.

**BatcherProofs.** `OwnOutcome`, `SentRowsKept` and `CleanClose`: a row is in the
channel or in the batch, never in both or twice; a caller that waits unanswered has
its row there; `results` and batch agree place by place; after `closed` no handler
is left, and `last` finds the channel empty.

**ConsumerProofs.** That the handler runs once more only for a fault is a matter of
counting: `CountInv` bounds what was applied and what is still to be fetched or
handled by one delivery plus the faults that cost another, `FaultInv` gives each of
those a fault of its own. `ReaderInv` keeps position, message and offset within one
of each other, from which each step implements `Delivery`
(`ConsumerImplementsDelivery`).

**PipelineProofs.** `HydratedUpToOffset`: messages are events of rows, a code has
one row, so a replay or a second application never replaces what is cached;
`LengthInv` bounds what restarts can republish. `EveryRowPublished` follows from
what one database has been through when a pod serves (`StartupInv`). That both
pipelines deal with their topics as `Delivery` says, which `ConsumerProofs` shows of
the consumer, is `PipelineDelivers` and `ClicksAreDelivered`.

The same module has analytics. `TableInv` says of each click that it has as many rows
as deliveries; `HandledInv`, that a message is handled again only for a fault and
that what is behind the offset was handled, which bounds the table. `CallInv` says,
of each point of a Stats call, what it has counted so far and that the table still
has it (`CountsGrow`, `StaysInv`). `RangeMeansDays` is that the comparison of
instants in the WHERE selects the days of the request, and `DaysAddUp` that the days
of GROUP BY add up to the total: sums are cardinalities of sets of pairs, and a first
day at which they differed is impossible (`Smallest`, from the well-foundedness of
the numbers: induction without an operator parameter). With them
`EveryDeliveryCounts` and `AnswersAreOfTheRange`. Those take instants for numbers;
`StoredTimesCompare` is why they may, for a fraction of any width: a text is known
character by character (`TextFacts`), so the first character in which two texts
differ is what tells their moments apart, or the mark behind a fraction that ended
first (`EarlierIsLess`), and two moments are comparable (`MomentsOrdered`).

**RedirectProofs.** `NoJoinWhileWaiting`, `EarlierClicksSettled` and `CleanStops`:
`StopInv` says what main has behind it at each step of its shutdown, but for an
HTTP handler that outlived its server's Shutdown, and `DrainInv` that a click in
flight when the drain began is as old as the drain. `FaultKept` goes through every
gRPC status and Connect code; its invariant adds that a service is asked only about
what the gateway passes on (`Passed`).

**LoadgenProofs.** `FlowInv` is the conservation law: every token is dropped,
queued, with a worker or executed, and every executed request is counted, in the
channel, or with a worker about to send it, errors likewise. With the order in
which the goroutines end (`ShutInv`) and what the windows share out (`SampleInv`)
it gives `ClosedAfterLastSend`, `TerminalSampleAccounts`, `SamplesCatchUp` and
`Implements`, the refinement of `LoadRun`.

The same module has the clients, as `MCClients` sums them: `EachAlone` says
that a step of the sum is one of one client, and each has an invariant of its own.

* `NoClickMisses`: that the kind "missed" is never recorded says nothing of the way
  there. `PoolInv` orders the pool by its stamps, none of which is before the
  commit of its link, so that the links `Settled` counts are the first ones
  (`SettledAreFirst`); `UserInv` says that what a user counted stays settled while
  time passes and the pool grows, and that a link it picked was stored a `Settle`
  ago. `SummaryIsFinal` needs that main prints behind the last user.
* `FlagsFollowPhase`: the two flags are stored one after the other, so `CrowdInv`
  says at each point of `conduct` which of them is already up to date.
* `ReadsFindTheirLinks`: the links are committed in the order of the seeding
  (`SeedInv`), so the resolver that has the last one has them all.
* `CleanEndIsWhole`: what the page shows, what waits in the second connection, in
  the gateway's hand and in the first connection are, one after the other, how the
  run began (`TransitInv`), and run, server, gateway and page end in this order,
  each well only if the one before it did (`EndInv`). `StreamUsesRun` is that the
  stream asks nothing of a run that `LoadRun` does not promise.
* `SummariesArePercentiles`: that a window can be sorted at all is no induction but a
  least counterexample: the smallest size of which some window cannot, less a least
  sample, can (`OrderExists`). The sample at a rank is the least one that as many
  samples do not exceed (`RankCounts`); the simulator's rank is the ceiling, the
  runner's at most one below (`Ranks`, `IndexGrows`); and the places of a window are shared out among the actions
  (`RowsAccount`).
* `NoStaleRow`: a request whose answer is still wanted is one of the latest effect
  and has a row (`HomeInv`); `PushKeepsList` is what `pushCode` does to the list.

Most of these theorems state what a run checks. Not repeated by a run are the four
that tie modules together (`WalHasNewCodes`, for either wiring, `PipelineDelivers`,
`ClicksAreDelivered`, `StreamUsesRun`) and `RowsUnique`, `OutboxStaysEmpty`,
`Durable`, `CreatedReportedOnce`, `AtMostOneRow`, `NoNotFoundAfterAnswer`, also for
either wiring, and `BatchedPromises`.

Assumptions. The named ASSUMEs of the modules, which TLC evaluates: null values are
none of the values they stand beside; `Requests` are requests; an acceptable URL is
storable; stamps, callers and, in the default wiring, transactions are those of the
calls; batches and channels hold at least one; the sets of workers and codes are
finite. Links spread within `-settle` (`Lag` is at most `Settle`), a phase of the
crowd lasts a second at least, and latencies, the other sizes of the clients and the
bounds of analytics are numbers; digits are 0 to 9, and 0 and 9 are among them. Two theorems have a hypothesis of their own.
`ResolverSettlesEarlierClicks` needs `PublishTimeout < ShutdownDur`, in the code 5
and 10 seconds. `GatewayKeepsFaults` needs a code length that `isLikelyCode`
accepts: the code has a default of 8 and checks only that it is not below one, so a
`SHORTENER_CODE_LENGTH` above 64 would give codes that no redirect takes.

Only model-checked is liveness (`EveryCallEnds`, `EverybodyReturns`,
`EventuallyCommitted`, `OutageShows`, `RunReturns`, `Resolvable`, `ShutdownEnds`,
`PageSettles`): it needs fairness and ENABLED, which the prover does not do. Every
other property of a passing run is a theorem.

## 5. Not modelled, and why

* Configuration, logging and metrics: nothing reads them back.
* The text of codes and URLs: sets of kinds suffice. The generator's bias (bytes
  modulo 62) is a matter of probabilities.
* Postgres beyond READ COMMITTED, unique indexes, commit and logical decoding;
  SQLite's WAL: an insert that has returned is taken to be in the table.
* Several partitions or consumers of one group: the manifests run one replica and
  the topics have one partition.
* What a failed write of the Kafka publisher may have left in the topic, and the
  in-memory publisher of the tests.
* CORS and the client address in the gateway; connections that were upgraded to
  HTTP/2 without TLS, which `Shutdown` does not see.
* The simulator's personas, its preflight and its printing, which rounds latencies.
* The rounding of dates by SQLite's `strftime`: days are whole in `ClickTime`.
* In the frontend the chart and the copy and create buttons, each a single request
  with a disabled button or a cancelled flag as in `UrlList`; routing, styles and
  module federation.
* The generated protocol code, some 1600 lines of Go without behaviour of its own.

## 6. Plan

Every invariant, action property and refinement that a run checks is proved. What is
left is liveness, once a prover takes ENABLED, for which the runs name the actions
that need fairness; and a run with two partitions, should the manifests get them.
