# btick: a verification project

btick is a price oracle: adapters keep WebSocket connections to crypto
exchanges, a normalizer removes duplicate trades, one snapshot engine per symbol
turns the venues' trades and quotes into a canonical price (a tick at every
change, a snapshot every second), and an API server broadcasts both and answers
queries; PostgreSQL keeps events, ticks and snapshots.

This directory holds TLA+ models of that program, the TLC configurations that
check them on small instances, and TLAPS proofs of what matters most for every
value of the parameters. Paths below are relative to the repository.

## 1. Inventory

| Component | State it keeps | Operations | Talks to |
|---|---|---|---|
| Exchange adapters (`internal/adapter`) | connection, `connState`, error count, last message time | dial, subscribe, read, back off, ping, close after the maximum lifetime | non-blocking send to `rawCh`; state callback to the WebSocket hub |
| Normalizer (`internal/normalizer`) | one dedup shard per source: a set and a ring | drop duplicate, stamp, forward | `rawCh` to `normalizedCh`, non-blocking |
| Fan-out (`cmd/btick/main.go`) | drop counters | forward to both consumers | `normalizedCh` to `writerCh` and `engineCh`, non-blocking; closes `engineCh` |
| Snapshot engine (`internal/engine/snapshot.go`) | venue states, canonical price, carry start, latest state, throttle times, finalizer semaphore | consume an event, emit a tick, finalize a second | `engineCh`; tick, snapshot and source price channels; the writers' queues |
| Tick and snapshot writers (`internal/engine/persistence.go`) | a batch | append, flush, fall back to single inserts, drain on cancel | storage |
| Raw event writer (`internal/storage/writer.go`) | a batch, a pool of batches | append, flush through a staging table, fall back | storage |
| Storage (`internal/storage/queries.go`, `migrations/`) | tables with unique indexes | insert unless present, query | PostgreSQL |
| Multi engine and proxy (`internal/engine/multi.go`, `proxy.go`) | merged channels; attached engine | forward (blocking), attach once | engines to API server |
| Broadcast loop (`internal/api/server.go`) | pending messages | coalesce, convert, broadcast | proxy to hub |
| WebSocket hub (`internal/api/websocket.go`) | clients with subscriptions, send queues, drop counts; sequence number | register, handshake, subscribe, broadcast, evict, shut down | clients |
| REST and settlement (`internal/api/handlers.go`) | none of its own | latest, health, settlement with re-aggregation | storage, engine |
| Retention (`internal/storage/pruner.go`, policies of `migrations/001_init.sql`) | none | batched deletes, or with TimescaleDB dropped chunks | storage |
| Startup and shutdown (`cmd/btick/main.go`) | context, wait group | database retry, wiring, panic to cancel | everything |
| Access control, metadata, configuration, metrics | per request or constant | look up, format, count | |
| Web client (`web/src/ws`) | socket, subscriptions, last prices | reconnect, dispatch | hub |

What is hard in it, and what makes each part correct:

* **Snapshot engine.** The loop and up to ten finalizers share the venue states
  and the canonical price; a finalizer reads under one lock and writes under
  another, and finalizers can overtake each other. A trade of price zero is
  refused nowhere: it panics in the outlier test or passes for no price. Correct:
  a fresh snapshot is a price of its own second and only of it; one snapshot per
  second, never before the second and the grace are over; only a price is
  carried; a slot of the semaphore is never lost; quality does not rise while
  carrying.
* **Normalizer and pipeline.** A key is marked as seen before an event that may
  then be dropped; four queues each drop on their own. Correct: the ring and
  the set agree and stay bounded; a source's events reach the engine in order
  and at most once per dedup window; past the duplicate test every event is
  delivered or counted as a drop.
* **Writers.** A flush in progress when the context is cancelled; the fallback
  uses the context that just expired; a commit whose answer is lost is made
  again; the pool is closed while writers flush; symbols share a table whose
  key is the second. Correct: what a writer accepted waits, has a row with its key
  or is reported; every writer returns.
* **Start, forwarders and broadcast loop.** Nothing streams before the database
  has answered once; forwarders block on full channels that symbols share;
  coalescing replaces and reorders pending messages. Correct: no price is
  broadcast that the latest state does not know, or after a newer one; the newest
  event gets through; nothing is lost uncounted past the engine's own channel.
* **Hub.** Sequence numbers are taken before the lock of the sends by concurrent
  broadcasters; a client registers before its handshake; eviction, shutdown,
  handshake, reader and writer all take clients away. Correct: a queue is closed
  once and never sent to afterwards; no price falls between the initial state and
  the queue; a client that is gone or slow leaves the hub with its goroutines.
* **Settlement.** The answer for a boundary depends on what late batches and
  retention (the pruner's days, or three hours of TimescaleDB policy) have done to
  two tables when it is asked, in two reads. Correct: until retention reaches it,
  what was confirmed stays confirmed, at its price.
* **Adapters.** Back-off, read deadline, pings, maximum lifetime and cancellation
  race for the same connection. Correct: the reported state is that of
  the connection `Run` holds, a lost connection is dialled again, with a pause, and no goroutine
  of an old one stays.

How the modules meet at their borders: `Adapter`'s reader is `Pipeline`'s
`Receive`; `Pipeline`'s engine queue feeds `SnapshotEngine`; what the engine
emits is the `Emit` of `Broadcaster` and the `Produce` of `BatchWriters`;
`Broadcaster` implements `TickFeed`, whose two steps are the engine ticks and the
tick broadcasts `WSHub` takes as its environment; the rows `BatchWriters` commits
late are the late inserts of `Settlement`.

## 2. Modules

| Module | Kind | Models |
|---|---|---|
| `Pricing` | operators | `computeVenueRefs`, `computeCanonical`, `computeMedian` |
| `PricingCheck` | check | the rules on every set of references of a small market |
| `SnapshotEngine` | specification | the engine of one symbol: `Run`, `updateVenueState`, `emitTick`, `finalizeSnapshot` |
| `SnapshotLog` | abstract specification | the log of snapshots the engine promises |
| `MCSnapshotEngine` | TLC instance | the quotes of the model |
| `DedupShard` | operators | a dedup shard of the normalizer: `newDedupShard`, the parts of `isDuplicate` |
| `Dedup` | specification | `isDuplicate`, call after call |
| `DedupWindow` | abstract specification | the window of the last keys let through |
| `Pipeline` | specification | adapters' queue, normalizer, fan-out, the engine's and the writer's queue; composes `DedupShard` |
| `LossyFifo` | abstract specification | what the pipeline promises a consumer |
| `BatchWriters` | specification | `runBatchedDBWriter`, the raw `Writer`, cancellation and the pool's close |
| `StoreOnce` | abstract specification | what a batched writer promises of the items it accepts |
| `Broadcaster` | specification | database retry and start, multi engine, proxy, `broadcastLoop` |
| `TickFeed` | abstract specification | what the hub relies on of the way from the engines to it |
| `Subscriptions` | operators | `subscriptions` of a client |
| `WSHub` | specification | the hub: `HandleWS`, `Broadcast`, eviction, heartbeat, shutdown |
| `ClientStream` | abstract specification | what the hub promises its clients |
| `Settlement` | specification | `handleSettlement`, `tryReaggregate`, the two tables, the pruner |
| `Adapter` | specification | `Run` and `connectAndRead` of `base.go` with a connection's goroutines |
| `MCBatchWriters`, `MCBroadcaster`, `MCWSHub`, `MCSettlement` | TLC instances | items, keys, requests, rows and trades of the models |
| `Pricing_proofs`, `SnapshotEngine_proofs`, `Pipeline_proofs`, `BatchWriters_proofs`, `Broadcaster_proofs`, `WSHub_proofs`, `Settlement_proofs`, `Adapter_proofs` | TLAPS proofs | theorems about the eight; those of `PricingCheck` are in the first, those of `Dedup` in `Pipeline_proofs` |

### 2.1 Pricing

Prices are natural numbers, zero included: adapters take the price of a message
as it is (`kraken.go:142` makes zero of a missing one) and `updateVenueState` does
not look at it. `Panics` says when the outlier test divides by a median of zero;
`computeCanonical` is defined for the other references.
Venues are numbered in the alphabetical order of their names, the order in which
`computeVenueRefs` sorts, because `single_venue` mode takes the first. A
reference is fresh when its age at the instant asked for is between zero and the
window of its kind. The median is written by counting (the k-th smallest price)
and `PricingCheck` compares it with the middle of the prices put in order, which
is how `computeMedian` finds it. The threshold of outlier rejection
is a fraction; the comparison is the code's, multiplied out.

### 2.2 SnapshotEngine

State: `venueStates`, `lastCanonical`, `carryStart`, `latestState` and
`sourceLastEmit` are the fields of `SnapshotEngine`; `sem` counts `finalizeSem`;
`fin[s]` is the goroutine that finalizes second `s`; `snapshotCh` is everything
handed to the snapshot queues, in order; `nextSecond` is the second the ticker
serves next; `now` is the clock.

| Action | Code |
|---|---|
| `ConsumeEvent` (`ProcessTrade`, `TradePanics`, `ProcessTicker`) | the `inCh` case of `Run`: `updateVenueState`, under `e.mu` throughout, with `emitTick`, `updateLatestState` and `emitSourcePrice`; a panic of `emitTick` unwinds `Run` and is recovered by `safeGo` |
| `SpawnFinalizer`, `SkipSecond` | the ticker case: the semaphore has room, or not |
| `FinalizeRead` | the `RLock` section of `finalizeSnapshot`, after the watermark; the early return without a price gives the slot back |
| `FinalizeWrite` | its `Lock` section |
| `FinalizePanics` | a finalizer divides by a median of zero: nothing recovers its goroutine, the process ends with all it knew |
| `FinalizePublish` | the queues, and the deferred release of the slot |
| `Stop`, `Stopped` | `ctx.Done()` (or `inCh` closed); `Run` has waited for its finalizers |
| `AdvanceClock` | time |

A tick served late carries the time it was due and the ones due meanwhile are
lost (timer channels since Go 1.23, which `go.mod` asks for). `LoopLag` and
`FinalizeLag` say how late the loop and a finalizer may be; the clock does not
pass those deadlines. Time 0 is the boundary at which `Run` starts its ticker.
`Timely` says that these and the grace fit in one second: what `NoGap` and
`QualityDecays` need. Nothing assumes that wake-ups are exact: `int()` truncates
the carry duration, so the qualities of two successive seconds can be equal, and
`QualityDecays` says that they never rise and fall within two. Left out: the latency histogram, the JSON of the details, the quality of fresh
snapshots, which nothing reads back. The queues the engine sends to drop when
full; they belong to the writers and the broadcaster.

### 2.3 Dedup

A shard is a set (`seen`), a ring (`order`) and the slot to fill next (`head`);
`Remember` is what `isDuplicate` does to it when the key is new. The mutex is
held for the whole call, so a call is one step. Keys are the trade ids of one
source; the shard of a source is found by the prefix of the key, which the model
replaces by a function from sources. `DedupWindow` says what the shard is for:
a key is refused exactly when it is among the last `MaxEntries` keys let
through. A refused key does not move to the front: the window is first-in
first-out, although the comment at `normalizer.go:32` calls it an LRU.

### 2.4 Pipeline

State: the four channels of `startRuntime`, the event a goroutine holds between
its receive and its sends (`normalizing`; `fanning` and `fanStage`), one shard
per source, the context, the goroutines that still run, the drop counters
`btick_channel_drops_total` by channel (`drops`), and a history: what each consumer
took and how many events were past the duplicate test (`accepted`). The counters
are the code's: the normalizer and the fan-out count what they drop, an adapter
only logs that `rawCh` is full (`binance.go:119-123`), and a duplicate returns in
silence (`normalizer.go:76-78`). `Balanced` therefore starts past the duplicate
test.

| Action | Code |
|---|---|
| `Receive` | an adapter's `handleTrade` or ticker handler: the non-blocking send to `rawCh` |
| `Normalize`, `Forward` | the receive of `Normalizer.Run` with the duplicate test of `process`; its send |
| `IncChannelDrop` | `metrics.IncChannelDrop`, in the `default` branches of the last three sends |
| `FanTake`, `FanToWriter`, `FanToEngine` | the receive of the fan-out and its two sends, the first only with a database |
| `EngineTake`, `WriterTake` | the receives of the engine and of the raw event writer |
| `Cancel`, `Stop` | the context; the return of each goroutine, the fan-out's closing `engineCh` |

An event is a source, a trade id (or none) and its place among the messages of
the source. Any id may come again, as after a reconnection. The model has one
symbol; in the code `writerCh` is shared by the symbols' fan-outs. What engine
and writer do with an event is the business of their own modules.

### 2.5 BatchWriters

State: per writer its queue, the batch it fills, the flush it is in (the
transaction, then the single inserts, the items left, whether the context of the
flush is its own and whether its deadline has passed) and whether it runs, drains
or has returned; the tables and the items reported as failed; the producers, the
context, the pool.

| Action | Code |
|---|---|
| `Produce` | the fan-out's, `emitTick`'s and `finalizeSnapshot`'s send, which drops when full |
| `Take`, `FlushTimer` | the select loop: an item, a full batch, the flush interval |
| `LastFlush` | the raw writer at `ctx.Done()`: flushes and returns, its queue as it is |
| `StartDrain`, `Drain` | an engine's writer: its context ends after the last finalizer; it empties its queue, then flushes |
| `BatchInsert`, `BatchFails` | the transaction; it may fail, its deadline may pass, its answer may be lost |
| `SingleInsert`, `SingleFails` | the fallback, item by item, under the same context |
| `Cancel`, `ClosePool`, `ProducerStops` | `ctx`; the deferred `Close` of `waitForDatabaseAndStart`; the end of the fan-out or of the engine's loop |

Every insert has `ON CONFLICT DO NOTHING`, and `Key` gives each item the unique key
of its table. `NewRows` are the items of a batch that become rows: those whose key
no row has, and of two with one key the first. The others are let go of without an
error, a log line or a count. For raw events and ticks that is what makes a retry
harmless; for snapshots it is a loss, because `snapshots_1s` has
`UNIQUE (ts_second)` and the symbols share it: of two symbols' snapshots of a
second the later is not stored. So what is promised is a row with the item's key,
not the item. The staging table of the raw writer is part of one transaction, so
COPY and merge are one step.

### 2.6 Broadcaster

The events of a key (type, symbol, source) are numbered as they are made. `stage`
is where `database-init` is; `engineCh`, `multiCh`, `proxyCh` are the channels,
`multi` and `proxy` what a forwarder holds between its receive and its blocking
send; `loop` is the batch `nextBroadcastBatch` collects. `OpenPool`,
`ConnectFails`, `Retry`, `StartRuntime`, `Attach`, `ClosePools` are
`waitForDatabaseAndStart` and `NewPools`; `Emit` the engine's non-blocking send;
`MultiForward`, `ProxyForward` the `range` loops; `Collect`, `StartBroadcast`,
`Broadcast`, `LoopReturns` are `broadcastLoop`. A panic that `safeGo` turns into a
cancellation is the same `Cancel`.

### 2.7 WSHub

State: the hub's map, and per connection where `HandleWS` is, the connection
itself (`lost` when only the peer knows), subscriptions, queue, drops, the closes
of its channel, the two goroutines and their `closeOnce`. `bcast` is the
`Broadcast` call of every goroutine that broadcasts: the heartbeat, the broadcast
loop, the adapters' callbacks.

| Action | Code |
|---|---|
| `Connect`, `Register` | the early check and the upgrade; the check again and the insert under the lock |
| `SendWelcome`, `SendInitialState`, `HandshakeFails` | the writes before the goroutines start |
| `WriteMessage`, `WriterEnds`, `ReaderEnds`, `Unregister`, `ReadAction` | the two goroutines and `closeOnce` |
| `Number`, `MarshalFails`, `LockClients`, `SendTo`, `UnlockClients`, `EvictClients` | `Broadcast`: the number, used up too by a message that cannot be marshalled, then the walk under the read lock, one client a step; eviction under the write lock |
| `ShutdownClients` | `Run` at `ctx.Done()` |

`Unlocked` says who must wait for the read lock. `ClientStream` orders a stream by
broadcaster, because that is what the code gives: two broadcasters that number
their messages one way can send them the other way. It promises nothing about
delivery: a full queue drops. `main` does not wait for the hub's goroutine, which
is not in its wait group, so the process may exit before the sweep that
`ShutdownReachesAll` speaks of. `Subscriptions` keeps whether
symbols have been named (the map is not nil) apart from which.

### 2.8 Settlement

One boundary is asked about by several requests; each makes at most two queries,
the row of the second and then the trades around it. `row` is the only row `UNIQUE (ts_second)`
leaves room for; a trade or a snapshot may be inserted up to `WriteDelay` after
its time, or never. `ClosestTrades` is the set of answers `DISTINCT ON (source)`
allows: of trades equally close any may be chosen. Two things delete. The
pruner takes its cutoff per table and deletes batch after batch, unless it has
detected TimescaleDB (`Detected`; its query may fail although the extension is
there). The extension itself drops the chunks that its policies say are old enough
(`DropRawChunks`, `DropSnapshotChunks`): three hours in `001_init.sql`, whatever
the configured days. `RawUnpruned` and `RowUnpruned` say how long neither of the
two can have reached the trades and the row; every promise about repeated answers
ends there. `canonical_ticks`, which no modelled handler reads, is left out.

### 2.9 Adapter

`at` is where `Run` is, `conn` the connections in the order they were dialled,
`helpers` the goroutines each of them has: the one that closes it with its
context, the pings, the lifetime. Each step of `connectAndRead` that can fail is
an action with its failure. `CalcBackoff` is the range of waits the jitter of
`calcBackoff` can draw, half to one and a half times the doubled and capped
delay; waits are counted in half seconds. What the messages of an exchange say is
parsing.

## 3. Runs

Every number below is a bound of the model, given in the `.cfg`.

| Run | What it shows |
|---|---|
| `pricing_rules` | four venues, zero and five prices around the 1% threshold with ties and one far outlier, trade or midpoint: 28,560 sets of references, all of them, less the 872 that panic |
| `engine_prompt` | one finalizer at a time that may wake a unit late, fair: no gap, decaying quality, every second with a price published, `Run` returns |
| `engine_late` | two venues, prices of zero that panic, two finalizers that overlap, overtake each other and fill the semaphore; two events, late ticker: the safety invariants and `SnapshotLog` |
| `dedup` | a shard of three entries and five keys: set and ring agree, and the shard is a window of three |
| `pipeline` | every channel of capacity one, three messages, two ids, a window of one: order, replays, drop counters, draining and stopping |
| `hub` | two connections for one place, three broadcasters, queues of one, three messages: queues closed once, nothing lost around the handshake, `ClientStream` |
| `hub_live` | one client with requests, two broadcasters, eviction at the second drop, fair: gone or slow clients leave, the shutdown sweep reaches all |
| `broadcast` | two symbols, two types, channels of one, one failed connection: `TickFeed`, the books balance, the newest event arrives |
| `writers` | the snapshot writers of two symbols with a second in common and the raw writer, queues of one, batches of two, one database fault, cancellation at any point: `StoreOnce`, settled, every writer returns |
| `settlement` | two requests, two sources, snapshots of two symbols, one fault, batches of one, TimescaleDB policies beside a pruner whose detection failed: confirmed stays confirmed at its price until one of the two reaches it, what expired is pruned |
| `adapter` | two connections, pings and lifetime, every whole half second of jitter: the reported state, patient redials, replacement, the end |
| `shutdown_writes` | violation: with a database that makes no error, items queued before the end are reported as failed |

The bounds are small because the interesting cases are. In the engine a price
changes when two prices exist; finalizers overlap when two seconds do; a trade in
the grace needs one unit of grace; a median of zero needs a second venue, or a
zero after a price. In `engine_late` a second has two clock units and finalizers
are late by a whole one, so that they overlap; in `engine_prompt` it has three, so
that a grace and a unit of lateness fit in it, and the truncated duration of a
carry does repeat. The freshness windows are two and one units, so each second
has an inside, an end and a grace. The clock bound lets the last finalizer end.

In `dedup` five keys against three slots make the ring wrap with every choice of
key to come back. In `pipeline` three messages fill a channel of one, the hand
behind it and the next, so every default branch is taken; two ids and a window
of one let an id be refused, leave the window and be let through again. In `hub`
the second connection is refused, or comes after the first has left; three
messages fill a queue of one behind a writer that has taken one, and drop the
third, which evicts. In `hub_live` two drops accumulate, of one broadcaster or of
two that hold the read lock together; its adapters are left out to make room for
that. In `writers` a batch of two is flushed by size and by time, one fault at
every place meets each of batch, single insert, deadline and lost answer, and the
other symbol's snapshot comes before or after the one it conflicts with. The raw
writer of that run has no items, which keeps the states few: its items are
covered by the theorems, for every writer. In `broadcast` three ticks of one symbol fill engine channel, hand
and multi channel, and are replaced while the other symbol's wait; a batch drains
two messages and leaves one. In `settlement` a source has two trades of which the
later one is closer, the other source's trade arrives after the first answer, and
the clock passes both retentions and both policies; one trade expires for the
pruner, so its pass is a full batch and an empty one. In `adapter` the second connection is the first
that replaces another, and six errors are past the doubling of the back-off.

Deadlock is checked in `engine_prompt` and `dedup`, and not elsewhere: at the last
instant of a bounded clock, when every message is read, every request answered or
every goroutine has returned, nothing is left to do.

### Fairness

Every assumption is about the Go scheduler, a deadline or a timer; none is about
messages, clients, trades or cancellation.

* `engine_prompt`: weak fairness of the clock, of serving a ticker that has fired
  and of each finalizer. A runnable goroutine runs, none of a finalizer's steps
  blocks (its sends have a `default`), and a select with a ready case proceeds.
* `pipeline`: weak fairness of every receive, every send and every return. A
  select with both an event and a cancelled context ready picks at random;
  because messages are bounded the model needs no more than weak fairness.
* `hub_live`: weak fairness of the handshake, of the ends of reader and writer
  (writes have a deadline, reads a pong deadline) and of the steps of a
  broadcast; strong fairness of the three steps that need the write lock of
  `h.mu`, because a `sync.RWMutex` makes new readers wait for a waiting writer.
  `WriteMessage` is not assumed: a client may be as slow as it likes.
* `broadcast`: weak fairness of the start, the forwarders and the loop. That the
  database answers is not assumed of a refused attempt, only that attempts end;
  `LatestDelivered` speaks of events, which exist once it has answered.
* `writers`: weak fairness of each writer (timers fire, a database call ends by
  its deadline or its answer), of the producers' ends and of the close.
* `settlement`: weak fairness of the pruner's ticker and batches.
* `adapter`: weak fairness of `Run` and of a connection's goroutines; strong
  fairness of a successful dial, so an exchange that is dialled again and again
  lets the adapter in at last. `AdapterStops` needs only the weak part.

## 4. Proofs

Every invariant, action property and refinement that a passing run checks is a
theorem here, for every value of the constants that the named assumptions allow;
what is left to TLC is the liveness.

**Pricing.** From `PricingAssumption` and `MarketAssumption` (a finite set of
venues, prices of a range):

* `CanonicalBetween`: the canonical price lies between the lowest and the
  highest reference, whatever outlier rejection removes. It rests on
  `MedianBetween` (the median of any set of prices does) and
  `RejectOutliersSome` (rejection keeps at least one price and adds none).
* `RefsInWindow`: a reference is in the window of its kind.
* `PricingMedianMatchesSort`: `MedianMatchesSort`. That prices can be put in order
  needs no induction: each venue goes to the place given by the number of venues
  not after it (`SortExists`), and in any order the k-th place holds the k-th
  smallest price (`SortedKth`).
* `PricingMajorityWins`, `PricingOneFaultyVenueBounded`: `MajorityWins` and
  `OneFaultyVenueBounded`. `KthSmallestRank` and `KthSmallestIs` say what the
  k-th smallest price is by counting; a majority covers the middle ranks
  (`MajorityMedian`), the prices inside a range cover all but the outermost
  (`InnerRank`), and rejection keeps both (`MajorityRejected`, `FaultyRejected`).

**Engine.** From `EngineAssumption` (types, at least one finalizer slot, `None`
outside the data):

* `TypeCorrect`, `SemaphoreCorrect`, `CarryCorrect`, `GroundedCorrect`,
  `AnnouncedCorrect`: `TypeOK`, and the invariants `SemaphoreMatches`,
  `CarryNeedsPrice`, `SnapshotGrounded`, `CanonicalAnnounced` of `engine_late`.
* `LogImplemented`: the engine implements `SnapshotLog`.
* `NoGapCorrect`: `NoGap` when finalizers are `Timely` and no trade has price zero.
* `QualityDecaysCorrect`: `QualityDecays` when they are `Timely`, zero or not.

The inductive invariant of the first six is `MainInv`, which no lateness disturbs:
no step of it uses `LoopLag` or `FinalizeLag`. `LifeInv` adds to types and semaphore that
the ticker is past every second that has a finalizer: without it a spawned
finalizer might replace a living one, and neither the semaphore count nor "one
snapshot per second" would be inductive. `FinInv` says what a finalizer holds at
each stage: asleep, it wakes no sooner than the grace after its second's end;
with a snapshot in hand, that the snapshot is of its own second, is grounded, if
fresh, or carries a price other than zero, and that the clock has passed the grace.
`LogInv` says the same of published snapshots, and that the finalizer of a
published second is done. `CarryInv` ties a carry that runs to the snapshot it
started with; `lastCanonical` may be zero meanwhile, because of a trade of price
zero that came between the two critical sections.

The last two need bounds on lateness because they are false without:
finalizers that overtake each other publish out of order, a full semaphore skips
a second, and a carry whose start a late finalizer has set counts from the wrong
instant (section 5). `Timing` turns the bounds into what the clock cannot have
passed, so that there is one finalizer alive, of the second served last
(`OneAlive`). `Contiguous` then says that a second served after the first
snapshot has its finalizer alive or is in the log; `Positive`, which holds when no
trade has price zero, that a price there once was stays one and nothing panics.
`CarryChain` says that the snapshots of one carry, in the log or about to be
published, count from one start, which is the carry's while it lasts, and that each
was made within its second's lateness: two of successive seconds are made less
than two seconds apart, three span more than one, and that is what truncation
leaves.

**Pipeline.** From `DedupAssumption` (no trade id is the empty string, a ring of
at least one slot) and `PipelineAssumption` (finitely many sources, every channel
has at least one slot):

* `DedupTypeCorrect`, `SetCorrect`: `DedupTypeOK` and `SetMatchesRing`.
* `DedupImplementsWindow`: a shard implements `DedupWindow`. Its invariant
  `RingInv` adds that the ring fills in order: until the slot to fill next is
  taken, the slots before it are taken and those after it are not. That is what
  makes the number of keys in the set computable without induction and the slot
  at the head the oldest.
* `PipelineTypeCorrect`: `TypeOK`; no channel above its buffer, one event in
  hand.
* `EngineGetsFifo`, `WriterGetsFifo`: the pipeline implements `LossyFifo`
  towards the engine and towards the writer, with and without a database. The
  transit of a FIFO is its channel, the event in the fan-out and `Upstream`.
  `UpstreamMoves` says once for both what the steps before the fan-out do to
  what stands behind any prefix: nothing, append, or lose one from the middle
  (`RemoveMiddle`). The type invariant is all these proofs need.
* `PipelineDuplicatesApart`: `DuplicatesApart`, the composition of the shards with
  the channels. `ReadInv` and `OrderInv` keep the messages of a source in the
  order they were read. `WindowInv` is the strengthening: the key of an event
  that was let through is in its shard, and at least as many messages of its
  source were read since as keys remembered; or it has left, and `MaxEntries` were.
  `AgeGrows` is what one more key does to the ages.
* `PipelineBalanced`: `Balanced`, from `Sums`, its books in lengths of sequences: what
  `btick_channel_drops_total` says is what a consumer does not get.

**Start, forwarders and broadcast loop.** From `BroadcasterAssumption` (every
channel has at least one slot, ticks are among the keys):

* `BroadcasterTypeCorrect`: `TypeOK`; `HandsInv` adds one event in a hand.
* `BroadcasterNothingBeforeRuntime`: `NothingBeforeRuntime`, by what each stage of
  `database-init` has opened (`StageInv`). It is about the messages of the
  broadcaster's loop: the hub's heartbeats and source statuses go out before.
* `BroadcasterFeeds`: the way from the engines to the hub implements `TickFeed`.
  `OrderInv` looks at the numbers of a key's events in the six places they pass:
  all in one place are older than all in the next one back (`Chain`), between the
  last broadcast and the last made. `PathMoves` says that handing the first event
  of a place to the next keeps it, `Recorded` that coalescing removes an event and
  keeps the order of the rest. `RoutedInv` adds that a channel carries its own keys.
* `BroadcasterAccounted`: `Accounted`, from `Sums`. The events in all channels of
  a kind are counted as a set of slots, so a sum over symbols is a cardinality and
  a step changes it by one (`LoadMore`).

**Hub.** From `HubAssumption` and `SymbolAssumption`:

* `HubInvariant`, `HubTypeCorrect`, `HubClosesOnce`, `HubUniqueSeq`: types,
  `ClosedOnce`, and that no client gets a number twice.
* `HubImplementsStream`: the hub implements `ClientStream`, for any number of
  clients and broadcasters: membership, the limit, nothing after removal, each
  broadcaster's order, no repeats; nothing about what a full queue drops. `Members` says that a broadcaster under the lock only
  has registered clients before it, `Calls` that the calls in progress carry
  different numbers, `Ordered` that a message still to be sent to a client is
  newer than all its own broadcaster has sent to it. A client's place in the
  handshake tells members from former ones, which is why a connection cannot join
  twice.
* `HubCaughtUp`: `CaughtUp`, no price falls between the initial state and the
  queue. `Told` is the strengthening: a client the broadcast loop has already
  passed in its walk has heard the price of that call, even one that is still in
  its handshake; what it is told at the end of that is the latest state, which is
  no older than any call.

**Writers.** From `WriterAssumption`:

* `WritersTypeCorrect`, `WritersLeaveNothing`: types; an engine's writer that has
  returned leaves nothing in its queue, and nothing comes any more.
* `WritersImplementStore`: the writers implement `StoreOnce`, for any number of
  writers, batches and faults and any keys, those of two symbols' snapshots
  included: what stops waiting has a row with its key, or was reported. `Numbered`
  bounds every item by the number offered
  so far, so that an item offered is new; `Hands` says a flush has items left
  exactly while it lasts; each action of a writer is either silent, or moves
  items of one writer from waiting to the table or the report (`Resolved`).

**Settlement.** From `SettlementAssumption` (among others: sources are finitely
many, a carried snapshot or one with too few sources is degraded):

* `SettlementConfirmedHealthy`, `SettlementConfirmedHolds`, `SettlementPriceFinal`:
  `ConfirmedHealthy`, `ConfirmedHolds` and `PriceFinal`, for any trades, delays,
  retentions, policies, chunk sizes and number of requests, with and without
  TimescaleDB, detected or not. The answers are history, so the invariant
  ties each to what the tables hold as long as neither pruner nor policy has reached it:
  `RowKept` (every answer was made from the row that is there), `SourcesKept`
  (what was confirmed by aggregating again could be confirmed now: the sources
  seen are at least as many, and once no trade is outstanding its price is the
  median of a choice the query still has). `PickedPerSource` counts the trades
  picked by their sources, `OnePick` says when the choice is unique.
* `SettlementTypeCorrect`: `TypeOK`. That an answer has a price rests on
  `MedianNat`: of finitely many trades one leaves out the fewest of the others,
  so some price is the highest (`HighestPrice`), and the smallest number that
  enough prices do not exceed is one of them (`KthPriceNat`).

**Adapters.** From `AdapterAssumption`:

* `AdapterInvariant`, `AdapterStateTruthful`, `AdapterPatient`: `StateTruthful`
  and the action property `PatientRedial`. `Waited` ties the back-off waited to
  the errors in a row, at least half of their delay whatever the jitter, and these
  to the refused dials: one less while the last is not counted yet.
  `BackoffGrows` makes the cap monotone.

**Only model-checked:** liveness, which rests on fairness and so on ENABLED:
`EverySecondPublished`, `RunReturns`, `PipelineStops`, `PipelineDrains`,
`GoneLeaves`, `SlowLeaves`, `ShutdownReachesAll`, `LatestDelivered`, `Settled`,
`WritersReturn`, `ExpiredPruned`, `Reconnects`, `AdapterStops`.

## 5. Where code and documents differ

One difference is a run: `shutdown_writes` (docs/OPTIMIZATION.md says batched
writes are not lost on shutdown). The models show others, which the modules
follow the code in:

* Outlier rejection that would leave no price keeps every price
  (`computeCanonical`), where docs/ARCHITECTURE.md says prices more than 1% from
  the median are excluded.
* A trade of price zero is refused nowhere. As a median it panics the outlier test
  (`snapshot.go:544`), in the loop, from which `safeGo` recovers, or in a finalizer,
  from which nothing does; as the lone price or half of an average it is published
  as a price, and afterwards taken for no price: seconds without a trade get no
  snapshot until the price is another.
* The carry duration is truncated to seconds, so the quality of a carry need not
  fall from one snapshot to the next.
* A tick is degraded by the sources before rejection, a snapshot by those after
  it.
* A finalizer changes the canonical price without a tick, although ticks are
  documented for every price change; the next tick is compared with that price.
  The write may put the price of the second over that of a newer trade.
* The latest state is written by ticks alone, so its `is_stale` is never true.
* A carry whose start a later finalizer has set has a negative duration, and a
  quality above the cap for stale snapshots.
* A trade of the next second that arrives in the grace replaces the venue's last
  trade, and the second is finalized without it: the grace helps late trades and
  hides earlier ones.
* `seq` grows along one broadcaster's messages; a client can get those of two
  broadcasters out of order, where docs/API.md calls `seq` monotonic.
* A subscription to unknown symbols alone is not ignored: it narrows the client
  to nothing.
* The first back-off is of two seconds, not one, before jitter: the error is counted
  before.
* A full `rawCh` is logged but in no counter, and a duplicate is refused in silence;
  a trade dropped after the duplicate test is refused when it is replayed.
* `snapshots_1s` has one row per second whatever the symbol: of two symbols'
  snapshots of a second the later is dropped without an error. The settlement
  queries have no condition on the symbol, re-aggregation rejects no outliers and
  takes any of equally close trades, and a failed query answers 404. A boundary whose
  snapshot is still in a batch answers 404 as well, and 200 later.
* The retentions of the configuration are those of the Go pruner; with TimescaleDB
  the policies of `001_init.sql` drop both tables after three hours (`config.yaml`
  says so), after which a confirmed settlement may be degraded or not found.

## 6. Plan

Done: every module of section 2, with the proofs of section 4. No module that is
proved about declares a RECURSIVE operator. What would come next, by what it adds:

1. `EngineGetsFifo` composed with `SnapshotEngine`: the events of a venue reach
   `updateVenueState` in order, and the latest trade it keeps is the last one sent
   that was not dropped.
2. `BroadcasterFeeds` composed with `WSHub`: the environment of the hub is replaced
   by the loop, and `CaughtUp` speaks of the engine's prices.
3. The steps of the liveness arguments that are safety: what a step enabled under
   fairness does to the measure that falls.

## 7. Not modelled

* Access control (`internal/api/auth.go`, `internal/storage/auth.go`): every
  request is looked up on its own; the state is a row no other component reads.
* Metadata, configuration, metrics: formatting of constants, values read once
  (they are the CONSTANTS of the modules), counters that nothing reads back; only the
  drop counters of the channels are modelled, in `Pipeline`.
* Message parsing of the exchanges and JSON of the API: functions of their input.
* The other REST handlers: one query or one latest state each, no state changed.
* The HTTP server's own shutdown and the failure of `ListenAndServe`, after which
  the process goes on without an API: one goroutine's end that no state reflects.
* The web client: a program of its own that sees the server only as a stream.
