# Atomic Mesh: TLA+ models, checks and proofs

This directory holds the formal models of the node in `src/`: TLA+ modules translated from the
source, TLC configurations that check them on small instances, and proofs that TLAPS checks for
every value of the constants.  Paths below are relative to `src/`; `main.rs` is
`crates/atomic-node/src/main.rs`.

## 1. The system

A node takes market data from exchanges, lets a C++ hot path decide on quotes, checks each order
against risk limits, tracks it, sends it to Binance over REST, logs every event, and replicates
events to peers over QUIC.  Everything that decides runs in one task: the `tokio::select!` loop of
`main.rs:504`.  Concurrency comes from the tasks around it.

### Components

| Component | State | Operations | Modelled in |
|---|---|---|---|
| Order tracker (`atomic-execution/src/state_machine.rs`) | order id -> order (state, original, filled, remaining quantity, last update), `next_local_id` | `register_order`, `on_ack`, `on_fill`, `on_cancel`, `on_reject`, `process_event`, `open_order_ids`, `stale_order_ids`, `gc_terminal`, snapshot / restore / hash | `OrderLifecycle`, `ExecutionEngine`, `ExecutionEngineProofs` |
| Risk engine (`atomic-risk/src/limits.rs`) | kill switch, circuit breaker, open-order count, PnL and peak, losing streak, spread, recent order times | `check_order`, `on_order_opened/closed`, `update_pnl`, `record_win/loss`, `update_spread`, `daily_reset`, kill switch on / off | `RiskEngine`, `RiskEngineProofs` |
| Main loop (`main.rs:504-1299`) | the two above, position, PnL, `last_seq`, order books, verifier | one branch each for feed event, gateway event, mesh message, heartbeat, shutdown | `LiveNode`, `LiveNodeProofs` (orders), `Recovery`, `RecoveryProofs` (numbers, disk), `Trading`, `Ledger`, `TradingProofs`, `BacktestProofs` (market data, fills, money) |
| Exchange gateway (`atomic-feed/src/gateway.rs`) | none of its own: spawned tasks and a channel of 10 000 events | `submit_order`, `cancel_order`, `cancel_all_open_orders`, user data stream | `LiveNode`, `LiveNodeProofs` |
| Dashboard (`dashboard.rs`) | one atomic `kill_action` cell; metrics | STOP ALL, CANCEL ALL, DISCONNECT; read-only pages | `LiveNode` (kill action) |
| Event log, snapshots, recovery, deduplication (`atomic-replay`, `recovery.rs`, `snapshot.rs`) | buffered append-only file, snapshot files, seen sequence numbers | append, flush, `read_all`, `plan_recovery`, `check` | `Recovery`, `RecoveryProofs` |
| Mesh (`atomic-transport`) | peers, streams | broadcast, receive; replication, sync, heartbeat, hash check | not modelled: it never connects (section 6) |
| Event bus (`atomic-bus`) | SPSC ring indexes and slots, sequencer buffer | `try_push`, `try_pop`, `sequence`, `drain` | `SpscRing`, `BoundedFifo`, `SpscRingProofs` (the ring) |
| C++ hot path (`cpp/src`, `atomic-hotpath`) | flat book, toxicity window, inventory, quote state, result ring | book update, trade, fill, generate quotes, ring push / pop | `HotPath`, `SpscRing` (its ring), `TradingProofs` |
| Rust strategy (`atomic-strategy`) | as the hot path, and a volatility estimate | event callbacks; its commands are not executed by the live loop | `MarketMaker`, `TradingProofs` |
| Simulated exchange (`simulator.rs`) | books, resting orders, pending events | submit, cancel, book update, drain | `SimulatedExchange`, `TradingProofs` |
| Order book (`atomic-orderbook`), router (`atomic-router`) | price levels; books per venue | snapshot, delta; slicing of an order by four algorithms | `OrderBook`, `Router`, `TradingProofs` (the books) |
| Fill accounting (`main.rs:939`) and the backtest (`main.rs:1404`) | position, cost basis, realized PnL, losing streak | fill, midnight reset; the backtest's loop | `Ledger`, `Trading`, `TradingProofs`, `BacktestProofs` |
| Feeds, normalizer, configuration, metrics, commands | parsing, I/O, sequential drivers | | not modelled |

### How they interact

* Feed and gateway tasks reach the loop through channels only; the dashboard through one atomic
  cell that the loop empties when the next *market* event arrives (`main.rs:583`).
* Inside one branch the loop calls tracker and risk engine directly; nothing interleaves with a
  branch except at its `await`s, of which only the mesh and the final drain have any.
* Orders leave the loop in spawned tasks (`main.rs:793`, `590`, `861`, `1172`).  Nothing orders
  these tasks: a submit may reach the exchange after a cancel-all issued later.  The replies return
  through the gateway channel, and the exchange reports the same executions a second time through
  the user data stream.

### What is hard, and what makes each component correct

* **Order tracker.**  Events arrive late, twice, or before the acknowledgement.  Correct: the
  quantities of an order always agree with its state; an order moves only along the order life.
* **Risk engine.**  Flags are derived from figures in different calls and reset together at
  midnight; the window of the rate limit is pruned by the calls it judges; the clock may be set
  back.  Correct: the rate limit holds for every run of orders, the breaker covers every breach,
  no order is accepted while a figure is beyond its limit.
* **Main loop and gateway.**  Two views of an order, the node's and the exchange's, joined by
  requests, replies and reports that may be lost, unreadable or late.  Correct: the open-order count
  never blocks the gate for good; the node knows every order the exchange holds; it does not run
  ahead of the exchange; every answered submit settles; limits hold; a shutdown leaves nothing open.
* **Recovery.**  Crashes between append, flush and snapshot; events numbered by three parties (loop,
  REST replies, stream).  Correct: what replay rebuilds is what was logged, nothing is applied or
  counted twice, no number is given out twice.
* **Trading.**  The same facts are kept two or three times by code written apart: book (flat array,
  map), flow window (C++, Rust), inventory (loop, hot path, market maker), money (live, backtest).
  Each copy has its own clamp, eviction order or rounding.  Correct: the copies agree wherever
  the code relies on it, quotes never pile up nor cross the fair value, PnL is the money moved.
* **Simulated exchange, router.**  Correct: simulator and tracker agree on what is open, orders keep
  their terms, no slice is invented or lost.
* **Rings.**  Lock-free indexes.  Correct: a FIFO, at every interleaving and past index wrap.

The full list of hazards, each at its line and with the properties that cover it, is in
`PROJECT.json`.

## 2. The modules

**`OrderLifecycle`** is the abstract specification: the diagram `Unknown -> New -> Ack ->
PartialFill* -> Filled | Canceled`, `New -> Rejected`, with a quantity that only grows, and the
dropping of terminal orders.  It knows nothing of remaining quantities, timestamps or ids.

**`ExecutionEngine`** is the tracker.  Handlers that return `Err` leave it as it was and every
caller drops the error, so each handler is an operator from order map to order map (`OnAck`,
`OnFill`, ... , `ProcessEvent`), which other modules reuse.  As a specification of its own it takes
any event about any order from any caller (the log, a peer, the exchange), the local path
`PlaceOrder` (mint, create, register), and `Collect` (`gc_terminal`).  Fields stored and never
decided on (symbol, price, venue, exchange id) are left out.  `Life!Spec` is the refinement: an
absent order maps to `Unknown`, the rest is read off the order map.

**`RiskEngine`** has one action per call the loop makes.  `check_order` is four actions by outcome:
refused before the rate limit (no effect), by the rate limit (the window is pruned all the same), by
the loss limit (pruned, and the kill switch engaged), accepted (pruned, recorded, and counted by
`on_order_opened`, which the caller always calls next).  The `Vec` of timestamps is the set of the
orders they belong to.  `current_ts - ts` on `u64` wraps in a release build: a timestamp ahead of the
clock counts as old (`Recent`).  `ClockTick` and `ClockStep` are the wall clock: `SystemTime` is not
monotonic.  `accepted` and `stepped` are histories for the properties.

**`LiveNode`** composes an instance of the tracker's operators with the open-order count and kill
switch, the loop, gateway tasks, exchange, stream, dashboard and shutdown.

| Variable | Code |
|---|---|
| `orders`, `next_local_id` | `execution` |
| `open_order_count`, `kill_switch` | the fields of `risk` |
| `commands` | the `Vec` a feed event is answered with (`main.rs:662`), executed before the loop selects again |
| `phase`, `drain` | the loop, the drain of `main.rs:1261`, the end of `main` |
| `kill_action` | `DashboardState::kill_action` |
| `requests` | spawned tasks whose HTTP request is under way |
| `submit_reply`, `cancel_reply`, `stream` | gateway-channel events not yet received, by sender |
| `exchange`, `unreadable` | external: the account's orders; a history of replies that did not parse |

Actions: `FeedEvent` (kill action, then a batch of commands), `ExecuteCancelAll`, `ExecutePlace`,
`RefusePlace`, `FromSubmit` / `FromCancel` / `FromStream` (the gateway branch), `Heartbeat`,
`Shutdown`, `DrainOne`, `DrainFails`, `Stop`; outside the loop `Dashboard`, and for each request what
may become of it: `XSubmit`, `XSubmitReplyLost`, `XSubmitUnreadable`, `SubmitFails`, `XCancel`,
`CancelFails`, `XCancelAll`, `CancelAllFails`, and `XFill`, `LoseReport`.

Abstractions of `LiveNode`, each with its reason:

* The channel is folded into its senders: a FIFO per sender with arbitrary merging is exactly what
  one bounded MPSC channel gives while it is not full.  Its bound of 10 000 is not modelled.
* A second identical request under way is the first one: two cancels of one order, or two
  cancel-alls, in flight at once are merged.
* Several fills in one REST reply are one fill of their sum.
* Which orders look stale, and what the price, position, spread, rate and PnL gates answer, is left
  open: `Heartbeat` takes any acknowledged open orders, `RefusePlace` is always possible.
* What the hot path answers is any of the six shapes `generate_quotes` can produce.
* After `Shutdown` events nobody will receive are forgotten, to keep the state small.
* The testnet's seed and reseed orders, sequence numbers, the log and the mesh are left out.

**`Recovery`** is the same node seen from its disk, over several lives: the log file and its
`BufWriter`, the snapshot, the crash, the start-up of `main.rs:158-206`, and the sequence numbers.
It reuses the tracker's operators for both live handling and replay.

| Variable | Code |
|---|---|
| `file`, `torn`, `buffered` | records in the log file, whether it ends inside one, records in the `BufWriter` |
| `snapshot` | `snapshot_latest.bin` (renamed into place, so whole) |
| `last_seq`, `stream_seq`, `seq_base` | who numbers events: the loop, the stream task from 900 000 000, each submit for its replies |
| `todo`, `seen_seqs`, `max_seen` | the places in `file` whose events of `events_to_replay` are still to come, the `EventDeduplicator` |
| `exchange`, `executed`, `closed` | external: how far a submit is, what was executed, what can trade no more |
| `applied`, `ahead`, `before`, `intact` | histories for the properties |

Actions: `FeedEvent` (market event, orders, both flushes), `RestAck`, `RestReject`, `RestFill`,
`RestCancel`, `StreamFill` (the gateway branch by event), `Heartbeat` (snapshot), `Shutdown` (flush,
snapshot), `Crash`, `Start`, `ColdStart`, `ReplayDuplicate`, `ReplayEvent`, `Ready`.  A crash is one
of the process: written bytes stay.  `BufWriter` takes the length of a record and its body as two
writes, and spills between writes when full, so any prefix of the buffered records may have reached
the file, with or without the length of the next one; in the second case `read_all` fails and the
node starts cold, its snapshot unused.  Each execution is reported by one side only; cancel-alls, the
peers' events and the sync request are left out; times are left out, so "identical" means equal up to
the times of the orders.

**`SpscRing`** holds both lock-free rings: `SpscRing` (`ring.rs`), whose indexes run modulo the
capacity with one slot kept free, and `hp_ring` (`ringbuf.cpp`), whose 32-bit indexes run freely;
`impl` is chosen once.  A push is the load of the other's index with its test (`PushFull`,
`PushRoom`), the write of the slot (`PushWrite`), the store of the own index (`PushPublish`); a pop
likewise.  The own index cannot change under its owner, so its load is no step.  Every slot access is
ordered by a release store and an acquire load of an index, which is why interleaving of whole steps
is faithful.  **`BoundedFifo`** is the abstract queue with answers: a push may answer "full" only when
it is, a pop `None` only when it is empty.  The mapping reads the queue off the slots between tail and
head; push and pop take effect at the stores of the indexes.

**`Levels`**, **`HotPath`**, **`MarketMaker`**, **`OrderBook`**, **`Router`**,
**`SimulatedExchange`**, **`Ledger`** hold the sequential components: a call is an operator from the
component's state (a record) to its next state and, for the hot path, the commands returned.
**`Trading`** owns their states as variables and puts them together as `main.rs` does, in one of
three modes chosen at the start:

| Mode | Code | Actions |
|---|---|---|
| `live` | the `select!` loop | `LiveBookUpdate`, `LiveTrade`, `QuoteFill` (gateway fill), `Midnight` |
| `backtest` | `run_backtest` | `BacktestBookUpdate`, `BacktestTrade`: one event of the recording with everything it causes, up to the drained fills |
| `harness` | the simulator as its tests drive it | `HarnessBookUpdate`, `HarnessSubmit` (every order type and time in force), `HarnessCancel` |

| Variable | Code |
|---|---|
| `hp`, `mm` | the C++ engine behind the FFI; the Rust `MarketMaker` with tracker and inventory |
| `book`, `router` | `books[pair]`; the router's books per venue |
| `ledger` | `position_qty`, `cost_basis`, `realized_pnl`, `last_flat_pnl`, and the risk engine's losing streak |
| `orders`, `next_local_id` | the order tracker (operators of `ExecutionEngine`) |
| `quotes` | live: the quotes placed, as the exchange may fill them |
| `sim` | the `SimulatedExchange` |
| `hist` | histories: cash moved, sums of fills, orders as submitted and the prices they traded at |
| `mode`, `budget` | bounds: how many inputs of each kind may still come |

What the code does and a reader may not expect: the first quote ever is not held back by the warmup
(`engine.cpp:89`); a full flat book drops a new level however good; the Rust market maker computes its
fair value from the levels of the event, of a delta too; books are keyed by pair, so two venues write one
book; midnight zeroes the loop's position and leaves both engines' inventories; the backtest decides
whether to execute commands on a position older than the fills of the same event.

Abstractions of `Trading`: one pair; live, the exchange may fill any quote ever placed (canceled or filled
before, too: the races that cause it are in `LiveNode`), at its price or a better one, and the risk
engine may refuse any order; what a feed delivers is `FromFeed`: a snapshot is sorted and carries no level of
quantity zero, as the depth20 stream the node subscribes to sends it (`binance.rs:42`), and a delta fits the flat book
(20 levels a side against the 40 of `hotpath.h:23`); recordings and tests are not held to this; latencies,
exchange ids, and C++ state that is written and never read are left out; nothing the commands of the
Rust strategy would do, as nobody executes them.  Averages are an f64 in the code (`main.rs:979`) and
a truncating integer quotient here; at the sizes checked both agree, and where they differ f64 is one
unit of price lower (smallest case: cost 61, position and fill 7), which a flip or flat position would show as
one pipette of PnL.

Definitions marked "for mutation" are plausible bugs.  They are used by no specification; each is
put in the place of the definition it imitates, to confirm that the property listed with it in
`PROJECT.json` fails.

## 3. The runs

| Run | Configuration | Shows |
|---|---|---|
| `engine` | `MCExecutionEngine.cfg`: two local ids and a foreign one, sizes 1 and 2, fills of 0, 1, 2 | `TypeOK`, `FillAccounting`, and that the tracker implements `OrderLifecycle` (`ImplementsLife`) |
| `risk` | `MCRiskEngine.cfg`: two orders a second, two open orders, two losses, 50% drawdown, clock 0..3, a second of 2 units, three accepted orders | `TypeOK` (with the open count within its limit), `RateLimited`, `BreakerCoversBreach`, `AcceptedWithinLimits` |
| `live` | `MCLiveNode.cfg`: two orders of size 2, all three gateways, faults, STOP ALL | `TypeOK`, `CountUnderOpen`, `ExchangeOrdersKnown`, `RestNeverAhead` |
| `live_settles` | `MCLiveSettles.cfg`: two orders, REST only, faults, CANCEL ALL, fairness | `SubmittedSettles` |
| `recovery` | `MCRecovery.cfg`: two orders of 2; paper: 6 numbers, 3 lives; REST and stream: 4 numbers, 2 lives | `TypeOK`, `NoDoubleReplay`, `FillsCountedOnce`, `PaperSeqFresh`, `PaperReplayIdentical` |
| `replay` | `MCReplay.cfg`: REST gateway, one restart | **violated** `ReplayIdentical` |
| `ring` | `MCSpscRing.cfg`: four slots, two values, C++ indexes of four bits that do not wrap | `TypeOK`, `NoDataRace`, `ImplementsFifo` |
| `ring_wrap` | `MCRingWrap.cfg`: the C++ ring, one wrap | **violated** `PopRefusesOnlyEmpty` |
| `trading` | `MCTrading.cfg`: two venues, orders of 2, flat books of two levels, three mid prices; all three modes | `TypeOK`, `BooksAgree`, `FlowAgrees`, `QuotesPassive`, `NoStackedQuotes`, `InventoryTracks`, `MirrorReflects`, `LiveBooksBalance`, `BacktestBooksBalance`, `JudgedByCash`, `FlatMeansNoInventory`, `PositionBounded`, `RouterConserves`, `TrackerMirrorsVenue`, `OrderTermsKept` |
| `short_pnl` | `MCShortPnl.cfg`: whole orders, no fees | **violated** `FlatPnlIsCash` |
| `open_orders` | `MCOpenOrders.cfg`: limit of one open order, no faults | **violated** `OpenOrdersBounded` |
| `shutdown` | `MCShutdown.cfg`: one order, no faults | **violated** `ShutdownLeavesNothing` |

The properties in words:

* `FillAccounting`: remaining = original - filled (not below zero); nothing filled before the
  acknowledgement or after a reject; `Filled` exactly when fills reached the size.
* `RateLimited`: between clock steps, any `MaxOrdersPerSecond` + 1 consecutive accepted orders span a
  second.  Across a backward step the wrap forgets orders and the statement would be false; `stepped`
  marks where it starts anew.
* `BreakerCoversBreach`, `AcceptedWithinLimits`: the latched flag, and then every accepted order, is
  checked against the figures themselves.
* `CountUnderOpen`: `open_order_count` never exceeds the orders really open, so orders long gone
  cannot use up the limit.
* `ExchangeOrdersKnown`: whatever is under way or at the exchange was registered first; every id
  minted is registered.
* `RestNeverAhead`: with REST replies alone the tracker never believes more executed than was, and
  an order it calls Filled or Canceled is closed at the exchange.  Rejected is left out on purpose: a
  lost reply is turned into a reject of an order that lives on (`gateway.rs:213`).
* `SubmittedSettles`: once its submit ended, an order leaves `New`, unless the reply did not parse.
* `NoDoubleReplay`: one replay applies a number twice only after the deduplicator forgot it, that is
  with a number higher by `Keep` (50 000) met in between.
* `FillsCountedOnce`: over any crashes and restarts no order shows more executed than was, unless a
  snapshot was taken under a number below that of a fill it contains (`ahead`).  The exception is
  real: it is what `ReplayIdentical` fails on.
* `PaperSeqFresh`: without a gateway the log is strictly ordered and the loop never gives out a
  number again, whichever of snapshot and log was newer at the crash.
* `PaperReplayIdentical`: without a gateway, a stop that lost nothing is undone by the restart.
* `NoDataRace`: producer and consumer are never about to access the same slot (`unsafe impl Sync`).
* `ImplementsFifo`: nothing lost, repeated, reordered or refused without cause.
* `BooksAgree`, `FlowAgrees`: the C++ book and toxicity window against the Rust ones, over any
  snapshots, deltas and trades; the book completely as long as no side outgrew the array.
* `QuotesPassive`: no inventory, skew or spread takes a quote across the fair value.
* `NoStackedQuotes`: at most one bid and one ask are in the market, over refusals, toxic pulls, fills and
  backtest events whose commands are not executed.
* `InventoryTracks`, `MirrorReflects`: what the clamp of the hot path and the "never negative" of the
  Rust inventory make of the fills: exactly their sum while within `max_inventory`; their sum above
  its lowest value ever, for good.
* `LiveBooksBalance`, `BacktestBooksBalance`, `JudgedByCash`: realized PnL = money moved + cost of
  the open position, over partial closes, flips and fees; the streak fed to the breaker is that of the round
  trips that lost money.  Live only until a short is closed, see `FlatPnlIsCash`.
* `FlatMeansNoInventory`, `PositionBounded`: what the stale flat check of the backtest may and may not
  do: the position reaches two orders (a quote pair placed when one of the old pair was just filled), never
  more, and the hot path's inventory is zero whenever the backtest's position is.
* `RouterConserves`: per algorithm, how far the slices' sum may be from the order, for every iteration
  order of the venues; a sweep takes best prices first and all there is.
* `TrackerMirrorsVenue`, `OrderTermsKept`: tracker and simulator agree on open orders but for leftovers
  of market and stop orders, which the simulator drops silently (`simulator.rs:316`); fill-or-kill is all or nothing,
  immediate orders end at once, no order trades through its limit.

**Bounds.**  All are constants.  Order quantities of 2 give partial, complete and excessive fills;
two orders give every pairwise interplay (one order's cancel with the other's submit, reordering of
their replies), and no handler relates three orders.  In `risk` the limits are one below what the
bounds allow, so each gate accepts and refuses; the streak is counted to one past its limit; the clock runs
past a second and back.  `MaxLocalId` orders in one behaviour is what bounds `LiveNode`: the exchange
and the stream grow with them only.  In `recovery` flushes come every second
number, snapshots every third, and the deduplicator keeps two numbers, so that every order of flush, snapshot,
spill, prune and crash occurs; 4 numbers hold one batch of two orders and a market event after it.  A
life without a gateway has few histories, so it gets three lives.  In `ring` two values tell order and loss
apart, and the Rust indexes go round for ever.  In `trading` the
budgets of a mode are a set of [updates, trades, fills, midnights]: live (3,0,1,0), (2,3,0,0), (2,0,5,0),
(1,1,3,1), one per kind of interplay, backtest (6,1,0,0), harness (2,0,0,0) with three orders.  They
reach partial fills, flips, two losing round trips in a row, inventories beyond the clamp, full and overfull flat books,
the toxic pull, window eviction, requotes after cooldown, positions of two orders in the backtest, partial rests, silent
leftovers and a sweep over two venues; quantities of one half of an order and `qty_divisor` 2 make the live values round.
The theorems below need none of these bounds to be small.

**Deadlock** is not checked for `LiveNode` (the node stops), `Recovery` (the bounds end the last life)
and `Trading` (the budgets end).

**Fairness** (`live_settles` only).  Weak fairness of the execution of a pending command: it is
straight-line code inside one branch.  Strong fairness of `FromSubmit`: `select!` without `biased`
polls its branches in random order, so a reply that is in the channel whenever the loop selects is
received in the end; weak fairness would not do, as the branch is not enabled while commands
execute.  Nothing is assumed of exchange and network: the HTTP client has no timeout
(`gateway.rs:113`), so `SubmittedSettles` starts when the submit has ended.

### Disagreements between code and documentation

* **`OpenOrdersBounded`.**  `limits.rs:17` calls `max_open_orders` the "Maximum number of open
  orders."  `main.rs:929` calls `on_order_closed` for partial fills too.  The run: place, accept with
  a partial fill, handle it (the order stays open, the count is 0), place again: two open orders under
  a limit of one.
* **`ShutdownLeavesNothing`.**  `README.md:95` says "open orders are cancelled before exit".  The
  drain cancels each order once while its submit may still be on its way in a spawned task; the
  cancel finds nothing, the submit arrives, the order outlives the node.
* **`ReplayIdentical`.**  `log.rs:7` says "replay(events.log) must produce identical state", and
  `README.md:202` that "Event deduplication prevents double-processing during recovery".  The run:
  an order is acknowledged and partly filled by the REST reply, the node stops cleanly.  The fill was
  logged under `seq_base + 1`, above the `last_seq` of the final snapshot, so the restart replays it
  on top of the snapshot: the order shows twice what was executed.  Without a snapshot the
  acknowledgement, numbered as its `OrderNew`, is dropped as a duplicate.
* **`PopRefusesOnlyEmpty`** (a bug).  `hotpath.h:153`: "Returns true if pop succeeded (not empty)".
  `ringbuf.cpp:75` tests `t >= h` on free-running 32-bit indexes: once the head has wrapped and the
  tail has not, a pop refuses although the ring is full, a push refuses because it is, for ever.

* **`FlatPnlIsCash`** (a bug).  `main.rs:962` adds the exit value of a closed short to the (negative)
  cost basis, "reduce cost basis for closed portion"; the entry value belongs there, as the backtest has it
  (`main.rs:1565`).  The run: sell 2 at 12, buy 2 at 8 (flat, PnL 8, cost basis -8 left), buy 2 at 8, sell
  2 at 12: realized 24 where 16 was earned.  Live PnL, drawdown and the losing streak are wrong from there to midnight.
* Seen, not a run of its own: `README.md:288` says the backtest's "position-aware command gating holds
  unfilled quotes alive after partial fills".  The gate reads the position before the fills of the event are
  drained (`main.rs:1473`), so a fresh quote pair may replace the other half of a pair whose first half was
  just filled; position then goes to two orders, which `PositionBounded` bounds.

## 4. The proofs

`tlapm` checks every obligation of these modules; no step is left open.  Nothing is assumed but the
ASSUMEs on the constants, each next to them in its module: `EngineAssumption` and `RiskAssumption`
(types, positive order sizes, foreign ids are not minted ones), `SpscAssumption` (the C++ index range
is a multiple of the capacity), `TradingAssumption`, `InputAssumption` and `HarnessAssumption` (below),
`LiveAssumption` and `RecoveryAssumption` (types, positive order sizes
and, for the second, positive intervals of flush, snapshot and pruning).

**`ExecutionEngineProofs`**, for any ids, sizes, times and number of orders:

* `TypeCorrect`: `Spec => []TypeOK`.
* `FillAccountingHolds`: `Spec => []FillAccounting`.  `FillAccounting` is not inductive by itself: it
  needs the types, and that `original_qty` is positive (an order of size zero would be complete
  before its first fill).  The inductive invariant is the conjunction, per order; one lemma per
  handler shows that it keeps each order good, and one that `ProcessEvent` is one of the handlers.
* `TrackerImplementsLife`: `Spec => Life!Spec`, from the same invariant: each handler's lemma says
  which abstract move it is, or that nothing changed.

**`RiskEngineProofs`**, for any limits, bounds and order of calls:

* `TypeCorrect`, `BreakerHolds`: direct inductions.
* `RateLimitHolds`: the strengthening is `Ordered` (times accepted since the last clock step do not
  decrease and lie not after the clock) and `Forgotten` (an order accepted since then and no longer
  kept is at least a second old).  An accepted order finds fewer than the limit still kept, so the
  order that many places before it, if since the step, is among the forgotten.
* `AcceptanceHolds`: the action property, from `BreakerCoversBreach` and the gates.

**`SpscRingProofs`**, for any capacity and index width:

* `TypeCorrect`, `RaceFree`: the strengthening is `Room` and `Something`: what a thread saw in its
  test still holds when it acts, as the other thread only ever adds to it.  The rest is arithmetic of
  remainders: two indexes less than a lap apart have different slots (`SlotsDiffer`).
* `RingsImplementFifo`: adds `Bounded`, `Written` (the slot about to be published holds the value),
  `Filled` (only values between tail and head) and `NeverWraps`.  It assumes that the C++ head stays
  below its width; `ring_wrap` shows that this is needed.  The Rust ring needs no such assumption.

**`TradingProofs`** and **`BacktestProofs`**, for any prices, quantities, fees, half-spread, skew, window, book
depth and order size, any sequence of books, trades, fills, refusals, days and orders, in all three modes.
What they assume of the constants, and where it comes from:

* `TradingAssumption`: types; the two toxicity windows are equally long (both 200: `signal.cpp`, `market_maker.rs`);
  in a backtest the order size is at most the inventory limit (`main.rs:1405`: the same number).
* `InputAssumption`: what the live loop hears is `FromFeed`; recorded books, trades and test inputs have types only.
* `HarnessAssumption`: the orders given to the simulator directly are of the four types and four times in force, with
  a positive size.

The loops of this code are folds, and what a fold preserves is proved by induction over its steps.  The library's
induction theorems take the predicate as a parameter, which no prover here can instantiate.  **`FoldFacts`** has the
loop's body (`Step`), the predicate its iterations keep (`Good`) and the term of a sum (`Term`) as CONSTANT operators,
proves `FoldInduction`, `FoldSteps` (a fold has all its intermediate states) and the laws of finite sums once, and is
instantiated by name for each loop; a lemma `...IsFold` says that the model's operator is that fold.

The inductive invariant is `TradingInv`: one conjunct a mode.

* Live, the money (`LiveInv`).  `InventoryFollows` and `MirrorFollows` are direct inductions, once neither a book update
  nor a trade is known to touch an inventory, whatever the quoting computes.  `BooksHold` and `JudgementHolds` are not
  inductive; they need that, until a short is closed, the books balance, a flat position has no cost basis, and
  `last_flat_pnl` is the cash at the last flat position (`Judged`).  That a whole position takes its whole cost with it
  (`WholeEntry`) is where the f64 of the code is an integer here.  `short_pnl` shows why the condition on shorts is needed.
* Live, the quotes (`QuotingInv`): `EngineInv` and `MakerInv` (types; the running volumes are the sums over the window;
  the last quote does not cross the last fair value; the inventory is within its clamp), both windows are one, at most one open quote a side,
  and none without `has_active_quotes`.  The last conjunct is what `NoStackedQuotes` leans on: an answer that
  places without `CANCEL_ALL` comes only when the flag is off.  From it come `VolumesAreSums`, `NeverCrossed` (the skew is at
  most the half-spread, because the inventory is clamped and division truncates towards zero) and the live half of `OnePair`.
* Live, the two books (`LiveAligned`, kept relative to `TradingInv`): `Agrees`, the flat side
  sorted, within its capacity and every level of it in the map; and `Whole`, as many levels here as there, as long as
  everything fitted.  An insertion, change or removal in a sorted bounded array is
  compared with the map's, then a delta and a snapshot by induction over their levels.  Yields `BooksStayAligned`.
* Harness and backtest, the exchange (`VenueState`): the reports of a call are applied only after it, so
  within a call tracker and exchange disagree.  `Seen` is what the tracker will hold of an order once the pending
  reports are drained; `VenueInv` says that by this view every order is in its place, kept its terms and traded
  at prices it accepts.  Every exchange operation keeps it (`VenueMakerFill`, `VenueCancel`, `SubmitKeeps`, ...), and draining
  makes the view true.  Yields `TrackerKnows` and `TermsHold`.
* Backtest (`BacktestInv`): adds the books (`Solvent`) and `Lodged`: what rests is at most one order a side of at
  most the order size and cannot take the position beyond two orders; and where the clamped inventory differs from the exact
  position, no resting order can bring the position back to zero.  Again the state within a tick is looked at through the
  reports still to come (`Banked`, `Later`), and passes through `Fed` (matched against the new book; the position was flat), `Calm`
  (canceled) and `Bidding` (the bid placed) to `Lodged`.  Neither `FlatMeansNoInventory` nor `PositionBounded` is
  inductive without it.  Yields `FlatIsFlat`, `TwoOrdersAtMost`, `BacktestBooksHold` and the other half of `OnePair`.

`TradingTyped` (`TypeOK`) follows from all of these.

**`LiveNodeProofs`**, for any order size, limit, number of orders and choice of gateways, with and
without faults, kill actions and a shutdown at any time.  The invariants stand on each other, in this
order, so that the proof about each variable is done once:

* `TypeCorrect`: `Spec => []TypeOK`.
* `RegisteredFirst`: `ExchangeOrdersKnown`, inductive with `SoundOrders` (all orders have the
  configured size, none has executions while `New`), which the later invariants need.
* `CountHolds`: `CountUnderOpen`.  Inductive where the types hold, but every step needs to know by how
  much the set of open orders may shrink: each handler changes one order, so `process_event` takes at
  most one order out of the set, and then the loop's branch also takes one from the count, or the count was
  already zero (`saturating_sub`).
* `RestHolds`: `RestNeverAhead`.  Far from inductive: it speaks of orders, but what may run ahead are
  the replies that have not arrived.  The strengthening `RestInv` follows an order through its requests: a submit under way
  has had no effect and its order is still `New`; a reply is about its own order, a fill is
  its last event, was executed, and is the first the tracker hears of; a cancel that was confirmed closed
  its order; an order open at the exchange has something left to execute.

**`RecoveryProofs`**, for any number of orders, any intervals of flush, snapshot and pruning, any first
number of the stream, and any number of crashes, restarts and torn logs.  It makes use of `todo` being a set
of places in the file:

* `TypeCorrect`: `Spec => []TypeOK`.
* `ReplayedOnce`: `NoDoubleReplay`.  Inductive as `DedupInv`: every number applied is remembered, or
  one higher by `Keep` was applied; `max_seen` is the highest number applied or, before the first,
  the snapshot's, and then all that is left to replay lies above it.  (The last is what makes
  the snapshot's number harmless: it is never itself in the set of the seen.)
* `NumbersFresh`: `PaperSeqFresh`, through `NumbersInv`: the buffer is empty unless the node is live,
  the log with its buffer ascends, and while the node is up neither the log nor the snapshot is ahead
  of `last_seq`, whichever of the two the crash left newer.
* `RecoveryExact`: `PaperReplayIdentical`, through `OrdersInv`: orders, snapshot and log speak of
  acknowledged orders nowhere (`AllFresh`), so that an order map is its domain; and the snapshot with the
  records numbered above it registers exactly the orders of the node that stopped (`StoppedOrders`), of
  the node that runs (`LiveOrders`), and, without the places still to do, of the replay
  (`ReplayedOrders`).  That the log ascends (`NumbersInv`) keeps the deduplicator from dropping one.
* `NothingCountedTwice`: `FillsCountedOnce`, with all gateways.  The invariant compares an order with a sum
  over the log.  Such a sum is a recursion, about which nothing can be proved here, so
  `FillsInv` states that there *is* a function `f` of the places of the log that starts at what the snapshot says
  and grows at each fill above it (`RunningTotal`), ends at or below what was executed, and
  bounds the order at the place the replay has reached.  Each step shows how `f` is made from the one
  before: extended at an append, cut where a crash cuts the log, collapsed by a snapshot.

All strengthenings were checked with TLC, as invariants of the configurations of the runs (with quantifiers over
numbers bounded).

Only model-checked:

* `RouterConserves`: the router sorts the levels of several venues with `SortSeq`, whose library definition the provers
  cannot unfold, and the sweep looks at the 20 best levels of a venue (`router.rs:177`), so that "all there is" holds
  for books of bounded depth only;
* `SubmittedSettles`: liveness under fairness, out of this prover's reach, as is ENABLED;
* the five violations, which are counterexamples.

## 5. Plan

The modules planned are in place.  What could still be added:

1. `Recovery`: ids minted again after a replay of `OrderNew` (`state_machine.rs:300`) as a property.
2. `LiveNode`: a STOP ALL overwritten before it is seen, orders rejected locally and open at the
   exchange, the bound of the gateway channel during the drain.
3. `Mesh`, if its endpoint is ever given a client configuration: two nodes, replication, sync; ids
   minted on both sides; hash comparison.

## 6. Not modelled, and why

Signing, formatting and HTTP details, TLS and QUIC set-up, WebSocket and JSON parsing of market
data, dashboards, metrics, configuration parsing, the replay command, and the backtest's report:
I/O and presentation that decide nothing the properties speak of.  The replay player is a cursor over a
vector; the backtest reads it front to back, here as arbitrary events.  `LamportClock` and
`EventSequencer` are created by the node and never used by it.  The internals of Binance are external: they
appear only as what the gateway's code expects of them.

The mesh: `connect_to_peer` (`mesh.rs`) calls `connect` on an endpoint made by `Endpoint::server` that
is never given a client configuration, which quinn refuses.  No connection is ever made, broadcasts reach
nobody, and no message handler of the loop runs; a model of replication would be one of code that cannot
execute.  The Rust strategy's commands, its snapshot and the dispatch over several strategies
are not executed by the node; the testnet's seed orders (`main.rs`, `seed` and `reseed`) are a convenience of the demo.
