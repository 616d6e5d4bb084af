# Specifications of the Chronos trading engine

TLA+ modules, TLC configurations and TLAPS proofs for the C++ trading engine of
this repository (`include/chronos`, `src/main.cpp`, `src/app_config.hpp`,
`tools`). Paths in this file are relative to the repository's root; line numbers
are those of the modelled commit.

The repository ships headers, two programs and no tests. Many classes are only
declared here; their bodies are in the prebuilt library `libchronos`. What is
modelled step by step is therefore the code the repository holds: the queue, the
publication of the risk parameters and of the order book, the grid strategy, the
replay, the configuration, and the program that wires the threads together.
Where a modelled part calls into the library, the contract its header states is
modelled, and said so.

## 1. Inventory

| Part | State | Operations | What makes it correct | Module |
|---|---|---|---|---|
| `utils/mpmc_queue.hpp` MPMCQueue | `head_`, `tail_`, a sequence number and an element per slot | `try_push`, `try_pop`, `size`, `empty`, from any thread | bounded FIFO; exclusive slots; no false answer without a cause; progress | MPMCQueue |
| `risk/risk_engine.hpp` RiskEngine | `hot_params_` with a version, two cold buffers, `active_cold_`, `write_idx_`, rate counters | `publishParams`, `readHotParamsOptimistic`, `getReadBuffer`, `checkOrder` (library) | a check uses one update's parameters; the reader returns; the limits hold of what was executed | RiskParams, Trading |
| `strategies/grid_strategy.hpp` GridStrategy | per level a price, a buy id, a sell id; counters | `onLoad`, `onTick`, `onFill`, `onTimer`, `onUnload` | ids and exchange orders agree; one answer per filled order; stale orders go | GridStrategy |
| `trading/strategy_engine.hpp`, `strategy.hpp` | three queues, order books, positions, strategies | `pushTick`, `pushFill`, dispatch loop (library), `submitOrder` | ticks in order, one thread for all callbacks; nothing lost but what was refused | Pipeline, Trading |
| `execution/order_gateway.hpp`, `execution_handler.hpp` | pending orders, id maps, statistics | I/O thread (library), `injectFill`, `injectOrderReject`, `cancelAllPending` | no order sent or filled twice, or forgotten when a send fails; fills and closings may come in either order | Pipeline, Trading |
| `execution/binance_user_stream.hpp`, `binance_http_client.hpp` | connection, listen key | read thread calling the gateway; REST calls | stopped after what it calls is no longer needed, and before what it calls | Pipeline |
| `src/main.cpp` | `g_running`, the components, the md_bridge thread | construction, `runFileReplay`, `runLive`, the fill callback, `handleSignal` | starts and stops in an order that is safe, shutdown ends; simulation unless asked otherwise | Startup, Pipeline, Replay |
| `src/app_config.hpp`, `core/config.hpp` | `AppConfig` | `parseArgs`, `loadConfig`, `resolveEnv` | precedence of file, environment and defaults; defaults written twice agree | Startup |
| `market_data/orderbook_v2.hpp` | hot top levels under a version, two cold buffers, a dirty flag | `update`, `clear` (library), `readHotDataOptimistic` | reads are of one rebuild; arrays hold | OrderBookV2 |
| `trading/position_manager.hpp`, `core/types.hpp` | per symbol quantity, average price, realized profit; a cached total | `updatePosition`, `getTotalPositionValue` | books follow the reported fills; profit adds up | Trading |
| `logging/log_writer.hpp`, `log_reader.hpp` | a buffer and a file per type | `write*`, `flush`, `stop`; `open`, `*At` | what is read is what was accepted, whole and in order | TickLog |
| `backtest/time_replayer.hpp` | positions, a heap by time | `addStream`, `advanceToNextEvent`, `isExhausted`; `pause`, `resume`, `advanceTo`, `advanceToEnd`, `setAcceleration` (not modelled) | events merged by time, each valid record once | Replay |
| `tools/generate_demo_logs.cpp` | a writer | writes the logs a replay reads | logs in order of time | Replay (the writer) |
| `trading/order_id_generator.hpp` | one atomic counter | `next` | ids unique, never 0 | GridStrategy, Trading |
| `logging/zmq_bridge.hpp` | a queue of 65536, a drop counter | `publish*`, `stop` | not called after its stop | Pipeline |
| `market_data/gateway.hpp`, `any_gateway.hpp`, `gateway_v2_factory.hpp` | connections | subscribe, start, stop | source of ticks between start and stop | Pipeline |
| `market_data/adapters`, `io/*`, `market_data/orderbook.hpp`, `backtest/backtest_engine.hpp`, `metrics.hpp`, `monitoring`, `utils/cpu_affinity.hpp` | | | | none, see section 6 |

How they meet: every hand-over between threads is an MPMCQueue. The feed's
thread pushes ticks into `md_queue`; the md_bridge thread (in replay, the main
thread inside the replayer's callback) carries each to the engine's tick queue, to
ZMQ and to the log; the engine's thread runs the strategies' callbacks and pushes
accepted orders into the order queue; the gateway's thread takes them, and either
it (simulated) or the user stream's thread (real) calls the fill callback of
`main.cpp:172-175`, which pushes into the fill queue and publishes on ZMQ. The
engine takes the fill, updates the position and calls the strategy; the position
is what the next risk check looks at.

What is hard to test here, line by line, is the `hazards` list of `PROJECT.json`:
races inside the queue and the two seqlocks, order ids overwritten while their
order is live, fills split, late, lost, or racing cancellations, answers of full
queues nobody looks at, records cut in half by a crash, and the order of the stops.

## 2. Plan

1. *(done)* MPMCQueue and its abstract BoundedFifo, with proofs: everything else
   talks through it.
2. *(done)* RiskParams and its abstract AtomicParams, with proofs.
3. *(done)* GridStrategy with the exchange around it, with proofs.
4. *(done)* Pipeline: threads, queues, start and stop in all three modes, orders
   from every callback, failing sends, rejects and cancellations; proofs of the main
   thread's invariant, of the ticks' order and of the orders' conservation.
5. *(done)* OrderBookV2: the optimistic read without a bound, the double buffer,
   array sizes; proofs of all its safety properties.
6. *(done)* TickLog and Replay: the log with its crashes, the merge and the loop;
   proofs for the log, for virtual time and for the completeness of a replay.
7. *(done)* Trading: order, risk check, gateway bookkeeping, late fills, positions;
   proofs of all its properties.
8. *(done)* Startup: command line, configuration, environment, construction;
   proofs of all its properties.
9. *(open)* A weak-memory model of OrderBookV2 as RiskParams has one. The
   conversions of `Decimal` (an external library, and beyond TLC's integers). Two
   strategies of one symbol, once their dispatch is in the repository.

## 3. Modules

`BoundedFifo`, `AtomicParams` - the abstract specifications. `BoundedFifo` is a
bounded sequence with an atomic `Put` and `Take`; `AtomicParams` a parameter set
that changes, and is read, as a whole.

`MPMCQueue` - one action per atomic access of `try_push`, `try_pop` and `size`:
`PushStart` (58), `PushSeesFree`/`PushFull`/`PushSeesTaken` (the three outcomes of
60-63, 71, 73), `PushClaim`/`PushCasFails` (64), `PushCopy` (65), `PushPublish`
(66), `PushReload` (74), and the same for `try_pop`. Tickets are natural numbers
(the program's are `size_t`; their wrap at 2^64, and that of the `int64_t`
difference at 2^63, are not modelled). A failed compare-exchange may be spurious.
Slot sequence numbers are acquire/release in the code and sequentially consistent
here; the relaxed counters may be read stale (`RelaxedLoads`): a load answers any
value from the newest one the thread has seen to the current one. The answer of
`size()` is modelled with its unsigned wrap (`SizeOf`).

`RiskParams` - `publishParams` (181-198) and `swapColdBuffers` (173-179) as the
updater's steps, `readHotParamsOptimistic` (209-226) as the reader's, and readers
that hold the pointer of `getReadBuffer` (165). A parameter's value is the number
of its update; `memcpy` moves one parameter at a time in any order. The version
stored into the dark buffer (184-186) is never read and is left out. One thread
updates: whether the library serialises `updateParameters` is not visible here.
With `WeakMemory` plain accesses pass the version accesses in the two directions
release stores and acquire loads leave open; the runs and theorems are for FALSE.

`GridStrategy` - the callbacks with their loops over the levels, one action per
level (`TickLevel`, `TimerLevel`), because the exchange fills meanwhile. Prices
are in half ticks of 0.05; `roundPrice` works on a double, so a price halfway
between ticks may go either way (`Rounded`). `MidMoves`, `ExchangeFill` and
`ExchangeCancel` are the environment: book, gateway and exchange. An order may be
filled in `Lots` parts, also after `cancelOrder` was called, and a fill is lost
when the queue is full (`main.cpp:173`). `submitOrder` may answer 0 and
`cancelOrder` false when `MayRefuse`.

`Pipeline` - `main.cpp` from the first start to the last stop, in replay, in live
mode with simulated fills and in live mode with real execution (`Modes`): the main
thread's calls in their order (`Then`), the carrier, the feed, the engine's
dispatch loop, the gateway's thread, the user stream's thread and the fill
callback. The queues are plain FIFOs whose push may refuse, which is what
`QueueImplementsFifo` and `FullJustified` leave of an MPMCQueue. A callback begins
with a tick, a fill or a timer (`PopTick`, `PopFill`, `Timer`); inside it the
strategy submits and cancels as often as it likes (`SubmitOrder`, `CancelOrder`),
which covers the answers `GridStrategy::onFill` submits (`grid_strategy.hpp:92`,
102), until it returns (`Return`). Orders and cancellations go through the one
queue that `strategy.hpp:44-50` shows, `order_output_`; a request that the risk
engine or the full queue refuses has no step: it uses up a number and nothing else.
The gateway's thread takes a request and sends it (`SendOrder`), or the encoding or
the sending answers false and the order is rejected (`SendFails`); a cancellation
ends the order or comes too late (`SendCancel`). A modification goes the same way and
moves no order. The user stream reads fills and rejects (`ReadReport`,
`ReadReject`), and the gateway's stop cancels what is pending, each call of which may
fail (`CancelPending`). An order has one fill here; lots are in `Trading`. Bodies in
the library are taken from the headers' descriptions (`strategy_engine.hpp:19-28`,
`order_gateway.hpp:54-152`, `binance_user_stream.hpp:28-35`). A `stop()` returns
when the component's thread is idle.

`Startup` - `parseArgs`, then `loadConfig` with one action per section of the
file, `resolveEnv`, and the part of `main` that builds engine, gateway and feed.
A section is a function from the keys it gives to their values; a key can be
missing, `Malformed` (it does not convert and the fallback is used) or out of
the range of the type it is stored in: the rate limit and the proxy port are
converted to `uint32_t` and `uint16_t` as the code does, modulo `RateModulus` and
`PortModulus`. Strings are tokens, `Empty` the empty one. `Those` is what both
loops over the strategies (`app_config.hpp:112`, `main.cpp:142`) keep of a list.
A scalar where the code subscripts a map or a list throws: the file itself, the
sections `engine`, `risk`, `log` and `zmq`, an entry of `strategies` or of
`exchanges`, `parameters`, `symbol_ids` (`Load`, `Unsubscriptable`, `BadEntry`), and
so does a symbol that is no string. The exception leaves `main` (`Throws`). A null or a
list in their place has no keys and does not throw. The gateway's exchange, the
client it sends with and the feed's exchange are kept apart, because the client is
always the one for Binance.

`OrderBookV2` - a side of a cold buffer is a function from prices to quantities,
whose order the comparison of prices gives; `Insert` and `Remove` are the helpers
with the drop beyond MAX_DEPTH. `UpdateLevels` and `Clear` write the dark buffer (the
library may do it in place; nobody reads it then), `StoreOdd`, `CopySide`,
`StoreEven` are `rebuildHotData`, `SwapColdBuffers` the swap. Which updates set
`hot_data_dirty_` is decided in the library, so after any update the hot data may be
rebuilt or left as they are (`Written`), and nothing is said of how fresh they are.
The reader loads the version, reads the two sides in any order, and loads it again
(203-229). `rebuilt` and `since`, the hot data of the last rebuild and of those
complete during a read, are history variables of the property.

`TickLog` - `LogWriter` and `LogReader`. Bytes are units: a record is `Size[t]` of
them, so a crash can leave a part of one. `AppendToBuffer` takes whole records or
nothing, `FlushBuffer` appends the buffer to the file, `FlushAndStop` is the end of
`main`, `Crash` keeps any first units of each buffer. `RecordCount` and `RecordAt`
are the reader's division and offset.

`Replay` - extends `TickLog` with the replayer and the loop of `main.cpp:274-281`,
in the same process as a writer that may log into the directory it replays. The
heap holds at most one entry per stream and is a set of streams; ties are popped
in any order. `TotalEvents` counts `Events`, the pairs of a stream that was added
and an index of its log, invalid records included as in `total_events_`.

`Trading` - `SubmitOrder` with four checks of `checkOrder` (order value, projected
position, total, capital), `ProcessOrder` (gateway takes and sends), `InjectFill`,
`FinalizeOrder`, `UpdatePosition` with its three cases (grow, reduce, turn), and an
exchange that executes lots, closes orders and reports each lot in its own time.
`overlapped` and `paid` are history variables of the properties.

`MC_*` - instances for TLC. `*Proofs` - the theorems. Definitions under the
heading "Faults" in a module are wrong variants of single definitions; no
specification uses them, and each property is shown to notice one.

## 4. Runs

| Run | Specification | Bounds | Shows |
|---|---|---|---|
| `queue` | `Spec`, symmetry | N = 2; 2 producers, 2 consumers, 1 size() caller, 2 values, 3 tickets | `TypeOK`, `ExclusiveSlot`, `NoOrphanTicket`, `ImplementsFifo`, `FullIsJustified`, `EmptyIsJustified` |
| `queue_live` | `FairSpec` | as above, 1 value, no size() caller | `Delivered`, `CallsReturn` |
| `risk` | `FairSpec` | 2 parameters, 1 checking reader, 1 cold reader, 2 retries, 3 updates | `ReadsAreAtomic`, `BuffersAgree`, `ActiveNeverWritten`, `ReadReturns` |
| `risk_fallback` | `Spec` | 1 retry, 2 updates | violation, below |
| `grid` | `Spec` | 3 levels, one mid price and none, 2 lots, fill queue of 1, 5 orders | `TypeOK`, `SlotsMatchOrders`, `AnsweredOnce`, `AnswersFollowFills`, `ForgottenForAReason` |
| `grid_live` | `FairSpec` | 2 levels, 2 mid prices and none, 1 lot, refusals, fill queue of 1, 3 orders | `CountersAgree`, `StaleOrdersLetGo` |
| `grid_answer` | `Spec` | 3 levels, 1 lot, 5 orders | violation, below |
| `pipeline` | `FairSpec` | the three modes; queues of 1; 2 ticks, 2 orders | `TypeOK`, `NoCallAfterStop`, `TicksInOrder`, `OrdersConserved`, `OrdersAreSent`, `Terminates` |
| `startup` | `Spec` | `MC_Startup`: every combination of flags, 5 environments, files with each section missing, scalar, malformed or in several forms, two known exchanges | `TypeOK`, `RealExecutionIsMeant`, `DefaultsAgree` |
| `orderbook` | `FairSpec` | 3 prices, MAX_DEPTH 2, HOT_DEPTH 1, 1 reader, 3 updates | `TypeOK`, `ReturnedIsOneRebuild`, `ReadReturns` |
| `ticklog` | `FairSpec` | ticks of 2 units, orders of 4, buffers of 5, 2 timestamps, valid and invalid records, 2 records per type | `TypeOK`, `LogHoldsAccepted`, `AllValidDelivered`, `TimeMovesOn`, `ReplayEnds` |
| `trading` | `Spec`, symmetry | 2 symbols, 3 orders of up to 3 lots, 2 fill prices, queues of 2 | `TypeOK`, `FillsConserved`, `ProfitAccounted`, `LimitHoldsAlone` |

Why the bounds are enough. A slot of the queue is used for the second time by ticket
N, so three tickets over two slots contain a complete lap with both orders of late
and early threads; the invariants are proved for all bounds. Readers of the risk
parameters and of the book only read, so one shows what any number would see; three
updates bring both cold buffers back to their first role. Three levels of the grid
have one with neighbours on both sides, and two lots are enough for a second fill of
an order that has been answered; five orders leave room for both answers after a
whole tick. Two prices, as in `grid_live`, move the mid across resting orders. In
the pipeline a second tick or fill meets a full queue of one, and a cancellation can
keep an order out of the queue; that longer queues keep their order is what the
theorems add. Queues of one or two elements are full, and empty, in every
combination. One hot level of two, and three prices, let a level rise into the hot
ones, fall out of them, and fall off the book. A buffer of five units has room for
two ticks and part of a third, or for one order: it refuses both kinds, and a crash
can cut each. With fills of one or two lots, at 720 or at 1440, every case of
`updatePosition` occurs, and prices are multiples of 720 so that every average is a
whole number: the rounding of `Decimal` division is left out. `MaxPosition` is two
lots, which one order can reach and two exceed. `OrderBound`, `TickBound`,
`UpdateBound`, `RecordBound` and `TicketBound` bound the state spaces and nothing
else (in a replay `TickBound` is the length of the log). Deadlock is checked in
every run: threads can always go on polling (`Idle`, `Quiet`), and a program that
has finished has a step of its own (`Ended`, `Done`).

Fairness. `MPMCQueue!Fairness` asks that running threads are scheduled, that
consumers poll (the dispatch loop, md_bridge and the gateway do), that a store
becomes visible in the end, and that the weak compare-exchange does not fail for
ever without contention. `RiskParams!FairSpec` schedules a reader that is inside the
loop and asks nothing of the updater. `GridStrategy!FairSpec` lets the engine finish
the callback it is in and call `onTimer` again and again: the header says
"periodically (~100ms)" (`strategy.hpp:98`), so strong fairness, because ticks and
fills must not keep it out. `Pipeline!FairSpec` schedules the main thread, the
carrier, the gateway's thread with a request in hand or in the queue, and the user
stream's with a fill in hand, and asks that a callback returns; it asks nothing of
the signal, the feed, the exchange and of what strategies do. `Terminates` holds for
a feed that pauses, which a bounded number of ticks makes it do: the inner loop of
md_bridge (428-445) does not look at `g_running`, and the feed is stopped only after
the join (463-464), so that a feed without a pause would keep the program from
ending. `OrdersAreSent` ends where the gateway's stop begins: what is in the shared
queue then stays there. `OrderBookV2!FairSpec` lets the writer finish the update it
has begun and readers run on; as its loop has no bound, a read is only promised to
end once the updates do. `Replay!FairSpec` schedules the main thread in its loop.

### Where code and comments differ

Two runs show a violation of what a comment says:

- `risk_fallback`: the unchecked read after the last retry (225) may mix two
  updates; the comment (224) promises no corruption, only staleness.
- `grid_answer`: an answer overwrites the id of a live order (163, 183), whose own
  fill is then not answered, against the comment of lines 18-19.

Seen while modelling, and not made runs because no line of the repository is
contradicted in its words, or because the model has nothing to add to reading:

- Threads and memory. With `WeakMemory` nothing keeps the risk engine's copies
  between the version accesses (`risk_engine.hpp:189-195`, 216-222), while
  `README.md` lists arm64; the book's reader has the same form.
  `swapColdBuffers` rewrites the retired buffer at once (178), so a holder of its
  pointer may see two updates, and the comment (48-49) calls it RCU-style.
  `try_push` may answer false on a queue with no element, and `try_pop` on one with
  elements, while another thread is between claim and release (the two `Justified`
  properties say exactly when). N = 1 passes the `static_assert` of
  `mpmc_queue.hpp:28` and would overwrite; `size()` may wrap.
- Stops. The gateway is stopped before the engine (`main.cpp:290-291`, 466-467), so
  orders accepted in between are never sent. `OrdersConserved` counts such an order
  as in the queue, where it stays. The replay's summary is read before the stops.
- Orders. Grid orders may lie outside `[low, high]`, and a "take-profit" sell may be
  cheaper than its buy (67, 91). The answer of `pushFill` is ignored while ZMQ is
  told of the fill (173-174): the position then stays wrong. The position limit
  counts taken fills and not orders under way, so two orders together can exceed it
  (`LimitHoldsAlone` says what remains, and excludes symbols with a lost fill). The
  capital is set once and no fill lowers it.
- Configuration. With real execution the client is a `BinanceHttpClient` whatever
  the exchange of the feed is called (`main.cpp:366` and 373): a file that names okx
  gets OKX ticks and sends its orders to Binance. `--exchange` is read
  (`app_config.hpp:77`) and overwritten by the file (132). A protocol's default URL
  (`protocol.hpp:50`) is never used, as main refuses an empty one (`main.cpp:356`).
  Key and secret may come from different sources and need not belong together.
  `max_orders_per_second: -1` becomes 2^32-1 and `proxy_port: 65536` becomes 0.
  Malformed values are replaced by defaults without a word. `CHRONOS_FATAL`
  (`error.hpp:224-229`) uses an `ErrorSeverity` the enumeration does not have;
  nothing expands it.
- Log and replay. A replay without a pause can fill the 1024-tick queue or a log
  buffer between two flushes, and the answers are not looked at. Replayed into its
  own directory, a log grows by what is replayed, though the replay ends. Time is
  monotone only if each log is, and ties have no order. A level beyond MAX_DEPTH is
  dropped for good.

## 5. Proofs

All theorems are checked by TLAPS for every value of the constants, under the
ASSUMEs of the modules and the hypotheses in the theorem's statement.

`MPMCQueueProofs`. The invariant is proved in layers: `TypeOK`, then `TicketInv`,
which is inductive given the types, then `NoOrphanTicket`, and `ArgumentInv` (a
producer that copies has an element). `CounterInv` says how far tickets may run
ahead; `SlotInv` which sequence numbers the slots have for the tickets they wait
for; `ProducerInv` and `ConsumerInv` what a thread between claim and release may
rely on. `SlotInv` is what makes the claim safe: a thread compares the sequence
number *before* it wins its ticket, and only because the number never decreases
does the comparison still hold at the compare-exchange. From it follow
`ElementsAreExclusive`, `TicketsHaveOwners`, `FullJustified`, `EmptyJustified`, and
`QueueImplementsFifo`: with the refinement mapping in which an element is in the
queue from the winning compare-exchange of its producer to that of its consumer,
every step is a `Put`, a `Take` or a stutter. Hypothesis: N >= 2.

`RiskParamsProofs`. `SeqlockInv` is inductive without reordering: `WriterInv` gives
the contents of every copy at every point of `publishParams` as a function of the
update and the version, `ReaderInv` ties what a reader has read to the version it
loaded. It gives `AcceptedReadsAreConsistent`, `BuffersInStep`, `ActiveUntouched`,
and `ReadsLinearizable`: an update happens at the even store, an accepted read at
its second load. Hypothesis: `~WeakMemory`.

`GridStrategyProofs`. `AnsweredOnce` is not inductive: it needs that an id still
held has not been answered (`HeldUnanswered`), which needs that no id is held
twice (`SlotsMatchOrders`), and that queued fills are of orders that have a fill
(`FillsAreReal`). Together they are `GridInv`, proved action by action. From it
follow `NoOrderIsLost`, an action property, and with `CountInv` the theorem
`CountersCorrect`: a fill is counted when onFill recognises its order, so what
counts are the orders that have been filled and are no longer held (`Known`), and
no step takes one of those away.

`PipelineProofs`. `MainInv` reads off the main thread's call which components are
up and which threads may run; `StopsAreSafe` follows. `TicksInv` adds to
`TicksInOrder` the chain through both queues and the carrier (`TickChain`: numbers
increase from the engine's queue over the carried tick to `mdQueue` and to the
source), which only live mode fills. `OrdersInv` adds to `OrdersConserved` that no
order is in the order queue twice (`NewOnce`), though its cancellations may be, that
no fill is queued twice, and that a request on which the gateway waits for a fill is a
new order: without the first two, taking an order or a fill would leave it in two
places. Each step moves one order from one place to another (`OrderMoves`), brings a
new one (`OrdersSubmit`), or ends some without a fill (`OrdersEnd`).

`StartupProofs`. `StartInv` carries what the sections read so far have put into the
configuration; `CredentialSupplied` is the heart: what `resolveEnv` leaves is empty
exactly if no source supplies it. `DefaultsInv` follows the risk limits, the capital
and the list of strategies from the file into `AppConfig` and on into the engine;
at each point a value is the default or the file gives it. Both loops over the
strategies only leave elements out (`ThoseAre`), so that every strategy the engine
has still comes from an entry of the file. An entry whose subscript throws never gets
into the configuration, so it needs no default. That the rate limit's default survives
its conversion to `uint32_t` needs `RateModulus > 100`, which 2^32 is.

`OrderBookV2Proofs`. `BookInv` says that the copy in progress is that of the book to
come, that the version is odd exactly then, and that between rebuilds the hot data are
those of the last one; `ReadersInv` that what a reader has of an unchanged version is
the hot data of one rebuild, which was complete at some moment since the read began.
`ReadsAreConsistent` follows, whichever updates rebuild. `ArraysHold` needs the
cardinalities: positions are those of the sets of better prices, and `BestAreFew`
bounds the best n by n, since the worst of them has all the others ahead of it; that
there is a worst one uses the least element of a set of numbers, from the library's
well-foundedness of <.

`ReplayProofs`. `LogInv` looks at file and buffer as one sequence (`At`): unit k of
record i is where the arithmetic of whole records says, the sequence is as long as
the accepted records while the writer runs, and a crash only shortens it. A write
extends it (`WriteKeepsLog`), a flush or a stop moves units from one half to the
other (`MovesKeepLog`). `LogIsFaithful` follows because the records the reader
counts end before the sequence does (`Reads`). `ReplayInv` says that what is on the
heap is a record, and `TimeInv` that none on the heap is earlier than the current
time if the logs are in order: `TimeNeverGoesBack`. `ReplayIsComplete` needs more.
`PlayInv` says, stream by stream, that the positions given rise and are behind the
current one, that of the records behind it exactly the valid ones have been given
while there is no signal, and that a stream without an entry on the heap is at its
end; `GivesNext` is the step of `advanceStream`, which skips no valid record
(`NextPosSkipsInvalid`). The loop ends of itself in two ways. If no event remains
the heap is empty and every stream at its end. If `isExhausted` ends it,
`CountInv` is needed: an event is counted for no more records than have been
passed (`Passed`), so when the count reaches the number of all records, `Passed`
and `Events` are finite sets of the same size, and all have been passed
(`ExhaustedIsPassed`). That is why counting the invalid records in `total_events_`
while delivering only valid ones cannot end a replay early.

`TradingProofs`. Positions, queues and exposure are sums over sets. The fold of the
library is a recursive function; that it has a solution, that two solutions agree
on what they share, and that a sum takes any element out first (`SumTakeOut`) are
proved by induction on the number of elements, the induction being put as a set of
numbers with 0 and the successor of each member (`Induction`). `SumAdd`, `SumChange`
and `SumHead` are what the steps use; on them rest the lots of an order in the queue
when a fill is pushed (`QueuedAppend`) or taken (`QueuedTail`). `TypeOK` is
inductive, and so is `FillsConserved` with it: a fill's lots are reported and queued
or lost, and then move from the queue into the position of its symbol. `ProfitIsAccounted` has the hypothesis that averages are
whole (`AveragesAreWhole`): the code divides `Decimal`s, the model integers, and what
a division rounds away is not modelled; the instance of the run, with prices 720 and
1440, meets it in every state. Under it a fill of n lots raises the cost of a
position, less its realized profit, by n times its price, in each of the three cases
(`CostAfter`). `LimitHoldsAlone` is not inductive, because the check looks at the
position of the fills taken so far and the limit speaks of what was executed.
`LimitInv` adds that a symbol without overlap and loss has at most one order that may
still change its position (`Single`), and that the limit has room for what was
executed and, if an order is not closed, for the rest of its lots (`Room`): then the
position at the next `checkOrder` is the whole exposure (`SettledExposure`), and an
execution stays between two values that fit (`FitsBetween`). Hypothesis: the limit
is not negative.

Only model-checked: liveness (`Delivered`, `CallsReturn`, `ReadReturns` of both
readers, `StaleOrdersLetGo`, `OrdersAreSent`, `Terminates`, `ReplayEnds`), as fairness and ENABLED are
out of the prover's reach, and the violations of the two runs above. Every invariant
and every action property that a passing run checks is a theorem.

## 6. Not modelled

Bodies in `libchronos` beyond what the headers say: rate limiter, statistics, JSON
of the positions, file mapping and rotation, network I/O, dispatch to several
strategies. `io/*`, the exchange adapters and the health monitor are interfaces to
such bodies; `orderbook.hpp`, the backtest engine, its metrics and the health
monitor are declared and not used by the program; `cpu_affinity.hpp` is system calls
without state. Two concurrent updaters of the risk parameters, as their
serialisation is not visible. Which updates of the book set `hot_data_dirty_`, and
readers of the book starved by a writer that never pauses. What the gateway calls
through its pointer to the user stream (`order_gateway.hpp:172`), which main stops
first. The replayer's `pause`, `resume`, `advanceTo`, `advanceToEnd` and
`setAcceleration`, and the strategies' `onLoad` and `onUnload` beside the pipeline's
threads. A session that appends to a log ending in half a record. A feed that never
pauses. The wrap of 64-bit counters. `Decimal` is an external library; its rounding
and overflow at 2^31 are outside TLC's integers. Formatting, printing and statistics
that nothing decides by. What this leaves would be a model of headers without code;
every part of the repository has an entry under `components` in `PROJECT.json`.
