# A verification project for volume_study_V9

TLA+ models of the parts of this order-flow system whose correctness depends on
state kept over many events, on the order of steps, or on several tasks, threads
or programs; TLC configurations that check them on small instances; and TLAPS
proofs of the central safety properties for every value of the constants.

Contents: [inventory](#1-the-system), [modules](#2-the-modules-and-the-code),
[runs](#3-the-runs), [findings](#4-where-code-and-comments-disagree),
[proofs](#5-what-is-proved), [limits](#6-what-is-not-modelled), [plan](#7-plan).

## 1. The system

The program reads market-by-order files and candle streams, derives price levels
with refilled liquidity from them, turns these into zones, signals and commands,
shows the result in HTML pages, and trades through a MetaTrader terminal.

| component | state | operations and interaction | what is hard | what makes it correct |
|---|---|---|---|---|
| price-level ledger, `process/dataProcessEngine.py` | liquidity of every level split in ordinary and refill lots, one record per level and candle, tracked orders | `process_event`: add, modify, fill, cancel, clear; the ledger first, the order after it | unknown orders, reused ids, events without price, lots that leave many candles later, clears | what came in less what went out is what rests; refill only replaces executions |
| replay run, same file | records and marks of the run, one window flag, payload counter | `run_replay` loops over symbols and events and reports | warm-up before the window, a limit checked in three places, several symbols | the report holds exactly what the window saw |
| refill zones, same file | active and emitted zones, per-candle terminal checks | built from refills of neighbouring levels, replaced or cancelled by later zones and by terminals, published as payloads | zones of the warm-up, skipped checks, scans that restart | the payloads tell a consumer exactly what is active |
| process sinks and data sources, `process/sinks.py`, `process/data_sources.py` | a cursor per source while a window is replayed | `TriggerEngineSink` passes on refill payloads only; `DomDatabentoReplaySource` reads the index some rows at a time | a cancellation that is filtered out; the index changes between two reads | a cancelled zone waits for no entry; a replay misses no event |
| refill scan and its caches, `absorption/session_service.py`, `process/refill_scan_index.py` | results per process in memory; blocks and rows in an SQLite file | a scan is answered from memory, from blocks that cover it, or by a replay that stores its result | the key is read before the replay; blocks overlap; a rebuild overtakes a scan | what answers a scan has every event the index vouches for |
| trigger engine, `triggerEngine.py` | refill memory and actor proxies of the engine; setups and position of a store that a caller may pass in | a closed candle ages, enters, expires setups; a position reverses | two stores, an entry that leaves the loop half-way, the same candles evaluated again | one entry per zone, entries and exits alternate, entries are retests |
| actor proxy, `actor_proxy/` | the orders behind a position, lost and replaced, weakness, exit signal | raw order events, late and repeated ones too | which add replaces which loss, when weakness started | an exit only after uninterrupted weakness, never taken back |
| absorption session service, `absorption/` | known candles, queue and worker per session, candle builders, records waiting for evaluation | trade and kline streams, update loop, worker, healing requests, removal of sessions | tasks interleave, requests are answered late | every known candle is evaluated once, in order, with its trades |
| execution, `absorption/absorption_runtime.py`, `execution/` | triggers, known positions, pending, sent and completed commands | commands are decided on candles, polls and reports | a command is out while its trigger and its position change | no command twice, no position unknown |
| MetaTrader side, `MT-side/` | tracked positions, a poll under way | a timer polls, executes, reports | answers given up, restarts, positions the broker closes | server and broker agree in the end |
| DOM timeline index, `DOM/data_provider.py` | SQLite tables, a lock file; a timer, thread and window cache per process | `events_for_window` answers from cache, index or file; a scan starts the indexing thread | several processes, crash between two transactions, retry, status read before rows | READY means complete; answers miss nothing |
| DOM engine and pages, `DOM/engine.py` | orders, levels and refill lots while a timeline is built; a cache of payloads | a request becomes a window, the window is read, `_apply_event` per raw event, what rests is drawn | the same book is rebuilt by three readers; answers are cut; clears without a price | they show the same book, and a page shows the whole window it says it shows |
| CME provider, `cme_provider/` | footprint index, caches of windows and deltas | windows of candles, pages that share the trigger engine | a page changes the engine it asks; blocks of the index meet where no candle is | signals of a page belong together; a kept answer is what a fresh one would be |
| absorption clusters and rules, `absorption_module/`, `absorption/absorption_runtime.py` | a rolling buffer of results | called by the session for every closed candle | ties, medians and ranks; a candle evaluated again | neighbours only, the extreme end as stop |
| volume profile windows, `volume_profile/` | windows per key, asyncio lock | backfill and roll; nothing constructs it | - | - |
| core start-up, output bus, exchange clients, network | connections, registries | start-up requests, JSON over TCP | one connection is read in order, one request after the other | replies keep their order |
| studies, `study/`, `core/` | the candle under way | trades become bins, dwell times, ratios, records | trades that go back in time | every trade and every instant counts once |
| configuration, reports, HTML | none, or presentation | - | - | - |

Events flow from the data sources through ledger and zones to the sinks, from there
to the trigger engine. Candles flow from the exchange streams through the session's
queue to the absorption runtime, whose triggers become commands for the terminal, which
polls them over TCP. The DOM index feeds pages and replays; pages let the shared
trigger engine evaluate their candles.

`PROJECT.json` lists the hazards of this code line by line with the properties that
cover each, and what a property leaves out.

**Unresolved merges.** Many files of this commit contain conflict markers: `main.py`,
`absorption/{absorption_runtime,session_service,footprint_builder,html_server,models}.py`,
`absorption_module/*`, `client/{execution_contracts,kraken_execution_client}.py`, several
of `core/`, `execution/trading_decision_engine.py`, `network/tcp_json_server.py`,
`MT-side/VolumeStudy_Renderer.mq5`. Where a conflict is confined to part of a file and
one side of it is a whole program, the models follow the side marked HEAD:
`CandleClose`, `AbsorptionRules`, `TimeClusters`, `EntryStates`, `ZoneReplay`, `ScanAnswers`,
`BookReaders` (the delete scan) and `ExecutionLink` do.

## 2. The modules and the code

| module | models | composes |
|---|---|---|
| `LevelLedger` | the ledger of one symbol under any sequence of events | |
| `BookReaders` | ledger, timeline page and delete scan on one complete feed | `LevelLedger` |
| `ReplayRun` | one call of `run_replay` over several symbols | |
| `ZoneBook` | search, replacement and cancellation of zones, published payloads | implements `ZoneStream` |
| `ZoneStream` | abstract: what the payloads promise a consumer | |
| `TriggerEngine` | the engine's handlers as operators on one record | |
| `ZoneReplay` | a replay: zones, sink and engine, candle by candle | `ZoneBook`, `TriggerEngine` |
| `TriggerPages` | pages that share one engine | `TriggerEngine` |
| `ActorProxy` | one tracked position under raw events | implements `ActorWatch` |
| `ActorWatch` | abstract: what the exit signal promises | |
| `CandleClose` | the life of closed candles in one session | |
| `ExecutionLink` | commands and positions between server, terminal and broker | |
| `TimelineIndex` | the index of one source file, shared by processes | |
| `RefillScan` | scans of the index and what is kept of them | `TimelineIndex` |
| `PageOrders` | pure: an order as the timeline page tracks it | used by `BookReaders`, `DomDrawing` |
| `DomEvents`, `DomPages`, `DomDrawing`, `DomOutputs` | pure: the events of a window, the window of a request, what is drawn, what is sent | each extends the one before |
| `LevelReports`, `ScanAnswers` | pure: payloads of levels and zones; rows of a scan | `ScanAnswers` extends `LevelReports` |
| `RefillMemory` | pure: what the trigger engine takes from a payload and keeps | |
| `CandleBins`, `AbsorptionRules`, `TimeClusters`, `EntryStates` | pure: bins of a candle and the rules evaluated on them | each extends the one before |
| `CmeTrades`, `CmeWindows` | pure: trades of archives and windows of candles | extend `CandleBins` |
| `LevelLedger_proofs`, `ReplayRun_proofs`, `TriggerEngine_proofs`, `ZoneBook_proofs`, `ActorProxy_proofs`, `CandleClose_proofs`, `ExecutionLink_proofs`, `TimelineIndex_proofs` | theorems | `LevelLedger_proofs` is about `BookReaders` too, `TriggerEngine_proofs` about `TriggerPages`, `ZoneBook_proofs` about `ZoneReplay` too, `TimelineIndex_proofs` about `RefillScan` too, `CandleClose_proofs` about `CandleBins`, `AbsorptionRules` and `EntryStates` too |
| `MC...` | small instances for TLC | |

### LevelLedger

`levels[l]` is a `_PriceLevelState` together with the `_PriceActivityLevel` records
of that level, one per candle; a level is a price and a side, which the engine only
compares together. `plain` is ordinary liquidity. A refill lot of n contracts is n
entries of the queue `refill`, each naming the candle of the lot: the engine consumes
lots strictly from the oldest, so the queue of contracts stands for the queue of lots.
`pending` and `pendingCandle` are the executions that an addition may still
replace. `orders` are the tracked orders, `emitting` is `emit_window_started`, and
`clock` is the time of the next event.

Every action delivers one event and performs everything the code does for it: it
opens the reported window if this is the first event in it (`Base`), changes the levels
(`_record_price_activity`) and then the order (`_add_order`, `_modify_order`,
`_fill_order`, `_cancel_order`, `_clear_symbol_orders`).

| action | event |
|---|---|
| `AddOrder` | add; an id that rests already is withdrawn first |
| `ResizeOrder`, `MoveOrder`, `DiscoverOrder` | modify in place, to another level, of an unknown order |
| `FillOrder` | fill, of any size, at any level, of a known or unknown order |
| `CancelOrder` | partial or whole cancel |
| `ClearBook` | clear: the withdrawals order by order, then every level emptied |
| `UnpricedEvent` | an event without a price: the ledger uses the order's price, the order is not updated |
| `IgnoreEvent` | anything that changes neither |
| `Tick` | the next event is later |

Assumed of events: one of a tracked order without a price names the side of that
order; events without a side, and the price 0, do not occur. Per-order refill lots
(`_OrderRefillLot`), which feed payloads of single orders, event counters and
formatting are left out. `writtenOff` is a history variable: the candles in which a
clear dropped liquidity that no tracked order accounted for.

### BookReaders

Three parts of the program rebuild an order book from the same raw events with code of
their own: the ledger, the timeline page (`_build_payload`, `_apply_event`,
`_consume_order_liquidity`, `_adjust_level` of `DOM/engine.py`) and the delete scan
(`data_process_delete_scan_payload`). Every action is one event read by all three.
`dom`, `shown` are the page's orders and levels, with the contracts an order existed
with and those that replaced fills; `scanned`, `deleted` are the scan's orders and
its groups by level and candle.

The feed is complete: an order is seen before it trades, no id is reused while it
rests, fills and cancels name the order's level and no more than its size, and a
cancel that is not partial names the whole order or no size. None of the readers
enforces this; a replay of one venue file from its start is so. Outside such a feed the
readers differ by construction, for instance: a non-partial cancel that names less
than the order leaves contracts on the page's level that no order accounts for
(`DOM/engine.py:1474-1511`), and a fill followed by the cancel some venues send for it
is counted as a deletion by the scan. Within it there is one difference left: the page
skips an event without a price, and so a clear without one (line 639). The model has
both kinds of clear; what the page draws is compared until the second kind occurs.

### ReplayRun

The ledger is reduced to what the window decides: which candles have a record, and
whether a record counts events of the warm-up or of the window. `HandleEvent` is one
turn of the inner loop with the opening of the window, the mark on the record
(`_price_activity_touched`) and the published payloads; `NextSymbol` is the outer
loop; `Report` appends the records and returns. Events arrive in time order, as
sorted by the code. Saving and restoring the engine's previous dictionaries around a
run is left out. `opener` is history: the symbol whose event opened the window.

### ZoneBook and ZoneStream

One symbol and timeframe. `Refill` is an event that adds a refill at a level: the
candidates among the candle's refills are found (`BidZones` scans downwards, `AskZones`
upwards, as `_buy_refill_zones` and `_sell_refill_zones` do, with the resets and
restarts of a run), the one that holds the level becomes active unless it is refused,
and replaces what `_active_zone_payload` says. `Book` is `_terminal_cancel_payloads`,
which runs on every event unless the active zones are those its last look at the candle
left. `Announce` is the emit window: payloads of the warm-up are dropped. A bin's
diagonal ratio and z-score are one Boolean of the bin; `REFILL_ZONE_CONTRACTS_MIN` is met.

`ZoneStream` is what consumers rely on: a zone is shown once, is live until a payload
cancels it, and never returns; no two live zones are on one side. `view` is a history
variable, the live zones of a consumer that obeys every payload, and
`KeepsPromise` is `ZoneStream!Spec` with `live <- view`.

### TriggerEngine, ZoneReplay, TriggerPages

`TriggerEngine` has no variables: the refill memory, the proxies that run, and the
setups, position and signals of the store in use are one record, and `Evaluate` is
what `_process_candle` does with a closed candle and, for the newest, the live one. It
keeps the order of the code: expire records, add setups, age and enter them one by
one, leave the loop at an entry, reverse, exit. `Ranked` is the sort of the references of
a candle, by refills and levels, over the order of price and side in which the memory
returns them; a zone carries both numbers. A live candle carries the bins whose centre lies
in its lower and upper wick or third, for the last search of an exit
(`_exit_reference_refill_bin`).

`ZoneReplay` runs zones, sink and engine as a replay does
(`_enrich_replay_candles_chronologically`): a candle's payloads, in the order in which
they become available, then the candle. `Publish` has the sink's filter, and the
dropping of setups that the service does beside it. The service does this after the
replay is complete; since it takes a candle's payloads before the candle and no later
ones, the model runs in step.

`TriggerPages` is the engine the pages share: payloads and candles arrive, and a page
evaluates all candles again with a fresh store (`enrich_candles` without
`persist_state`), while memory and proxies are the engine's own and change under it.

### ActorProxy and ActorWatch

`cluster` is the tracked cluster of one position, `adds` the recent adds of the
engine, `record` the store's exit signal. `StartTracking`, `StopTracking` are called by
the trigger engine; `RawEvent` is `on_raw_dom_event`: the handlers for add, modify,
fill, cancel, clear, then the pruning of refills and `update_cluster_state`. The score
is kept in integers (times 100 times the initial contracts). Events come in any order
and again, because pages feed the events of whatever window they show. Every order of
the model is on the position's side and near enough to replace another.

`ActorWatch` is the promise: a position is watched, found weak, and exited only when it
is still weak `Confirm` later; a signal once given is not taken back, also when the
position is tracked anew.

### CandleClose

One session. `TradeArrives` is the trade stream, `KlineArrives` the stream of
closed candles, which may miss some; `WorkerTakes` is the worker's turn with
everything `_process_closed_kline_event` does; `Supervise` its supervisor;
`RemoveSession` and `AddSession` are a new configuration. The tasks are asyncio tasks: a
step ends where the code awaits something that takes time. `update` is where the update
loop is, and what it noted before it had to wait:

| action | code |
|---|---|
| `UpdateSession` | `_update_session` of a session whose history is known: a builder is made if there is none |
| `BootAsks` | `_ensure_historical_closed_klines` sends its request |
| `BootAnswered` | the answer is merged and the session bootstrapped, also if it was removed meanwhile; then as `UpdateSession` |
| `BootFails` | the request failed; the rest of the round goes on with the candles known |
| `EndRound` | `_heal_stale_m1_kline_streams` finds nothing stale |
| `HealStarts` | it finds the stream stale and waits for its restart |
| `HealAsks` | `_backfill_recent_closed_klines` notes the known candles, chooses its limit and sends its request |
| `HealAnswered`, `HealFails` | the answer is merged and what was not known when asking is queued; or nothing is |

A request for missed candles reaches back `Limit` candles from the one in progress when
it is answered: candles missed before the latest known one may never be asked for. A
builder is its active candle, its last `Window` records and the last evaluated candle.
`due`, `evaluated`, `excused` are history. Left out: that the known candles are kept up to
a number, the throttle of healings, and the copies of the list of sessions the round
goes through, which with one session hold nothing the guards do not say.

### ExecutionLink

`server` is the part of `AbsorptionRuntime` that execution uses: triggers, zone state,
positions, pending, sent and completed commands. `tracked`, `waiting` belong to the
terminal, `broker` is every position there ever was; `up` and `down` are the two
directions of the connection, which the TCP server reads in order.

| action | code |
|---|---|
| `CloseCandle` | a candle triggers an entry, an exit, or both; commands are refreshed |
| `AnswerPoll` | `execution_command_payloads`: pending commands not yet sent go out |
| `TakeStatus` | `update_execution_position_status` with its tail for every status |
| `SendPoll`, `TurnWithAnswer`, `TurnWithoutAnswer` | a turn of the timer: `PollTradingExecutionSignals`, the execution of an answer command by command, then `MonitorTrackedPositionClosures` |
| `GiveUp` | the poll takes longer than `InpCommandRecvTimeoutMs`; a late answer is discarded |
| `Restart` | the terminal starts again without its tracked positions |
| `HitStop`, `CloseByHand` | the broker, external |

One client, symbol and timeframe; volumes, stops and prices are left out; whether the
broker accepts, refuses for now or refuses for good is a free choice. The sides of an entry
are symmetric, so the first candle's is fixed. `lost`, `settled`, `strays` are history.

What the model shows of the code besides its properties: an OPEN refused for the delay
after a stop is refused for good, since that reason is not among the retryable ones
(`absorption_runtime.py:113-122`); two CLOSE commands for one ticket leave the server
with a position that nobody removes; an OPEN that was pending for the other side stays
pending when a position opens; a command in a lost answer stays sent.

### TimelineIndex

`status`, `until`, `rows` are the row of `dom_sources` and the rows of `dom_events`
for one source; `lock` is the holder of its lock file. Per process: `worker` (the
timer and its thread), `batch` (how far it has read), `query` (a request
between two of its database statements), `cache` (`_file_cache`).

| action | code |
|---|---|
| `Ask` | `_load_file` to the first look at `dom_sources`: cached window, covering window, or status |
| `Select` | the SELECT of the rows, which are cached as they are |
| `SelectFails` | `sqlite3.Error` in `_events_from_index` |
| `Scan` | reading the file; with read-through, `_start_indexing` |
| `ScanUnread` | the same when `_index_status` cannot read the database: a READY source is built again |
| `Fire` | the timer has run out; the lock is taken or the thread ends |
| `Begin`, `WriteBatch`, `Finish` | the transactions of `_build_index_for_path_locked` |
| `Fail`, `RecordError` | an exception: the lock is released, then the handler writes ERROR |
| `Crash` | the process dies and is started again |

Status and rows are read by two statements on a connection in autocommit mode, so
other processes step between `Ask` and `Select`. `exact` and `disturbed` of a request
are history: whether the status promised more than the end of the window, and whether
a rebuild has begun since. One source, one request at a time in a process. Prefetch
padding, the primary window, the row limit and the choice of an instrument are in
`DomEvents`, without interleavings.

### RefillScan

`data_process_refill_scan_payload` over the index of `TimelineIndex`, which goes on being
built, failing and restarting meanwhile. `scan` is the scan a process has under way,
`memory` its `_refill_scan_cache`; `blocks` and `kept` are the two tables of
`refill_scan_index_v2.sqlite3`, which all processes share.

| action | code |
|---|---|
| `Request` | the version is read; memory answers, or blocks that cover the window, or a replay begins |
| `OpenSource` | the replay source looks whether the row of the file reaches the window |
| `Fetch`, `LeaveCandle` | `fetch_batch`: the next rows of a candle's window, or the next candle |
| `FinishReplay` | the result is stored in the file and in memory, under the version read at the start |
| `ReplayFails` | a database error; nothing is stored |
| `IndexStep`, `CrashAll` | a step of `TimelineIndex`; a crash also takes the scan and the memory |

The levels of a candle are reduced to the events they count. `whole` and `disturbed` are
history: whether the scan saw the end of the candle, and whether a rebuild began while
it read. Rows, filters and scores are in
`ScanAnswers`. Left out: several files, and the older disk cache, which is only read.

What the model shows of the code besides its property, which has to exempt both: a
rebuild that overtakes a scan leaves a short answer under the version that was read
before and comes back when the rebuild is done, so the short answer stays for good; and a
window that ends inside a candle, or one that memory answers, which is then stored in the
file again (`session_service.py:3451-3463`), overwrites what a wider scan had found of
that candle. The counters of an answer put together from blocks add up events that
overlapping blocks both counted (`refill_scan_index.py:72`).

### The pure modules

What is a function of its input, or a small record that one caller holds, is written as
operators without variables. They are checked by named assumptions of the `MC` module
of a run, which TLC evaluates over bounded inputs before it explores: `MCCandleClose`,
`MCTriggerPages`, `MCBookReaders`, `MCZoneReplay`, `MCRefillScan`. An assumption compares
an operator with a definition of its own, or says what holds of every answer; several
state a weakness of the code, so that a change of it is noticed. Each is
preceded by its sentence.

| module | code | assumptions, and what they show |
|---|---|---|
| `CandleBins` | `core/trade_mapping.py`, `core/contract_spike.py`, `study/` : bins, dwell times, ratios, records | every trade in one bin, time given once whatever the order of trades, exact ratios, no gaps in what is drawn (`BinsHoldTheirTrades` to `SomeStandOut`) |
| `AbsorptionRules` | the rules of a closed candle, `absorption_runtime.py` | `StopIsTheEnd`; `WindowIsEnough`, but `LateRecordTakesPlace`: a record that a late trade makes displaces a candle the rules need |
| `TimeClusters` | `absorption_module/` | `ClustersAsTested` repeats the repository's tests, `CandidatesHaveNoGap`; `BufferForgetsBins`: a candle evaluated twice leaves a result without its bins |
| `EntryStates` | the older state machine, which only tests call | `EntriesFollowAbsorption` |
| `CmeTrades`, `CmeWindows` | `cme_provider/local_data.py`, `engines.py`, `footprint_index.py` | `WindowsAreFull`, `DeltasAreSums`, `HistoryIsWhole`, `BinsHoldContracts`, `ChartsAgree`; with a trade in every candle `KeptWindowsAreFresh`; otherwise `BlocksMissCandles`: two blocks that meet answer with fewer candles than there are; `NumbersRepeat`: two candles of a window may have one number |
| `RefillMemory` | records, books and references of `triggerEngine.py` | `OneCandleOlder`, `LaterListsWin`, `ReferencesFollowTheirSide`, `BooksAreReplaced`, `ExitsAreLive`; `CancelLeavesACopy`: a cancellation that names one of an instrument's two names leaves the record under the other; `SessionsHideThePayload` and `BooklessSessionsAreLost`: refills and cancellations beside a session with a book are not read; `TimelessStayNew`; `NewerLookForgets` |
| `PageOrders`, `DomEvents` | `DOM/models.py`, `DOM/data_provider.py` | `FileAndIndexAgree` and `CutAnswersKeepTheWindow`; `NumberedTwiceIsTwoEvents` and `BatchesChooseAnew`: numbers and the chosen instrument begin anew with every batch |
| `DomPages` | windows of requests, `DOM/engine.py` | `SnapsToAnEvent`, `ReadWholeAndOnce`; `PlansLieInTheirDay` except those that end before they start; `LateRowsAreNotRead`, `SnapsBackTooFar`: a cut answer |
| `DomDrawing` | segments, refill points | `SegmentsTileTheBook`, also for feeds that leave things out; `RefillsAreUsedOnce`; `NetChangeIsNotTheBooks`, `LaterBookIsShown`, `LateFillsAreLost` |
| `DomOutputs` | ladder, quotes, limits, filters, payload cache | `LinesReachTheEdges`, `LargestAreSent`, `BusiestIsTop`, `FilterShowsItsOrders`, `CacheForgetsTheOldest`; `QuotesMayCross`; `LadderLosesBids`: a ladder cut to its highest prices |
| `LevelReports` | payloads of `dataProcessEngine.py` | `RatesAreBounded`, `EachPriceHasItsBin`, `ChangesAreToldOnce`; `SpikesNeedFiveBins`: the footprints of `ZoneReplay`, three bins, stand for a part of a candle; `ZonesTellOldTrades`, `MissingBinsMixCandles`, `ProxyOrdersAreLevels` |
| `ScanAnswers` | rows of refill and delete scans, `session_service.py`, `refill_scan_index.py` | `ScansRepeatReports`, `RowsForgetTheOrder`, `SummaryIsTheOtherSide`, `SpikesShareTheCandle`, `DeletionsAreCounted`; `MarkersStayInTheWindow` at the price of their candle; `FileForgetsSymbols`: two symbols with one candle, price and side share a row of the file; `BlocksCountTwice` |

Their inputs are small: three to five prices, candles of a few trades, windows of a
few instants. They are chosen so that ties, gaps, cuts and boundaries occur; a reader who
doubts one changes an operator and sees an assumption fail.

## 3. The runs

| run | instance | states | shows |
|---|---|---|---|
| `ledger` | one id and the empty id, two levels, sizes 1 and 2, four events over four instants; the window opens inside the second candle and drops the first | 781 632 | the ledger's invariants under any events |
| `book_readers` | two ids, two levels, sizes 0 to 3, four events, window inside the first candle | 276 787 | three readers, one book |
| `replay_run` | two symbols, candles of two instants, window inside the first candle, five events, at most two payloads each, limit three | 2 712 | window, marks |
| `zone_replay` | three prices, three footprints, four candles, two refills each, window at the first or second candle | 369 738 | zones, payloads, sink, engine together |
| `trigger_pages` | five candles of three shapes, a place on either side, two zones, timeouts of 2 and 1 | 283 690 | pages and the shared engine |
| `actor_proxy` | two candidates and a third order, sizes 2 and none, three instants, four events | 560 746 | loss, replacement, weakness, exit |
| `candle_close` | three candles, two trades, one removal | 267 377 | order, completeness, liveness of closed candles |
| `execution_link` | three candles, one retry, two faults | 1 073 926 | commands and positions |
| `timeline_index` | two processes, four events in three batches, the first two meeting inside one millisecond, two windows, cache of one, two faults | 4 068 780 | index and answers under interleavings, errors and crashes |
| `refill_scan` | one process, four events in three batches, two page windows with a cache of one, three scan windows over candles of three milliseconds, two rows a read, two scans, one fault, fairness | 1 128 442 | what answers a scan is complete; scans of the file stop |
| `index_lossless` | one process, no faults, otherwise as `timeline_index` | - | see findings |
| `replay_warmup` | as `replay_run`, four events, no event payloads | - | see findings |

**Why the bounds suffice.**
*Ledger:* an order that moves (two levels), an execution replaced in part (sizes 1 and
2), a lot that leaves in a later candle, a window that cuts one candle and drops
another, an id that is foreign or reused. Four events are an execution, an addition that
replaces it, and two events after it. The operations have no memory beyond the level, its
records and the tracked orders, and orders meet only in a level.
*Readers:* sizes up to 3 give partial fills, growth after a fill and consumption in two
stages; four events are an add, a fill, the growth that replaces it, and a move, cancel or
fill that consumes both kinds of contracts.
*Zones:* three prices hold a zone of two levels with a terminal and a zone it crosses; the
footprints have runs that restart and terminals on both sides; four candles let a zone of
the warm-up meet zones after it.
*Pages:* five candles are a zone, its retest distance of two, an entry, a reversal, a
candle left out; one shape's live candle ends a position by the range, another by a bin's
centre only.
*Actors:* four events lose two candidates, replace one and confirm weakness.
*Candles:* three candles with one missed and one healed; two trades are a first and one
that comes after its candle has closed, or opens the next. `Least` and `Margin` are 1 where
the code has 5 and 3: with three candles its limit would never leave one out. A window of five holds all their records, which `TradesCounted` needs:
a late trade can add a second record of a candle, and only a full window pushes the
first one out.
*Execution:* three candles are an entry, its exit, and another entry; two faults allow an
answer lost and the terminal restarted, or a restart and a position closed by hand.
*Index:* one window ends where two batches meet; two processes are what a lock
needs; two faults allow a failure, and another on the way out of the first.
*Refill scan:* the first scan window ends inside a candle and the second begins where it
ends, so that together they cover the third; two scans are one that stores and one that
is answered by it, with the index stepping inside and between them. A third
scan only adds another block. `LoopFindsGaps` compares the loop of `_covers` with its
meaning for up to three stored windows.
Levels, orders and processes are interchangeable, which the cfg files use as symmetry
where no liveness is checked.

`CHECK_DEADLOCK FALSE` stands where the feed, the replay or the exchange's candles
end. `TimelineIndex`, `RefillScan` and `ExecutionLink` are checked for deadlock.

**Fairness.** `CandleClose`: the event loop runs every task that can go on (weak fairness
of the worker's turns and of the update loop's steps: a request is answered or fails),
and a healing request is not refused for ever (strong fairness of its answer; failures are
retried by the next round). Streams,
trades and configuration are not fair. `ExecutionLink`: the server goes on reading its
connection, the timer goes on firing. These are stated by their effect on one variable
(`ServerReads`, `TerminalAsks`, `TerminalHears`); the broker, candles and faults are not fair,
and faults are bounded in number. `refill_scan`: a request that was taken up is answered
(`Serve`), the timer fires and its thread runs (`Build`), as thread scheduling gives. It
says that after the last error scans stop, for one process. With two it does not hold: a
thread does not look at the status after its timer, so two processes can delete and
rebuild a finished index in turns.

**Mutants.** For every property of a passing run, `PROJECT.json` names an operator of
the module (`InferredUnbooked`, `Resumed`, `LockIgnored` and so on, each placed before the
definition it would replace) that changes one definition as a plausible bug
would; with it TLC finds the property violated. They are not used by the specifications.

## 4. Where code and comments disagree

Each is a run that TLC ends with a counterexample.

* `replay_warmup`: the window flag is shared by all symbols of a request, so the
  second symbol reports records that count its warm-up.
* `index_lossless`: interrupted builds are called lossless because a millisecond may
  hold many events, and yet a window ending exactly at `indexed_until_ms` is answered
  while events of that millisecond are missing, and the short answer is cached. The
  comment defends that a build starts over; the run holds its claim against the readers of
  a build that has not finished.

## 5. What is proved

By TLAPS, for every value of the constants that satisfies the module's named
assumptions (bounds are numbers, candle times do not run backwards and are positive;
the file is in time order, batches are not empty; a lock has no holder that is
a process when free; bins have natural numbers of contracts; what stands for an untracked
id is no order of the page). `ExecutionLink` assumes nothing of its constants. Where a
theorem needs more, its statement says so.

| theorem | statement |
|---|---|
| `LevelLedger_proofs!TypeCorrect` | `Spec => []TypeOK` |
| `LevelLedger_proofs!LiquidityIsConserved` | `Spec => []LiquidityConserved` |
| `LevelLedger_proofs!ClosingStaysCurrent` | `Spec => []ClosingIsCurrent` |
| `LevelLedger_proofs!RefillIsBacked` | `Spec => []RefillBacked` |
| `LevelLedger_proofs!RefillIsAccounted` | `Spec => []RefillAccounted` |
| `LevelLedger_proofs!PastCandlesStaySettled` | `Spec => PastCandlesSettled`, an action property |
| `LevelLedger_proofs!ReadersStayTogether` | `ReadersSpec => []ReadersInv` |
| `LevelLedger_proofs!BooksAlwaysAgree` | `ReadersSpec => []BooksAgree` |
| `LevelLedger_proofs!LotsFit` | `ReadersSpec => []LotsFitOrder` |
| `LevelLedger_proofs!DeletesAreWithdrawals` | `ReadersSpec => []DeletedIsWithdrawn` |
| `LevelLedger_proofs!ReadersFeedTheLedger` | `ReadersSpec => Spec` of the ledger, a refinement |
| `ReplayRun_proofs!MarksMatchRecords` | `Spec => []MarksAreRecords` |
| `ReplayRun_proofs!WarmupIsForgotten` | `Spec => []WarmupForgotten` |
| `ZoneBook_proofs!OneZonePerSide` | `ZoneSpec => []OnePerSide` |
| `ZoneBook_proofs!ScansFindRuns` | `ZoneSpec => []ZonesAreRuns` |
| `ZoneBook_proofs!BookIsNotCrossed` | `ZoneSpec => []NoInversion` |
| `ZoneBook_proofs!PassedZonesAreCancelled` | `ZoneSpec => PassedAreCancelled`, an action property |
| `ZoneBook_proofs!StreamAgreesWithBook` | `ZoneSpec => []StreamMatchesBook` |
| `ZoneBook_proofs!BookKeepsPromise` | `ZoneSpec => KeepsPromise`, a refinement |
| `ZoneBook_proofs!ReplayLeavesBook` | `ReplaySpec => ZoneSpec`, a refinement |
| `ZoneBook_proofs!ZonesEnterOnce` | `ReplaySpec => []EnteredOnce` |
| `ZoneBook_proofs!CancelledIsDropped` | `ReplaySpec => []CancelledDropped` |
| `TriggerEngine_proofs!PagesAreSound` | `PagesSpec => []PageSound` |
| `TriggerEngine_proofs!PagesSkipCancelled` | `PagesSpec => []PageSkipsCancelled` |
| `TriggerEngine_proofs!OpenPositionIsTracked` | `PagesSpec => []ProxyOfOpenPositionRuns` |
| `ActorProxy_proofs!ProxyInvariant` | `Spec => []ProxyInv` |
| `ActorProxy_proofs!GoneWaits` | `Spec => []GoneWaitsForReplacement` |
| `ActorProxy_proofs!AllGone` | `Payload # <<>> => (Spec => []AllGoneIsWeak)` |
| `ActorProxy_proofs!ProxyKeepsWatch` | `Spec => KeepsWatch`, a refinement |
| `CandleClose_proofs!NoCandleLost` | `Spec => []KnownIsQueuedOrSeen` |
| `CandleClose_proofs!CandlesInOrder` | `Spec => []EvaluatedInOrder` |
| `CandleClose_proofs!EventEvaluatesCandle` | `Spec => KlineEvaluatesCandle`, an action property |
| `CandleClose_proofs!CandlesComplete` | `Spec /\ [][KeepsUnevaluated]_vars => []TradesCounted` |
| `CandleClose_proofs!TimeFollowsPrice` | trades in time order: a bin's time is that of the last price in it |
| `CandleClose_proofs!EntriesFollowAbsorption` | an entry follows its own absorption in time, its stop is the furthest end since |
| `CandleClose_proofs!LastRecordsDecide` | entries, stops and exits depend on the last `Left + 2` records |
| `ExecutionLink_proofs!LinkInvariant` | `Spec => []LinkInv` |
| `ExecutionLink_proofs!SentStaysUnderWay` | `Spec => []SentIsUnderWay` |
| `ExecutionLink_proofs!NothingIsRetried` | `Spec => []NoSecondAttempt` |
| `ExecutionLink_proofs!BrokerStaysKnown` | `Spec => []BrokerKnown` |
| `TimelineIndex_proofs!TypeCorrect` | `Spec => []TypeOK` |
| `TimelineIndex_proofs!ReadyMeansComplete` | `Spec => []ReadyIsComplete` |
| `TimelineIndex_proofs!StoredStaysPrefix` | `Spec => []StoredIsPrefix` |
| `TimelineIndex_proofs!UntilStaysStored` | `Spec => []UntilIsStored` |
| `TimelineIndex_proofs!QuietLoadsAreComplete` | `Spec => []QuietLoadsComplete` |
| `TimelineIndex_proofs!ScanLeavesIndex` | `ScanSpec => Spec`, a refinement |
| `TimelineIndex_proofs!AnswersAreWhole` | `ScanSpec => []AnswersMissNothing` |
| `TimelineIndex_proofs!LoopFindsEveryGap` | the loop of `_covers` finds a window covered iff `NoGap` |

**Ledger.** `ClosedUnderEvents` says once that an event changes levels only by the
operations of the ledger, at the candle of the event; whatever those operations keep,
every step keeps. The inductive invariant `Kept` of a level adds to conservation that
the running candle's record closes with the level's liquidity and that no later
candle has a record: without the first, the next booking could start from a wrong
closing; without the second, the claim would not survive the step into a new candle.
For `RefillBacked` the invariant `Backed` says that executions of the
running candle cover its refill *and* what is still pending, unless the window cut
the candle; the pending part is what makes the next addition safe.
For `RefillAccounted` the lots have to be counted, by the candle they are of
(`CountOf`, the cardinality of their positions). `Accounted` says that what left of a
candle's refill *and what still rests of it* is covered by the refill added, and that
no lot is of a candle whose record may still be created: a record made later would
start from nothing and owe the lot. `EarlyLots` adds that before the
window opens every lot is of a candle that began before it, which is what makes the
opening, where all records are dropped, harmless to the rest. `PastCandlesSettled`
needs no invariant beyond types: `Settled` relates a level to what an event makes of
it, and each operation of the ledger satisfies it.

**Readers.** `ReadersInv` says of each level that the ledger's total, and the page's as
long as no clear passed it by, are what the tracked orders rest there (`Demand`, a
sum over the orders), and compares an order's three entries by what they rest at each
level, so that a gone order and one of size 0 are the same. It adds that the page's lots
and existing contracts fit in the order, which keeps a cancel from consuming a lot
twice; and, for the deletions, that nothing is deleted before the window opens and that a
record the ledger does not have has no withdrawals. Each event is then one change of one
order, which moves the three books by the same amounts at the same levels. The page's
invariants hold only up to the first clear without a price, as the properties say.

**Replay.** Marks and records agree by induction over `Typed /\ MarksAreRecords`. For
the warm-up, `Forgotten` says that once a symbol has opened the window no record of
it or of an earlier symbol counts warm-up, that replay has not gone back behind it, and
that while it is replayed its clock stays inside the window: without the last clause
its next event could be one of the warm-up.

**Zones.** `StepCases` reduces a step to three cases: the book outlives the
terminals, one zone is added in place of what it replaces, or a new candle begins. The
proofs about the book do not depend on what the scans find, so they hold whatever zones
the book is offered. For `PassedAreCancelled` the invariant says that the zones of the last check of a
candle have been passed by none of its terminals, which is why the check may be skipped.
For the stream, `Published` adds to `StreamMatchesBook` that everything shown and
everything active was emitted, and that nothing is shown in the warm-up: the first is what makes a
shown zone new to the consumer, and with it every step that publishes is a `Show` or a `Cancel` of `ZoneStream`, every other a
stutter.

**Scans for zones.** The two scans are one scan of a side, which visits the levels in its
own order (`Place`): `LevelIsStep` shows that `BidLevel` and `AskLevel` are both
`ScanStep`. `Finds` says what the scan has after n levels: its run lists the levels still
alive (`Alive`: dropped by no break, by no level that opposing contracts hold or that has
none, and by no growth of them), and the zones it has found are those of the runs that
ended at a terminal among the n. The open
run is described without recursion, so that `RunEnds` can compare it, when it ends at a
level, with `RunTo`. `ZonesAreRuns` follows for any footprint of any candle, and for any
number of refills (`CandidatesAreRuns`), where the run of TLC stops at 2 a level.

**Trigger engine.** The engine is a record, so its proofs are lemmas about operators.
`StoreOK(st, t, R, W, Z)` is what an evaluation keeps: after candle t the signals in the
log alternate, pair and are retests; no zone gives two setups, two entries, or an entry
and a setup; a setup has counted no more candles than have passed since its own; the
position is that of the last entry, its proxy runs, and with it only setups of the other side
wait. R, W and Z are the zones that memory, setups and signals may be of. That no setup
is of a later candle than the last one makes a new candle's zones new to the store. `LogEntry`
and `LogExit` give the two ways a log grows, `EvaluateOK` one closed candle, `EnrichOK` all
candles with a fresh store, by induction on their number.
For pages, `PageInv` adds that the memory of the shared engine holds no cancelled zone, so that
a page that is up to date enters none. For replays, `ReplayInv` says that payloads and
engine know published zones only, that a payload that cancels a zone comes after the one
that shows it, and that no setup is of a barred zone. It needs one thing of the scans:
what they find is a zone of the present candle. That they find anything is a
lemma, since a scan is a recursive function whose existence has to be shown.

**Actor proxy.** `ProxyInv` is the shape of a tracked cluster and that its signal, if it
has one, is the one in the store. `Handled` says once that the handlers of an event leave
weakness and signal alone, so that a step's effect on them is that of the final
assessment, and the refinement follows by the cases of `Assess`. `AllGoneIsWeak` compares
sums over candidates with their parts. It fails for a payload without an order, for which
`_exit_conditions_met` never holds: the theorem says so in its hypothesis.

**Closed candles.** `QueueInv` adds to `KnownIsQueuedOrSeen` that what a healing request
found known is still known when it is answered, and that requests ask for closed candles
only.
`OrderInv` ties what was evaluated to the builder's last evaluated candle; it dies with
the builder. `TradesCounted` is not true of every window: a full one pushes out a record
before its event has come, and then a late trade's second record is the one
evaluated. The hypothesis `KeepsUnevaluated` of `CandlesComplete` excludes this loss and nothing else,
and the window of the `candle_close` run, which holds all records, meets it. Under it a candle
that is not evaluated yet has its trades in its first record or in progress (`Held`).

**Candles and entry rules.** Three theorems are about the operators a candle is made and judged by, for
any constants of them. They speak of the sequence of candles after 0, 1, 2, ... trades, or of
states after as many closed candles. For `TimeFollowsPrice`, `Tracks` says that at every
instant from `since` on the newest trade is in the bin `at`, and that each bin has been given
its instants before `since`. Its hypothesis, that trades come in the order of their
times, is needed: `PriceDwellTracker` skips a trade that is older than the last
change, and TLC's `TimeIsGivenOnce` shows for other orders only that the times add up.
For `EntriesFollowAbsorption`, `Awaits` says which candle's absorption a state is of, that
no entry used it, and that its stop is the least end since. `LastRecordsDecide` bounds what
the window of records may push out without a change of decision.

**Execution.** None of the three properties is inductive. That a command stays sent
only while it is under way needs the answer of the terminal to be about that command, and
that a retried one comes back needs it to be the only one; so `LinkInv` follows requests
and tickets over the connection. A request that was handed out is withheld by the server
(`Withheld`: it is sent or completed, or its trigger is gone) until its own reply arrives;
it has at most one reply, either on its way or still to be given (`HandedOut`, `OneRetry`);
one live poll is out or one answer is (`Waits`, `OnePoll`), and an answer names
no command twice. Every ticket named for a request, in a message or in one of the two books of
positions, is the same ticket (`OneTicket`): without it the report of one position could
complete the command of another. With the server's own shape (`ServerOK`: no command
pending twice, sent ones pending, completed ones not, every command about a candle
or ticket that was) each action keeps it. A turn of the timer executes a list of commands and then looks through the tracked
positions, both as recursive functions: `ExecuteFacts` and `TrackAllFacts` say what the
replies and the new book are made of, and how broker and replies belong together.

**Index.** `IndexInv` says that exactly the lock's holder may be locked or building;
that from its first transaction on the source is not READY and precisely the
batches before `batch` are stored; and that whatever is stored is a number of whole
batches whose last time is `indexed_until_ms`, or 0. The lock clause is what
makes a batch of one thread land on its own earlier batches; the last clause is what
a crash leaves. `ServeInv` adds that a select no rebuild has disturbed still finds
all its status promised, and from it that its cache entry is complete.

**Scans.** What a version of the index vouches for is a function of the version
(`Vouches`): a version that comes back after a rebuild vouches for the same events. Hence
memory and file are judged by the versions they name, whatever the index does meanwhile.
`ScanOK` says of a scan under way that, unless a rebuild disturbed it, its version's
events are still stored and those behind its cursor are read; `GoodRows` that an
answer has every candle of its window, its whole rows without a gap. `NoGap` makes an answer put together from blocks miss no candle; that the
code's loop over the blocks decides it is `LoopFindsEveryGap`, for any blocks that the
SELECT lists in the order of their starts. As long as the loop goes on, what it has reached
is covered up to there, and what it could not cross lies in no later block.

**Induction over data.** The library's induction theorems cannot be applied, but two
facts replace them: every non-empty set of naturals has a least element (`LeastNat`,
`LeastElement`, from well-foundedness of strict inclusion on finite sets), and a function defined by recursion
on 0 .. n exists (`RunExists`). Sums over orders, filtered lists, sorted commands, turns
of the timer, runs over candles and the scans are reasoned about in this way. `TriggerEngine` filters lists with `Among`, a
recursive function, in place of `SelectSeq`, whose definition the provers
do not see, and `ExecutionLink` has `Without`, `InOrder` and `TrackAll` for the same reason.

**Model-checked only:** all liveness, `ScansStop`, `QueueDrains`, `StaleIsHealed` and
`ClosedAreForgotten`, since liveness under fairness and ENABLED are out of the proof
system's reach; and the comparisons of the pure modules, but for the four theorems above
on blocks, candles and entry rules: most of them are about folds,
sorted sequences and exact quotients over bounded inputs.
Every invariant and every action property that a passing run checks is proved.

## 6. What is not modelled

* Duration and volume profiles, number formats, configuration. The cluster memory of
  `absorption_module/` (nothing calls it) and the score that chooses among several clusters.
* `volume_profile/profile_window_manager.py`: nothing constructs it and a module it
  imports is missing. The live adapter of the actor proxy: nothing constructs it.
* Reading of venue archives and files, markers, warm-up downloads. The merge of several
  files in a replay, the footprint source.
* HTML pages: about half of the repository's lines are HTML, CSS and scripts in Python
  strings, and formatting of payloads. A model of them would have no state to check.
* Exchange clients: network I/O, and no source starts the Kraken one.
* The row limit of the index and its choice of an instrument together with
  interleavings: `DomEvents` shows how they make index and file answer differently.
* Several clients, symbols or timeframes in `ExecutionLink`; several positions in
  `ActorProxy`; the closed-position CSV files.

## 7. Plan

1. Two processes in `RefillScan`, which store blocks of one version in turns.
2. `ActorProxy` with two positions that share recent adds.
3. `ExecutionLink` with two clients, which share the triggers of a symbol.
