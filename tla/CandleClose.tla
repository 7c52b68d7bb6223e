----------------------------- MODULE CandleClose -----------------------------
(***************************************************************************)
(* How a session closes its candles (absorption/session_service.py with    *)
(* absorption/absorption_runtime.py and study/candle_builder.py), for one  *)
(* symbol and timeframe.  Trades build the candle in progress; the event   *)
(* that a candle is closed comes on another connection, waits in a queue   *)
(* for the session's worker, and lets the builder's records be evaluated.  *)
(* Events that the stream missed are asked for again by the update loop.   *)
(* The tasks are asyncio tasks: a step ends where the code awaits          *)
(* something that may take time.  The worker never waits between taking an *)
(* event and evaluating it: its price step is known before a stream runs.  *)
(*                                                                         *)
(* Left out: prices, bins and the evaluation itself, the bounds of 200 and *)
(* more on remembered events, and the throttle between two healings.       *)
(***************************************************************************)
EXTENDS Integers, FiniteSets, Sequences, SequencesExt

CONSTANTS
  Candles,      \* bound: candles are numbered 1 .. Candles
  MaxTrades,    \* bound: trades in all
  MaxRemovals,  \* bound: how often the session is removed
  Window,       \* EXECUTION_CLOSED_CANDLE_WINDOW
  Missed,       \* M1_KLINE_RESTART_MISSED_CANDLES
  Least,        \* how many candles healing asks for at least: 5 in the code,
  Margin        \* and how many more than are missing: 3

ASSUME CloseAssumption ==
  /\ {Candles, MaxTrades, MaxRemovals, Window, Missed, Least, Margin} \subseteq Nat
  /\ Window > 0 /\ Least > 0 /\ Margin > 0

Candle == 1 .. Candles

VARIABLES
  now,        \* the candle in progress at the exchange
  on,         \* the session is configured
  removals,   \* how often it has been removed
  booted,     \* its key is in _historical_klines_bootstrapped
  lastTrade,  \* the candle of the last trade delivered
  count,      \* trades delivered
  sent,       \* the last candle whose event the stream delivered or missed
  known,      \* _closed_klines_by_session: candles known to be closed
  queue,      \* _closed_kline_queues: waiting events, per candle
  worker,     \* a worker task exists
  klines,     \* _closed_kline_by_symbol_timeframe_open of the runtime
  builder,    \* the OrderFlowCandleBuilder, and _last_processed_open_time
  update,     \* where the update loop is, and what it has in mind
  due,        \* history: trades the builder was given while the candle was open
  evaluated,  \* history: the builder's records that were evaluated, in order
  excused     \* history: closed candles no evaluation is owed for

vars == <<now, on, removals, booted, lastTrade, count, sent, known, queue,
          worker, klines, builder, update, due, evaluated, excused>>

-----------------------------------------------------------------------------
(* The builder: the active candle (0 if there is none) with its trades,    *)
(* and the last Window closed records.                                     *)
NoBuilder  == [exists |-> FALSE, active |-> 0, trades |-> 0, closed |-> <<>>, done |-> 0]
NewBuilder == [NoBuilder EXCEPT !.exists = TRUE]

Recent(seq) == IF Len(seq) <= Window THEN seq ELSE SubSeq(seq, Len(seq) - Window + 1, Len(seq))

(* _freeze_active                                                          *)
Freeze(b) ==
  IF b.active = 0 THEN b
  ELSE [b EXCEPT
          !.closed = Recent(Append(@, [candle |-> b.active, trades |-> b.trades])),
          !.active = 0, !.trades = 0]

(* on_trade: trades older than the active candle are ignored.  When there  *)
(* is no active candle any trade starts one, of a closed candle too.       *)
OnTrade(b, c) ==
  IF c < b.active THEN b
  ELSE IF c = b.active THEN [b EXCEPT !.trades = @ + 1]
  ELSE [Freeze(b) EXCEPT !.active = c, !.trades = 1]

(* append_closed_candle_batch without trades                               *)
AppendEmpty(b, c) ==
  IF b.closed # <<>> /\ Last(b.closed).candle >= c THEN b
  ELSE IF b.active > c THEN b
  ELSE Freeze([Freeze(b) EXCEPT !.active = c])

(* Mutants of CloseForKline: the active candle is replaced, or left open.  *)
CloseAlwaysEmpty(b, c) ==
  IF b.active = c THEN AppendEmpty([b EXCEPT !.active = 0, !.trades = 0], c)
  ELSE AppendEmpty(b, c)

CloseKeepsActive(b, c) == IF b.active = c THEN b ELSE AppendEmpty(b, c)

(* close_active_candle_for_kline, and what process_closed_kline_batch does *)
(* when the active candle is another one.                                  *)
CloseForKline(b, c) == IF b.active = c THEN Freeze(b) ELSE AppendEmpty(b, c)

(* The first record of a candle: a stable sort keeps it before later ones. *)
RecordOf(b, c) ==
  b.closed[CHOOSE i \in DOMAIN b.closed :
             /\ b.closed[i].candle = c
             /\ \A j \in DOMAIN b.closed : b.closed[j].candle = c => i <= j]

(* Mutant of Unevaluated: _last_processed_open_time is not looked at.      *)
UnevaluatedAll(b) == {b.closed[i].candle : i \in DOMAIN b.closed}

Unevaluated(b) == {c \in {b.closed[i].candle : i \in DOMAIN b.closed} : c > b.done}

(* _process_closed_record defers a record with trades until its kline is   *)
(* known.                                                                  *)
Deferred(b, seen, c) == RecordOf(b, c).trades > 0 /\ c \notin seen

(* _process_new_closed_records goes through the records in order and stops *)
(* at the first deferred one.                                              *)
Ready(b, seen) ==
  {c \in Unevaluated(b) : \A d \in Unevaluated(b) : d <= c => ~Deferred(b, seen, d)}

InOrder(S) ==
  [i \in 1 .. Cardinality(S) |-> CHOOSE c \in S : Cardinality({d \in S : d < c}) = i - 1]

HighestOf(S, floor) == CHOOSE c \in S \union {floor} : \A d \in S \union {floor} : d <= c

Evaluate(b, seen) == [b EXCEPT !.done = HighestOf(Ready(b, seen), @)]

-----------------------------------------------------------------------------
Idle == [at |-> "idle", existing |-> {}, upto |-> 0]

NoTrades == [c \in Candle |-> 0]

Init ==
  /\ now = 1 /\ on = TRUE /\ removals = 0 /\ booted = FALSE
  /\ lastTrade = 1 /\ count = 0 /\ sent = 0
  /\ known = {} /\ queue = NoTrades /\ worker = FALSE
  /\ klines = {} /\ builder = NoBuilder /\ update = Idle
  /\ due = NoTrades /\ evaluated = <<>> /\ excused = {}

TimePasses ==
  /\ now <= Candles
  /\ now' = now + 1
  /\ UNCHANGED <<on, removals, booted, lastTrade, count, sent, known, queue,
                 worker, klines, builder, update, due, evaluated, excused>>

(* _on_aggtrade_event.  Trades come in order, but possibly later than the  *)
(* event that their candle is closed.                                      *)
TradeArrives(c) ==
  /\ lastTrade <= c /\ c <= now /\ count < MaxTrades
  /\ lastTrade' = c
  /\ count' = count + 1
  /\ IF on /\ builder.exists
     THEN /\ builder' = OnTrade(builder, c)
          /\ due' = IF c <= builder.done \/ \E i \in DOMAIN builder.closed : builder.closed[i].candle = c
                    THEN due ELSE [due EXCEPT ![c] = @ + 1]
     ELSE UNCHANGED <<builder, due>>
  /\ UNCHANGED <<now, on, removals, booted, sent, known, queue, worker, klines,
                 update, evaluated, excused>>

(* _enqueue_closed_kline_event for each candle of a set; an event of a     *)
(* session that is not configured is dropped.                              *)
Enqueue(cs) ==
  IF on
  THEN /\ queue' = [c \in Candle |-> IF c \in cs THEN queue[c] + 1 ELSE queue[c]]
       /\ worker' = (worker \/ cs # {})
  ELSE UNCHANGED <<queue, worker>>

(* The stream delivers the event of a closed candle.  It may have missed   *)
(* earlier ones.                                                           *)
KlineArrives(c) ==
  /\ sent < c /\ c < now
  /\ sent' = c
  /\ Enqueue({c})
  /\ UNCHANGED <<now, on, removals, booted, lastTrade, count, known, klines,
                 builder, update, due, evaluated, excused>>

(* _closed_kline_worker_supervisor                                         *)
Supervise ==
  /\ on /\ ~worker
  /\ worker' = TRUE
  /\ UNCHANGED <<now, on, removals, booted, lastTrade, count, sent, known, queue,
                 klines, builder, update, due, evaluated, excused>>

(* _closed_kline_processing_loop takes the earliest event and runs         *)
(* _process_closed_kline_event: the candle is known, the builder exists,   *)
(* the record is closed, and all records that are ready are evaluated.     *)
WorkerTakes ==
  /\ worker
  /\ \E c \in Candle :
       /\ queue[c] > 0 /\ \A d \in Candle : queue[d] > 0 => c <= d
       /\ queue' = [queue EXCEPT ![c] = @ - 1]
       /\ known' = known \union {c}
       /\ klines' = klines \union {c}
       /\ \E b \in {CloseForKline(IF builder.exists THEN builder ELSE NewBuilder, c)} :
          \E ready \in {InOrder(Ready(b, klines'))} :
             /\ builder' = Evaluate(b, klines')
             /\ evaluated' = evaluated \o
                  [i \in 1 .. Len(ready) |->
                     [candle |-> ready[i], trades |-> RecordOf(b, ready[i]).trades,
                      due |-> due[ready[i]]]]
  /\ UNCHANGED <<now, on, removals, booted, lastTrade, count, sent, worker, update,
                 due, excused>>

(* Mutant of RemoveSession: the queue of the session is kept.              *)
RemoveKeepsQueue ==
  /\ on /\ removals < MaxRemovals
  /\ on' = FALSE /\ removals' = removals + 1
  /\ booted' = FALSE /\ worker' = FALSE
  /\ builder' = NoBuilder
  /\ due' = NoTrades /\ evaluated' = <<>>
  /\ UNCHANGED <<now, lastTrade, count, sent, known, queue, klines, update, excused>>

(* configure_sessions without the session: its worker is cancelled, its    *)
(* queue and its builder are dropped.  Its known candles stay.             *)
RemoveSession ==
  /\ on /\ removals < MaxRemovals
  /\ on' = FALSE /\ removals' = removals + 1
  /\ booted' = FALSE /\ worker' = FALSE
  /\ queue' = NoTrades /\ builder' = NoBuilder
  /\ due' = NoTrades /\ evaluated' = <<>>
  /\ excused' = excused \union {c \in Candle : queue[c] > 0}
  /\ UNCHANGED <<now, lastTrade, count, sent, known, klines, update>>

AddSession ==
  /\ ~on
  /\ on' = TRUE
  /\ UNCHANGED <<now, removals, booted, lastTrade, count, sent, known, queue,
                 worker, klines, builder, update, due, evaluated, excused>>

(* What the update loop does.  A request goes to the exchange in one step   *)
(* and is answered, or fails, in another: everything else may happen       *)
(* between.  at is "idle" between rounds, "boot" while the history of the   *)
(* session is asked for, "check" before the stream is looked at, "restart" *)
(* while the stream is restarted, "ask" while missed candles are asked for.*)

(* _update_session after the history: ensure_symbol_builders, for a        *)
(* configured session of which some closed candle is known.                *)
EnsureBuilder(candles) ==
  builder' = IF on /\ candles # {} /\ ~builder.exists THEN NewBuilder ELSE builder

UpdateSession ==
  /\ update.at = "idle" /\ on /\ booted
  /\ EnsureBuilder(known)
  /\ update' = [Idle EXCEPT !.at = "check"]
  /\ UNCHANGED <<now, on, removals, booted, lastTrade, count, sent, known, queue,
                 worker, klines, due, evaluated, excused>>

(* _ensure_historical_closed_klines of a session not bootstrapped.         *)
BootAsks ==
  /\ update.at = "idle" /\ on /\ ~booted
  /\ update' = [Idle EXCEPT !.at = "boot", !.upto = now - 1]
  /\ UNCHANGED <<now, on, removals, booted, lastTrade, count, sent, known, queue,
                 worker, klines, builder, due, evaluated, excused>>

(* What closed before the bootstrap is history and not evaluated.  The     *)
(* session is bootstrapped then, be it removed meanwhile.                  *)
BootAnswered ==
  /\ update.at = "boot"
  /\ booted' = TRUE
  /\ known' = known \union 1 .. update.upto
  /\ excused' = excused \union (1 .. update.upto \ known)
  /\ EnsureBuilder(known')
  /\ update' = [Idle EXCEPT !.at = "check"]
  /\ UNCHANGED <<now, on, removals, lastTrade, count, sent, queue, worker, klines,
                 due, evaluated>>

BootFails ==
  /\ update.at = "boot"
  /\ EnsureBuilder(known)
  /\ update' = [Idle EXCEPT !.at = "check"]
  /\ UNCHANGED <<now, on, removals, booted, lastTrade, count, sent, known, queue,
                 worker, klines, due, evaluated, excused>>

(* The latest known candle is so old that the stream must have missed some.*)
Stale == known # {} /\ \A c \in known : c + Missed < now

EndRound ==
  /\ update.at = "check" /\ ~(on /\ Stale)
  /\ update' = Idle
  /\ UNCHANGED <<now, on, removals, booted, lastTrade, count, sent, known, queue,
                 worker, klines, builder, due, evaluated, excused>>

(* Mutant of HealStarts: the candles after the allowed ones are too new.   *)
HealStartsOld ==
  /\ update.at = "check" /\ on /\ Stale
  /\ update' = [Idle EXCEPT !.at = "restart", !.upto = now - 1 - Missed]
  /\ UNCHANGED <<now, on, removals, booted, lastTrade, count, sent, known, queue,
                 worker, klines, builder, due, evaluated, excused>>

(* _heal_stale_m1_kline_streams restarts the stream, and has the candles   *)
(* closed by now in mind.                                                  *)
HealStarts ==
  /\ update.at = "check" /\ on /\ Stale
  /\ update' = [Idle EXCEPT !.at = "restart", !.upto = now - 1]
  /\ UNCHANGED <<now, on, removals, booted, lastTrade, count, sent, known, queue,
                 worker, klines, builder, due, evaluated, excused>>

(* _backfill_recent_closed_klines notes what is known; it is called for    *)
(* the sessions configured when the stream has been restarted.             *)
HealAsks ==
  /\ update.at = "restart"
  /\ update' = IF on THEN [update EXCEPT !.at = "ask", !.existing = known] ELSE Idle
  /\ UNCHANGED <<now, on, removals, booted, lastTrade, count, sent, known, queue,
                 worker, klines, builder, due, evaluated, excused>>

HealFails ==
  /\ update.at = "ask"
  /\ update' = Idle
  /\ UNCHANGED <<now, on, removals, booted, lastTrade, count, sent, known, queue,
                 worker, klines, builder, due, evaluated, excused>>

(* _recent_closed_kline_backfill_limit: how many candles are asked for.    *)
Limit ==
  LET missing == HighestOf({update.upto - HighestOf(update.existing, 0)}, 0)
  IN  HighestOf({missing + Margin}, Least)

(* The candles asked for, of those closed when healing started.  The       *)
(* exchange counts them from the candle in progress when it answers.       *)
Answers == {{c \in 1 .. update.upto : c > n - Limit} : n \in update.upto + 1 .. now}

(* Mutant of HealAnswered: what is known is looked at after the merge.     *)
HealAnsweredLate ==
  /\ update.at = "ask"
  /\ \E answer \in Answers :
       /\ known' = known \union answer
       /\ Enqueue(answer \ known')
  /\ update' = Idle
  /\ UNCHANGED <<now, on, removals, booted, lastTrade, count, sent, klines, builder,
                 due, evaluated, excused>>

(* _backfill_recent_closed_klines_for_binance_symbol with the answer: its  *)
(* candles are known now, and those not known when asking are queued.      *)
HealAnswered ==
  /\ update.at = "ask"
  /\ \E answer \in Answers :
       /\ known' = known \union answer
       /\ Enqueue(answer \ update.existing)
       /\ excused' = IF on THEN excused ELSE excused \union (answer \ known)
  /\ update' = Idle
  /\ UNCHANGED <<now, on, removals, booted, lastTrade, count, sent, klines, builder,
                 due, evaluated>>

(* The tasks: the update loop, and the session's worker.                   *)
UpdateLoop ==
  \/ UpdateSession \/ BootAsks \/ BootAnswered \/ BootFails
  \/ EndRound \/ HealStarts \/ HealAsks \/ HealFails \/ HealAnswered
WorkerLoop == Supervise \/ WorkerTakes

Next ==
  \/ TimePasses
  \/ \E c \in Candle : TradeArrives(c) \/ KlineArrives(c)
  \/ WorkerLoop \/ UpdateLoop
  \/ RemoveSession \/ AddSession

(* The event loop runs every task that can go on, the supervisor and the   *)
(* update loop are periodic, and a request is not refused for ever.        *)
Fairness == WF_vars(WorkerLoop) /\ WF_vars(UpdateLoop) /\ SF_vars(HealAnswered)

Spec == Init /\ [][Next]_vars /\ Fairness

-----------------------------------------------------------------------------
(* A builder's candles are evaluated in order and once each, although      *)
(* events arrive late, twice, or after later ones, and late trades open    *)
(* closed candles again.                                                   *)
EvaluatedInOrder ==
  \A i, j \in DOMAIN evaluated : i < j => evaluated[i].candle < evaluated[j].candle

(* An evaluated record has all the trades that reached the builder while   *)
(* the candle was open.  It takes a Window in which late trades and        *)
(* records without their event do not push out the first record.           *)
TradesCounted == \A i \in DOMAIN evaluated : evaluated[i].trades = evaluated[i].due

(* A closed candle the session knows of has reached the runtime or waits   *)
(* in the queue: the stream, the worker and a healing request that began   *)
(* before do not together lose one.  Nothing would ask for it again.       *)
KnownIsQueuedOrSeen ==
  \A c \in known \ excused : c \in klines \/ queue[c] > 0

(* When the event of a candle is taken, the candle is evaluated, unless it *)
(* had no record or an earlier record still misses its own event.          *)
KlineEvaluatesCandle ==
  [][\A c \in Candle :
       queue'[c] < queue[c] /\ builder'.exists =>
         \/ c <= builder'.done
         \/ builder'.active # c /\ c \notin Unevaluated(builder')
         \/ \E d \in Unevaluated(builder') : d < c /\ Deferred(builder', klines', d)]_vars

(* Queued events are all taken, or dropped with their session: a worker is *)
(* there or is made.                                                       *)
QueueDrains == (queue # NoTrades) ~> (queue = NoTrades)

(* A stale session is healed unless it is removed.                         *)
StaleIsHealed == (on /\ Stale) ~> (~Stale \/ ~on)
=============================================================================
