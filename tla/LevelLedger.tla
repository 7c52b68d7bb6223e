----------------------------- MODULE LevelLedger -----------------------------
(***************************************************************************)
(* The price-level ledger of process/dataProcessEngine.py for one symbol.  *)
(*                                                                         *)
(* The engine replays raw order events (add, modify, fill, cancel, clear). *)
(* For every level, that is a price and a side, it keeps the liquidity it  *)
(* believes to rest there, split into ordinary liquidity and refill        *)
(* liquidity (liquidity that replaced an execution of the same candle),    *)
(* and for every level and candle a record of what was added, executed and *)
(* withdrawn.  Beside the levels it tracks the orders themselves.          *)
(*                                                                         *)
(* Data abstraction.  A level is one value: price and side are only ever   *)
(* compared together.  A refill lot of n contracts is n entries of the     *)
(* queue "refill", each naming the candle of the lot: lots are consumed    *)
(* strictly from the oldest, and the price and side of a lot are those of  *)
(* its level.  Event counts, order ids and formatting are left out.        *)
(***************************************************************************)
EXTENDS Integers, Sequences, FiniteSets

CONSTANTS
  Ids,         \* what the order_id of an event may be
  Orders,      \* the ids that are not empty
  Levels,      \* pairs of a price and a side
  NoOrder,     \* what the engine holds for an id it does not track
  MaxQty,      \* bound: the largest size an event reports
  EventSizes,  \* the sizes events report
  MaxTick,     \* bound: the last instant of the replayed range
  MaxEvents,   \* bound: how many events the feed delivers
  EmitStart,   \* emit_start_ms: first instant of the reported window
  CandleOf(_)  \* _event_candle_open_time_ms: the candle an instant lies in

Ticks   == 0 .. MaxTick
Candles == {CandleOf(t) : t \in Ticks}
Sizes   == 0 .. MaxQty
Tracked == [level : Levels, size : Sizes]

ASSUME BoundAssumption ==
  /\ MaxQty \in Nat
  /\ EventSizes \subseteq Sizes
  /\ MaxTick \in Nat
  /\ MaxEvents \in Nat
  /\ EmitStart \in Nat

\* Candle open times are positive and never run backwards.
ASSUME CandleAssumption ==
  /\ \A t \in Ticks : CandleOf(t) \in Nat \ {0}
  /\ \A s, t \in Ticks : s <= t => CandleOf(s) <= CandleOf(t)

ASSUME IdAssumption ==
  /\ IsFiniteSet(Orders)
  /\ Orders \subseteq Ids
  /\ NoOrder \notin Tracked

VARIABLES
  clock,     \* time of the next event; the engine reads events in time order
  fed,       \* number of events delivered so far
  emitting,  \* emit_window_started of run_replay
  orders,    \* _orders: what is tracked of every order id
  levels     \* _price_level_states and _price_activity_levels, by level

vars == <<clock, fed, emitting, orders, levels>>

Now == CandleOf(clock)

-----------------------------------------------------------------------------
(* The state of one level and its record for one candle.                   *)

StatsType ==
  [known : BOOLEAN, opening : Nat, gross : Nat, plainAdded : Nat,
   refillAdded : Nat, executed : Nat, withdrawn : Nat, closing : Nat,
   refillExecuted : Nat, refillWithdrawn : Nat]

LevelType ==
  [plain : Nat, refill : Seq(Candles), pending : Nat,
   pendingCandle : Candles \cup {0}, stats : [Candles -> StatsType],
   writtenOff : SUBSET Candles]

\* A candle without a record has known = FALSE.
NoStats ==
  [known |-> FALSE, opening |-> 0, gross |-> 0, plainAdded |-> 0,
   refillAdded |-> 0, executed |-> 0, withdrawn |-> 0, closing |-> 0,
   refillExecuted |-> 0, refillWithdrawn |-> 0]

NoHistory == [c \in Candles |-> NoStats]

\* writtenOff is a history variable: the candles in which a clear dropped
\* liquidity of the level that no tracked order accounted for.
EmptyLevel ==
  [plain |-> 0, refill |-> <<>>, pending |-> 0, pendingCandle |-> 0,
   stats |-> NoHistory, writtenOff |-> {}]

\* total_liquidity
Total(L) == L.plain + Len(L.refill)

\* Mutant of Book: finish is forgotten.
BookUnfinished(r, opening, plain, refill, executed, withdrawn, total) ==
  [known |-> TRUE, opening |-> r.opening + opening,
   gross |-> r.gross + plain + refill, plainAdded |-> r.plainAdded + plain,
   refillAdded |-> r.refillAdded + refill, executed |-> r.executed + executed,
   withdrawn |-> r.withdrawn + withdrawn, closing |-> r.closing,
   refillExecuted |-> r.refillExecuted, refillWithdrawn |-> r.refillWithdrawn]

\* A record after the given flows, closing with the liquidity left (finish).
Book(r, opening, plain, refill, executed, withdrawn, total) ==
  [known |-> TRUE, opening |-> r.opening + opening,
   gross |-> r.gross + plain + refill, plainAdded |-> r.plainAdded + plain,
   refillAdded |-> r.refillAdded + refill, executed |-> r.executed + executed,
   withdrawn |-> r.withdrawn + withdrawn, closing |-> total,
   refillExecuted |-> r.refillExecuted, refillWithdrawn |-> r.refillWithdrawn]

\* Mutant of Charge: an executed refill is booked as one more execution of its
\* candle.
ChargeAsExecution(r, executed, withdrawn) ==
  IF r.known THEN [r EXCEPT !.executed = @ + executed] ELSE r

\* The origin record of refill contracts that were executed or withdrawn; a
\* candle whose record is gone is not charged.
Charge(r, executed, withdrawn) ==
  IF ~r.known THEN r
  ELSE [known |-> TRUE, opening |-> r.opening, gross |-> r.gross,
        plainAdded |-> r.plainAdded, refillAdded |-> r.refillAdded,
        executed |-> r.executed, withdrawn |-> r.withdrawn, closing |-> r.closing,
        refillExecuted |-> r.refillExecuted + executed,
        refillWithdrawn |-> r.refillWithdrawn + withdrawn]

\* activity(): the record of candle c, created with the liquidity at hand.
StatsAt(L, c) ==
  IF L.stats[c].known THEN L.stats[c]
  ELSE Book(NoStats, Total(L), 0, 0, 0, 0, Total(L))

Seen(L, c) == [L.stats EXCEPT ![c] = StatsAt(L, c)]

CountOf(units, c) == Cardinality({i \in DOMAIN units : units[i] = c})

Least(a, b) == IF a <= b THEN a ELSE b

\* Mutant of PlainTaken: what is taken is not limited to what there is.
PlainTakenUnclipped(L, q) == q

\* _consume_level_liquidity: ordinary liquidity first, then the oldest refill.
PlainTaken(L, q)  == Least(q, L.plain)
RefillTaken(L, q) == Least(q - PlainTaken(L, q), Len(L.refill))
Taken(L, q)       == PlainTaken(L, q) + RefillTaken(L, q)
RefillLeft(L, q)  == SubSeq(L.refill, RefillTaken(L, q) + 1, Len(L.refill))

\* Mutant of RefillGone: the whole queue is charged.
RefillGoneWhole(L, q, c) == CountOf(L.refill, c)

RefillGone(L, q, c) == CountOf(SubSeq(L.refill, 1, RefillTaken(L, q)), c)

\* consume(executed=False): q contracts leave candle c without a trade.
WithdrawnStats(L, c, q) ==
  [d \in Candles |-> Charge(Seen(L, c)[d], 0, RefillGone(L, q, d))]

Withdrawn(L, c, q) ==
  [plain |-> L.plain - PlainTaken(L, q), refill |-> RefillLeft(L, q),
   pending |-> L.pending, pendingCandle |-> L.pendingCandle,
   stats |-> [WithdrawnStats(L, c, q) EXCEPT ![c] =
                Book(@, 0, 0, 0, 0, Taken(L, q), Total(L) - Taken(L, q))],
   writtenOff |-> L.writtenOff]

\* Mutant of Inferred: the liquidity appears, the record does not say so.
InferredUnbooked(L, c, q) ==
  [L EXCEPT !.plain = @ + q,
            !.stats[c] = Book(StatsAt(L, c), 0, 0, 0, 0, 0, Total(L) + q)]

\* Opening liquidity that is inferred: an order first seen when it is modified,
\* or contracts a fill proves to have rested.
Inferred(L, c, q) ==
  [plain |-> L.plain + q, refill |-> L.refill,
   pending |-> L.pending, pendingCandle |-> L.pendingCandle,
   stats |-> [L.stats EXCEPT ![c] =
                Book(StatsAt(L, c), q, 0, 0, 0, 0, Total(L) + q)],
   writtenOff |-> L.writtenOff]

\* activity() and finish with nothing in between.
Touched(L, c) == Inferred(L, c, 0)

\* Mutant of LivePending: an execution of any candle may be replenished.
StalePending(L, c) == L.pending

\* The contracts a level can still count as replenished in candle c: an
\* execution of an older candle does not qualify.
LivePending(L, c) == IF L.pendingCandle \in {0, c} THEN L.pending ELSE 0

\* consume(executed=True) of a level that holds at least q contracts.
ExecutedStats(L, c, q) ==
  [d \in Candles |-> Charge(Seen(L, c)[d], RefillGone(L, q, d), 0)]

Traded(L, c, q) ==
  [plain |-> L.plain - PlainTaken(L, q), refill |-> RefillLeft(L, q),
   pending |-> LivePending(L, c) + q, pendingCandle |-> c,
   stats |-> [ExecutedStats(L, c, q) EXCEPT ![c] =
                Book(@, 0, 0, 0, q, 0, Total(L) - q)],
   writtenOff |-> L.writtenOff]

\* A fill first infers what it proves to have rested beyond what is known.
Missing(L, q) == IF q > Total(L) THEN q - Total(L) ELSE 0

Executed(L, c, q) ==
  IF q = 0 THEN Touched(L, c) ELSE Traded(Inferred(L, c, Missing(L, q)), c, q)

\* _add_level_liquidity: the part of the addition that replaces executions of
\* this candle becomes a refill lot, the rest is ordinary liquidity.
RefillPart(L, c, q)  == Least(q, LivePending(L, c))
PendingLeft(L, c, q) == LivePending(L, c) - RefillPart(L, c, q)

Stacked(L, c, q) ==
  [plain |-> L.plain + (q - RefillPart(L, c, q)),
   refill |-> L.refill \o [i \in 1 .. RefillPart(L, c, q) |-> c],
   pending |-> PendingLeft(L, c, q),
   pendingCandle |-> IF PendingLeft(L, c, q) = 0 THEN 0 ELSE L.pendingCandle,
   stats |-> [L.stats EXCEPT ![c] =
                Book(StatsAt(L, c), 0, q - RefillPart(L, c, q), RefillPart(L, c, q),
                     0, 0, Total(L) + q)],
   writtenOff |-> L.writtenOff]

Added(L, c, q) == IF q = 0 THEN Touched(L, c) ELSE Stacked(L, c, q)

\* What a clear leaves of a level: its records are not looked at again.
Emptied(L, c) ==
  [plain |-> 0, refill |-> <<>>, pending |-> 0, pendingCandle |-> 0,
   stats |-> L.stats,
   writtenOff |-> IF Total(L) > 0 /\ L.stats[c].known
                  THEN L.writtenOff \cup {c} ELSE L.writtenOff]

\* A level when the reported window opens: its records are dropped.
Reopened(L) ==
  [plain |-> L.plain, refill |-> L.refill,
   pending |-> L.pending, pendingCandle |-> L.pendingCandle,
   stats |-> NoHistory, writtenOff |-> {}]

-----------------------------------------------------------------------------
(* Handling of one event.                                                  *)

Known(o)   == o \in Orders /\ orders[o] # NoOrder
Resting(o) == Known(o) /\ orders[o].size > 0

\* run_replay opens the reported window on the first event at or after
\* emit_start_ms: the records are dropped, the liquidity is kept.
Opens == ~emitting /\ clock >= EmitStart

Base == IF Opens THEN [l \in Levels |-> Reopened(levels[l])] ELSE levels

Deliver ==
  /\ fed < MaxEvents
  /\ fed' = fed + 1
  /\ emitting' = (emitting \/ clock >= EmitStart)
  /\ UNCHANGED clock

\* An event without an order id reaches the levels and is not tracked.
Track(o, l, q) ==
  orders' = IF o \in Orders
            THEN [orders EXCEPT ![o] = [level |-> l, size |-> q]]
            ELSE orders

\* The levels after what order o still rests has been withdrawn.
Released(o) ==
  [Base EXCEPT ![orders[o].level] = Withdrawn(@, Now, orders[o].size)]

\* ADD: an id that is already resting is withdrawn first.
AfterAdd(o, l, q) ==
  LET freed == IF Resting(o) THEN Released(o) ELSE Base
  IN  [freed EXCEPT ![l] = Added(@, Now, q)]

AddOrder(o, l, q) ==
  /\ Deliver
  /\ levels' = AfterAdd(o, l, q)
  /\ Track(o, l, q)

\* MODIFY of a tracked order that stays at its level.
AfterResize(o, q) ==
  LET size == orders[o].size
  IN  [Base EXCEPT ![orders[o].level] =
         IF q >= size THEN Added(@, Now, q - size) ELSE Withdrawn(@, Now, size - q)]

ResizeOrder(o, q) ==
  /\ Known(o)
  /\ Deliver
  /\ levels' = AfterResize(o, q)
  /\ Track(o, orders[o].level, q)

\* MODIFY of a tracked order to another price or side.
MoveOrder(o, l, q) ==
  /\ Known(o)
  /\ l # orders[o].level
  /\ Deliver
  /\ levels' = [Released(o) EXCEPT ![l] = Added(@, Now, q)]
  /\ Track(o, l, q)

\* MODIFY of an order the engine has not seen: opening liquidity, not an add.
DiscoverOrder(o, l, q) ==
  /\ ~Known(o)
  /\ Deliver
  /\ levels' = [Base EXCEPT ![l] = Inferred(@, Now, q)]
  /\ Track(o, l, q)

\* FILL: the reported size trades at the reported level, whatever is tracked.
\* The order follows the event to that level; an unknown one is tracked empty.
AfterFill(l, q) == [Base EXCEPT ![l] = Executed(@, Now, q)]

FillOrder(o, l, q) ==
  /\ Deliver
  /\ levels' = AfterFill(l, q)
  /\ Track(o, l, IF Resting(o) /\ orders[o].size > q THEN orders[o].size - q ELSE 0)

\* CANCEL: action C with a size is partial, anything else cancels the rest.
\* What remains of the order takes the level of the event.
Reduction(o, q, partial) ==
  IF partial /\ q > 0 THEN Least(q, orders[o].size) ELSE orders[o].size

CancelOrder(o, l, q, partial) ==
  /\ Known(o)
  /\ Deliver
  /\ LET cut == Reduction(o, q, partial)
         left == orders[o].size - cut
     IN  /\ levels' = [Base EXCEPT ![orders[o].level] = Withdrawn(@, Now, cut)]
         /\ orders' = [orders EXCEPT ![o] =
                         IF left = 0 THEN NoOrder ELSE [level |-> l, size |-> left]]

\* CLEAR: every tracked order is withdrawn from its level, then every level is
\* emptied without another look at its record.  The withdrawals of one level
\* add up, so they are taken together: one unit for every resting contract.
RestingUnits(l) ==
  {u \in Orders \X (1 .. MaxQty) :
     Known(u[1]) /\ orders[u[1]].level = l /\ u[2] <= orders[u[1]].size}

Demand(l) == Cardinality(RestingUnits(l))

ClearBook ==
  /\ Deliver
  /\ levels' = [l \in Levels |->
       IF \E o \in Orders : Known(o) /\ orders[o].level = l
       THEN Emptied(Withdrawn(Base[l], Now, Demand(l)), Now)
       ELSE Emptied(Base[l], Now)]
  /\ orders' = [o \in Orders |-> NoOrder]

\* An add, modify or fill without a price: the ledger takes the price of the
\* tracked order, but the order itself is not updated.
UnpricedEvent(o, q) ==
  /\ Known(o)
  /\ Deliver
  /\ levels' \in {AfterAdd(o, orders[o].level, q), AfterResize(o, q),
                  AfterFill(orders[o].level, q)}
  /\ UNCHANGED orders

\* A cancel of an unknown order, a trade print, any other action.
IgnoreEvent ==
  /\ Deliver
  /\ levels' = Base
  /\ UNCHANGED orders

\* The next event is later than the last one.
Tick ==
  /\ clock < MaxTick
  /\ clock' = clock + 1
  /\ UNCHANGED <<fed, emitting, orders, levels>>

-----------------------------------------------------------------------------

Init ==
  /\ clock = 0
  /\ fed = 0
  /\ emitting = (EmitStart = 0)
  /\ orders = [o \in Orders |-> NoOrder]
  /\ levels = [l \in Levels |-> EmptyLevel]

OrderEvent(o, l, q) ==
  \/ AddOrder(o, l, q)
  \/ MoveOrder(o, l, q)
  \/ DiscoverOrder(o, l, q)
  \/ FillOrder(o, l, q)

Next ==
  \/ \E o \in Ids, l \in Levels, q \in EventSizes : OrderEvent(o, l, q)
  \/ \E o \in Orders, q \in EventSizes : ResizeOrder(o, q) \/ UnpricedEvent(o, q)
  \/ \E o \in Orders, l \in Levels, q \in EventSizes, partial \in BOOLEAN :
       CancelOrder(o, l, q, partial)
  \/ ClearBook
  \/ IgnoreEvent
  \/ Tick

Spec == Init /\ [][Next]_vars

-----------------------------------------------------------------------------
(* Properties.                                                             *)

\* Type correctness.
TypeOK ==
  /\ clock \in Ticks
  /\ fed \in 0 .. MaxEvents
  /\ emitting \in BOOLEAN
  /\ orders \in [Orders -> Tracked \cup {NoOrder}]
  /\ levels \in [Levels -> LevelType]

Stats(l, c)  == levels[l].stats[c]
Balanced(r)  == r.closing = r.opening + r.gross - r.executed - r.withdrawn

\* level_execution_invariant_ok of _price_activity_payloads, for every record
\* of every candle: what a level closes with is what it opened with, plus the
\* additions, minus executions and withdrawals.  It holds whatever the feed
\* sends (late orders, fills of unknown orders, reused ids), except for a
\* candle in which a clear dropped liquidity no tracked order stood for.
LiquidityConserved ==
  \A l \in Levels, c \in Candles :
    Stats(l, c).known /\ c \notin levels[l].writtenOff => Balanced(Stats(l, c))

\* The record of the running candle closes with the liquidity that actually
\* rests, also after a move touched two levels (finish runs for each).
ClosingIsCurrent ==
  \A l \in Levels :
    Stats(l, Now).known /\ Now \notin levels[l].writtenOff
      => Stats(l, Now).closing = Total(levels[l])

\* A candle the reported window cuts in two: its record was dropped midway.
Split(c) ==
  \E s, t \in Ticks :
    s < EmitStart /\ EmitStart <= t /\ CandleOf(s) = c /\ CandleOf(t) = c

\* Refill liquidity replaces executions of the same level and candle, so no
\* candle ever counts more refill than it executed: an execution of an older
\* candle, or one already replaced, never makes an addition a refill
\* (_add_level_liquidity).
RefillBacked ==
  \A l \in Levels, c \in Candles \ {d \in Candles : Split(d)} :
    Stats(l, c).refillAdded <= Stats(l, c).executed

\* Every contract of a refill lot is charged at most once, to the candle that
\* created it, however many candles later it leaves and for whichever reason
\* (the origin record in consume); an executed refill is never more than the
\* refill added, without the clipping of _price_activity_payloads.
RefillAccounted ==
  \A l \in Levels, c \in Candles \ {d \in Candles : Split(d)} :
    Stats(l, c).known =>
      Stats(l, c).refillExecuted + Stats(l, c).refillWithdrawn
        + CountOf(levels[l].refill, c) <= Stats(l, c).refillAdded

\* While the reported window stays open, the record of a finished candle may
\* only learn what became of its refill; opening, additions, executions,
\* withdrawals and closing liquidity are settled.
Flows(r) == <<r.known, r.opening, r.gross, r.refillAdded, r.executed, r.withdrawn, r.closing>>

PastCandlesSettled ==
  [][~Opens =>
       \A l \in Levels, c \in Candles :
         c < Now => /\ Flows(Stats(l, c)') = Flows(Stats(l, c))
                    /\ Stats(l, c).refillExecuted <= Stats(l, c).refillExecuted'
                    /\ Stats(l, c).refillWithdrawn <= Stats(l, c).refillWithdrawn']_vars

=============================================================================
