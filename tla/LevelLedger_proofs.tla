------------------------- MODULE LevelLedger_proofs -------------------------
(***************************************************************************)
(* Theorems about LevelLedger and BookReaders, for every number of orders, *)
(* levels, candles and events: the ledger accounts for every contract, and *)
(* on a complete feed the ledger, the timeline page and the delete scan    *)
(* believe in the same book.                                               *)
(***************************************************************************)
EXTENDS BookReaders, FiniteSetTheorems, FunctionTheorems, SequenceTheorems, TLAPS

-----------------------------------------------------------------------------
(* What the operators on one level return.                                 *)

\* A candle open time is a positive number.
LEMMA CandlesArePositive == Candles \subseteq Nat \ {0}
  BY CandleAssumption DEF Candles

\* Counting the contracts of a queue gives a number.
LEMMA CountOfType ==
  ASSUME NEW units \in Seq(Candles), NEW c \in Candles
  PROVE  CountOf(units, c) \in Nat
<1>1. DOMAIN units = 1 .. Len(units) /\ Len(units) \in Nat
  OBVIOUS
<1>2. IsFiniteSet(1 .. Len(units))
  BY <1>1, FS_Interval
<1>3. IsFiniteSet({i \in DOMAIN units : units[i] = c})
  BY <1>1, <1>2, FS_Subset
<1> QED
  BY <1>3, FS_CardinalityType DEF CountOf

\* The contracts resting at a level are finitely many, so a clear withdraws a
\* number of them.
LEMMA DemandType ==
  ASSUME NEW l \in Levels
  PROVE  Demand(l) \in Nat
<1>1. IsFiniteSet(1 .. MaxQty)
  BY BoundAssumption, FS_Interval
<1>2. IsFiniteSet(Orders \X (1 .. MaxQty))
  BY <1>1, IdAssumption, FS_Product
<1>3. IsFiniteSet(RestingUnits(l))
  BY <1>2, FS_Subset DEF RestingUnits
<1> QED
  BY <1>3, FS_CardinalityType DEF Demand

\* What is taken from a level never exceeds what was asked for or what is there.
LEMMA TakenBounds ==
  ASSUME NEW L \in LevelType, NEW q \in Nat
  PROVE  /\ Total(L) \in Nat
         /\ PlainTaken(L, q) \in Nat /\ L.plain - PlainTaken(L, q) \in Nat
         /\ RefillTaken(L, q) \in 0 .. Len(L.refill)
         /\ Taken(L, q) = Least(q, Total(L))
         /\ Taken(L, q) \in Nat /\ Total(L) - Taken(L, q) \in Nat
<1>1. L.plain \in Nat /\ Len(L.refill) \in Nat
  BY DEF LevelType
<1>2. PlainTaken(L, q) \in Nat /\ L.plain - PlainTaken(L, q) \in Nat
  BY <1>1 DEF PlainTaken, Least
<1>3. RefillTaken(L, q) \in 0 .. Len(L.refill)
  BY <1>1 DEF PlainTaken, RefillTaken, Least
<1>4. Taken(L, q) = Least(q, Total(L))
  BY <1>1 DEF Total, PlainTaken, RefillTaken, Taken, Least
<1>5. Total(L) \in Nat
  BY <1>1 DEF Total
<1>6. Taken(L, q) \in Nat /\ Total(L) - Taken(L, q) \in Nat
  BY <1>4, <1>5 DEF Least
<1> QED
  BY <1>2, <1>3, <1>4, <1>5, <1>6

\* What stays of the refill queue, and what left it.
LEMMA RefillLeftType ==
  ASSUME NEW L \in LevelType, NEW q \in Nat
  PROVE  /\ RefillLeft(L, q) \in Seq(Candles)
         /\ Len(RefillLeft(L, q)) = Len(L.refill) - RefillTaken(L, q)
         /\ \A c \in Candles : RefillGone(L, q, c) \in Nat
<1>1. L.refill \in Seq(Candles)
  BY DEF LevelType
<1>2. RefillTaken(L, q) \in 0 .. Len(L.refill)
  BY TakenBounds
<1>3. SubSeq(L.refill, 1, RefillTaken(L, q)) \in Seq(Candles)
  BY <1>1, <1>2
<1>4. \A c \in Candles : RefillGone(L, q, c) \in Nat
  BY <1>3, CountOfType DEF RefillGone
<1> QED
  BY <1>1, <1>2, <1>4 DEF RefillLeft

\* Booking flows on a record and charging refill to it yield records.
LEMMA BookType ==
  ASSUME NEW r \in StatsType, NEW opening \in Nat, NEW plain \in Nat,
         NEW refill \in Nat, NEW executed \in Nat, NEW withdrawn \in Nat,
         NEW total \in Nat
  PROVE  Book(r, opening, plain, refill, executed, withdrawn, total) \in StatsType
  BY DEF Book, StatsType

LEMMA ChargeType ==
  ASSUME NEW r \in StatsType, NEW executed \in Nat, NEW withdrawn \in Nat
  PROVE  Charge(r, executed, withdrawn) \in StatsType
  BY DEF Charge, StatsType

LEMMA NoStatsType == NoStats \in StatsType /\ ~NoStats.known
  BY DEF NoStats, StatsType

LEMMA StatsAtType ==
  ASSUME NEW L \in LevelType, NEW c \in Candles
  PROVE  /\ StatsAt(L, c) \in StatsType
         /\ Seen(L, c) \in [Candles -> StatsType]
<1>1. L.stats \in [Candles -> StatsType]
  BY DEF LevelType
<1>2. Total(L) \in Nat
  BY TakenBounds
<1>3. Book(NoStats, Total(L), 0, 0, 0, 0, Total(L)) \in StatsType
  BY <1>2, NoStatsType, BookType
<1>4. StatsAt(L, c) \in StatsType
  BY <1>1, <1>3 DEF StatsAt
<1> QED
  BY <1>1, <1>4 DEF Seen

-----------------------------------------------------------------------------
(* Every operation on a level yields a level.                              *)

LEMMA InferredType ==
  ASSUME NEW L \in LevelType, NEW c \in Candles, NEW q \in Nat
  PROVE  Inferred(L, c, q) \in LevelType
<1>1. Total(L) + q \in Nat
  BY TakenBounds
<1>2. Book(StatsAt(L, c), q, 0, 0, 0, 0, Total(L) + q) \in StatsType
  BY <1>1, StatsAtType, BookType
<1> QED
  BY <1>2 DEF Inferred, LevelType

LEMMA WithdrawnType ==
  ASSUME NEW L \in LevelType, NEW c \in Candles, NEW q \in Nat
  PROVE  /\ WithdrawnStats(L, c, q) \in [Candles -> StatsType]
         /\ Withdrawn(L, c, q) \in LevelType
<1>1. Taken(L, q) \in Nat /\ Total(L) - Taken(L, q) \in Nat
  BY TakenBounds
<1>2. L.plain - PlainTaken(L, q) \in Nat
  BY TakenBounds
<1>3. RefillLeft(L, q) \in Seq(Candles) /\ \A d \in Candles : RefillGone(L, q, d) \in Nat
  BY RefillLeftType
<1>4. \A d \in Candles : Charge(Seen(L, c)[d], 0, RefillGone(L, q, d)) \in StatsType
  BY <1>3, StatsAtType, ChargeType
<1>5. WithdrawnStats(L, c, q) \in [Candles -> StatsType]
  BY <1>4 DEF WithdrawnStats
<1>6. Book(WithdrawnStats(L, c, q)[c], 0, 0, 0, 0, Taken(L, q), Total(L) - Taken(L, q))
        \in StatsType
  BY <1>1, <1>5, BookType
<1> QED
  BY <1>2, <1>3, <1>5, <1>6 DEF Withdrawn, LevelType

LEMMA LivePendingType ==
  ASSUME NEW L \in LevelType, NEW c \in Candles, NEW q \in Nat
  PROVE  /\ LivePending(L, c) \in Nat
         /\ RefillPart(L, c, q) \in 0 .. q
         /\ RefillPart(L, c, q) \in 0 .. LivePending(L, c)
         /\ PendingLeft(L, c, q) = LivePending(L, c) - RefillPart(L, c, q)
         /\ PendingLeft(L, c, q) \in Nat
<1>1. LivePending(L, c) \in Nat
  BY DEF LivePending, LevelType
<1> QED
  BY <1>1 DEF RefillPart, PendingLeft, Least

LEMMA TradedType ==
  ASSUME NEW L \in LevelType, NEW c \in Candles, NEW q \in Nat, q <= Total(L)
  PROVE  /\ ExecutedStats(L, c, q) \in [Candles -> StatsType]
         /\ Traded(L, c, q) \in LevelType
<1>0. Total(L) \in Nat
  BY TakenBounds
<1>1. Total(L) - q \in Nat
  BY <1>0
<1>2. L.plain - PlainTaken(L, q) \in Nat
  BY TakenBounds
<1>3. RefillLeft(L, q) \in Seq(Candles) /\ \A d \in Candles : RefillGone(L, q, d) \in Nat
  BY RefillLeftType
<1>4. \A d \in Candles : Charge(Seen(L, c)[d], RefillGone(L, q, d), 0) \in StatsType
  BY <1>3, StatsAtType, ChargeType
<1>5. ExecutedStats(L, c, q) \in [Candles -> StatsType]
  BY <1>4 DEF ExecutedStats
<1>6. Book(ExecutedStats(L, c, q)[c], 0, 0, 0, q, 0, Total(L) - q) \in StatsType
  BY <1>1, <1>5, BookType
<1>7. LivePending(L, c) + q \in Nat
  BY LivePendingType
<1> QED
  BY <1>2, <1>3, <1>5, <1>6, <1>7 DEF Traded, LevelType

\* After the inference a level holds what the fill takes.
LEMMA InferredCovers ==
  ASSUME NEW L \in LevelType, NEW c \in Candles, NEW q \in Nat
  PROVE  /\ Missing(L, q) \in Nat
         /\ Total(Inferred(L, c, Missing(L, q))) = Total(L) + Missing(L, q)
         /\ q <= Total(Inferred(L, c, Missing(L, q)))
<1>1. L.plain \in Nat /\ Len(L.refill) \in Nat
  BY DEF LevelType
<1> QED
  BY <1>1 DEF Missing, Inferred, Total

LEMMA ExecutedType ==
  ASSUME NEW L \in LevelType, NEW c \in Candles, NEW q \in Nat
  PROVE  Executed(L, c, q) \in LevelType
  BY InferredType, InferredCovers, TradedType DEF Executed, Touched

LEMMA StackedType ==
  ASSUME NEW L \in LevelType, NEW c \in Candles, NEW q \in Nat
  PROVE  Stacked(L, c, q) \in LevelType
<1> DEFINE part == RefillPart(L, c, q)
<1>1. part \in Nat /\ q - part \in Nat /\ PendingLeft(L, c, q) \in Nat
  BY LivePendingType
<1>2. Total(L) + q \in Nat
  BY TakenBounds
<1>3. Book(StatsAt(L, c), 0, q - part, part, 0, 0, Total(L) + q) \in StatsType
  BY <1>1, <1>2, StatsAtType, BookType
<1>4. [i \in 1 .. part |-> c] \in Seq(Candles)
  BY <1>1
<1>5. L.refill \o [i \in 1 .. part |-> c] \in Seq(Candles)
  BY <1>4 DEF LevelType
<1> QED
  BY <1>1, <1>3, <1>5 DEF Stacked, LevelType

LEMMA AddedType ==
  ASSUME NEW L \in LevelType, NEW c \in Candles, NEW q \in Nat
  PROVE  Added(L, c, q) \in LevelType
  BY InferredType, StackedType DEF Added, Touched

LEMMA NoHistoryType == NoHistory \in [Candles -> StatsType]
  BY NoStatsType DEF NoHistory

LEMMA EmptiedType ==
  ASSUME NEW L \in LevelType, NEW c \in Candles
  PROVE  Emptied(L, c) \in LevelType
  BY DEF Emptied, LevelType

LEMMA ReopenedType ==
  ASSUME NEW L \in LevelType
  PROVE  Reopened(L) \in LevelType
  BY NoHistoryType DEF Reopened, LevelType

-----------------------------------------------------------------------------
(* Type correctness.                                                       *)

LEMMA NowType == TypeOK => Now \in Candles
  BY DEF TypeOK, Now, Candles

LEMMA BaseType == TypeOK => Base \in [Levels -> LevelType]
  BY ReopenedType DEF TypeOK, Base

\* What the engine holds of an order it knows.
LEMMA KnownType ==
  ASSUME TypeOK, NEW o \in Orders, Known(o)
  PROVE  /\ orders[o] \in Tracked
         /\ orders[o].level \in Levels
         /\ orders[o].size \in Sizes
         /\ orders[o].size \in Nat
<1>1. orders[o] \in Tracked
  BY DEF TypeOK, Known
<1> QED
  BY <1>1, BoundAssumption DEF Tracked, Sizes

LEMMA ReleasedType ==
  ASSUME TypeOK, NEW o \in Orders, Known(o)
  PROVE  Released(o) \in [Levels -> LevelType]
<1>1. Withdrawn(Base[orders[o].level], Now, orders[o].size) \in LevelType
  BY BaseType, KnownType, NowType, WithdrawnType
<1> QED
  BY <1>1, BaseType DEF Released

LEMMA TrackType ==
  ASSUME TypeOK, NEW o \in Ids, NEW l \in Levels, NEW q \in Sizes, Track(o, l, q)
  PROVE  orders' \in [Orders -> Tracked \cup {NoOrder}]
<1>1. [level |-> l, size |-> q] \in Tracked
  BY DEF Tracked
<1> QED
  BY <1>1 DEF TypeOK, Track

LEMMA DeliverType ==
  ASSUME TypeOK, Deliver
  PROVE  clock' \in Ticks /\ fed' \in 0 .. MaxEvents /\ emitting' \in BOOLEAN
<1>1. fed' \in 0 .. MaxEvents /\ clock' \in Ticks
  BY BoundAssumption DEF TypeOK, Deliver
<1>2. emitting' \in BOOLEAN
  BY DEF TypeOK, Deliver
<1> QED
  BY <1>1, <1>2

\* One event changes a level only by the operations of the ledger, all of them
\* at the candle of the event: what those operations preserve of each level, as
\* a set of levels for every price and side, the event preserves.
LEMMA ClosedPerLevel ==
  ASSUME TypeOK, NEW G \in [Levels -> SUBSET LevelType],
         \A l \in Levels : Base[l] \in G[l],
         \A l \in Levels : \A L \in G[l] : Emptied(L, Now) \in G[l],
         \A l \in Levels : \A L \in G[l], q \in Nat :
           /\ Withdrawn(L, Now, q) \in G[l]
           /\ Inferred(L, Now, q) \in G[l]
           /\ Executed(L, Now, q) \in G[l]
           /\ Added(L, Now, q) \in G[l],
         Next, ~Tick
  PROVE  levels' \in [Levels -> LevelType] /\ \A l \in Levels : levels'[l] \in G[l]
<1> DEFINE Fits(F) == F \in [Levels -> LevelType] /\ \A l \in Levels : F[l] \in G[l]
<1>0. EventSizes \subseteq Nat
  BY BoundAssumption DEF Sizes
<1>a. Fits(Base)
  BY BaseType
<1>b. ASSUME NEW F, Fits(F), NEW l \in Levels, NEW L \in G[l]
      PROVE  Fits([F EXCEPT ![l] = L])
  BY <1>b
<1>c. ASSUME NEW F, Fits(F), NEW l \in Levels
      PROVE  F[l] \in G[l]
  BY <1>c
<1>d. SUFFICES Fits(levels')
  OBVIOUS
<1> HIDE DEF Fits
<1>1. ASSUME NEW o \in Orders, Known(o)
      PROVE  Fits(Released(o))
  <2>1. Withdrawn(Base[orders[o].level], Now, orders[o].size) \in G[orders[o].level]
    BY <1>1, KnownType
  <2> QED
    BY <1>1, <1>a, <1>b, <2>1, KnownType DEF Released
<1>e. ASSUME NEW F, Fits(F), NEW l \in Levels, NEW q \in Nat
      PROVE  Fits([F EXCEPT ![l] = Added(@, Now, q)])
  <2>1. Added(F[l], Now, q) \in G[l]
    BY <1>c, <1>e
  <2> QED
    BY <1>b, <1>e, <2>1
<1>2. ASSUME NEW o, o \in Orders \/ ~Known(o), NEW l \in Levels, NEW q \in EventSizes
      PROVE  Fits(AfterAdd(o, l, q))
  <2>1. Resting(o) => Fits(Released(o))
    BY <1>1, <1>2 DEF Resting
  <2> QED
    BY <1>0, <1>a, <1>e, <2>1 DEF AfterAdd
<1>3. ASSUME NEW o \in Orders, NEW q \in EventSizes, Known(o)
      PROVE  Fits(AfterResize(o, q))
  <2> DEFINE l == orders[o].level
             size == orders[o].size
  <2>1. l \in Levels /\ size \in Nat /\ q \in Nat
    BY <1>0, <1>3, KnownType
  <2>2. q >= size => Added(Base[l], Now, q - size) \in G[l]
    BY <2>1
  <2>3. ~(q >= size) => Withdrawn(Base[l], Now, size - q) \in G[l]
    BY <2>1
  <2> QED
    BY <1>a, <1>b, <2>1, <2>2, <2>3 DEF AfterResize
<1>4. ASSUME NEW l \in Levels, NEW q \in EventSizes
      PROVE  Fits(AfterFill(l, q))
  <2>1. Executed(Base[l], Now, q) \in G[l]
    BY <1>0
  <2> QED
    BY <1>a, <1>b, <2>1 DEF AfterFill
<1>5. ASSUME NEW o \in Ids, NEW l \in Levels, NEW q \in EventSizes,
             OrderEvent(o, l, q)
      PROVE  Fits(levels')
  <2>1. CASE AddOrder(o, l, q)
    BY <1>2, <2>1 DEF AddOrder, Known
  <2>2. CASE MoveOrder(o, l, q)
    <3>1. Fits(Released(o))
      BY <1>1, <2>2 DEF MoveOrder, Known
    <3> QED
      BY <1>0, <1>e, <2>2, <3>1 DEF MoveOrder
  <2>3. CASE DiscoverOrder(o, l, q)
    <3>1. Inferred(Base[l], Now, q) \in G[l]
      BY <1>0
    <3> QED
      BY <1>a, <1>b, <2>3, <3>1 DEF DiscoverOrder
  <2>4. CASE FillOrder(o, l, q)
    BY <1>4, <2>4 DEF FillOrder
  <2> QED
    BY <1>5, <2>1, <2>2, <2>3, <2>4 DEF OrderEvent
<1>6. ASSUME NEW o \in Orders, NEW q \in EventSizes,
             ResizeOrder(o, q) \/ UnpricedEvent(o, q)
      PROVE  Fits(levels')
  <2>1. Known(o) /\ orders[o].level \in Levels
    BY <1>6, KnownType DEF ResizeOrder, UnpricedEvent
  <2> QED
    BY <1>2, <1>3, <1>4, <1>6, <2>1 DEF ResizeOrder, UnpricedEvent
<1>7. ASSUME NEW o \in Orders, NEW l \in Levels, NEW q \in EventSizes,
             NEW partial \in BOOLEAN, CancelOrder(o, l, q, partial)
      PROVE  Fits(levels')
  <2> DEFINE cut == Reduction(o, q, partial)
  <2>1. orders[o].level \in Levels /\ orders[o].size \in Nat
    BY <1>7, KnownType DEF CancelOrder
  <2>2. cut \in Nat
    <3>1. q \in Nat
      BY <1>0
    <3> QED
      BY <2>1, <3>1 DEF Reduction, Least
  <2>3. Withdrawn(Base[orders[o].level], Now, cut) \in G[orders[o].level]
    BY <2>1, <2>2
  <2> QED
    BY <1>7, <1>a, <1>b, <2>1, <2>3 DEF CancelOrder
<1>8. CASE ClearBook
  <2>1. \A l \in Levels : levels'[l] \in {Emptied(Base[l], Now),
                                          Emptied(Withdrawn(Base[l], Now, Demand(l)), Now)}
    BY <1>8 DEF ClearBook
  <2>2. \A l \in Levels : levels'[l] \in G[l]
    BY <2>1, DemandType
  <2>3. \E f : levels' = [l \in Levels |-> f[l]]
    <3>1. levels' = [l \in Levels |-> levels'[l]]
      BY <1>8 DEF ClearBook
    <3> QED
      BY <3>1
  <2> QED
    BY <2>2, <2>3 DEF Fits
<1>9. CASE IgnoreEvent
  BY <1>9, <1>a DEF IgnoreEvent
<1> QED
  BY <1>5, <1>6, <1>7, <1>8, <1>9 DEF Next

\* A property of one level that every operation preserves holds of every level
\* after an event if it held of every level before it.
LEMMA ClosedUnderEvents ==
  ASSUME TypeOK, NEW G \in SUBSET LevelType, Base \in [Levels -> G],
         \A L \in G : Emptied(L, Now) \in G,
         \A L \in G, q \in Nat : /\ Withdrawn(L, Now, q) \in G
                                 /\ Inferred(L, Now, q) \in G
                                 /\ Executed(L, Now, q) \in G
                                 /\ Added(L, Now, q) \in G,
         Next, ~Tick
  PROVE  levels' \in [Levels -> G]
<1> DEFINE H == [l \in Levels |-> G]
<1>1. H \in [Levels -> SUBSET LevelType] /\ \A l \in Levels : H[l] = G
  OBVIOUS
<1> HIDE DEF H
<1>2. levels' \in [Levels -> LevelType] /\ \A l \in Levels : levels'[l] \in H[l]
  BY <1>1, ClosedPerLevel
<1> QED
  BY <1>1, <1>2

\* Every event leaves a value of its type in every variable.
LEMMA TypeStep == TypeOK /\ [Next]_vars => TypeOK'
<1> SUFFICES ASSUME TypeOK, [Next]_vars
             PROVE  TypeOK'
  OBVIOUS
<1>0. EventSizes \subseteq Sizes /\ Sizes \subseteq Nat
  BY BoundAssumption DEF Sizes
<1>1. CASE Tick
  BY <1>1, BoundAssumption DEF Tick, TypeOK, Ticks
<1>2. CASE UNCHANGED vars
  BY <1>2 DEF vars, TypeOK
<1>3. CASE Next /\ ~Tick
  <2>1. levels' \in [Levels -> LevelType]
    <3>1. Now \in Candles
      BY NowType
    <3>2. \A L \in LevelType : Emptied(L, Now) \in LevelType
      BY <3>1, EmptiedType
    <3>3. \A L \in LevelType, q \in Nat : Withdrawn(L, Now, q) \in LevelType
      BY <3>1, WithdrawnType
    <3>4. \A L \in LevelType, q \in Nat : Inferred(L, Now, q) \in LevelType
      BY <3>1, InferredType
    <3>5. \A L \in LevelType, q \in Nat : Executed(L, Now, q) \in LevelType
      BY <3>1, ExecutedType
    <3>6. \A L \in LevelType, q \in Nat : Added(L, Now, q) \in LevelType
      BY <3>1, AddedType
    <3> QED
      BY <1>3, <3>2, <3>3, <3>4, <3>5, <3>6, BaseType, ClosedUnderEvents
  <2>2. ASSUME NEW o \in Ids, NEW l \in Levels, NEW q \in EventSizes,
               OrderEvent(o, l, q)
        PROVE  orders' \in [Orders -> Tracked \cup {NoOrder}]
    <3> DEFINE left == IF Resting(o) /\ orders[o].size > q THEN orders[o].size - q ELSE 0
    <3>1. CASE FillOrder(o, l, q)
      <4>1. 0 \in Sizes
        BY BoundAssumption DEF Sizes
      <4>2. Resting(o) /\ orders[o].size > q => orders[o].size - q \in Sizes
        <5>1. Resting(o) => orders[o].size \in Sizes
          BY KnownType DEF Resting, Known
        <5> QED
          BY <1>0, <5>1, BoundAssumption DEF Sizes
      <4>3. left \in Sizes
        BY <4>1, <4>2
      <4> QED
        BY <3>1, <4>3, TrackType DEF FillOrder
    <3> QED
      BY <1>0, <2>2, <3>1, TrackType DEF OrderEvent, AddOrder, MoveOrder, DiscoverOrder
  <2>3. ASSUME NEW o \in Orders, NEW q \in EventSizes, ResizeOrder(o, q)
        PROVE  orders' \in [Orders -> Tracked \cup {NoOrder}]
    <3>1. o \in Ids /\ orders[o].level \in Levels
      BY <2>3, KnownType, IdAssumption DEF ResizeOrder
    <3> QED
      BY <1>0, <2>3, <3>1, TrackType DEF ResizeOrder
  <2>4. ASSUME NEW o \in Orders, NEW l \in Levels, NEW q \in EventSizes,
               NEW partial \in BOOLEAN, CancelOrder(o, l, q, partial)
        PROVE  orders' \in [Orders -> Tracked \cup {NoOrder}]
    <3> DEFINE cut == Reduction(o, q, partial)
               left == orders[o].size - cut
    <3>1. orders[o].size \in Sizes /\ orders[o].size \in Nat
      BY <2>4, KnownType DEF CancelOrder
    <3>2. cut \in Nat /\ left \in Nat /\ left <= orders[o].size
      <4>1. q \in Nat
        BY <1>0
      <4> QED
        BY <3>1, <4>1 DEF Reduction, Least
    <3>3. left \in Sizes
      BY <3>1, <3>2, BoundAssumption DEF Sizes
    <3>4. [level |-> l, size |-> left] \in Tracked
      BY <3>3 DEF Tracked
    <3> QED
      BY <2>4, <3>4 DEF CancelOrder, TypeOK
  <2>5. (\E o \in Orders, q \in EventSizes : UnpricedEvent(o, q)) \/ ClearBook \/ IgnoreEvent
          => orders' \in [Orders -> Tracked \cup {NoOrder}]
    BY DEF UnpricedEvent, ClearBook, IgnoreEvent, TypeOK
  <2>6. orders' \in [Orders -> Tracked \cup {NoOrder}]
    BY <1>3, <2>2, <2>3, <2>4, <2>5 DEF Next
  <2>7. Deliver
    BY <1>3 DEF Next, OrderEvent, AddOrder, MoveOrder, DiscoverOrder, FillOrder,
                ResizeOrder, UnpricedEvent, CancelOrder, ClearBook, IgnoreEvent
  <2> QED
    BY <2>1, <2>6, <2>7, DeliverType DEF TypeOK
<1> QED
  BY <1>1, <1>2, <1>3

LEMMA TypeInit == Init => TypeOK
<1>1. EmptyLevel \in LevelType
  BY NoHistoryType DEF EmptyLevel, LevelType
<1> QED
  BY <1>1, BoundAssumption DEF Init, TypeOK, Ticks

\* The ledger starts and stays within its types, for any number of orders,
\* levels, candles and events.
THEOREM TypeCorrect == Spec => []TypeOK
  BY TypeInit, TypeStep, PTL DEF Spec

-----------------------------------------------------------------------------
(* Conservation of liquidity.  The equation of LiquidityConserved is not   *)
(* inductive: a step books the change of the liquidity at hand, so the     *)
(* record of the running candle must close with that liquidity before the  *)
(* step, and no record may exist for a candle that has not begun.          *)

InOrder(L, n) ==
  /\ \A c \in Candles :
       L.stats[c].known /\ c \notin L.writtenOff => Balanced(L.stats[c])
  /\ L.stats[n].known /\ n \notin L.writtenOff => L.stats[n].closing = Total(L)
  /\ \A c \in Candles : c > n => ~L.stats[c].known

LEMMA BookBalanced ==
  ASSUME NEW r \in StatsType, NEW opening \in Nat, NEW plain \in Nat,
         NEW refill \in Nat, NEW executed \in Nat, NEW withdrawn \in Nat,
         NEW total \in Nat, Balanced(r),
         total = r.closing + opening + plain + refill - executed - withdrawn
  PROVE  Balanced(Book(r, opening, plain, refill, executed, withdrawn, total))
  BY DEF Balanced, Book, StatsType

LEMMA BookFields ==
  ASSUME NEW r, NEW opening, NEW plain, NEW refill, NEW executed, NEW withdrawn,
         NEW total
  PROVE  /\ Book(r, opening, plain, refill, executed, withdrawn, total).known
         /\ Book(r, opening, plain, refill, executed, withdrawn, total).closing = total
  BY DEF Book

LEMMA ChargeFields ==
  ASSUME NEW r \in StatsType, NEW executed \in Nat, NEW withdrawn \in Nat
  PROVE  /\ Charge(r, executed, withdrawn).known = r.known
         /\ Charge(r, executed, withdrawn).closing = r.closing
         /\ Balanced(r) => Balanced(Charge(r, executed, withdrawn))
  BY DEF Charge, StatsType, Balanced

\* The record of the running candle before a step books anything on it.
LEMMA StatsAtKept ==
  ASSUME NEW L \in LevelType, NEW c \in Candles, InOrder(L, c)
  PROVE  /\ StatsAt(L, c).known
         /\ c \notin L.writtenOff => /\ Balanced(StatsAt(L, c))
                                     /\ StatsAt(L, c).closing = Total(L)
<1>1. Total(L) \in Nat
  BY TakenBounds
<1>2. CASE L.stats[c].known
  BY <1>2 DEF StatsAt, InOrder
<1>3. CASE ~L.stats[c].known
  <2>1. Book(NoStats, Total(L), 0, 0, 0, 0, Total(L)).known
    BY BookFields
  <2>2. Book(NoStats, Total(L), 0, 0, 0, 0, Total(L)).closing = Total(L)
    BY BookFields
  <2>3. Balanced(NoStats) /\ NoStats.closing = 0
    BY DEF Balanced, NoStats
  <2>4. Balanced(Book(NoStats, Total(L), 0, 0, 0, 0, Total(L)))
    BY <1>1, <2>3, NoStatsType, BookBalanced
  <2> QED
    BY <1>3, <2>1, <2>2, <2>4 DEF StatsAt
<1> QED
  BY <1>2, <1>3

\* A step that books on the record of the running candle what it did to the
\* liquidity, and at most charges the others, keeps a level in order.
LEMMA KeptUpdate ==
  ASSUME NEW n \in Candles, NEW L, NEW M, InOrder(L, n),
         L.stats \in [Candles -> StatsType],
         NEW S \in [Candles -> StatsType], NEW r,
         \A d \in Candles \ {n} : S[d].known = L.stats[d].known,
         \A d \in Candles \ {n} : Balanced(L.stats[d]) => Balanced(S[d]),
         r.known, r.closing = Total(M), n \notin L.writtenOff => Balanced(r),
         M.stats = [S EXCEPT ![n] = r], M.writtenOff = L.writtenOff
  PROVE  InOrder(M, n)
<1>1. M.stats[n] = r /\ \A d \in Candles \ {n} : M.stats[d] = S[d]
  OBVIOUS
<1>2. ASSUME NEW d \in Candles, M.stats[d].known, d \notin M.writtenOff
      PROVE  Balanced(M.stats[d])
  <2>1. CASE d = n
    BY <1>1, <1>2, <2>1
  <2>2. CASE d # n
    <3>1. Balanced(L.stats[d])
      BY <1>1, <1>2, <2>2 DEF InOrder
    <3> QED
      BY <1>1, <2>2, <3>1
  <2> QED
    BY <2>1, <2>2
<1>3. ASSUME NEW d \in Candles, d > n
      PROVE  ~M.stats[d].known
  <2>1. d # n
    BY <1>3, CandlesArePositive
  <2> QED
    BY <1>1, <1>3, <2>1 DEF InOrder
<1> QED
  BY <1>1, <1>2, <1>3 DEF InOrder

LEMMA InferredKept ==
  ASSUME NEW L \in LevelType, NEW c \in Candles, NEW q \in Nat, InOrder(L, c)
  PROVE  /\ InOrder(Inferred(L, c, q), c)
         /\ Total(Inferred(L, c, q)) = Total(L) + q
<1> DEFINE M == Inferred(L, c, q)
           r == Book(StatsAt(L, c), q, 0, 0, 0, 0, Total(L) + q)
<1>1. Total(L) \in Nat /\ Total(L) + q \in Nat
  BY TakenBounds
<1>2. L.plain \in Nat /\ Len(L.refill) \in Nat /\ L.stats \in [Candles -> StatsType]
  BY DEF LevelType
<1>3. Total(M) = Total(L) + q
  BY <1>2 DEF Inferred, Total
<1>4. M.stats = [L.stats EXCEPT ![c] = r] /\ M.writtenOff = L.writtenOff
  BY DEF Inferred
<1>5. r.known /\ r.closing = Total(M)
  BY <1>3, BookFields
<1>6. ASSUME c \notin L.writtenOff
      PROVE  Balanced(r)
  <2>1. Balanced(StatsAt(L, c)) /\ StatsAt(L, c).closing = Total(L)
    BY <1>6, StatsAtKept
  <2>2. Total(L) + q = StatsAt(L, c).closing + q + 0 + 0 - 0 - 0
    BY <1>1, <2>1
  <2> QED
    BY <1>1, <2>1, <2>2, StatsAtType, BookBalanced
<1> HIDE DEF M, r
<1>7. InOrder(M, c)
  BY <1>2, <1>4, <1>5, <1>6, KeptUpdate
<1> QED
  BY <1>3, <1>7 DEF M

LEMMA WithdrawnKept ==
  ASSUME NEW L \in LevelType, NEW c \in Candles, NEW q \in Nat, InOrder(L, c)
  PROVE  InOrder(Withdrawn(L, c, q), c)
<1> DEFINE M == Withdrawn(L, c, q)
           S == WithdrawnStats(L, c, q)
           t == Taken(L, q)
           r == Book(S[c], 0, 0, 0, 0, t, Total(L) - t)
<1>1. t \in Nat /\ Total(L) \in Nat /\ Total(L) - t \in Nat
  BY TakenBounds
<1>2. S \in [Candles -> StatsType] /\ L.stats \in [Candles -> StatsType]
  BY WithdrawnType DEF LevelType
<1>3. /\ Seen(L, c)[c] = StatsAt(L, c)
      /\ \A d \in Candles \ {c} : Seen(L, c)[d] = L.stats[d]
      /\ \A d \in Candles : Seen(L, c)[d] \in StatsType
  BY <1>2, StatsAtType DEF Seen
<1>4. ASSUME NEW d \in Candles
      PROVE  /\ S[d].known = Seen(L, c)[d].known
             /\ S[d].closing = Seen(L, c)[d].closing
             /\ Balanced(Seen(L, c)[d]) => Balanced(S[d])
  <2>1. S[d] = Charge(Seen(L, c)[d], 0, RefillGone(L, q, d))
    BY DEF WithdrawnStats
  <2>2. RefillGone(L, q, d) \in Nat
    BY RefillLeftType
  <2> QED
    BY <1>3, <2>1, <2>2, ChargeFields
<1>5. M.stats = [S EXCEPT ![c] = r] /\ M.writtenOff = L.writtenOff
  BY DEF Withdrawn
<1>6. Total(M) = Total(L) - t
  <2>1. Len(RefillLeft(L, q)) = Len(L.refill) - RefillTaken(L, q)
    BY RefillLeftType
  <2>2. L.plain \in Nat /\ Len(L.refill) \in Nat /\ PlainTaken(L, q) \in Nat
        /\ RefillTaken(L, q) \in 0 .. Len(L.refill)
    BY TakenBounds DEF LevelType
  <2> QED
    BY <2>1, <2>2 DEF Withdrawn, Total, Taken
<1>7. r.known /\ r.closing = Total(M)
  BY <1>6, BookFields
<1>8. ASSUME c \notin L.writtenOff
      PROVE  Balanced(r)
  <2>1. Balanced(S[c]) /\ S[c].closing = Total(L)
    BY <1>3, <1>4, <1>8, StatsAtKept
  <2>2. Total(L) - t = S[c].closing + 0 + 0 + 0 - 0 - t
    BY <1>1, <2>1
  <2> QED
    BY <1>1, <1>2, <2>1, <2>2, BookBalanced
<1> HIDE DEF M, S, r, t
<1>9. \A d \in Candles \ {c} :
        S[d].known = L.stats[d].known /\ (Balanced(L.stats[d]) => Balanced(S[d]))
  BY <1>3, <1>4
<1>10. InOrder(M, c)
  BY <1>2, <1>5, <1>7, <1>8, <1>9, KeptUpdate, ZenonT(40)
<1> QED
  BY <1>10 DEF M

LEMMA TradedKept ==
  ASSUME NEW L \in LevelType, NEW c \in Candles, NEW q \in Nat, InOrder(L, c),
         q <= Total(L)
  PROVE  InOrder(Traded(L, c, q), c)
<1> DEFINE M == Traded(L, c, q)
           S == ExecutedStats(L, c, q)
           r == Book(S[c], 0, 0, 0, q, 0, Total(L) - q)
<1>1. Total(L) \in Nat /\ Taken(L, q) = q
  BY TakenBounds DEF Least
<1>2. S \in [Candles -> StatsType] /\ L.stats \in [Candles -> StatsType]
  BY TradedType DEF LevelType
<1>3. /\ Seen(L, c)[c] = StatsAt(L, c)
      /\ \A d \in Candles \ {c} : Seen(L, c)[d] = L.stats[d]
      /\ \A d \in Candles : Seen(L, c)[d] \in StatsType
  BY <1>2, StatsAtType DEF Seen
<1>4. ASSUME NEW d \in Candles
      PROVE  /\ S[d].known = Seen(L, c)[d].known
             /\ S[d].closing = Seen(L, c)[d].closing
             /\ Balanced(Seen(L, c)[d]) => Balanced(S[d])
  <2>1. S[d] = Charge(Seen(L, c)[d], RefillGone(L, q, d), 0)
    BY DEF ExecutedStats
  <2>2. RefillGone(L, q, d) \in Nat
    BY RefillLeftType
  <2> QED
    BY <1>3, <2>1, <2>2, ChargeFields
<1>5. M.stats = [S EXCEPT ![c] = r] /\ M.writtenOff = L.writtenOff
  BY DEF Traded
<1>6. Total(M) = Total(L) - q
  <2>1. Len(RefillLeft(L, q)) = Len(L.refill) - RefillTaken(L, q)
    BY RefillLeftType
  <2>2. L.plain \in Nat /\ Len(L.refill) \in Nat /\ PlainTaken(L, q) \in Nat
        /\ RefillTaken(L, q) \in 0 .. Len(L.refill)
    BY TakenBounds DEF LevelType
  <2>3. M.plain = L.plain - PlainTaken(L, q) /\ M.refill = RefillLeft(L, q)
    BY DEF Traded
  <2>4. PlainTaken(L, q) + RefillTaken(L, q) = q
    BY <1>1 DEF Taken
  <2> QED
    BY <2>1, <2>2, <2>3, <2>4, SMTT(30) DEF Total
<1>7. r.known /\ r.closing = Total(M)
  BY <1>6, BookFields
<1>8. ASSUME c \notin L.writtenOff
      PROVE  Balanced(r)
  <2>1. Balanced(S[c]) /\ S[c].closing = Total(L)
    BY <1>3, <1>4, <1>8, StatsAtKept
  <2>2. Total(L) - q = S[c].closing + 0 + 0 + 0 - q - 0 /\ Total(L) - q \in Nat
    BY <1>1, <2>1
  <2> QED
    BY <1>1, <1>2, <2>1, <2>2, BookBalanced
<1> HIDE DEF M, S, r
<1>9. \A d \in Candles \ {c} :
        S[d].known = L.stats[d].known /\ (Balanced(L.stats[d]) => Balanced(S[d]))
  BY <1>3, <1>4
<1>10. InOrder(M, c)
  BY <1>2, <1>5, <1>7, <1>8, <1>9, KeptUpdate, ZenonT(40)
<1> QED
  BY <1>10 DEF M

LEMMA ExecutedKept ==
  ASSUME NEW L \in LevelType, NEW c \in Candles, NEW q \in Nat, InOrder(L, c)
  PROVE  InOrder(Executed(L, c, q), c)
  BY InferredType, InferredKept, InferredCovers, TradedKept DEF Executed, Touched

LEMMA StackedKept ==
  ASSUME NEW L \in LevelType, NEW c \in Candles, NEW q \in Nat, InOrder(L, c)
  PROVE  InOrder(Stacked(L, c, q), c)
<1> DEFINE M == Stacked(L, c, q)
           part == RefillPart(L, c, q)
           r == Book(StatsAt(L, c), 0, q - part, part, 0, 0, Total(L) + q)
<1>1. Total(L) \in Nat /\ Total(L) + q \in Nat
  BY TakenBounds
<1>2. part \in Nat /\ q - part \in Nat
  BY LivePendingType
<1>3. /\ L.plain \in Nat /\ L.refill \in Seq(Candles) /\ Len(L.refill) \in Nat
      /\ L.stats \in [Candles -> StatsType]
  BY DEF LevelType
<1>4. Total(M) = Total(L) + q
  <2>1. Len(L.refill \o [i \in 1 .. part |-> c]) = Len(L.refill) + part
    BY <1>2, <1>3
  <2>2. M.plain = L.plain + (q - part) /\ M.refill = L.refill \o [i \in 1 .. part |-> c]
    BY DEF Stacked
  <2>3. Total(M) = M.plain + Len(M.refill) /\ Total(L) = L.plain + Len(L.refill)
    BY DEF Total
  <2> HIDE DEF M, part
  <2> QED
    BY <1>2, <1>3, <2>1, <2>2, <2>3
<1>5. M.stats = [L.stats EXCEPT ![c] = r] /\ M.writtenOff = L.writtenOff
  BY DEF Stacked
<1>6. r.known /\ r.closing = Total(M)
  BY <1>4, BookFields
<1>7. ASSUME c \notin L.writtenOff
      PROVE  Balanced(r)
  <2>1. Balanced(StatsAt(L, c)) /\ StatsAt(L, c).closing = Total(L)
    BY <1>7, StatsAtKept
  <2>2. Total(L) + q = StatsAt(L, c).closing + 0 + (q - part) + part - 0 - 0
    BY <1>1, <1>2, <2>1
  <2> QED
    BY <1>1, <1>2, <2>1, <2>2, StatsAtType, BookBalanced
<1> HIDE DEF M, r, part
<1>8. InOrder(M, c)
  BY <1>3, <1>5, <1>6, <1>7, KeptUpdate
<1> QED
  BY <1>8 DEF M

LEMMA AddedKept ==
  ASSUME NEW L \in LevelType, NEW c \in Candles, NEW q \in Nat, InOrder(L, c)
  PROVE  InOrder(Added(L, c, q), c)
  BY InferredKept, StackedKept DEF Added, Touched

\* A clear empties the level without booking it: what was left is written off.
LEMMA EmptiedKept ==
  ASSUME NEW L \in LevelType, NEW c \in Candles, InOrder(L, c)
  PROVE  InOrder(Emptied(L, c), c)
<1>1. Total(L) \in Nat
  BY TakenBounds
<1>2. Total(Emptied(L, c)) = 0 /\ Emptied(L, c).stats = L.stats
  BY DEF Emptied, Total
<1>3. L.writtenOff \subseteq Emptied(L, c).writtenOff
  BY DEF Emptied
<1>4. L.stats[c].known /\ c \notin Emptied(L, c).writtenOff => L.stats[c].closing = 0
  BY <1>1 DEF Emptied, InOrder
<1> QED
  BY <1>2, <1>3, <1>4 DEF InOrder

LEMMA ReopenedKept ==
  ASSUME NEW L \in LevelType, NEW c \in Candles
  PROVE  InOrder(Reopened(L), c)
<1>1. \A d \in Candles : Reopened(L).stats[d] = NoStats
  BY DEF Reopened, NoHistory
<1> QED
  BY <1>1, NoStatsType DEF InOrder

\* Every level is in order with respect to the candle of the next event.
LevelsKept == \A l \in Levels : InOrder(levels[l], Now)

LEMMA BaseKept == TypeOK /\ LevelsKept => \A l \in Levels : InOrder(Base[l], Now)
  BY NowType, ReopenedKept DEF TypeOK, LevelsKept, Base

\* When time moves to a later candle nothing is known of that candle yet.
LEMMA KeptLater ==
  ASSUME NEW L, NEW m \in Candles, NEW n \in Candles, m <= n, InOrder(L, m)
  PROVE  InOrder(L, n)
<1>1. m \in Nat /\ n \in Nat
  BY CandlesArePositive
<1>2. CASE m = n
  BY <1>2
<1>3. CASE m < n
  <2>1. ~L.stats[n].known
    BY <1>3 DEF InOrder
  <2>2. ASSUME NEW c \in Candles, c > n
        PROVE  ~L.stats[c].known
    <3>1. c > m
      BY <1>1, <2>2, CandlesArePositive
    <3> QED
      BY <3>1 DEF InOrder
  <2> QED
    BY <2>1, <2>2 DEF InOrder
<1> QED
  BY <1>1, <1>2, <1>3

LEMMA KeptStep == TypeOK /\ LevelsKept /\ [Next]_vars => LevelsKept'
<1> SUFFICES ASSUME TypeOK, LevelsKept, [Next]_vars
             PROVE  LevelsKept'
  OBVIOUS
<1>1. Now \in Candles
  BY NowType
<1>2. CASE Tick
  <2>1. Now' \in Candles /\ Now <= Now'
    BY <1>2, BoundAssumption, CandleAssumption DEF Tick, TypeOK, Now, Ticks, Candles
  <2> QED
    BY <1>1, <1>2, <2>1, KeptLater DEF Tick, LevelsKept
<1>3. CASE UNCHANGED vars
  BY <1>3 DEF vars, LevelsKept, Now
<1>4. CASE Next /\ ~Tick
  <2> DEFINE G == {L \in LevelType : InOrder(L, Now)}
  <2>1. Base \in [Levels -> G]
    BY BaseType, BaseKept
  <2>2. \A L \in G : Emptied(L, Now) \in G
    BY <1>1, EmptiedType, EmptiedKept
  <2>3. \A L \in G, q \in Nat : Withdrawn(L, Now, q) \in G
    BY <1>1, WithdrawnType, WithdrawnKept
  <2>4. \A L \in G, q \in Nat : Inferred(L, Now, q) \in G
    BY <1>1, InferredType, InferredKept
  <2>5. \A L \in G, q \in Nat : Executed(L, Now, q) \in G
    BY <1>1, ExecutedType, ExecutedKept
  <2>6. \A L \in G, q \in Nat : Added(L, Now, q) \in G
    BY <1>1, AddedType, AddedKept
  <2>7. G \in SUBSET LevelType
    OBVIOUS
  <2> HIDE DEF G
  <2>8. levels' \in [Levels -> G]
    BY <1>4, <2>1, <2>2, <2>3, <2>4, <2>5, <2>6, <2>7, ClosedUnderEvents
  <2>9. UNCHANGED clock
    BY <1>4 DEF Next, OrderEvent, AddOrder, MoveOrder, DiscoverOrder, FillOrder,
                ResizeOrder, UnpricedEvent, CancelOrder, ClearBook, IgnoreEvent, Deliver
  <2> QED
    BY <2>8, <2>9 DEF G, LevelsKept, Now
<1> QED
  BY <1>2, <1>3, <1>4

\* The inductive invariant of the conservation theorems.
LEMMA LedgerKept == Spec => [](TypeOK /\ LevelsKept)
<1>1. Init => LevelsKept
  <2>1. \A c \in Candles : ~EmptyLevel.stats[c].known
    BY NoStatsType DEF EmptyLevel, NoHistory
  <2>2. Init => Now \in Candles
    BY TypeInit, NowType
  <2>3. \A n \in Candles : InOrder(EmptyLevel, n)
    BY <2>1 DEF InOrder
  <2> QED
    BY <2>2, <2>3 DEF Init, LevelsKept
<1>2. Init => TypeOK
  BY TypeInit
<1> QED
  BY <1>1, <1>2, TypeStep, KeptStep, PTL DEF Spec

\* The execution equation of every record holds in every state, for any number
\* of orders and levels, any sizes, any candles and any reported window.
THEOREM LiquidityIsConserved == Spec => []LiquidityConserved
<1>1. LevelsKept => LiquidityConserved
  BY DEF LevelsKept, InOrder, LiquidityConserved, Stats
<1> QED
  BY <1>1, LedgerKept, PTL

\* The record of the running candle always closes with the liquidity at hand.
THEOREM ClosingStaysCurrent == Spec => []ClosingIsCurrent
<1>1. TypeOK /\ LevelsKept => ClosingIsCurrent
  BY NowType DEF LevelsKept, InOrder, ClosingIsCurrent, Stats
<1> QED
  BY <1>1, LedgerKept, PTL

-----------------------------------------------------------------------------
(* No candle counts more refill than it executed.  The bound alone is not  *)
(* inductive: executions still waiting to be replenished must be covered   *)
(* too, and they are only when the candle they belong to still has its     *)
(* record; so it matters which candles the reported window cut.            *)

Backed(L, n) ==
  /\ \A c \in Candles : ~Split(c) => L.stats[c].refillAdded <= L.stats[c].executed
  /\ \A c \in Candles :
       c = L.pendingCandle /\ ~Split(c) /\ L.stats[c].known
         => L.stats[c].refillAdded + L.pending <= L.stats[c].executed
  /\ n = L.pendingCandle /\ ~Split(n) => L.stats[n].known
  /\ L.pendingCandle <= n
  /\ L.pendingCandle = 0 => L.pending = 0

\* The level last traded before the reported window opened, if it ever did.
Early(L) ==
  L.pendingCandle = 0 \/ \E t \in Ticks : t < EmitStart /\ CandleOf(t) = L.pendingCandle

\* Records that differ from older ones only in candle n, as far as it matters.
SameCounts(S, R, n) ==
  \A d \in Candles \ {n} : /\ S[d].known = R[d].known
                           /\ S[d].refillAdded = R[d].refillAdded
                           /\ S[d].executed = R[d].executed

-----------------------------------------------------------------------------

LEMMA BookCounts ==
  ASSUME NEW r, NEW opening, NEW plain, NEW refill, NEW executed, NEW withdrawn,
         NEW total
  PROVE  LET b == Book(r, opening, plain, refill, executed, withdrawn, total)
         IN  /\ b.known
             /\ b.refillAdded = r.refillAdded + refill
             /\ b.executed = r.executed + executed
  BY DEF Book

LEMMA ChargeCounts ==
  ASSUME NEW r, NEW executed, NEW withdrawn
  PROVE  /\ Charge(r, executed, withdrawn).known = r.known
         /\ Charge(r, executed, withdrawn).refillAdded = r.refillAdded
         /\ Charge(r, executed, withdrawn).executed = r.executed
  BY DEF Charge

\* Before a step books anything, the executions of the running candle cover its
\* refill and every execution that may still be replaced.
LEMMA StatsAtBacked ==
  ASSUME NEW L \in LevelType, NEW c \in Candles, Backed(L, c)
  PROVE  /\ StatsAt(L, c).known
         /\ StatsAt(L, c).refillAdded \in Nat /\ StatsAt(L, c).executed \in Nat
         /\ ~Split(c) => StatsAt(L, c).refillAdded + LivePending(L, c)
                           <= StatsAt(L, c).executed
<1>1. c \in Nat \ {0} /\ L.pending \in Nat /\ L.pendingCandle \in Candles \cup {0}
  BY CandlesArePositive DEF LevelType
<1>2. StatsAt(L, c) \in StatsType
  BY StatsAtType
<1>3. L.pendingCandle # c => LivePending(L, c) = 0
  BY <1>1 DEF LivePending, Backed
<1>4. L.pendingCandle = c => LivePending(L, c) = L.pending
  BY DEF LivePending
<1>5. CASE L.stats[c].known
  <2>1. L.stats[c].refillAdded \in Nat
    BY <1>2, <1>5 DEF StatsAt, StatsType
  <2>2. StatsAt(L, c) = L.stats[c]
    BY <1>5 DEF StatsAt
  <2> QED
    BY <1>2, <1>3, <1>4, <1>5, <2>1, <2>2 DEF StatsType, Backed
<1>6. CASE ~L.stats[c].known
  <2>1. StatsAt(L, c).known /\ StatsAt(L, c).refillAdded = 0 /\ StatsAt(L, c).executed = 0
    BY <1>6, BookCounts DEF StatsAt, NoStats
  <2>2. ~Split(c) => L.pendingCandle # c
    BY <1>6 DEF Backed
  <2> QED
    BY <1>3, <2>1, <2>2
<1> QED
  BY <1>5, <1>6

\* A step books on the record of the running candle only.  Either it leaves the
\* pending executions alone, forgets them, or makes them those of that candle.
LEMMA BackedUpdate ==
  ASSUME NEW n \in Candles, NEW L, NEW M, Backed(L, n),
         L.stats \in [Candles -> StatsType],
         NEW S \in [Candles -> StatsType], NEW r,
         M.stats = [S EXCEPT ![n] = r],
         SameCounts(S, L.stats, n),
         r.known, ~Split(n) => r.refillAdded <= r.executed,
         ~Split(n) /\ M.pendingCandle = n => r.refillAdded + M.pending <= r.executed,
         \/ M.pendingCandle = L.pendingCandle /\ M.pending = L.pending
         \/ M.pendingCandle = 0 /\ M.pending = 0
         \/ M.pendingCandle = n
  PROVE  Backed(M, n)
<1>1. M.stats[n] = r /\ \A d \in Candles \ {n} : M.stats[d] = S[d]
  OBVIOUS
<1>2. n \in Nat \ {0} /\ 0 \notin Candles
  BY CandlesArePositive
<1>3. M.pendingCandle <= n /\ (M.pendingCandle = 0 => M.pending = 0)
  BY <1>2 DEF Backed
<1>4. \A c \in Candles : ~Split(c) => M.stats[c].refillAdded <= M.stats[c].executed
  BY <1>1 DEF Backed, SameCounts
<1>5. ASSUME NEW c \in Candles, c = M.pendingCandle, ~Split(c), M.stats[c].known
      PROVE  M.stats[c].refillAdded + M.pending <= M.stats[c].executed
  <2>1. CASE c = n
    BY <1>1, <1>5, <2>1
  <2>2. CASE c # n
    <3>1. c # 0
      BY <1>2
    <3>2. c = L.pendingCandle /\ M.pending = L.pending
      BY <1>5, <2>2, <3>1
    <3>3. M.stats[c].known = L.stats[c].known
          /\ M.stats[c].refillAdded = L.stats[c].refillAdded
          /\ M.stats[c].executed = L.stats[c].executed
      BY <1>1, <2>2 DEF SameCounts
    <3> QED
      BY <1>5, <3>2, <3>3 DEF Backed
  <2> QED
    BY <2>1, <2>2
<1> QED
  BY <1>1, <1>3, <1>4, <1>5 DEF Backed

-----------------------------------------------------------------------------
(* Every operation on a level keeps it backed.                             *)

LEMMA InferredBacked ==
  ASSUME NEW L \in LevelType, NEW c \in Candles, NEW q \in Nat, Backed(L, c)
  PROVE  Backed(Inferred(L, c, q), c)
<1> DEFINE M == Inferred(L, c, q)
           r == Book(StatsAt(L, c), q, 0, 0, 0, 0, Total(L) + q)
<1>1. L.stats \in [Candles -> StatsType] /\ L.pending \in Nat
      /\ SameCounts(L.stats, L.stats, c)
  BY DEF LevelType, SameCounts
<1>2. M.stats = [L.stats EXCEPT ![c] = r]
      /\ M.pendingCandle = L.pendingCandle /\ M.pending = L.pending
  BY DEF Inferred
<1>3. LivePending(L, c) \in Nat /\ (L.pendingCandle = c => LivePending(L, c) = L.pending)
  BY LivePendingType DEF LivePending
<1>4. r.known /\ r.refillAdded = StatsAt(L, c).refillAdded
      /\ r.executed = StatsAt(L, c).executed
  BY StatsAtBacked, BookCounts
<1> HIDE DEF M, r
<1>5. /\ ~Split(c) => r.refillAdded <= r.executed
      /\ ~Split(c) /\ M.pendingCandle = c => r.refillAdded + M.pending <= r.executed
  BY <1>2, <1>3, <1>4, StatsAtBacked
<1>6. Backed(M, c)
  BY <1>1, <1>2, <1>4, <1>5, BackedUpdate
<1> QED
  BY <1>6 DEF M

LEMMA WithdrawnBacked ==
  ASSUME NEW L \in LevelType, NEW c \in Candles, NEW q \in Nat, Backed(L, c)
  PROVE  Backed(Withdrawn(L, c, q), c)
<1> DEFINE M == Withdrawn(L, c, q)
           S == WithdrawnStats(L, c, q)
           r == Book(S[c], 0, 0, 0, 0, Taken(L, q), Total(L) - Taken(L, q))
<1>1. L.stats \in [Candles -> StatsType] /\ S \in [Candles -> StatsType] /\ L.pending \in Nat
  BY WithdrawnType DEF LevelType
<1>2. M.stats = [S EXCEPT ![c] = r]
      /\ M.pendingCandle = L.pendingCandle /\ M.pending = L.pending
  BY DEF Withdrawn
<1>3. LivePending(L, c) \in Nat /\ (L.pendingCandle = c => LivePending(L, c) = L.pending)
  BY LivePendingType DEF LivePending
<1>4. ASSUME NEW d \in Candles
      PROVE  /\ S[d].known = Seen(L, c)[d].known
             /\ S[d].refillAdded = Seen(L, c)[d].refillAdded
             /\ S[d].executed = Seen(L, c)[d].executed
  BY ChargeCounts DEF WithdrawnStats
<1>5. Seen(L, c)[c] = StatsAt(L, c) /\ \A d \in Candles \ {c} : Seen(L, c)[d] = L.stats[d]
  BY <1>1 DEF Seen
<1>6. r.known /\ r.refillAdded = StatsAt(L, c).refillAdded
      /\ r.executed = StatsAt(L, c).executed
  BY <1>4, <1>5, StatsAtBacked, BookCounts
<1>7. SameCounts(S, L.stats, c)
  BY <1>4, <1>5 DEF SameCounts
<1> HIDE DEF M, S, r
<1>8. /\ ~Split(c) => r.refillAdded <= r.executed
      /\ ~Split(c) /\ M.pendingCandle = c => r.refillAdded + M.pending <= r.executed
  BY <1>2, <1>3, <1>6, StatsAtBacked
<1>9. /\ M.stats = [S EXCEPT ![c] = r] /\ r.known
      /\ L.stats \in [Candles -> StatsType] /\ S \in [Candles -> StatsType]
  BY <1>1, <1>2, <1>6
<1>10. M.pendingCandle = L.pendingCandle /\ M.pending = L.pending
  BY <1>2
<1>11. Backed(M, c)
  BY <1>7, <1>8, <1>9, <1>10, BackedUpdate
<1> QED
  BY <1>11 DEF M

LEMMA TradedBacked ==
  ASSUME NEW L \in LevelType, NEW c \in Candles, NEW q \in Nat, q <= Total(L),
         Backed(L, c)
  PROVE  Backed(Traded(L, c, q), c)
<1> DEFINE M == Traded(L, c, q)
           S == ExecutedStats(L, c, q)
           r == Book(S[c], 0, 0, 0, q, 0, Total(L) - q)
<1>1. L.stats \in [Candles -> StatsType] /\ S \in [Candles -> StatsType]
  BY TradedType DEF LevelType
<1>2. M.stats = [S EXCEPT ![c] = r]
      /\ M.pendingCandle = c /\ M.pending = LivePending(L, c) + q
  BY DEF Traded
<1>3. LivePending(L, c) \in Nat
  BY LivePendingType
<1>4. ASSUME NEW d \in Candles
      PROVE  /\ S[d].known = Seen(L, c)[d].known
             /\ S[d].refillAdded = Seen(L, c)[d].refillAdded
             /\ S[d].executed = Seen(L, c)[d].executed
  BY ChargeCounts DEF ExecutedStats
<1>5. Seen(L, c)[c] = StatsAt(L, c) /\ \A d \in Candles \ {c} : Seen(L, c)[d] = L.stats[d]
  BY <1>1 DEF Seen
<1>6. r.known /\ r.refillAdded = StatsAt(L, c).refillAdded
      /\ r.executed = StatsAt(L, c).executed + q
  BY <1>4, <1>5, StatsAtBacked, BookCounts
<1>7. SameCounts(S, L.stats, c)
  BY <1>4, <1>5 DEF SameCounts
<1> HIDE DEF M, S, r
<1>8. /\ ~Split(c) => r.refillAdded <= r.executed
      /\ ~Split(c) /\ M.pendingCandle = c => r.refillAdded + M.pending <= r.executed
  BY <1>2, <1>3, <1>6, StatsAtBacked
<1>9. /\ M.stats = [S EXCEPT ![c] = r] /\ r.known
      /\ L.stats \in [Candles -> StatsType] /\ S \in [Candles -> StatsType]
  BY <1>1, <1>2, <1>6
<1>10. M.pendingCandle = c
  BY <1>2
<1>11. Backed(M, c)
  BY <1>7, <1>8, <1>9, <1>10, BackedUpdate
<1> QED
  BY <1>11 DEF M

LEMMA ExecutedBacked ==
  ASSUME NEW L \in LevelType, NEW c \in Candles, NEW q \in Nat, Backed(L, c)
  PROVE  Backed(Executed(L, c, q), c)
  BY InferredType, InferredBacked, InferredCovers, TradedBacked DEF Executed, Touched

LEMMA StackedBacked ==
  ASSUME NEW L \in LevelType, NEW c \in Candles, NEW q \in Nat, Backed(L, c)
  PROVE  Backed(Stacked(L, c, q), c)
<1> DEFINE M == Stacked(L, c, q)
           part == RefillPart(L, c, q)
           left == PendingLeft(L, c, q)
           r == Book(StatsAt(L, c), 0, q - part, part, 0, 0, Total(L) + q)
<1>1. L.stats \in [Candles -> StatsType] /\ L.pending \in Nat
      /\ SameCounts(L.stats, L.stats, c)
  BY DEF LevelType, SameCounts
<1>2. M.stats = [L.stats EXCEPT ![c] = r] /\ M.pending = left
      /\ M.pendingCandle = (IF left = 0 THEN 0 ELSE L.pendingCandle)
  BY DEF Stacked
<1>3. LivePending(L, c) \in Nat /\ part \in Nat /\ left \in Nat
      /\ left = LivePending(L, c) - part
  BY LivePendingType
<1>4. r.known /\ r.refillAdded = StatsAt(L, c).refillAdded + part
      /\ r.executed = StatsAt(L, c).executed
  BY StatsAtBacked, BookCounts
<1>5. left # 0 => L.pendingCandle = c
  <2>1. LivePending(L, c) = 0 => left = 0
    BY <1>3
  <2> QED
    BY <2>1 DEF LivePending, Backed
<1> HIDE DEF M, r, part, left
<1>6. /\ ~Split(c) => r.refillAdded <= r.executed
      /\ ~Split(c) /\ M.pendingCandle = c => r.refillAdded + M.pending <= r.executed
  BY <1>2, <1>3, <1>4, StatsAtBacked
<1>7. \/ M.pendingCandle = 0 /\ M.pending = 0
      \/ M.pendingCandle = c
  BY <1>2, <1>5
<1>8. M.stats = [L.stats EXCEPT ![c] = r] /\ r.known
  BY <1>2, <1>4
<1>9. Backed(M, c)
  BY <1>1, <1>6, <1>7, <1>8, BackedUpdate
<1> QED
  BY <1>9 DEF M

LEMMA AddedBacked ==
  ASSUME NEW L \in LevelType, NEW c \in Candles, NEW q \in Nat, Backed(L, c)
  PROVE  Backed(Added(L, c, q), c)
  BY InferredBacked, StackedBacked DEF Added, Touched

LEMMA EmptiedBacked ==
  ASSUME NEW L \in LevelType, NEW c \in Candles, Backed(L, c)
  PROVE  Backed(Emptied(L, c), c)
<1>1. Emptied(L, c).pending = 0 /\ Emptied(L, c).pendingCandle = 0
      /\ Emptied(L, c).stats = L.stats
  BY DEF Emptied
<1> QED
  BY <1>1, CandlesArePositive DEF Backed

\* Opening the window drops the records.  A level that traded before it in the
\* candle that is still running traded in a candle the window cuts.
LEMMA ReopenedBacked ==
  ASSUME NEW L \in LevelType, NEW t \in Ticks, EmitStart <= t,
         Backed(L, CandleOf(t)), Early(L)
  PROVE  Backed(Reopened(L), CandleOf(t))
<1>1. \A d \in Candles : Reopened(L).stats[d] = NoStats
  BY DEF Reopened, NoHistory
<1>2. Reopened(L).pendingCandle = L.pendingCandle /\ Reopened(L).pending = L.pending
  BY DEF Reopened
<1>3. L.pendingCandle = CandleOf(t) => Split(CandleOf(t))
  <2>1. CandleOf(t) # 0
    BY CandleAssumption
  <2> QED
    BY <2>1 DEF Early, Split
<1>4. NoStats.refillAdded <= NoStats.executed /\ ~NoStats.known
  BY DEF NoStats
<1> QED
  BY <1>1, <1>2, <1>3, <1>4 DEF Backed

\* The pending executions of an older candle back nothing in a later one.
LEMMA BackedLater ==
  ASSUME NEW L \in LevelType, NEW m \in Candles, NEW n \in Candles, m <= n, Backed(L, m)
  PROVE  Backed(L, n)
<1>1. m \in Nat /\ n \in Nat /\ (L.pendingCandle \in Nat)
  BY CandlesArePositive DEF LevelType
<1>2. m # n => L.pendingCandle # n
  BY <1>1 DEF Backed
<1>3. L.pendingCandle <= n
  BY <1>1 DEF Backed
<1> QED
  BY <1>2, <1>3 DEF Backed

-----------------------------------------------------------------------------
(* Every step keeps every level backed.                                    *)

LevelsBacked ==
  \A l \in Levels : Backed(levels[l], Now) /\ (~emitting => Early(levels[l]))

LEMMA BackedStep == TypeOK /\ LevelsBacked /\ [Next]_vars => LevelsBacked'
<1> SUFFICES ASSUME TypeOK, LevelsBacked, [Next]_vars
             PROVE  LevelsBacked'
  OBVIOUS
<1>1. Now \in Candles /\ clock \in Ticks /\ clock \in Nat /\ EmitStart \in Nat
      /\ emitting \in BOOLEAN
  BY NowType, BoundAssumption DEF TypeOK, Ticks
<1>2. CASE Tick
  <2>1. Now' \in Candles /\ Now <= Now'
    BY <1>2, BoundAssumption, CandleAssumption DEF Tick, TypeOK, Now, Ticks, Candles
  <2> QED
    BY <1>1, <1>2, <2>1, BackedLater DEF Tick, LevelsBacked, TypeOK
<1>3. CASE UNCHANGED vars
  BY <1>3 DEF vars, LevelsBacked, Now
<1>4. CASE Next /\ ~Tick
  <2> DEFINE before == ~emitting /\ clock < EmitStart
             G == {L \in LevelType : Backed(L, Now) /\ (before => Early(L))}
  <2>0. Deliver
    BY <1>4 DEF Next, OrderEvent, AddOrder, MoveOrder, DiscoverOrder, FillOrder,
                ResizeOrder, UnpricedEvent, CancelOrder, ClearBook, IgnoreEvent
  <2>1. Base \in [Levels -> G]
    <3>1. CASE Opens
      <4>1. \A l \in Levels : Backed(Reopened(levels[l]), Now)
        BY <1>1, <3>1, ReopenedBacked DEF TypeOK, LevelsBacked, Opens, Now
      <4> QED
        BY <1>1, <3>1, <4>1, BaseType, ReopenedType DEF Base, Opens, TypeOK
    <3>2. CASE ~Opens
      BY <3>2, BaseType DEF Base, LevelsBacked, TypeOK
    <3> QED
      BY <3>1, <3>2
  <2>2. ASSUME before
        PROVE  \E t \in Ticks : t < EmitStart /\ CandleOf(t) = Now
    BY <1>1, <2>2 DEF Now
  <2>3. ASSUME NEW L \in G
        PROVE  Emptied(L, Now) \in G
    BY <1>1, EmptiedType, EmptiedBacked DEF Early, Emptied
  <2>4. ASSUME NEW L \in G, NEW q \in Nat
        PROVE  Withdrawn(L, Now, q) \in G
    BY <1>1, WithdrawnType, WithdrawnBacked DEF Early, Withdrawn
  <2>5. ASSUME NEW L \in G, NEW q \in Nat
        PROVE  Inferred(L, Now, q) \in G
    BY <1>1, InferredType, InferredBacked DEF Early, Inferred
  <2>6. ASSUME NEW L \in G, NEW q \in Nat
        PROVE  Executed(L, Now, q) \in G
    <3>1. Executed(L, Now, q).pendingCandle \in {L.pendingCandle, Now}
      BY DEF Executed, Touched, Inferred, Traded
    <3> QED
      BY <1>1, <2>2, <3>1, ExecutedType, ExecutedBacked DEF Early
  <2>7. ASSUME NEW L \in G, NEW q \in Nat
        PROVE  Added(L, Now, q) \in G
    <3>1. Added(L, Now, q).pendingCandle \in {L.pendingCandle, 0}
      BY DEF Added, Touched, Inferred, Stacked
    <3> QED
      BY <1>1, <3>1, AddedType, AddedBacked DEF Early
  <2>8. G \in SUBSET LevelType
    OBVIOUS
  <2> HIDE DEF G
  <2>9. levels' \in [Levels -> G]
    BY <1>4, <2>1, <2>3, <2>4, <2>5, <2>6, <2>7, <2>8, ClosedUnderEvents
  <2>10. UNCHANGED clock /\ (~emitting' => before)
    <3>1. UNCHANGED clock /\ (~emitting' => ~emitting /\ ~(clock >= EmitStart))
      BY <2>0 DEF Deliver
    <3> QED
      BY <1>1, <3>1
  <2> QED
    BY <2>9, <2>10 DEF G, LevelsBacked, Now
<1> QED
  BY <1>2, <1>3, <1>4

\* In every candle the reported window does not cut, a level counts at most as
\* much refill as it executed, for any feed, sizes, candles and window.
THEOREM RefillIsBacked == Spec => []RefillBacked
<1>1. Init => LevelsBacked
  <2>1. Init => Now \in Candles
    BY TypeInit, NowType
  <2>2. /\ EmptyLevel.pending = 0 /\ EmptyLevel.pendingCandle = 0
        /\ \A c \in Candles : EmptyLevel.stats[c] = NoStats
    BY DEF EmptyLevel, NoHistory
  <2>3. NoStats.refillAdded = 0 /\ NoStats.executed = 0 /\ ~NoStats.known
    BY DEF NoStats
  <2>4. \A n \in Candles : n # 0 /\ 0 <= n /\ 0 \notin Candles
    BY CandlesArePositive
  <2>5. \A n \in Candles : Backed(EmptyLevel, n) /\ Early(EmptyLevel)
    BY <2>2, <2>3, <2>4 DEF Backed, Early
  <2> QED
    BY <2>1, <2>5 DEF Init, LevelsBacked
<1>2. LevelsBacked => RefillBacked
  BY DEF LevelsBacked, Backed, RefillBacked, Stats
<1> QED
  BY <1>1, <1>2, TypeInit, TypeStep, BackedStep, PTL DEF Spec

-----------------------------------------------------------------------------
(* What an event does to the candles that are over.                        *)

\* Records that differ from older ones, outside candle n, only by more refill
\* that has left.
Settled(S, R, n) ==
  \A c \in Candles \ {n} : /\ Flows(S[c]) = Flows(R[c])
                           /\ R[c].refillExecuted <= S[c].refillExecuted
                           /\ R[c].refillWithdrawn <= S[c].refillWithdrawn

LEMMA ChargeSettles ==
  ASSUME NEW r \in StatsType, NEW executed \in Nat, NEW withdrawn \in Nat
  PROVE  LET b == Charge(r, executed, withdrawn)
         IN  /\ Flows(b) = Flows(r)
             /\ r.refillExecuted <= b.refillExecuted
             /\ r.refillWithdrawn <= b.refillWithdrawn
<1> DEFINE b == Charge(r, executed, withdrawn)
<1>1. r.known \in BOOLEAN /\ r.refillExecuted \in Nat /\ r.refillWithdrawn \in Nat
  BY DEF StatsType
<1>2. CASE ~r.known
  BY <1>1, <1>2 DEF Charge
<1>3. CASE r.known
  <2>1. r.known = TRUE
    BY <1>1, <1>3
  <2>2. /\ b.known = r.known /\ b.opening = r.opening /\ b.gross = r.gross
        /\ b.refillAdded = r.refillAdded /\ b.executed = r.executed
        /\ b.withdrawn = r.withdrawn /\ b.closing = r.closing
    BY <1>3, <2>1 DEF Charge
  <2>3. /\ b.refillExecuted = r.refillExecuted + executed
        /\ b.refillWithdrawn = r.refillWithdrawn + withdrawn
    BY <1>3 DEF Charge
  <2> HIDE DEF b
  <2>4. Flows(b) = Flows(r)
    BY <2>2 DEF Flows
  <2> QED
    BY <1>1, <2>3, <2>4 DEF b
<1> QED
  BY <1>2, <1>3

LEMMA SettledTrans ==
  ASSUME NEW n \in Candles, NEW R \in [Candles -> StatsType],
         NEW S \in [Candles -> StatsType], NEW U \in [Candles -> StatsType],
         Settled(S, R, n), Settled(U, S, n)
  PROVE  Settled(U, R, n)
<1> SUFFICES ASSUME NEW c \in Candles \ {n}
             PROVE  /\ Flows(U[c]) = Flows(R[c])
                    /\ R[c].refillExecuted <= U[c].refillExecuted
                    /\ R[c].refillWithdrawn <= U[c].refillWithdrawn
  BY DEF Settled
<1>1. R[c] \in StatsType /\ S[c] \in StatsType /\ U[c] \in StatsType
  OBVIOUS
<1>2. /\ R[c].refillExecuted \in Nat /\ S[c].refillExecuted \in Nat /\ U[c].refillExecuted \in Nat
      /\ R[c].refillWithdrawn \in Nat /\ S[c].refillWithdrawn \in Nat /\ U[c].refillWithdrawn \in Nat
  BY <1>1 DEF StatsType
<1>3. /\ Flows(S[c]) = Flows(R[c]) /\ Flows(U[c]) = Flows(S[c])
      /\ R[c].refillExecuted <= S[c].refillExecuted
      /\ S[c].refillExecuted <= U[c].refillExecuted
      /\ R[c].refillWithdrawn <= S[c].refillWithdrawn
      /\ S[c].refillWithdrawn <= U[c].refillWithdrawn
  BY DEF Settled
<1> QED
  BY <1>2, <1>3

LEMMA SeenSettles ==
  ASSUME NEW L \in LevelType, NEW n \in Candles, NEW r
  PROVE  /\ \A d \in Candles \ {n} : Seen(L, n)[d] = L.stats[d]
         /\ Settled(L.stats, L.stats, n)
         /\ Settled([L.stats EXCEPT ![n] = r], L.stats, n)
<1>1. L.stats \in [Candles -> StatsType]
  BY DEF LevelType
<1>2. \A d \in Candles : /\ L.stats[d].refillExecuted \in Nat
                         /\ L.stats[d].refillWithdrawn \in Nat
  BY <1>1 DEF StatsType
<1> QED
  BY <1>1, <1>2 DEF Seen, Settled

\* No operation at candle n settles anything anew for the other candles.
LEMMA OperationsSettle ==
  ASSUME NEW L \in LevelType, NEW n \in Candles, NEW q \in Nat
  PROVE  /\ Settled(Emptied(L, n).stats, L.stats, n)
         /\ Settled(Inferred(L, n, q).stats, L.stats, n)
         /\ Settled(Withdrawn(L, n, q).stats, L.stats, n)
         /\ Settled(Stacked(L, n, q).stats, L.stats, n)
         /\ q <= Total(L) => Settled(Traded(L, n, q).stats, L.stats, n)
<1>1. L.stats \in [Candles -> StatsType] /\ Seen(L, n) \in [Candles -> StatsType]
  BY StatsAtType DEF LevelType
<1>2. Settled(Emptied(L, n).stats, L.stats, n)
  BY SeenSettles DEF Emptied
<1>3. Settled(Inferred(L, n, q).stats, L.stats, n)
  BY SeenSettles DEF Inferred
<1>4. Settled(Stacked(L, n, q).stats, L.stats, n)
  BY SeenSettles DEF Stacked
<1>5. \A d \in Candles : RefillGone(L, q, d) \in Nat
  BY RefillLeftType
<1>6. Settled(WithdrawnStats(L, n, q), L.stats, n)
  <2>1. \A d \in Candles : WithdrawnStats(L, n, q)[d]
                             = Charge(Seen(L, n)[d], 0, RefillGone(L, q, d))
    BY DEF WithdrawnStats
  <2>2. \A d \in Candles \ {n} : Seen(L, n)[d] = L.stats[d]
    BY SeenSettles
  <2> QED
    BY <1>1, <1>5, <2>1, <2>2, ChargeSettles DEF Settled
<1>7. Settled(Withdrawn(L, n, q).stats, L.stats, n)
  <2>1. \A d \in Candles \ {n} : Withdrawn(L, n, q).stats[d] = WithdrawnStats(L, n, q)[d]
    BY WithdrawnType DEF Withdrawn
  <2> QED
    BY <1>6, <2>1 DEF Settled
<1>8. ASSUME q <= Total(L)
      PROVE  Settled(Traded(L, n, q).stats, L.stats, n)
  <2>1. \A d \in Candles : ExecutedStats(L, n, q)[d]
                             = Charge(Seen(L, n)[d], RefillGone(L, q, d), 0)
    BY DEF ExecutedStats
  <2>2. Settled(ExecutedStats(L, n, q), L.stats, n)
    BY <1>1, <1>5, <2>1, SeenSettles, ChargeSettles DEF Settled
  <2>3. \A d \in Candles \ {n} : Traded(L, n, q).stats[d] = ExecutedStats(L, n, q)[d]
    BY <1>8, TradedType DEF Traded
  <2> QED
    BY <2>2, <2>3 DEF Settled
<1> QED
  BY <1>2, <1>3, <1>4, <1>7, <1>8

LEMMA ExecutedSettles ==
  ASSUME NEW L \in LevelType, NEW n \in Candles, NEW q \in Nat
  PROVE  Settled(Executed(L, n, q).stats, L.stats, n)
<1>1. CASE q = 0
  BY <1>1, OperationsSettle DEF Executed, Touched
<1>2. CASE q # 0
  <2> DEFINE M == Inferred(L, n, Missing(L, q))
  <2>1. Missing(L, q) \in Nat /\ q <= Total(M)
    BY InferredCovers
  <2>2. M \in LevelType /\ Settled(M.stats, L.stats, n)
    BY <2>1, InferredType, OperationsSettle
  <2>3. Executed(L, n, q) = Traded(M, n, q)
    BY <1>2 DEF Executed
  <2> HIDE DEF M
  <2>4. Settled(Traded(M, n, q).stats, M.stats, n) /\ Traded(M, n, q) \in LevelType
    BY <2>1, <2>2, OperationsSettle, TradedType
  <2>5. /\ L.stats \in [Candles -> StatsType] /\ M.stats \in [Candles -> StatsType]
        /\ Traded(M, n, q).stats \in [Candles -> StatsType]
    BY <2>2, <2>4 DEF LevelType
  <2> QED
    BY <2>2, <2>3, <2>4, <2>5, SettledTrans
<1> QED
  BY <1>1, <1>2

LEMMA AddedSettles ==
  ASSUME NEW L \in LevelType, NEW n \in Candles, NEW q \in Nat
  PROVE  Settled(Added(L, n, q).stats, L.stats, n)
  BY OperationsSettle DEF Added, Touched

\* An event inside the reported window leaves the records of every other candle
\* as they were, except for the refill that has left.
LEMMA EventSettles ==
  ASSUME TypeOK, Next, ~Tick, ~Opens
  PROVE  \A l \in Levels : Settled(levels'[l].stats, levels[l].stats, Now)
<1> DEFINE Since(l) == {L \in LevelType : Settled(L.stats, levels[l].stats, Now)}
           G == [l \in Levels |-> Since(l)]
<1>1. Now \in Candles /\ Base = levels /\ levels \in [Levels -> LevelType]
  BY NowType DEF TypeOK, Base
<1>2. ASSUME NEW l \in Levels, NEW L \in G[l], NEW M \in LevelType,
             Settled(M.stats, L.stats, Now)
      PROVE  M \in G[l]
  <2>1. L \in LevelType /\ Settled(L.stats, levels[l].stats, Now)
    OBVIOUS
  <2>2. /\ L.stats \in [Candles -> StatsType] /\ M.stats \in [Candles -> StatsType]
        /\ levels[l].stats \in [Candles -> StatsType]
    BY <1>1, <2>1 DEF LevelType
  <2>3. Settled(M.stats, levels[l].stats, Now)
    BY <1>1, <1>2, <2>1, <2>2, SettledTrans
  <2> QED
    BY <2>3
<1>3. G \in [Levels -> SUBSET LevelType]
  OBVIOUS
<1>4. \A l \in Levels : \A L \in G[l] : L \in LevelType
  OBVIOUS
<1>5. \A l \in Levels : Base[l] \in G[l]
  BY <1>1, SeenSettles
<1>6. \A l \in Levels : G[l] = Since(l)
  OBVIOUS
<1> HIDE DEF G
<1>7. \A l \in Levels : \A L \in G[l] : Emptied(L, Now) \in G[l]
  BY <1>1, <1>2, <1>4, EmptiedType, OperationsSettle
<1>8. \A l \in Levels : \A L \in G[l], q \in Nat : Withdrawn(L, Now, q) \in G[l]
  BY <1>1, <1>2, <1>4, WithdrawnType, OperationsSettle
<1>9. \A l \in Levels : \A L \in G[l], q \in Nat : Inferred(L, Now, q) \in G[l]
  BY <1>1, <1>2, <1>4, InferredType, OperationsSettle
<1>10. \A l \in Levels : \A L \in G[l], q \in Nat : Executed(L, Now, q) \in G[l]
  BY <1>1, <1>2, <1>4, ExecutedType, ExecutedSettles
<1>11. \A l \in Levels : \A L \in G[l], q \in Nat : Added(L, Now, q) \in G[l]
  BY <1>1, <1>2, <1>4, AddedType, AddedSettles
<1>12. \A l \in Levels : levels'[l] \in G[l]
  BY <1>3, <1>5, <1>7, <1>8, <1>9, <1>10, <1>11, ClosedPerLevel
<1> QED
  BY <1>6, <1>12

\* While the reported window stays open, what a finished candle opened with,
\* added, executed, withdrew and closed with never changes again, and what is
\* known to have left of its refill only grows, for any feed and any candles.
THEOREM PastCandlesStaySettled == Spec => PastCandlesSettled
<1>1. ASSUME TypeOK, [Next]_vars, ~Opens, NEW l \in Levels, NEW c \in Candles, c < Now
      PROVE  /\ Flows(Stats(l, c)') = Flows(Stats(l, c))
             /\ Stats(l, c).refillExecuted <= Stats(l, c).refillExecuted'
             /\ Stats(l, c).refillWithdrawn <= Stats(l, c).refillWithdrawn'
  <2>1. c # Now
    BY <1>1, CandlesArePositive, NowType
  <2>2. CASE Next /\ ~Tick
    BY <1>1, <2>1, <2>2, EventSettles DEF Settled, Stats
  <2>3. CASE Tick \/ UNCHANGED vars
    <3>1. levels' = levels
      BY <2>3 DEF Tick, vars
    <3>2. levels[l].stats[c] \in StatsType
      BY <1>1 DEF TypeOK, LevelType
    <3> QED
      BY <3>1, <3>2 DEF Stats, StatsType
  <2> QED
    BY <1>1, <2>2, <2>3
<1>2. TypeOK /\ [Next]_vars =>
        (~Opens => \A l \in Levels, c \in Candles :
           c < Now => /\ Flows(Stats(l, c)') = Flows(Stats(l, c))
                      /\ Stats(l, c).refillExecuted <= Stats(l, c).refillExecuted'
                      /\ Stats(l, c).refillWithdrawn <= Stats(l, c).refillWithdrawn')
  BY <1>1
<1> QED
  BY <1>2, TypeCorrect, PTL DEF Spec, PastCandlesSettled

-----------------------------------------------------------------------------
(* Counting the contracts of a refill queue by their candle.               *)

\* The positions of a queue that hold contracts of candle c.
Positions(units, c) == {i \in DOMAIN units : units[i] = c}

LEMMA PositionsFinite ==
  ASSUME NEW units \in Seq(Candles), NEW c
  PROVE  /\ IsFiniteSet(Positions(units, c))
         /\ CountOf(units, c) = Cardinality(Positions(units, c))
<1>1. DOMAIN units = 1 .. Len(units) /\ Len(units) \in Nat
  OBVIOUS
<1>2. IsFiniteSet(1 .. Len(units))
  BY <1>1, FS_Interval
<1> QED
  BY <1>1, <1>2, FS_Subset DEF Positions, CountOf

\* Two queues one behind the other hold what both hold.
LEMMA CountOfConcat ==
  ASSUME NEW s \in Seq(Candles), NEW t \in Seq(Candles), NEW c \in Candles
  PROVE  CountOf(s \o t, c) = CountOf(s, c) + CountOf(t, c)
<1> DEFINE m == Len(s)
           A == Positions(s, c)
           B == Positions(t, c)
           C == {j \in m + 1 .. m + Len(t) : t[j - m] = c}
           f == [i \in B |-> i + m]
<1>1. m \in Nat /\ Len(t) \in Nat /\ DOMAIN s = 1 .. m /\ DOMAIN t = 1 .. Len(t)
  OBVIOUS
<1>2. s \o t \in Seq(Candles) /\ Len(s \o t) = m + Len(t)
  OBVIOUS
<1>3. \A i \in 1 .. m + Len(t) : (s \o t)[i] = IF i <= m THEN s[i] ELSE t[i - m]
  OBVIOUS
<1>4. Positions(s \o t, c) = A \cup C
  BY <1>1, <1>2, <1>3 DEF Positions
<1>5. A \cap C = {}
  BY <1>1 DEF Positions
<1>6. f \in Bijection(B, C)
  <2>1. f \in [B -> C]
    BY <1>1 DEF Positions
  <2>2. \A i, j \in B : f[i] = f[j] => i = j
    BY <1>1 DEF Positions
  <2>3. ASSUME NEW j \in C
        PROVE  \E i \in B : f[i] = j
    <3>1. j - m \in B /\ f[j - m] = j
      BY <1>1 DEF Positions
    <3> QED
      BY <3>1
  <2> QED
    BY <2>1, <2>2, <2>3 DEF Bijection, Injection, Surjection, IsInjective
<1>7. IsFiniteSet(A) /\ IsFiniteSet(B)
  BY PositionsFinite
<1> HIDE DEF f, A, B, C
<1>8. IsFiniteSet(C) /\ Cardinality(C) = Cardinality(B)
  BY <1>6, <1>7, FS_Bijection DEF ExistsBijection
<1>9. Cardinality(A \cap C) = 0
  BY <1>5, FS_EmptySet
<1>10. Cardinality(A) \in Nat /\ Cardinality(C) \in Nat
  BY <1>7, <1>8, FS_CardinalityType
<1>11. Cardinality(A \cup C) = Cardinality(A) + Cardinality(C)
  <2>1. Cardinality(A \cup C) = Cardinality(A) + Cardinality(C) - Cardinality(A \cap C)
    BY <1>7, <1>8, FS_Union
  <2> QED
    BY <1>9, <1>10, <2>1
<1>12. CountOf(s, c) = Cardinality(A) /\ CountOf(t, c) = Cardinality(B)
       /\ CountOf(s \o t, c) = Cardinality(A \cup C)
  BY <1>2, <1>4, PositionsFinite DEF A, B
<1> QED
  BY <1>8, <1>11, <1>12

\* What leaves a queue from its front and what stays are the whole queue.
LEMMA CountOfSplit ==
  ASSUME NEW L \in LevelType, NEW q \in Nat, NEW c \in Candles
  PROVE  /\ RefillGone(L, q, c) \in Nat /\ CountOf(RefillLeft(L, q), c) \in Nat
         /\ RefillGone(L, q, c) + CountOf(RefillLeft(L, q), c) = CountOf(L.refill, c)
<1> DEFINE k == RefillTaken(L, q)
           s == L.refill
<1>1. s \in Seq(Candles) /\ k \in 0 .. Len(s) /\ Len(s) \in Nat
  <2>1. s \in Seq(Candles)
    BY DEF LevelType
  <2>2. k \in 0 .. Len(s)
    BY TakenBounds
  <2> QED
    BY <2>1, <2>2
<1>2. SubSeq(s, 1, k) \in Seq(Candles) /\ SubSeq(s, k + 1, Len(s)) \in Seq(Candles)
  BY <1>1
<1> DEFINE gone == SubSeq(s, 1, k)
           left == SubSeq(s, k + 1, Len(s))
<1>3. gone \o left = s
  <2> HIDE DEF k, s
  <2>1. 1 \in 1 .. Len(s) + 1 /\ k \in 1 - 1 .. Len(s) /\ Len(s) \in k .. Len(s)
    BY <1>1
  <2>2. SubSeq(s, 1, k) \o SubSeq(s, k + 1, Len(s)) = SubSeq(s, 1, Len(s))
    BY <1>1, <2>1, ConcatAdjacentSubSeq
  <2> QED
    BY <1>1, <2>2, SubSeqFull
<1>4. RefillGone(L, q, c) = CountOf(gone, c) /\ RefillLeft(L, q) = left
  BY DEF RefillGone, RefillLeft
<1> HIDE DEF gone, left
<1>5. gone \in Seq(Candles) /\ left \in Seq(Candles)
  BY <1>2 DEF gone, left
<1>6. CountOf(gone \o left, c) = CountOf(gone, c) + CountOf(left, c)
  BY <1>5, CountOfConcat
<1>7. CountOf(gone, c) \in Nat /\ CountOf(left, c) \in Nat
  BY <1>5, CountOfType
<1> QED
  BY <1>3, <1>4, <1>6, <1>7

\* A new lot of n contracts counts for its own candle only.
Lot(n, c) == [i \in 1 .. n |-> c]

LEMMA CountOfLot ==
  ASSUME NEW L \in LevelType, NEW n \in Nat, NEW c \in Candles, NEW d \in Candles
  PROVE  CountOf(L.refill \o Lot(n, c), d) = CountOf(L.refill, d) + (IF d = c THEN n ELSE 0)
<1>1. /\ Lot(n, c) \in Seq(Candles) /\ DOMAIN Lot(n, c) = 1 .. n
      /\ \A i \in 1 .. n : Lot(n, c)[i] = c
  BY DEF Lot
<1>2. d = c => Positions(Lot(n, c), d) = 1 .. n
  BY <1>1 DEF Positions
<1>3. d # c => Positions(Lot(n, c), d) = {}
  BY <1>1 DEF Positions
<1>4. CountOf(Lot(n, c), d) = IF d = c THEN n ELSE 0
  <2>1. CountOf(Lot(n, c), d) = Cardinality(Positions(Lot(n, c), d))
    BY <1>1, PositionsFinite
  <2>2. Cardinality(1 .. n) = n
    BY FS_Interval
  <2> QED
    BY <1>2, <1>3, <2>1, <2>2, FS_EmptySet
<1>5. L.refill \in Seq(Candles)
  BY DEF LevelType
<1> QED
  BY <1>1, <1>4, <1>5, CountOfConcat

LEMMA CountOfNone == \A c : CountOf(<<>>, c) = 0
  BY FS_EmptySet DEF CountOf

-----------------------------------------------------------------------------
(* Every contract of a refill lot is charged at most once.  The bound is   *)
(* inductive with the lots that no record stands for: none of a candle     *)
(* whose record may still be created.                                      *)

\* A record that stands for count contracts of refill that still rest.
Charged(r, count) == r.refillExecuted + r.refillWithdrawn + count <= r.refillAdded

Accounted(L, n) ==
  \A c \in Candles :
    ~Split(c) => /\ L.stats[c].known => Charged(L.stats[c], CountOf(L.refill, c))
                 /\ c = n /\ ~L.stats[c].known => CountOf(L.refill, c) = 0
                 /\ c > n => ~L.stats[c].known /\ CountOf(L.refill, c) = 0

\* Before the reported window opens every refill lot is of a candle with an
\* instant before it.
EarlyLots(L) ==
  \A c \in Candles : CountOf(L.refill, c) # 0 => \E t \in Ticks : t < EmitStart /\ CandleOf(t) = c

LEMMA BookCharged ==
  ASSUME NEW r \in StatsType, NEW opening, NEW plain, NEW refill \in Nat, NEW executed,
         NEW withdrawn, NEW total, NEW count \in Nat, Charged(r, count)
  PROVE  /\ Book(r, opening, plain, refill, executed, withdrawn, total).known
         /\ Charged(Book(r, opening, plain, refill, executed, withdrawn, total), count + refill)
  BY DEF Book, Charged, StatsType

LEMMA ChargeCharged ==
  ASSUME NEW r \in StatsType, NEW executed \in Nat, NEW withdrawn \in Nat, NEW count \in Nat,
         Charged(r, executed + withdrawn + count), r.known
  PROVE  Charged(Charge(r, executed, withdrawn), count)
  BY DEF Charge, Charged, StatsType

\* The record of the running candle before anything is booked on it.
LEMMA SeenAccounted ==
  ASSUME NEW L \in LevelType, NEW n \in Candles, Accounted(L, n)
  PROVE  /\ StatsAt(L, n).known
         /\ ~Split(n) => Charged(StatsAt(L, n), CountOf(L.refill, n))
<1>1. CASE L.stats[n].known
  BY <1>1 DEF StatsAt, Accounted
<1>2. CASE ~L.stats[n].known
  <2>1. StatsAt(L, n).known /\ StatsAt(L, n).refillExecuted = 0
        /\ StatsAt(L, n).refillWithdrawn = 0 /\ StatsAt(L, n).refillAdded = 0
    BY <1>2 DEF StatsAt, Book, NoStats
  <2>2. ~Split(n) => CountOf(L.refill, n) = 0
    BY <1>2 DEF Accounted
  <2> QED
    BY <2>1, <2>2 DEF Charged
<1> QED
  BY <1>1, <1>2

\* A step that charges what left and books the rest keeps a level accounted.
LEMMA AccountedUpdate ==
  ASSUME NEW n \in Candles, NEW L, NEW M, Accounted(L, n),
         L.stats \in [Candles -> StatsType],
         NEW S \in [Candles -> StatsType], NEW r, M.stats = [S EXCEPT ![n] = r],
         \A d \in Candles \ {n} : S[d].known = L.stats[d].known,
         \A d \in Candles \ {n} :
           /\ CountOf(L.refill, d) = 0 => CountOf(M.refill, d) = 0
           /\ Charged(L.stats[d], CountOf(L.refill, d)) /\ L.stats[d].known
                => Charged(S[d], CountOf(M.refill, d)),
         r.known, ~Split(n) => Charged(r, CountOf(M.refill, n))
  PROVE  Accounted(M, n)
<1>1. M.stats[n] = r /\ \A d \in Candles \ {n} : M.stats[d] = S[d]
  OBVIOUS
<1>2. n \in Nat /\ \A d \in Candles : d > n => d # n
  BY CandlesArePositive
<1> SUFFICES ASSUME NEW c \in Candles, ~Split(c)
             PROVE  /\ M.stats[c].known => Charged(M.stats[c], CountOf(M.refill, c))
                    /\ c = n /\ ~M.stats[c].known => CountOf(M.refill, c) = 0
                    /\ c > n => ~M.stats[c].known /\ CountOf(M.refill, c) = 0
  BY DEF Accounted
<1>3. CASE c = n
  BY <1>1, <1>2, <1>3
<1>4. CASE c # n
  <2>1. M.stats[c] = S[c] /\ S[c].known = L.stats[c].known
    BY <1>1, <1>4
  <2>2. /\ L.stats[c].known => Charged(L.stats[c], CountOf(L.refill, c))
        /\ c > n => ~L.stats[c].known /\ CountOf(L.refill, c) = 0
    BY DEF Accounted
  <2> QED
    BY <1>4, <2>1, <2>2
<1> QED
  BY <1>3, <1>4

LEMMA InferredAccounted ==
  ASSUME NEW L \in LevelType, NEW n \in Candles, NEW q \in Nat, Accounted(L, n)
  PROVE  Accounted(Inferred(L, n, q), n)
<1> DEFINE M == Inferred(L, n, q)
           r == Book(StatsAt(L, n), q, 0, 0, 0, 0, Total(L) + q)
<1>1. L.stats \in [Candles -> StatsType] /\ L.refill \in Seq(Candles)
      /\ StatsAt(L, n) \in StatsType
  BY StatsAtType DEF LevelType
<1>2. CountOf(L.refill, n) \in Nat
  BY <1>1, CountOfType
<1>3. M.stats = [L.stats EXCEPT ![n] = r] /\ M.refill = L.refill
  BY DEF Inferred
<1>4. r.known
  BY DEF Book
<1>5. ~Split(n) => Charged(r, CountOf(L.refill, n) + 0)
  BY <1>1, <1>2, SeenAccounted, BookCharged
<1> HIDE DEF M, r
<1>6. Accounted(M, n)
  BY <1>1, <1>2, <1>3, <1>4, <1>5, AccountedUpdate
<1> QED
  BY <1>6 DEF M

\* What leaves the refill queue is charged to the records it came from.
LEMMA WithdrawnAccounted ==
  ASSUME NEW L \in LevelType, NEW n \in Candles, NEW q \in Nat, Accounted(L, n)
  PROVE  Accounted(Withdrawn(L, n, q), n)
<1> DEFINE M == Withdrawn(L, n, q)
           S == WithdrawnStats(L, n, q)
           r == Book(S[n], 0, 0, 0, 0, Taken(L, q), Total(L) - Taken(L, q))
<1>1. /\ L.stats \in [Candles -> StatsType] /\ S \in [Candles -> StatsType]
      /\ Seen(L, n) \in [Candles -> StatsType] /\ L.refill \in Seq(Candles)
  BY WithdrawnType, StatsAtType DEF LevelType
<1>2. M.stats = [S EXCEPT ![n] = r] /\ M.refill = RefillLeft(L, q)
  BY DEF Withdrawn
<1>3. Seen(L, n)[n] = StatsAt(L, n) /\ \A d \in Candles \ {n} : Seen(L, n)[d] = L.stats[d]
  BY <1>1 DEF Seen
<1>4. \A d \in Candles : S[d] = Charge(Seen(L, n)[d], 0, RefillGone(L, q, d))
  BY DEF WithdrawnStats
<1>5. ASSUME NEW d \in Candles
      PROVE  /\ S[d].known = Seen(L, n)[d].known
             /\ CountOf(L.refill, d) = 0 => CountOf(RefillLeft(L, q), d) = 0
             /\ Charged(Seen(L, n)[d], CountOf(L.refill, d)) /\ Seen(L, n)[d].known
                  => Charged(S[d], CountOf(RefillLeft(L, q), d))
  <2>1. /\ RefillGone(L, q, d) \in Nat /\ CountOf(RefillLeft(L, q), d) \in Nat
        /\ CountOf(L.refill, d) = 0 + RefillGone(L, q, d) + CountOf(RefillLeft(L, q), d)
    BY CountOfSplit
  <2>2. CountOf(L.refill, d) = 0 => CountOf(RefillLeft(L, q), d) = 0
    BY <2>1
  <2> QED
    BY <1>1, <1>4, <2>1, <2>2, ChargeCharged, ChargeCounts
<1>6. r.known
  BY DEF Book
<1>7. ASSUME ~Split(n)
      PROVE  Charged(r, CountOf(RefillLeft(L, q), n))
  <2>1. Charged(S[n], CountOf(RefillLeft(L, q), n))
    BY <1>3, <1>5, <1>7, SeenAccounted
  <2>2. CountOf(RefillLeft(L, q), n) \in Nat
    BY CountOfSplit
  <2>3. Charged(r, CountOf(RefillLeft(L, q), n) + 0)
    BY <1>1, <2>1, <2>2, BookCharged
  <2> QED
    BY <2>2, <2>3
<1> HIDE DEF M, S, r
<1>8. \A d \in Candles \ {n} : S[d].known = L.stats[d].known
  BY <1>3, <1>5
<1>9. \A d \in Candles \ {n} :
        /\ CountOf(L.refill, d) = 0 => CountOf(M.refill, d) = 0
        /\ Charged(L.stats[d], CountOf(L.refill, d)) /\ L.stats[d].known
             => Charged(S[d], CountOf(M.refill, d))
  BY <1>2, <1>3, <1>5
<1>10. Accounted(M, n)
  BY <1>1, <1>2, <1>6, <1>7, <1>8, <1>9, AccountedUpdate
<1> QED
  BY <1>10 DEF M

LEMMA TradedAccounted ==
  ASSUME NEW L \in LevelType, NEW n \in Candles, NEW q \in Nat, q <= Total(L),
         Accounted(L, n)
  PROVE  Accounted(Traded(L, n, q), n)
<1> DEFINE M == Traded(L, n, q)
           S == ExecutedStats(L, n, q)
           r == Book(S[n], 0, 0, 0, q, 0, Total(L) - q)
<1>1. /\ L.stats \in [Candles -> StatsType] /\ S \in [Candles -> StatsType]
      /\ Seen(L, n) \in [Candles -> StatsType] /\ L.refill \in Seq(Candles)
  BY TradedType, StatsAtType DEF LevelType
<1>2. M.stats = [S EXCEPT ![n] = r] /\ M.refill = RefillLeft(L, q)
  BY DEF Traded
<1>3. Seen(L, n)[n] = StatsAt(L, n) /\ \A d \in Candles \ {n} : Seen(L, n)[d] = L.stats[d]
  BY <1>1 DEF Seen
<1>4. \A d \in Candles : S[d] = Charge(Seen(L, n)[d], RefillGone(L, q, d), 0)
  BY DEF ExecutedStats
<1>5. ASSUME NEW d \in Candles
      PROVE  /\ S[d].known = Seen(L, n)[d].known
             /\ CountOf(L.refill, d) = 0 => CountOf(RefillLeft(L, q), d) = 0
             /\ Charged(Seen(L, n)[d], CountOf(L.refill, d)) /\ Seen(L, n)[d].known
                  => Charged(S[d], CountOf(RefillLeft(L, q), d))
  <2>1. /\ RefillGone(L, q, d) \in Nat /\ CountOf(RefillLeft(L, q), d) \in Nat
        /\ CountOf(L.refill, d) = RefillGone(L, q, d) + 0 + CountOf(RefillLeft(L, q), d)
    BY CountOfSplit
  <2>2. CountOf(L.refill, d) = 0 => CountOf(RefillLeft(L, q), d) = 0
    BY <2>1
  <2> DEFINE e == Seen(L, n)[d]
  <2>3. e \in StatsType /\ S[d] = Charge(e, RefillGone(L, q, d), 0)
    BY <1>1, <1>4
  <2> HIDE DEF e
  <2>4. Charge(e, RefillGone(L, q, d), 0).known = e.known
    BY <2>1, <2>3, ChargeCounts
  <2>5. Charged(e, CountOf(L.refill, d)) /\ e.known
          => Charged(Charge(e, RefillGone(L, q, d), 0), CountOf(RefillLeft(L, q), d))
    BY <2>1, <2>3, ChargeCharged
  <2> QED
    BY <2>2, <2>3, <2>4, <2>5 DEF e
<1>6. r.known
  BY DEF Book
<1>7. ASSUME ~Split(n)
      PROVE  Charged(r, CountOf(RefillLeft(L, q), n))
  <2>1. Charged(S[n], CountOf(RefillLeft(L, q), n))
    BY <1>3, <1>5, <1>7, SeenAccounted
  <2>2. CountOf(RefillLeft(L, q), n) \in Nat
    BY CountOfSplit
  <2>3. Charged(r, CountOf(RefillLeft(L, q), n) + 0)
    BY <1>1, <2>1, <2>2, BookCharged
  <2> QED
    BY <2>2, <2>3
<1> HIDE DEF M, S, r
<1>8. \A d \in Candles \ {n} : S[d].known = L.stats[d].known
  BY <1>3, <1>5
<1>9. \A d \in Candles \ {n} :
        /\ CountOf(L.refill, d) = 0 => CountOf(M.refill, d) = 0
        /\ Charged(L.stats[d], CountOf(L.refill, d)) /\ L.stats[d].known
             => Charged(S[d], CountOf(M.refill, d))
  BY <1>2, <1>3, <1>5
<1>10. Accounted(M, n)
  BY <1>1, <1>2, <1>6, <1>7, <1>8, <1>9, AccountedUpdate
<1> QED
  BY <1>10 DEF M

LEMMA ExecutedAccounted ==
  ASSUME NEW L \in LevelType, NEW n \in Candles, NEW q \in Nat, Accounted(L, n)
  PROVE  Accounted(Executed(L, n, q), n)
  BY InferredType, InferredAccounted, InferredCovers, TradedAccounted DEF Executed, Touched

\* A replaced execution is a lot of the running candle and booked there.
LEMMA StackedAccounted ==
  ASSUME NEW L \in LevelType, NEW n \in Candles, NEW q \in Nat, Accounted(L, n)
  PROVE  Accounted(Stacked(L, n, q), n)
<1> DEFINE M == Stacked(L, n, q)
           part == RefillPart(L, n, q)
           r == Book(StatsAt(L, n), 0, q - part, part, 0, 0, Total(L) + q)
<1>1. L.stats \in [Candles -> StatsType] /\ L.refill \in Seq(Candles)
      /\ StatsAt(L, n) \in StatsType /\ part \in Nat
  <2>1. part \in Nat
    BY LivePendingType
  <2> HIDE DEF part
  <2> QED
    BY <2>1, StatsAtType DEF LevelType
<1>2. CountOf(L.refill, n) \in Nat
  BY <1>1, CountOfType
<1>3. M.stats = [L.stats EXCEPT ![n] = r] /\ M.refill = L.refill \o Lot(part, n)
  BY DEF Stacked, Lot
<1>4. r.known
  BY DEF Book
<1>5. ~Split(n) => Charged(r, CountOf(L.refill, n) + part)
  BY <1>1, <1>2, SeenAccounted, BookCharged
<1> HIDE DEF M, r, part
<1>6. CountOf(M.refill, n) = CountOf(L.refill, n) + part
  BY <1>1, <1>3, CountOfLot
<1>7. \A d \in Candles \ {n} : CountOf(M.refill, d) = CountOf(L.refill, d)
  <2> SUFFICES ASSUME NEW d \in Candles \ {n}
               PROVE  CountOf(M.refill, d) = CountOf(L.refill, d)
    OBVIOUS
  <2>1. CountOf(L.refill, d) \in Nat
    BY <1>1, CountOfType
  <2>2. d \in Candles /\ d # n
    OBVIOUS
  <2>3. CountOf(L.refill \o Lot(part, n), d) = CountOf(L.refill, d) + 0
    BY <1>1, <2>2, CountOfLot
  <2> QED
    BY <1>3, <2>1, <2>3
<1>8. M.stats = [L.stats EXCEPT ![n] = r] /\ L.stats \in [Candles -> StatsType]
  BY <1>1, <1>3
<1>9. ~Split(n) => Charged(r, CountOf(M.refill, n))
  BY <1>5, <1>6
<1>10. Accounted(M, n)
  BY <1>4, <1>7, <1>8, <1>9, AccountedUpdate
<1> QED
  BY <1>10 DEF M

LEMMA AddedAccounted ==
  ASSUME NEW L \in LevelType, NEW n \in Candles, NEW q \in Nat, Accounted(L, n)
  PROVE  Accounted(Added(L, n, q), n)
  BY InferredAccounted, StackedAccounted DEF Added, Touched

LEMMA EmptiedAccounted ==
  ASSUME NEW L \in LevelType, NEW n \in Candles, Accounted(L, n)
  PROVE  Accounted(Emptied(L, n), n)
<1>1. Emptied(L, n).stats = L.stats /\ Emptied(L, n).refill = <<>>
  BY DEF Emptied
<1>2. \A c \in Candles : CountOf(L.refill, c) \in Nat /\ CountOf(<<>>, c) = 0
  BY CountOfType, CountOfNone DEF LevelType
<1>3. ASSUME NEW c \in Candles, Charged(L.stats[c], CountOf(L.refill, c))
      PROVE  Charged(L.stats[c], 0)
  <2>1. L.stats[c] \in StatsType
    BY DEF LevelType
  <2>2. /\ L.stats[c].refillExecuted \in Nat /\ L.stats[c].refillWithdrawn \in Nat
        /\ L.stats[c].refillAdded \in Nat /\ CountOf(L.refill, c) \in Nat
    BY <1>2, <2>1 DEF StatsType
  <2> QED
    BY <1>3, <2>2 DEF Charged
<1> QED
  BY <1>1, <1>2, <1>3 DEF Accounted

\* Opening the window drops the records; the lots that stay are of candles
\* that are over, or of the one the window cuts.
LEMMA ReopenedAccounted ==
  ASSUME NEW L \in LevelType, NEW t \in Ticks, EmitStart <= t,
         Accounted(L, CandleOf(t)), EarlyLots(L)
  PROVE  Accounted(Reopened(L), CandleOf(t))
<1>1. \A d \in Candles : ~Reopened(L).stats[d].known
  BY NoStatsType DEF Reopened, NoHistory
<1>2. Reopened(L).refill = L.refill
  BY DEF Reopened
<1>3. ~Split(CandleOf(t)) /\ CandleOf(t) \in Candles => CountOf(L.refill, CandleOf(t)) = 0
  BY DEF EarlyLots, Split
<1> QED
  BY <1>1, <1>2, <1>3 DEF Accounted

LEMMA AccountedLater ==
  ASSUME NEW L \in LevelType, NEW m \in Candles, NEW n \in Candles, m <= n, Accounted(L, m)
  PROVE  Accounted(L, n)
<1>1. m \in Nat /\ n \in Nat
  BY CandlesArePositive
<1>2. \A c \in Candles : /\ c > n => c > m
                         /\ c = n => c = m \/ c > m
  BY <1>1, CandlesArePositive
<1> QED
  BY <1>2 DEF Accounted

-----------------------------------------------------------------------------
(* Every step keeps every level accounted.                                 *)

LevelsAccounted ==
  \A l \in Levels : Accounted(levels[l], Now) /\ (~emitting => EarlyLots(levels[l]))

\* Lots stay of early candles while the running candle is one.
LEMMA LotsStayEarly ==
  ASSUME NEW L \in LevelType, NEW n \in Candles, NEW q \in Nat, EarlyLots(L),
         \E t \in Ticks : t < EmitStart /\ CandleOf(t) = n
  PROVE  /\ EarlyLots(Emptied(L, n)) /\ EarlyLots(Inferred(L, n, q))
         /\ EarlyLots(Withdrawn(L, n, q)) /\ EarlyLots(Traded(L, n, q))
         /\ EarlyLots(Stacked(L, n, q))
<1>1. EarlyLots(Emptied(L, n))
  BY CountOfNone DEF EarlyLots, Emptied
<1>2. EarlyLots(Inferred(L, n, q))
  BY DEF EarlyLots, Inferred
<1>3. \A c \in Candles : CountOf(RefillLeft(L, q), c) # 0 => CountOf(L.refill, c) # 0
  BY CountOfSplit
<1>4. EarlyLots(Withdrawn(L, n, q)) /\ EarlyLots(Traded(L, n, q))
  BY <1>3 DEF EarlyLots, Withdrawn, Traded
<1>5. EarlyLots(Stacked(L, n, q))
  <2> DEFINE part == RefillPart(L, n, q)
  <2>0. part \in Nat
    BY LivePendingType
  <2>1. part \in Nat /\ Stacked(L, n, q).refill = L.refill \o Lot(part, n)
    BY <2>0 DEF Stacked, Lot
  <2> HIDE DEF part
  <2>2. ASSUME NEW c \in Candles, c # n
        PROVE  CountOf(Stacked(L, n, q).refill, c) = CountOf(L.refill, c)
    <3>1. CountOf(L.refill, c) \in Nat
      BY CountOfType DEF LevelType
    <3> QED
      BY <2>1, <2>2, <3>1, CountOfLot
  <2> QED
    BY <2>2 DEF EarlyLots
<1> QED
  BY <1>1, <1>2, <1>4, <1>5

LEMMA AccountedStep == TypeOK /\ LevelsAccounted /\ [Next]_vars => LevelsAccounted'
<1> SUFFICES ASSUME TypeOK, LevelsAccounted, [Next]_vars
             PROVE  LevelsAccounted'
  OBVIOUS
<1>1. Now \in Candles /\ clock \in Ticks /\ clock \in Nat /\ EmitStart \in Nat
      /\ emitting \in BOOLEAN
  BY NowType, BoundAssumption DEF TypeOK, Ticks
<1>2. CASE Tick
  <2>1. Now' \in Candles /\ Now <= Now'
    BY <1>2, BoundAssumption, CandleAssumption DEF Tick, TypeOK, Now, Ticks, Candles
  <2> QED
    BY <1>1, <1>2, <2>1, AccountedLater DEF Tick, LevelsAccounted, TypeOK
<1>3. CASE UNCHANGED vars
  BY <1>3 DEF vars, LevelsAccounted, Now
<1>4. CASE Next /\ ~Tick
  <2> DEFINE before == ~emitting /\ clock < EmitStart
             G == {L \in LevelType : Accounted(L, Now) /\ (before => EarlyLots(L))}
  <2>0. Deliver
    BY <1>4 DEF Next, OrderEvent, AddOrder, MoveOrder, DiscoverOrder, FillOrder,
                ResizeOrder, UnpricedEvent, CancelOrder, ClearBook, IgnoreEvent
  <2>1. Base \in [Levels -> G]
    <3>1. CASE Opens
      <4>1. \A l \in Levels : Accounted(Reopened(levels[l]), Now)
        BY <1>1, <3>1, ReopenedAccounted DEF TypeOK, LevelsAccounted, Opens, Now
      <4> QED
        BY <1>1, <3>1, <4>1, BaseType, ReopenedType DEF Base, Opens, TypeOK
    <3>2. CASE ~Opens
      BY <3>2, BaseType DEF Base, LevelsAccounted, TypeOK
    <3> QED
      BY <3>1, <3>2
  <2>2. before => \E t \in Ticks : t < EmitStart /\ CandleOf(t) = Now
    BY <1>1 DEF Now
  <2>3. ASSUME NEW L \in G
        PROVE  Emptied(L, Now) \in G
    BY <1>1, <2>2, EmptiedType, EmptiedAccounted, LotsStayEarly
  <2>4. ASSUME NEW L \in G, NEW q \in Nat
        PROVE  Withdrawn(L, Now, q) \in G
    BY <1>1, <2>2, WithdrawnType, WithdrawnAccounted, LotsStayEarly
  <2>5. ASSUME NEW L \in G, NEW q \in Nat
        PROVE  Inferred(L, Now, q) \in G
    BY <1>1, <2>2, InferredType, InferredAccounted, LotsStayEarly
  <2>6. ASSUME NEW L \in G, NEW q \in Nat
        PROVE  Executed(L, Now, q) \in G
    <3>1. before => EarlyLots(Executed(L, Now, q))
      BY <1>1, <2>2, InferredType, InferredCovers, LotsStayEarly DEF Executed, Touched
    <3> QED
      BY <1>1, <3>1, ExecutedType, ExecutedAccounted
  <2>7. ASSUME NEW L \in G, NEW q \in Nat
        PROVE  Added(L, Now, q) \in G
    <3>1. before => EarlyLots(Added(L, Now, q))
      BY <1>1, <2>2, LotsStayEarly DEF Added, Touched
    <3> QED
      BY <1>1, <3>1, AddedType, AddedAccounted
  <2>8. G \in SUBSET LevelType
    OBVIOUS
  <2> HIDE DEF G
  <2>9. levels' \in [Levels -> G]
    BY <1>4, <2>1, <2>3, <2>4, <2>5, <2>6, <2>7, <2>8, ClosedUnderEvents
  <2>10. UNCHANGED clock /\ (~emitting' => before)
    <3>1. UNCHANGED clock /\ (~emitting' => ~emitting /\ ~(clock >= EmitStart))
      BY <2>0 DEF Deliver
    <3> QED
      BY <1>1, <3>1
  <2> QED
    BY <2>9, <2>10 DEF G, LevelsAccounted, Now
<1> QED
  BY <1>2, <1>3, <1>4

\* Refill that was executed, withdrawn or still rests is never more than the
\* refill added, in every candle the reported window does not cut, for any
\* feed, sizes, candles and window.
THEOREM RefillIsAccounted == Spec => []RefillAccounted
<1>1. Init => LevelsAccounted
  <2>1. \A c \in Candles : ~EmptyLevel.stats[c].known /\ CountOf(EmptyLevel.refill, c) = 0
    BY NoStatsType, CountOfNone DEF EmptyLevel, NoHistory
  <2>2. \A n \in Candles : Accounted(EmptyLevel, n) /\ EarlyLots(EmptyLevel)
    BY <2>1 DEF Accounted, EarlyLots
  <2>3. Init => Now \in Candles
    BY TypeInit, NowType
  <2> QED
    BY <2>2, <2>3 DEF Init, LevelsAccounted
<1>2. LevelsAccounted => RefillAccounted
  BY DEF LevelsAccounted, Accounted, Charged, RefillAccounted, Stats
<1> QED
  BY <1>1, <1>2, TypeInit, TypeStep, AccountedStep, PTL DEF Spec


-----------------------------------------------------------------------------
(* What the orders of a table rest at a level.                             *)

\* The contracts an entry of an order table rests at level l.
Rest(e, l) == IF e # NoOrder /\ e.level = l THEN e.size ELSE 0

\* One unit for every contract the orders of a table rest at level l.
Units(f, l) ==
  {u \in Orders \X (1 .. MaxQty) :
     f[u[1]] # NoOrder /\ f[u[1]].level = l /\ u[2] <= f[u[1]].size}

OtherUnits(f, o, l) == {u \in Units(f, l) : u[1] # o}

Tables == [Orders -> Tracked \cup {NoOrder}]

LEMMA DemandIsUnits == \A l : Demand(l) = Cardinality(Units(orders, l))
  BY DEF Demand, RestingUnits, Units, Known

LEMMA RestType ==
  ASSUME NEW e \in Tracked \cup {NoOrder}, NEW l
  PROVE  Rest(e, l) \in 0 .. MaxQty
  BY BoundAssumption DEF Rest, Tracked, Sizes

LEMMA UnitsFinite ==
  ASSUME NEW f, NEW o, NEW l
  PROVE  /\ IsFiniteSet(Units(f, l)) /\ IsFiniteSet(OtherUnits(f, o, l))
         /\ Cardinality(Units(f, l)) \in Nat /\ Cardinality(OtherUnits(f, o, l)) \in Nat
<1>1. IsFiniteSet(1 .. MaxQty)
  BY BoundAssumption, FS_Interval
<1>2. IsFiniteSet(Orders \X (1 .. MaxQty))
  BY <1>1, IdAssumption, FS_Product
<1>3. IsFiniteSet(Units(f, l)) /\ IsFiniteSet(OtherUnits(f, o, l))
  BY <1>2, FS_Subset DEF Units, OtherUnits
<1> QED
  BY <1>3, FS_CardinalityType

\* What rests at a level is what one order rests there and what the others do.
LEMMA UnitsSplit ==
  ASSUME NEW f \in Tables, NEW o \in Orders, NEW l
  PROVE  Cardinality(Units(f, l)) = Cardinality(OtherUnits(f, o, l)) + Rest(f[o], l)
<1> DEFINE n == Rest(f[o], l)
           own == {o} \X (1 .. n)
<1>1. n \in 0 .. MaxQty /\ MaxQty \in Nat /\ f[o] \in Tracked \cup {NoOrder}
  BY RestType, BoundAssumption DEF Tables
<1>2. Units(f, l) = OtherUnits(f, o, l) \cup own
  <2>1. ASSUME NEW u \in Units(f, l), u[1] = o
        PROVE  u \in own
    <3>1. u \in Orders \X (1 .. MaxQty) /\ f[o] # NoOrder /\ f[o].level = l /\ u[2] <= f[o].size
      BY <2>1 DEF Units
    <3>2. n = f[o].size
      BY <3>1 DEF Rest
    <3>3. u = <<u[1], u[2]>> /\ u[2] \in 1 .. MaxQty
      BY <3>1
    <3> HIDE DEF n
    <3>4. u[2] \in 1 .. n
      BY <1>1, <3>1, <3>2, <3>3
    <3> QED
      BY <2>1, <3>3, <3>4
  <2>2. ASSUME NEW k \in 1 .. n
        PROVE  <<o, k>> \in Units(f, l)
    <3>1. n # 0 /\ k \in 1 .. MaxQty
      BY <1>1
    <3>2. f[o] # NoOrder /\ f[o].level = l /\ n = f[o].size
      BY <3>1 DEF Rest
    <3> QED
      BY <3>1, <3>2 DEF Units
  <2> QED
    BY <2>1, <2>2 DEF OtherUnits
<1>3. OtherUnits(f, o, l) \cap own = {}
  BY DEF OtherUnits
<1> HIDE DEF n
<1>4. IsFiniteSet(1 .. n) /\ Cardinality(1 .. n) = n
  BY <1>1, FS_Interval
<1>5. IsFiniteSet({o}) /\ Cardinality({o}) = 1
  BY FS_Singleton
<1>6. IsFiniteSet(own) /\ Cardinality(own) = 1 * n
  BY <1>4, <1>5, FS_Product
<1> HIDE DEF own
<1>7. Cardinality(OtherUnits(f, o, l) \cap own) = 0
  BY <1>3, FS_EmptySet
<1>8. IsFiniteSet(OtherUnits(f, o, l)) /\ Cardinality(OtherUnits(f, o, l)) \in Nat
  BY UnitsFinite
<1>9. Cardinality(Units(f, l)) = Cardinality(OtherUnits(f, o, l)) + Cardinality(own) - 0
  BY <1>2, <1>6, <1>7, <1>8, FS_Union
<1> QED
  BY <1>1, <1>6, <1>8, <1>9 DEF n

\* One changed entry changes what rests at a level by what that entry rests.
LEMMA UnitsUpdate ==
  ASSUME NEW f \in Tables, NEW o \in Orders, NEW e \in Tracked \cup {NoOrder}, NEW l
  PROVE  /\ Cardinality(Units([f EXCEPT ![o] = e], l))
              = Cardinality(Units(f, l)) - Rest(f[o], l) + Rest(e, l)
         /\ Rest(f[o], l) \in Nat /\ Rest(e, l) \in Nat
         /\ Rest(f[o], l) <= Cardinality(Units(f, l))
         /\ Cardinality(Units(f, l)) \in Nat
<1> DEFINE g == [f EXCEPT ![o] = e]
<1>1. g \in Tables /\ g[o] = e /\ \A p \in Orders \ {o} : g[p] = f[p]
  BY DEF Tables
<1> HIDE DEF g
<1>2. OtherUnits(g, o, l) = OtherUnits(f, o, l)
  BY <1>1 DEF OtherUnits, Units
<1>3. Cardinality(Units(g, l)) = Cardinality(OtherUnits(f, o, l)) + Rest(e, l)
  BY <1>1, <1>2, UnitsSplit
<1>4. Cardinality(Units(f, l)) = Cardinality(OtherUnits(f, o, l)) + Rest(f[o], l)
  BY UnitsSplit
<1>5. Rest(f[o], l) \in Nat /\ Rest(e, l) \in Nat
  BY RestType, BoundAssumption DEF Tables
<1>6. Cardinality(OtherUnits(f, o, l)) \in Nat
  BY UnitsFinite
<1> QED
  BY <1>3, <1>4, <1>5, <1>6 DEF g

\* A table without orders rests nothing.
LEMMA NoUnits ==
  ASSUME NEW l
  PROVE  Cardinality(Units([o \in Orders |-> NoOrder], l)) = 0
<1>1. Units([o \in Orders |-> NoOrder], l) = {}
  BY DEF Units
<1> QED
  BY <1>1, FS_EmptySet

-----------------------------------------------------------------------------
(* What the operations do to the liquidity of a level and to what its      *)
(* records call withdrawn.                                                 *)

\* A candle without a record has no withdrawals.
Unseen(L) == \A c \in Candles : ~L.stats[c].known => L.stats[c].withdrawn = 0

\* M is what an operation at candle n makes of L: total contracts rest and gone
\* more are withdrawn.
Became(M, L, n, total, gone) ==
  /\ M \in LevelType /\ Unseen(M) /\ Total(M) = total
  /\ \A d \in Candles :
       M.stats[d].withdrawn = L.stats[d].withdrawn + (IF d = n THEN gone ELSE 0)

LEMMA BookWithdrawn ==
  ASSUME NEW r, NEW opening, NEW plain, NEW refill, NEW executed, NEW withdrawn, NEW total
  PROVE  LET b == Book(r, opening, plain, refill, executed, withdrawn, total)
         IN  b.known /\ b.withdrawn = r.withdrawn + withdrawn
  BY DEF Book

LEMMA ChargeWithdrawn ==
  ASSUME NEW r, NEW executed, NEW withdrawn
  PROVE  /\ Charge(r, executed, withdrawn).known = r.known
         /\ Charge(r, executed, withdrawn).withdrawn = r.withdrawn
  BY DEF Charge

LEMMA SeenWithdrawn ==
  ASSUME NEW L \in LevelType, NEW n \in Candles, Unseen(L)
  PROVE  /\ StatsAt(L, n).withdrawn = L.stats[n].withdrawn
         /\ \A d \in Candles : Seen(L, n)[d].withdrawn = L.stats[d].withdrawn
         /\ \A d \in Candles \ {n} : Seen(L, n)[d] = L.stats[d]
         /\ \A d \in Candles : L.stats[d].withdrawn \in Nat
<1>1. L.stats \in [Candles -> StatsType]
  BY DEF LevelType
<1>2. \A d \in Candles : L.stats[d].withdrawn \in Nat
  BY <1>1 DEF StatsType
<1>3. StatsAt(L, n).withdrawn = L.stats[n].withdrawn
  <2>1. CASE L.stats[n].known
    BY <2>1 DEF StatsAt
  <2>2. CASE ~L.stats[n].known
    <3>1. StatsAt(L, n).withdrawn = 0
      BY <2>2 DEF StatsAt, Book, NoStats
    <3> QED
      BY <2>2, <3>1 DEF Unseen
  <2> QED
    BY <2>1, <2>2
<1> QED
  BY <1>1, <1>2, <1>3 DEF Seen

\* An operation that leaves the other records' withdrawals alone.
LEMMA BecameUpdate ==
  ASSUME NEW n \in Candles, NEW L \in LevelType, NEW M \in LevelType, Unseen(L),
         NEW S, NEW r, NEW gone \in Nat, NEW total, Total(M) = total,
         S \in [Candles -> StatsType], M.stats = [S EXCEPT ![n] = r],
         \A d \in Candles \ {n} : /\ S[d].known = L.stats[d].known
                                  /\ S[d].withdrawn = L.stats[d].withdrawn,
         r.known, r.withdrawn = L.stats[n].withdrawn + gone
  PROVE  Became(M, L, n, total, gone)
<1>1. M.stats[n] = r /\ \A d \in Candles \ {n} : M.stats[d] = S[d]
  OBVIOUS
<1>2. \A d \in Candles : L.stats[d].withdrawn \in Nat
  BY DEF LevelType, StatsType
<1>3. Unseen(M)
  BY <1>1 DEF Unseen
<1>4. ASSUME NEW d \in Candles
      PROVE  M.stats[d].withdrawn = L.stats[d].withdrawn + (IF d = n THEN gone ELSE 0)
  <2>1. CASE d = n
    BY <1>1, <2>1
  <2>2. CASE d # n
    <3>1. M.stats[d].withdrawn = L.stats[d].withdrawn
      BY <1>1, <2>2
    <3> QED
      BY <1>2, <2>2, <3>1
  <2> QED
    BY <2>1, <2>2
<1> QED
  BY <1>3, <1>4 DEF Became

LEMMA InferredBecame ==
  ASSUME NEW L \in LevelType, NEW n \in Candles, NEW q \in Nat, Unseen(L)
  PROVE  Became(Inferred(L, n, q), L, n, Total(L) + q, 0)
<1> DEFINE M == Inferred(L, n, q)
           r == Book(StatsAt(L, n), q, 0, 0, 0, 0, Total(L) + q)
<1>1. M \in LevelType
  BY InferredType
<1>2. L.plain \in Nat /\ Len(L.refill) \in Nat /\ L.stats \in [Candles -> StatsType]
  BY DEF LevelType
<1>3. Total(M) = Total(L) + q
  BY <1>2 DEF Inferred, Total
<1>4. M.stats = [L.stats EXCEPT ![n] = r]
  BY DEF Inferred
<1>5. r.known /\ r.withdrawn = L.stats[n].withdrawn + 0
  BY BookWithdrawn, SeenWithdrawn
<1> HIDE DEF M, r
<1>6. Became(M, L, n, Total(L) + q, 0)
  BY <1>1, <1>2, <1>3, <1>4, <1>5, BecameUpdate
<1> QED
  BY <1>6 DEF M

LEMMA StackedBecame ==
  ASSUME NEW L \in LevelType, NEW n \in Candles, NEW q \in Nat, Unseen(L)
  PROVE  Became(Stacked(L, n, q), L, n, Total(L) + q, 0)
<1> DEFINE M == Stacked(L, n, q)
           part == RefillPart(L, n, q)
           r == Book(StatsAt(L, n), 0, q - part, part, 0, 0, Total(L) + q)
<1>1. M \in LevelType
  BY StackedType
<1>2. L.plain \in Nat /\ L.refill \in Seq(Candles) /\ Len(L.refill) \in Nat
      /\ L.stats \in [Candles -> StatsType]
  BY DEF LevelType
<1>3. part \in Nat /\ q - part \in Nat
  BY LivePendingType
<1>4. Total(M) = Total(L) + q
  <2>1. Len(L.refill \o [i \in 1 .. part |-> n]) = Len(L.refill) + part
    BY <1>2, <1>3
  <2>2. M.plain = L.plain + (q - part) /\ M.refill = L.refill \o [i \in 1 .. part |-> n]
    BY DEF Stacked
  <2>3. Total(M) = M.plain + Len(M.refill) /\ Total(L) = L.plain + Len(L.refill)
    BY DEF Total
  <2> HIDE DEF M, part
  <2> QED
    BY <1>2, <1>3, <2>1, <2>2, <2>3
<1>5. M.stats = [L.stats EXCEPT ![n] = r]
  BY DEF Stacked
<1>6. r.known /\ r.withdrawn = L.stats[n].withdrawn + 0
  BY BookWithdrawn, SeenWithdrawn
<1> HIDE DEF M, r, part
<1>7. Became(M, L, n, Total(L) + q, 0)
  BY <1>1, <1>2, <1>4, <1>5, <1>6, BecameUpdate
<1> QED
  BY <1>7 DEF M

LEMMA AddedBecame ==
  ASSUME NEW L \in LevelType, NEW n \in Candles, NEW q \in Nat, Unseen(L)
  PROVE  Became(Added(L, n, q), L, n, Total(L) + q, 0)
  BY InferredBecame, StackedBecame DEF Added, Touched

\* Of a level that holds at least q contracts q are taken.
LEMMA LeftTotal ==
  ASSUME NEW L \in LevelType, NEW q \in Nat, q <= Total(L)
  PROVE  /\ Taken(L, q) = q /\ Total(L) - q \in Nat
         /\ L.plain - PlainTaken(L, q) + Len(RefillLeft(L, q)) = Total(L) - q
<1>1. Taken(L, q) = q /\ Total(L) \in Nat
  BY TakenBounds DEF Least
<1>2. Len(RefillLeft(L, q)) = Len(L.refill) - RefillTaken(L, q)
  BY RefillLeftType
<1>3. PlainTaken(L, q) \in Nat /\ RefillTaken(L, q) \in 0 .. Len(L.refill)
  BY TakenBounds
<1>4. L.plain \in Nat /\ Len(L.refill) \in Nat
  BY DEF LevelType
<1>5. PlainTaken(L, q) + RefillTaken(L, q) = q
  BY <1>1 DEF Taken
<1>6. Total(L) = L.plain + Len(L.refill)
  BY DEF Total
<1>7. Total(L) - q \in Nat
  BY <1>1
<1>8. L.plain - PlainTaken(L, q) + (Len(L.refill) - RefillTaken(L, q)) = Total(L) - q
  BY <1>3, <1>4, <1>5, <1>6
<1> QED
  BY <1>1, <1>2, <1>7, <1>8

LEMMA WithdrawnBecame ==
  ASSUME NEW L \in LevelType, NEW n \in Candles, NEW q \in Nat, q <= Total(L), Unseen(L)
  PROVE  Became(Withdrawn(L, n, q), L, n, Total(L) - q, q)
<1> DEFINE M == Withdrawn(L, n, q)
           S == WithdrawnStats(L, n, q)
           r == Book(S[n], 0, 0, 0, 0, Taken(L, q), Total(L) - Taken(L, q))
<1>1. M \in LevelType /\ S \in [Candles -> StatsType]
  BY WithdrawnType
<1>2. M.stats = [S EXCEPT ![n] = r] /\ M.refill = RefillLeft(L, q)
      /\ M.plain = L.plain - PlainTaken(L, q)
  BY DEF Withdrawn
<1>3. Total(M) = Total(L) - q
  BY <1>2, LeftTotal DEF Total
<1>4. \A d \in Candles : /\ S[d].known = Seen(L, n)[d].known
                         /\ S[d].withdrawn = Seen(L, n)[d].withdrawn
  BY ChargeWithdrawn DEF WithdrawnStats
<1>5. r.known /\ r.withdrawn = L.stats[n].withdrawn + q
  BY <1>4, BookWithdrawn, SeenWithdrawn, LeftTotal
<1>6. \A d \in Candles \ {n} : /\ S[d].known = L.stats[d].known
                               /\ S[d].withdrawn = L.stats[d].withdrawn
  BY <1>4, SeenWithdrawn
<1> HIDE DEF M, S, r
<1>7. Became(M, L, n, Total(L) - q, q)
  BY <1>1, <1>2, <1>3, <1>5, <1>6, BecameUpdate
<1> QED
  BY <1>7 DEF M

LEMMA TradedBecame ==
  ASSUME NEW L \in LevelType, NEW n \in Candles, NEW q \in Nat, q <= Total(L), Unseen(L)
  PROVE  Became(Traded(L, n, q), L, n, Total(L) - q, 0)
<1> DEFINE M == Traded(L, n, q)
           S == ExecutedStats(L, n, q)
           r == Book(S[n], 0, 0, 0, q, 0, Total(L) - q)
<1>1. M \in LevelType /\ S \in [Candles -> StatsType]
  BY TradedType
<1>2. M.stats = [S EXCEPT ![n] = r] /\ M.refill = RefillLeft(L, q)
      /\ M.plain = L.plain - PlainTaken(L, q)
  BY DEF Traded
<1>3. Total(M) = Total(L) - q
  BY <1>2, LeftTotal DEF Total
<1>4. \A d \in Candles : /\ S[d].known = Seen(L, n)[d].known
                         /\ S[d].withdrawn = Seen(L, n)[d].withdrawn
  BY ChargeWithdrawn DEF ExecutedStats
<1>5. r.known /\ r.withdrawn = L.stats[n].withdrawn + 0
  BY <1>4, BookWithdrawn, SeenWithdrawn
<1>6. \A d \in Candles \ {n} : /\ S[d].known = L.stats[d].known
                               /\ S[d].withdrawn = L.stats[d].withdrawn
  BY <1>4, SeenWithdrawn
<1> HIDE DEF M, S, r
<1>7. Became(M, L, n, Total(L) - q, 0)
  BY <1>1, <1>2, <1>3, <1>5, <1>6, BecameUpdate
<1> QED
  BY <1>7 DEF M

\* A fill of contracts the level is known to hold takes them.
LEMMA ExecutedBecame ==
  ASSUME NEW L \in LevelType, NEW n \in Candles, NEW q \in Nat, q <= Total(L), Unseen(L)
  PROVE  Became(Executed(L, n, q), L, n, Total(L) - q, 0)
<1>0. Total(L) \in Nat
  BY TakenBounds
<1>1. CASE q = 0
  BY <1>0, <1>1, InferredBecame DEF Executed, Touched
<1>2. CASE q # 0
  <2> DEFINE M == Inferred(L, n, 0)
  <2>1. Missing(L, q) = 0
    BY <1>0 DEF Missing
  <2>2. M \in LevelType /\ Unseen(M) /\ Total(M) = Total(L)
        /\ \A d \in Candles : M.stats[d].withdrawn = L.stats[d].withdrawn + 0
    BY <1>0, InferredBecame DEF Became
  <2>3. Executed(L, n, q) = Traded(M, n, q)
    BY <1>2, <2>1 DEF Executed
  <2> HIDE DEF M
  <2>4. Became(Traded(M, n, q), M, n, Total(L) - q, 0)
    BY <2>2, TradedBecame
  <2>5. \A d \in Candles : L.stats[d].withdrawn \in Nat
    BY DEF LevelType, StatsType
  <2> QED
    BY <2>2, <2>3, <2>4, <2>5 DEF Became
<1> QED
  BY <1>1, <1>2

LEMMA EmptiedBecame ==
  ASSUME NEW L \in LevelType, NEW n \in Candles, Unseen(L)
  PROVE  Became(Emptied(L, n), L, n, 0, 0)
<1>1. Emptied(L, n) \in LevelType /\ Emptied(L, n).stats = L.stats /\ Total(Emptied(L, n)) = 0
  BY EmptiedType DEF Emptied, Total
<1>2. \A d \in Candles : L.stats[d].withdrawn \in Nat
  BY DEF LevelType, StatsType
<1> QED
  BY <1>1, <1>2 DEF Became, Unseen

-----------------------------------------------------------------------------
(* An order of the timeline page.                                          *)

\* The contracts an order existed with and those that replaced fills are the
\* contracts it rests.
Fit(e) == e \in PageOrder /\ e.existing + e.lots = e.size

LEMMA FreshFit ==
  ASSUME NEW l \in Levels, NEW q \in Nat
  PROVE  Fit(Fresh(l, q)) /\ Fresh(l, q).level = l /\ Fresh(l, q).size = q
  BY DEF Fit, Fresh, PageOrder

\* What an order loses it loses once, first of what it existed with.
LEMMA ConsumedFit ==
  ASSUME NEW e, Fit(e), NEW q \in Nat, q <= e.size
  PROVE  /\ Consumed(e, q) = [e EXCEPT !.existing = Consumed(e, q).existing,
                                       !.lots = Consumed(e, q).lots]
         /\ Consumed(e, q).existing \in Nat /\ Consumed(e, q).lots \in Nat
         /\ Consumed(e, q).existing + Consumed(e, q).lots = e.size - q
<1> DEFINE a == PartOf(e.existing, q)
           b == PartOf(e.lots, q - a)
<1>1. e \in PageOrder /\ e.existing \in Nat /\ e.lots \in Nat /\ e.size \in Nat
      /\ e.existing + e.lots = e.size
  BY DEF Fit, PageOrder
<1>2. a \in Nat /\ e.existing - a \in Nat /\ q - a \in Nat
  BY <1>1 DEF PartOf
<1>3. b \in Nat /\ e.lots - b \in Nat
  BY <1>1, <1>2 DEF PartOf
<1>4. a + b = q
  BY <1>1 DEF PartOf
<1>5. Consumed(e, q) = [e EXCEPT !.existing = e.existing - a, !.lots = e.lots - b]
  BY <1>1 DEF Consumed, PageOrder
<1> HIDE DEF a, b
<1>6. Consumed(e, q).existing = e.existing - a /\ Consumed(e, q).lots = e.lots - b
  BY <1>1, <1>5 DEF PageOrder
<1> QED
  BY <1>1, <1>2, <1>3, <1>4, <1>5, <1>6

\* An entry whose contracts are what it has of either kind.
Rewritten(e, size, existing, lots, pending) ==
  [e EXCEPT !.size = size, !.existing = existing, !.lots = lots, !.pending = pending]

LEMMA RewrittenFit ==
  ASSUME NEW e \in PageOrder, NEW size \in Nat, NEW existing \in Nat, NEW lots \in Nat,
         NEW pending \in Nat, existing + lots = size
  PROVE  /\ Fit(Rewritten(e, size, existing, lots, pending))
         /\ Rewritten(e, size, existing, lots, pending).level = e.level
         /\ Rewritten(e, size, existing, lots, pending).size = size
<1> DEFINE m == Rewritten(e, size, existing, lots, pending)
<1>1. m \in PageOrder
  BY DEF PageOrder, Rewritten
<1>2. m.size = size /\ m.existing = existing /\ m.lots = lots /\ m.level = e.level
  BY DEF PageOrder, Rewritten
<1> QED
  BY <1>1, <1>2 DEF Fit

LEMMA ModifiedFit ==
  ASSUME NEW e, Fit(e), NEW q \in Nat
  PROVE  Fit(Modified(e, q)) /\ Modified(e, q).level = e.level /\ Modified(e, q).size = q
<1>1. e \in PageOrder /\ e.existing \in Nat /\ e.lots \in Nat /\ e.size \in Nat
      /\ e.existing + e.lots = e.size /\ e.pending \in Nat
  BY DEF Fit, PageOrder
<1>2. CASE q < e.size
  <2> DEFINE c == Consumed(e, e.size - q)
  <2>1. e.size - q \in Nat /\ e.size - q <= e.size
    BY <1>1, <1>2
  <2>2. /\ c = [e EXCEPT !.existing = c.existing, !.lots = c.lots]
        /\ c.existing \in Nat /\ c.lots \in Nat /\ c.existing + c.lots = e.size - (e.size - q)
    BY <2>1, ConsumedFit
  <2>3. Modified(e, q) = [c EXCEPT !.size = q]
    BY <1>2 DEF Modified
  <2> HIDE DEF c
  <2>4. c \in PageOrder /\ c.level = e.level
    BY <1>1, <2>2 DEF PageOrder
  <2>5. c.existing + c.lots = q
    BY <1>1, <2>2
  <2> QED
    BY <2>3, <2>4, <2>5 DEF Fit, PageOrder
<1>3. CASE ~(q < e.size)
  <2>1. q - e.size \in Nat
    BY <1>1, <1>3
  <2>2. Refilled(e, q) > 0 => Refilled(e, q) = q - e.size
    BY DEF Refilled
  <2>3. CASE Refilled(e, q) > 0
    <3> DEFINE n == e.lots + (q - e.size)
    <3>1. Modified(e, q) = Rewritten(e, q, e.existing, n, 0)
      BY <1>1, <1>3, <2>2, <2>3 DEF Modified, PageOrder, Rewritten
    <3>2. n \in Nat /\ e.existing + n = q
      BY <1>1, <2>1
    <3> HIDE DEF n
    <3>3. Fit(Rewritten(e, q, e.existing, n, 0))
          /\ Rewritten(e, q, e.existing, n, 0).level = e.level
          /\ Rewritten(e, q, e.existing, n, 0).size = q
      BY <1>1, <3>2, RewrittenFit
    <3> QED
      BY <3>1, <3>3
  <2>4. CASE ~(Refilled(e, q) > 0)
    <3> DEFINE n == e.existing + (q - e.size)
    <3>1. Modified(e, q) = Rewritten(e, q, n, e.lots, e.pending)
      BY <1>1, <1>3, <2>4 DEF Modified, PageOrder, Rewritten
    <3>2. n \in Nat /\ n + e.lots = q
      BY <1>1, <2>1
    <3> HIDE DEF n
    <3>3. Fit(Rewritten(e, q, n, e.lots, e.pending))
          /\ Rewritten(e, q, n, e.lots, e.pending).level = e.level
          /\ Rewritten(e, q, n, e.lots, e.pending).size = q
      BY <1>1, <3>2, RewrittenFit
    <3> QED
      BY <3>1, <3>3
  <2> QED
    BY <2>3, <2>4
<1> QED
  BY <1>2, <1>3

LEMMA LessFillFit ==
  ASSUME NEW e, Fit(e), NEW q \in Nat
  PROVE  /\ Fit(LessFill(e, q)) /\ LessFill(e, q).level = e.level
         /\ LessFill(e, q).size = e.size - PartOf(e.size, q)
<1> DEFINE n == PartOf(e.size, q)
           c == Consumed(e, n)
<1>1. e \in PageOrder /\ e.size \in Nat /\ e.pending \in Nat
  BY DEF Fit, PageOrder
<1>2. n \in Nat /\ n <= e.size /\ e.size - n \in Nat
  BY <1>1 DEF PartOf
<1>3. LessFill(e, q) = [c EXCEPT !.size = @ - n, !.pending = @ + q]
  BY DEF LessFill
<1> HIDE DEF n
<1>4. /\ c = [e EXCEPT !.existing = c.existing, !.lots = c.lots]
      /\ c.existing \in Nat /\ c.lots \in Nat /\ c.existing + c.lots = e.size - n
  BY <1>2, ConsumedFit
<1> HIDE DEF c
<1>5. c \in PageOrder /\ c.level = e.level /\ c.size = e.size /\ c.pending = e.pending
  BY <1>1, <1>4 DEF PageOrder
<1>6. LessFill(e, q) = Rewritten(c, e.size - n, c.existing, c.lots, e.pending + q)
  BY <1>3, <1>5 DEF PageOrder, Rewritten
<1>7. e.pending + q \in Nat
  BY <1>1
<1>8. /\ Fit(LessFill(e, q)) /\ LessFill(e, q).level = c.level
      /\ LessFill(e, q).size = e.size - n
  BY <1>2, <1>4, <1>5, <1>6, <1>7, RewrittenFit
<1> QED
  BY <1>5, <1>8 DEF n

LEMMA LessCancelFit ==
  ASSUME NEW e, Fit(e), NEW q \in Nat
  PROVE  /\ Fit(LessCancel(e, q)) /\ LessCancel(e, q).level = e.level
         /\ LessCancel(e, q).size = e.size - (IF q > 0 THEN PartOf(e.size, q) ELSE e.size)
<1> DEFINE n == IF q > 0 THEN PartOf(e.size, q) ELSE e.size
           c == Consumed(e, n)
<1>1. e \in PageOrder /\ e.size \in Nat
  BY DEF Fit, PageOrder
<1>2. n \in Nat /\ n <= e.size /\ e.size - n \in Nat
  BY <1>1 DEF PartOf
<1>3. LessCancel(e, q) = [c EXCEPT !.size = @ - n]
  BY DEF LessCancel
<1> HIDE DEF n
<1>4. /\ c = [e EXCEPT !.existing = c.existing, !.lots = c.lots]
      /\ c.existing \in Nat /\ c.lots \in Nat /\ c.existing + c.lots = e.size - n
  BY <1>2, ConsumedFit
<1> HIDE DEF c
<1>5. c \in PageOrder /\ c.level = e.level /\ c.size = e.size
  BY <1>1, <1>4 DEF PageOrder
<1> QED
  BY <1>1, <1>2, <1>3, <1>4, <1>5 DEF Fit, PageOrder, n

-----------------------------------------------------------------------------
(* The readers' state.                                                     *)

PageEntry(e) == e = NoOrder \/ Fit(e)

ReadersType ==
  /\ TypeOK
  /\ DOMAIN dom = Orders /\ dom = [o \in Orders |-> dom[o]]
  /\ \A o \in Orders : PageEntry(dom[o])
  /\ shown \in [Levels -> Nat]
  /\ scanned \in Tables
  /\ deleted \in [Levels -> [Candles -> Nat]]

\* Two entries that rest the same contracts at the same level, or none.
SameRest(a, b) == \A l \in Levels : Rest(a, l) = Rest(b, l)

\* An order table and page entries, as far as resting contracts go.
Entry(e) == e = NoOrder \/ (e.level \in Levels /\ e.size \in Nat)

Alive(e) == e # NoOrder /\ e.size > 0

LEMMA EntryType ==
  /\ \A e \in Tracked \cup {NoOrder} : Entry(e)
  /\ \A e : PageEntry(e) => Entry(e)
  BY BoundAssumption DEF Entry, PageEntry, Fit, PageOrder, Tracked, Sizes

LEMMA SameRestAlive ==
  ASSUME NEW a, NEW b, Entry(a), Entry(b), SameRest(a, b)
  PROVE  /\ Alive(a) <=> Alive(b)
         /\ Alive(a) => a.level = b.level /\ a.size = b.size
         /\ Rests(a) = Rests(b)
<1>1. ASSUME NEW x, NEW y, Entry(x), Entry(y), SameRest(x, y), Alive(x)
      PROVE  Alive(y) /\ x.level = y.level /\ x.size = y.size
  <2>1. x.level \in Levels /\ x.size \in Nat \ {0}
    BY <1>1 DEF Entry, Alive
  <2>2. Rest(y, x.level) = x.size
    BY <1>1, <2>1 DEF SameRest, Rest, Alive
  <2>3. y # NoOrder /\ y.level = x.level /\ y.size = x.size
    BY <2>1, <2>2 DEF Rest
  <2> QED
    BY <2>1, <2>3 DEF Alive
<1>2. SameRest(b, a)
  BY DEF SameRest
<1>3. (Alive(a) <=> Alive(b)) /\ (Alive(a) => a.level = b.level /\ a.size = b.size)
  BY <1>1, <1>2
<1> QED
  BY <1>3 DEF Rests, Alive

LEMMA RestOf ==
  ASSUME NEW e, Entry(e), NEW l
  PROVE  /\ ~Alive(e) => Rest(e, l) = 0
         /\ e # NoOrder => Rest(e, l) = IF l = e.level THEN e.size ELSE 0
         /\ Rest(e, l) \in Nat
  BY DEF Entry, Alive, Rest

-----------------------------------------------------------------------------
(* The timeline page: one event changes one order and what is drawn at its *)
(* levels.                                                                 *)

\* Page entry o becomes e, and the levels follow it.
PageMoves(o, e) ==
  /\ dom' = [dom EXCEPT ![o] = e] /\ PageEntry(e)
  /\ shown' \in [Levels -> Nat]
  /\ (\A k \in Levels : Rest(dom[o], k) <= shown[k])
       => \A k \in Levels : shown'[k] = shown[k] - Rest(dom[o], k) + Rest(e, k)

LEMMA AdjustedType ==
  ASSUME NEW b \in [Levels -> Nat], NEW l \in Levels, NEW d \in Int
  PROVE  /\ Adjusted(b, l, d) \in [Levels -> Nat]
         /\ \A k \in Levels \ {l} : Adjusted(b, l, d)[k] = b[k]
         /\ b[l] + d >= 0 => Adjusted(b, l, d)[l] = b[l] + d
  BY DEF Adjusted

LEMMA LiftedType ==
  ASSUME ReadersType, NEW o \in Orders
  PROVE  /\ Lifted(o) \in [Levels -> Nat]
         /\ (\A k \in Levels : Rest(dom[o], k) <= shown[k])
              => \A k \in Levels : Lifted(o)[k] = shown[k] - Rest(dom[o], k)
<1>1. PageEntry(dom[o]) /\ Entry(dom[o]) /\ shown \in [Levels -> Nat]
  BY EntryType DEF ReadersType
<1>2. CASE dom[o] = NoOrder
  BY <1>1, <1>2 DEF Lifted, Rest
<1>3. CASE dom[o] # NoOrder
  <2> DEFINE l == dom[o].level
             n == dom[o].size
  <2>1. l \in Levels /\ n \in Nat /\ -n \in Int
    BY <1>1, <1>3 DEF Entry
  <2>2. Lifted(o) = Adjusted(shown, l, -n)
    BY <1>3 DEF Lifted
  <2>3. \A k \in Levels : Rest(dom[o], k) = IF k = l THEN n ELSE 0
    BY <1>3 DEF Rest
  <2> HIDE DEF l, n
  <2>4. /\ Lifted(o) \in [Levels -> Nat]
        /\ \A k \in Levels \ {l} : Lifted(o)[k] = shown[k]
        /\ shown[l] + (-n) >= 0 => Lifted(o)[l] = shown[l] + (-n)
    BY <1>1, <2>1, <2>2, AdjustedType
  <2>5. ASSUME \A k \in Levels : Rest(dom[o], k) <= shown[k], NEW k \in Levels
        PROVE  Lifted(o)[k] = shown[k] - Rest(dom[o], k)
    <3>1. shown[k] \in Nat
      BY <1>1
    <3>2. CASE k = l
      <4>1. n <= shown[l]
        BY <2>1, <2>3, <2>5
      <4> QED
        BY <2>1, <2>3, <2>4, <3>1, <3>2, <4>1
    <3>3. CASE k # l
      BY <2>3, <2>4, <3>1, <3>3
    <3> QED
      BY <3>2, <3>3
  <2> QED
    BY <2>4, <2>5
<1> QED
  BY <1>2, <1>3

LEMMA PutMoves ==
  ASSUME ReadersType, NEW o \in Orders, NEW l \in Levels, NEW q \in Nat, NEW e, PageEntry(e),
         \A k \in Levels : Rest(e, k) = IF k = l THEN q ELSE 0,
         DomPut(o, l, e, q)
  PROVE  PageMoves(o, e)
<1> DEFINE b == Lifted(o)
<1>1. b \in [Levels -> Nat] /\ shown' = Adjusted(b, l, q)
  BY LiftedType DEF DomPut
<1>2. (\A k \in Levels : Rest(dom[o], k) <= shown[k])
        => \A k \in Levels : b[k] = shown[k] - Rest(dom[o], k)
  BY LiftedType
<1> HIDE DEF b
<1>3. /\ shown' \in [Levels -> Nat]
      /\ \A k \in Levels \ {l} : shown'[k] = b[k]
      /\ shown'[l] = b[l] + q
  <2>1. b[l] \in Nat /\ b[l] + q >= 0 /\ q \in Int
    BY <1>1
  <2> QED
    BY <1>1, <2>1, AdjustedType
<1>4. \A k \in Levels : shown'[k] = b[k] + Rest(e, k)
  <2> SUFFICES ASSUME NEW k \in Levels PROVE shown'[k] = b[k] + Rest(e, k)
    OBVIOUS
  <2>1. b[k] \in Nat
    BY <1>1
  <2> QED
    BY <1>3, <2>1
<1> QED
  BY <1>2, <1>3, <1>4 DEF PageMoves, DomPut

LEMMA PageStays ==
  ASSUME ReadersType, NEW o \in Orders, UNCHANGED <<dom, shown>>
  PROVE  PageMoves(o, dom[o])
<1>1. dom' = [dom EXCEPT ![o] = dom[o]]
  BY DEF ReadersType
<1>2. \A k \in Levels : shown[k] \in Nat /\ Rest(dom[o], k) \in Nat
  BY EntryType, RestOf DEF ReadersType
<1>3. \A k \in Levels : shown'[k] = shown[k] - Rest(dom[o], k) + Rest(dom[o], k)
  BY <1>2
<1> QED
  BY <1>1, <1>3 DEF PageMoves, ReadersType

\* An entry without contracts and without fills to replace rests nothing.
LEMMA KeptRests ==
  ASSUME NEW e, Fit(e)
  PROVE  PageEntry(Kept(e)) /\ \A k \in Levels : Rest(Kept(e), k) = IF k = e.level THEN e.size ELSE 0
<1>1. e \in PageOrder /\ e # NoOrder /\ e.size \in Nat /\ e.pending \in Nat
  BY PageAssumption DEF Fit, PageOrder
<1>2. CASE Stays(e)
  BY <1>1, <1>2 DEF Kept, PageEntry, Rest
<1>3. CASE ~Stays(e)
  BY <1>1, <1>3 DEF Kept, PageEntry, Rest, Stays
<1> QED
  BY <1>2, <1>3

LEMMA AddMoves ==
  ASSUME ReadersType, NEW o \in Orders, NEW l \in Levels, NEW q \in Nat, DomAdd(o, l, q)
  PROVE  \E e : PageMoves(o, e) /\ \A k \in Levels : Rest(e, k) = IF k = l THEN q ELSE 0
<1> DEFINE e == Fresh(l, q)
<1>1. Fit(e) /\ e.level = l /\ e.size = q
  BY FreshFit
<1>2. DomPut(o, l, e, q)
  BY DEF DomAdd
<1> HIDE DEF e
<1>3. e # NoOrder
  BY <1>1, PageAssumption DEF Fit
<1>4. PageEntry(e) /\ \A k \in Levels : Rest(e, k) = IF k = l THEN q ELSE 0
  BY <1>1, <1>3 DEF PageEntry, Rest
<1> QED
  BY <1>2, <1>4, PutMoves

LEMMA ModifyMoves ==
  ASSUME ReadersType, NEW o \in Orders, NEW l \in Levels, NEW q \in Nat, DomModify(o, l, q)
  PROVE  \E e : PageMoves(o, e) /\ \A k \in Levels : Rest(e, k) = IF k = l THEN q ELSE 0
<1>1. CASE dom[o] = NoOrder
  BY <1>1, AddMoves DEF DomModify
<1>2. CASE dom[o] # NoOrder
  <2> DEFINE m == IF l = dom[o].level THEN Modified(dom[o], q) ELSE Fresh(l, q)
  <2>1. Fit(dom[o])
    BY <1>2 DEF ReadersType, PageEntry
  <2>2. Fit(m) /\ m.level = l /\ m.size = q
    BY <2>1, ModifiedFit, FreshFit
  <2>3. DomPut(o, l, Kept(m), q)
    BY <1>2 DEF DomModify
  <2> HIDE DEF m
  <2>4. PageEntry(Kept(m)) /\ \A k \in Levels : Rest(Kept(m), k) = IF k = l THEN q ELSE 0
    BY <2>2, KeptRests
  <2> QED
    BY <2>3, <2>4, PutMoves
<1> QED
  BY <1>1, <1>2

LEMMA ExecuteMoves ==
  ASSUME ReadersType, NEW o \in Orders, NEW q \in Nat, DomExecute(o, q)
  PROVE  \E e : /\ PageMoves(o, e)
                /\ \A k \in Levels : Rest(e, k) = Rest(dom[o], k) - PartOf(Rest(dom[o], k), q)
<1>1. CASE dom[o] = NoOrder
  <2>1. PageMoves(o, dom[o])
    BY <1>1, PageStays DEF DomExecute
  <2>2. \A k \in Levels : Rest(dom[o], k) = Rest(dom[o], k) - PartOf(Rest(dom[o], k), q)
    <3>1. \A k \in Levels : Rest(dom[o], k) = 0
      BY <1>1 DEF Rest
    <3> QED
      BY <3>1 DEF PartOf
  <2> QED
    BY <2>1, <2>2
<1>2. CASE dom[o] # NoOrder
  <2> DEFINE m == LessFill(dom[o], q)
             l == dom[o].level
             n == dom[o].size - PartOf(dom[o].size, q)
  <2>1. Fit(dom[o]) /\ dom[o].size \in Nat /\ l \in Levels
    BY <1>2 DEF ReadersType, PageEntry, Fit, PageOrder
  <2>2. Fit(m) /\ m.level = l /\ m.size = n
    BY <2>1, LessFillFit
  <2>3. n \in Nat
    BY <2>1 DEF PartOf
  <2>4. DomPut(o, l, Kept(m), n)
    BY <1>2, <2>2 DEF DomExecute
  <2>5. \A k \in Levels : Rest(dom[o], k) - PartOf(Rest(dom[o], k), q) = IF k = l THEN n ELSE 0
    BY <1>2, <2>1 DEF Rest, PartOf
  <2> HIDE DEF m, n, l
  <2>6. PageEntry(Kept(m)) /\ \A k \in Levels : Rest(Kept(m), k) = IF k = l THEN n ELSE 0
    BY <2>2, KeptRests
  <2>7. PageMoves(o, Kept(m))
    BY <2>1, <2>3, <2>4, <2>6, PutMoves
  <2> QED
    BY <2>5, <2>6, <2>7
<1> QED
  BY <1>1, <1>2

\* A cancel that is not partial forgets the order, and what it left of it stays
\* at the level: nothing, when it names the whole order or no size.
LEMMA CancelMoves ==
  ASSUME ReadersType, NEW o \in Orders, NEW q \in Nat, NEW partial \in BOOLEAN,
         DomCancel(o, q, partial)
  PROVE  /\ shown' \in [Levels -> Nat]
         /\ \E e : dom' = [dom EXCEPT ![o] = e] /\ PageEntry(e)
         /\ dom[o] # NoOrder /\ q <= dom[o].size /\ (partial \/ q \in {0, dom[o].size})
              => \E e : /\ PageMoves(o, e)
                        /\ \A k \in Levels : Rest(e, k)
                             = IF k = dom[o].level /\ q > 0 THEN dom[o].size - q ELSE 0
<1>1. CASE dom[o] = NoOrder
  <2>1. PageMoves(o, dom[o])
    BY <1>1, PageStays DEF DomCancel
  <2> QED
    BY <1>1, <2>1 DEF PageMoves
<1>2. CASE dom[o] # NoOrder
  <2> DEFINE m == LessCancel(dom[o], q)
             l == dom[o].level
             e == IF m.size > 0 /\ partial THEN m ELSE NoOrder
             cut == IF q > 0 THEN PartOf(dom[o].size, q) ELSE dom[o].size
  <2>1. Fit(dom[o]) /\ dom[o].size \in Nat /\ l \in Levels
    BY <1>2 DEF ReadersType, PageEntry, Fit, PageOrder
  <2>2. Fit(m) /\ m.level = l /\ m.size = dom[o].size - cut
    BY <2>1, LessCancelFit
  <2>3. m.size \in Nat
    BY <2>2 DEF Fit, PageOrder
  <2>4. DomPut(o, l, e, m.size)
    BY <1>2 DEF DomCancel
  <2>5. q <= dom[o].size => m.size = IF q > 0 THEN dom[o].size - q ELSE 0
    BY <2>1, <2>2 DEF PartOf
  <2>6. m # NoOrder
    BY <2>2, PageAssumption DEF Fit
  <2> HIDE DEF m, l
  <2>7. PageEntry(e)
    BY <2>2 DEF PageEntry
  <2>8. dom' = [dom EXCEPT ![o] = e]
    BY <2>4 DEF DomPut
  <2>9. shown' \in [Levels -> Nat]
    BY <2>1, <2>3, <2>4, LiftedType, AdjustedType DEF DomPut
  <2>10. ASSUME q <= dom[o].size, partial \/ q \in {0, dom[o].size}
         PROVE  PageMoves(o, e) /\ \A k \in Levels : Rest(e, k) = IF k = l THEN m.size ELSE 0
    <3>1. \A k \in Levels : Rest(e, k) = IF k = l THEN m.size ELSE 0
      <4>1. CASE m.size > 0
        <5>1. partial
          BY <2>1, <2>5, <2>10, <4>1
        <5> QED
          BY <2>2, <2>6, <4>1, <5>1 DEF Rest
      <4>2. CASE ~(m.size > 0)
        BY <2>3, <4>2 DEF Rest
      <4> QED
        BY <4>1, <4>2
    <3> HIDE DEF e
    <3> QED
      BY <2>1, <2>3, <2>4, <2>7, <3>1, PutMoves
  <2> HIDE DEF e
  <2>11. ASSUME q <= dom[o].size, partial \/ q \in {0, dom[o].size}
         PROVE  PageMoves(o, e) /\ \A k \in Levels :
                  Rest(e, k) = IF k = dom[o].level /\ q > 0 THEN dom[o].size - q ELSE 0
    BY <2>5, <2>10, <2>11 DEF l
  <2> QED
    BY <2>7, <2>8, <2>9, <2>11
<1> QED
  BY <1>1, <1>2

-----------------------------------------------------------------------------
(* The inductive invariant.                                                *)

LedgerAgrees ==
  \A l \in Levels : Unseen(levels[l]) /\ Total(levels[l]) = Demand(l)

ScanAgrees == \A o \in Orders : SameRest(scanned[o], orders[o])

PageAgrees ==
  ~missed => /\ \A l \in Levels : shown[l] = Demand(l)
             /\ \A o \in Orders : SameRest(dom[o], orders[o])

\* Before an event inside the reported range was read nothing is deleted.
DeletesAgree ==
  /\ emitting => clock >= EmitStart
  /\ ~emitting => \A l \in Levels, c \in Candles : deleted[l][c] = 0
  /\ DeletedIsWithdrawn

ReadersInv == ReadersType /\ LedgerAgrees /\ ScanAgrees /\ PageAgrees /\ DeletesAgree

-----------------------------------------------------------------------------
(* The ledger: one event changes one order and what rests at its levels.   *)

\* Order o becomes e, the levels follow, and gone contracts are withdrawn.
LedgerMoves(o, e, gone) ==
  /\ orders' = [orders EXCEPT ![o] = e] /\ e \in Tracked \cup {NoOrder}
  /\ gone \in [Levels -> Nat]
  /\ levels' = [k \in Levels |-> levels'[k]]
  /\ \A k \in Levels :
       Became(levels'[k], Base[k], Now, Total(Base[k]) - Rest(orders[o], k) + Rest(e, k), gone[k])

LEMMA BaseFacts ==
  ASSUME TypeOK, LedgerAgrees, NEW k \in Levels
  PROVE  /\ Base[k] \in LevelType /\ Unseen(Base[k])
         /\ Total(Base[k]) = Demand(k) /\ Total(Base[k]) \in Nat
         /\ \A o \in Orders : Rest(orders[o], k) \in Nat /\ Rest(orders[o], k) <= Total(Base[k])
<1>1. Base[k] \in LevelType
  BY BaseType
<1>2. Unseen(Reopened(levels[k]))
  <2>1. \A c \in Candles : Reopened(levels[k]).stats[c].withdrawn = 0
    BY DEF Reopened, NoHistory, NoStats
  <2> QED
    BY <2>1 DEF Unseen
<1>3. Total(Reopened(levels[k])) = Total(levels[k])
  BY DEF Reopened, Total
<1>4. Unseen(Base[k]) /\ Total(Base[k]) = Demand(k)
  BY <1>2, <1>3 DEF LedgerAgrees, Base
<1>5. orders \in Tables
  BY DEF TypeOK, Tables
<1>6. ASSUME NEW o \in Orders
      PROVE  Rest(orders[o], k) \in Nat /\ Rest(orders[o], k) <= Total(Base[k])
  <2>1. orders[o] \in Tracked \cup {NoOrder}
    BY <1>5 DEF Tables
  <2> QED
    BY <1>4, <1>5, <2>1, UnitsUpdate, DemandIsUnits
<1>7. Total(Base[k]) \in Nat
  BY <1>1, TakenBounds
<1> QED
  BY <1>1, <1>4, <1>6, <1>7

\* A change at level l alone.
Only(l, g) == [k \in Levels |-> IF k = l THEN g ELSE 0]

LEMMA OnlyType ==
  ASSUME NEW l, NEW g \in Nat
  PROVE  Only(l, g) \in [Levels -> Nat] /\ \A k \in Levels : Only(l, g)[k] = IF k = l THEN g ELSE 0
  BY DEF Only

LEMMA BecameSame ==
  ASSUME NEW L \in LevelType, Unseen(L), NEW n \in Candles
  PROVE  Became(L, L, n, Total(L), 0)
<1>1. \A d \in Candles : L.stats[d].withdrawn \in Nat
  BY DEF LevelType, StatsType
<1> QED
  BY <1>1 DEF Became

LEMMA OneLevelMoves ==
  ASSUME TypeOK, LedgerAgrees, NEW o \in Orders, NEW e \in Tracked \cup {NoOrder},
         orders' = [orders EXCEPT ![o] = e], NEW l \in Levels, NEW M, NEW g \in Nat,
         levels' = [Base EXCEPT ![l] = M],
         \A k \in Levels \ {l} : Rest(e, k) = Rest(orders[o], k),
         Became(M, Base[l], Now, Total(Base[l]) - Rest(orders[o], l) + Rest(e, l), g)
  PROVE  LedgerMoves(o, e, Only(l, g))
<1> DEFINE gone == Only(l, g)
<1>1. gone \in [Levels -> Nat] /\ gone[l] = g /\ \A k \in Levels \ {l} : gone[k] = 0
  BY OnlyType
<1>2. Now \in Candles /\ Base \in [Levels -> LevelType]
  BY NowType, BaseType
<1>3. ASSUME NEW k \in Levels \ {l}
      PROVE  Became(levels'[k], Base[k], Now,
                    Total(Base[k]) - Rest(orders[o], k) + Rest(e, k), gone[k])
  <2>1. levels'[k] = Base[k] /\ Rest(e, k) = Rest(orders[o], k)
    BY <1>2
  <2>2. Total(Base[k]) \in Nat /\ Rest(orders[o], k) \in Nat
    BY BaseFacts
  <2>3. Total(Base[k]) - Rest(orders[o], k) + Rest(e, k) = Total(Base[k])
    BY <2>1, <2>2
  <2>4. Became(Base[k], Base[k], Now, Total(Base[k]), 0)
    BY <1>2, BaseFacts, BecameSame
  <2> QED
    BY <1>1, <2>1, <2>3, <2>4
<1>4. levels'[l] = M
  BY <1>2
<1>5. levels' = [k \in Levels |-> levels'[k]]
  BY <1>2
<1> HIDE DEF gone
<1>6. \A k \in Levels :
        Became(levels'[k], Base[k], Now, Total(Base[k]) - Rest(orders[o], k) + Rest(e, k), gone[k])
  BY <1>1, <1>3, <1>4
<1>7. LedgerMoves(o, e, gone)
  BY <1>1, <1>5, <1>6 DEF LedgerMoves
<1> QED
  BY <1>7 DEF gone

\* What an entry without, or with other, contracts rests at the levels.
At(l, q) == [level |-> l, size |-> q]

LEMMA AtType ==
  ASSUME NEW l \in Levels, NEW q \in Sizes
  PROVE  /\ At(l, q) \in Tracked /\ q \in Nat
         /\ \A k : Rest(At(l, q), k) = IF k = l THEN q ELSE 0
<1>1. At(l, q) \in Tracked /\ q \in Nat
  BY BoundAssumption DEF At, Tracked, Sizes
<1>2. At(l, q) # NoOrder
  BY <1>1, IdAssumption
<1> QED
  BY <1>1, <1>2 DEF At, Rest

\* An add, or a modify that discovers its order, brings q contracts.
LEMMA ArrivalMoves ==
  ASSUME TypeOK, LedgerAgrees, NEW o \in Orders, NEW l \in Levels, NEW q \in Sizes,
         ~Resting(o), orders' = [orders EXCEPT ![o] = At(l, q)],
         \/ levels' = [Base EXCEPT ![l] = Added(@, Now, q)]
         \/ levels' = [Base EXCEPT ![l] = Inferred(@, Now, q)]
  PROVE  LedgerMoves(o, At(l, q), Only(l, 0))
<1>1. At(l, q) \in Tracked \cup {NoOrder} /\ q \in Nat
      /\ \A k : Rest(At(l, q), k) = IF k = l THEN q ELSE 0
  BY AtType
<1>2. \A k \in Levels : Rest(orders[o], k) = 0
  <2>1. Known(o) => orders[o].size = 0
    BY KnownType DEF Resting
  <2> QED
    BY <2>1 DEF Rest, Known
<1>3. /\ Base[l] \in LevelType /\ Unseen(Base[l]) /\ Total(Base[l]) \in Nat
      /\ Now \in Candles
  BY BaseFacts, NowType
<1>4. PICK M \in {Added(Base[l], Now, q), Inferred(Base[l], Now, q)} :
        levels' = [Base EXCEPT ![l] = M]
  OBVIOUS
<1>5. Became(M, Base[l], Now, Total(Base[l]) + q, 0)
  BY <1>1, <1>3, <1>4, AddedBecame, InferredBecame
<1>6. Total(Base[l]) - Rest(orders[o], l) + Rest(At(l, q), l) = Total(Base[l]) + q
  BY <1>1, <1>2, <1>3
<1>7. \A k \in Levels \ {l} : Rest(At(l, q), k) = Rest(orders[o], k)
  BY <1>1, <1>2
<1> QED
  BY <1>1, <1>4, <1>5, <1>6, <1>7, OneLevelMoves

\* A modify in place.
LEMMA ResizeMoves ==
  ASSUME TypeOK, LedgerAgrees, NEW o \in Orders, NEW q \in Sizes, Known(o),
         orders' = [orders EXCEPT ![o] = At(orders[o].level, q)],
         levels' = AfterResize(o, q)
  PROVE  LedgerMoves(o, At(orders[o].level, q),
                     Only(orders[o].level, IF q >= orders[o].size THEN 0 ELSE orders[o].size - q))
<1> DEFINE l == orders[o].level
           n == orders[o].size
           g == IF q >= n THEN 0 ELSE n - q
<1>1. l \in Levels /\ n \in Nat /\ q \in Nat /\ g \in Nat
  BY KnownType, BoundAssumption DEF Sizes
<1>2. At(l, q) \in Tracked \cup {NoOrder} /\ \A k : Rest(At(l, q), k) = IF k = l THEN q ELSE 0
  BY <1>1, AtType
<1>3. \A k : Rest(orders[o], k) = IF k = l THEN n ELSE 0
  BY DEF Rest, Known
<1>4. orders' = [orders EXCEPT ![o] = At(l, q)]
  OBVIOUS
<1>5. levels' = [Base EXCEPT ![l] = IF q >= n THEN Added(Base[l], Now, q - n)
                                    ELSE Withdrawn(Base[l], Now, n - q)]
  BY <1>1, BaseType DEF AfterResize
<1> HIDE DEF l, n
<1>6. /\ Base[l] \in LevelType /\ Unseen(Base[l]) /\ Total(Base[l]) \in Nat
      /\ Now \in Candles /\ n <= Total(Base[l])
  BY <1>1, <1>3, BaseFacts, NowType
<1> DEFINE M == IF q >= n THEN Added(Base[l], Now, q - n) ELSE Withdrawn(Base[l], Now, n - q)
<1>7. Became(M, Base[l], Now, Total(Base[l]) - n + q, g)
  <2>1. CASE q >= n
    <3>1. q - n \in Nat /\ Total(Base[l]) + (q - n) = Total(Base[l]) - n + q
      BY <1>1, <1>6, <2>1
    <3>2. Became(Added(Base[l], Now, q - n), Base[l], Now, Total(Base[l]) + (q - n), 0)
      BY <1>6, <3>1, AddedBecame
    <3> QED
      BY <2>1, <3>1, <3>2
  <2>2. CASE ~(q >= n)
    <3>1. /\ n - q \in Nat /\ n - q <= Total(Base[l])
          /\ Total(Base[l]) - (n - q) = Total(Base[l]) - n + q
      BY <1>1, <1>6, <2>2
    <3>2. Became(Withdrawn(Base[l], Now, n - q), Base[l], Now, Total(Base[l]) - (n - q), n - q)
      BY <1>6, <3>1, WithdrawnBecame
    <3> QED
      BY <2>2, <3>1, <3>2
  <2> QED
    BY <2>1, <2>2
<1>8. levels' = [Base EXCEPT ![l] = M]
  BY <1>5
<1> HIDE DEF M, g
<1>9. LedgerMoves(o, At(l, q), Only(l, g))
  BY <1>1, <1>2, <1>3, <1>4, <1>7, <1>8, OneLevelMoves
<1> QED
  BY <1>9 DEF l, n, g

\* A modify to another level.
LEMMA MoveMoves ==
  ASSUME TypeOK, LedgerAgrees, NEW o \in Orders, NEW l \in Levels, NEW q \in Sizes,
         MoveOrder(o, l, q)
  PROVE  LedgerMoves(o, At(l, q), Only(orders[o].level, orders[o].size))
<1> DEFINE j == orders[o].level
           n == orders[o].size
           gone == Only(j, n)
<1>1. j \in Levels /\ n \in Nat /\ j # l /\ Known(o)
  BY KnownType DEF MoveOrder
<1>2. At(l, q) \in Tracked \cup {NoOrder} /\ q \in Nat
      /\ \A k : Rest(At(l, q), k) = IF k = l THEN q ELSE 0
  BY AtType
<1>3. \A k : Rest(orders[o], k) = IF k = j THEN n ELSE 0
  BY <1>1 DEF Rest, Known
<1>4. orders' = [orders EXCEPT ![o] = At(l, q)]
  BY DEF MoveOrder, Track, At
<1>5. levels' = [Released(o) EXCEPT ![l] = Added(Released(o)[l], Now, q)]
  BY DEF MoveOrder
<1>6. Released(o) = [Base EXCEPT ![j] = Withdrawn(Base[j], Now, n)]
  BY DEF Released
<1>7. Base \in [Levels -> LevelType] /\ Now \in Candles
  BY BaseType, NowType
<1> HIDE DEF j, n
<1>8. \A k \in Levels : /\ Unseen(Base[k]) /\ Total(Base[k]) \in Nat
                        /\ Rest(orders[o], k) <= Total(Base[k])
  BY BaseFacts
<1>9. /\ levels'[l] = Added(Base[l], Now, q) /\ levels'[j] = Withdrawn(Base[j], Now, n)
      /\ \A k \in Levels \ {l, j} : levels'[k] = Base[k]
      /\ levels' = [k \in Levels |-> levels'[k]]
  BY <1>1, <1>5, <1>6, <1>7
<1>10. gone \in [Levels -> Nat] /\ gone[l] = 0 /\ gone[j] = n
       /\ \A k \in Levels \ {l, j} : gone[k] = 0
  BY <1>1, OnlyType
<1> HIDE DEF gone
<1>11. ASSUME NEW k \in Levels
       PROVE  Became(levels'[k], Base[k], Now,
                     Total(Base[k]) - Rest(orders[o], k) + Rest(At(l, q), k), gone[k])
  <2>1. Base[k] \in LevelType /\ Unseen(Base[k]) /\ Total(Base[k]) \in Nat
    BY <1>7, <1>8
  <2>2. CASE k = l
    <3>1. Became(Added(Base[l], Now, q), Base[l], Now, Total(Base[l]) + q, 0)
      BY <1>2, <1>7, <2>1, <2>2, AddedBecame
    <3>2. Total(Base[k]) - Rest(orders[o], k) + Rest(At(l, q), k) = Total(Base[l]) + q
      BY <1>1, <1>2, <1>3, <2>1, <2>2
    <3> QED
      BY <1>9, <1>10, <2>2, <3>1, <3>2
  <2>3. CASE k = j
    <3>1. n <= Total(Base[k])
      BY <1>3, <1>8, <2>3
    <3>2. Became(Withdrawn(Base[k], Now, n), Base[k], Now, Total(Base[k]) - n, n)
      BY <1>1, <1>7, <2>1, <3>1, WithdrawnBecame
    <3>3. Total(Base[k]) - Rest(orders[o], k) + Rest(At(l, q), k) = Total(Base[k]) - n
      BY <1>1, <1>2, <1>3, <2>1, <2>3
    <3> QED
      BY <1>9, <1>10, <2>3, <3>2, <3>3
  <2>4. CASE k # l /\ k # j
    <3>1. Became(Base[k], Base[k], Now, Total(Base[k]), 0)
      BY <1>7, <2>1, BecameSame
    <3>2. Total(Base[k]) - Rest(orders[o], k) + Rest(At(l, q), k) = Total(Base[k])
      BY <1>2, <1>3, <2>1, <2>4
    <3> QED
      BY <1>9, <1>10, <2>4, <3>1, <3>2
  <2> QED
    BY <2>2, <2>3, <2>4
<1>12. LedgerMoves(o, At(l, q), gone)
  BY <1>2, <1>4, <1>9, <1>10, <1>11 DEF LedgerMoves
<1> QED
  BY <1>12 DEF gone, j, n

\* A fill or a cancel takes cut contracts of the order from its level.
LEMMA DepartureMoves ==
  ASSUME TypeOK, LedgerAgrees, NEW o \in Orders, Known(o), NEW cut \in Nat,
         cut <= orders[o].size, NEW e \in Tracked \cup {NoOrder}, NEW traded \in BOOLEAN,
         \A k \in Levels : Rest(e, k) = IF k = orders[o].level THEN orders[o].size - cut ELSE 0,
         orders' = [orders EXCEPT ![o] = e], NEW M,
         M = IF traded THEN Executed(Base[orders[o].level], Now, cut)
                       ELSE Withdrawn(Base[orders[o].level], Now, cut),
         levels' = [Base EXCEPT ![orders[o].level] = M]
  PROVE  LedgerMoves(o, e, Only(orders[o].level, IF traded THEN 0 ELSE cut))
<1> DEFINE l == orders[o].level
           n == orders[o].size
           g == IF traded THEN 0 ELSE cut
<1>1. l \in Levels /\ n \in Nat /\ g \in Nat
  BY KnownType
<1>2. \A k : Rest(orders[o], k) = IF k = l THEN n ELSE 0
  BY DEF Rest, Known
<1>3. levels' = [Base EXCEPT ![l] = M] /\ cut <= n
      /\ M = IF traded THEN Executed(Base[l], Now, cut) ELSE Withdrawn(Base[l], Now, cut)
  BY <1>1, BaseType
<1>4. \A k \in Levels : Rest(e, k) = IF k = l THEN n - cut ELSE 0
  OBVIOUS
<1> HIDE DEF l, n
<1>5. /\ Base[l] \in LevelType /\ Unseen(Base[l]) /\ Total(Base[l]) \in Nat
      /\ Now \in Candles /\ n <= Total(Base[l])
  BY <1>1, <1>2, BaseFacts, NowType
<1>6. cut <= Total(Base[l]) /\ Total(Base[l]) - cut = Total(Base[l]) - n + (n - cut)
  BY <1>1, <1>3, <1>5
<1>7. Became(M, Base[l], Now, Total(Base[l]) - cut, g)
  BY <1>3, <1>5, <1>6, ExecutedBecame, WithdrawnBecame
<1> HIDE DEF g
<1>8. Became(M, Base[l], Now, Total(Base[l]) - Rest(orders[o], l) + Rest(e, l), g)
  BY <1>1, <1>2, <1>4, <1>6, <1>7
<1>9. \A k \in Levels \ {l} : Rest(e, k) = Rest(orders[o], k)
  BY <1>2, <1>4
<1>10. LedgerMoves(o, e, Only(l, g))
  BY <1>1, <1>3, <1>8, <1>9, OneLevelMoves
<1> QED
  BY <1>10 DEF l, n, g

-----------------------------------------------------------------------------
(* The delete scan.                                                        *)

\* The scan's order o rests what e does, and gone contracts are deleted.
ScanMoves(o, e, gone) ==
  /\ \E s \in Tracked \cup {NoOrder} :
       scanned' = [scanned EXCEPT ![o] = s] /\ SameRest(s, e)
  /\ deleted' \in [Levels -> [Candles -> Nat]]
  /\ \A k \in Levels, c \in Candles :
       deleted'[k][c] = deleted[k][c] + (IF clock >= EmitStart /\ c = Now THEN gone[k] ELSE 0)

LEMMA RecordedMoves ==
  ASSUME ReadersType, NEW l \in Levels, NEW n \in Nat, Recorded(l, n)
  PROVE  /\ deleted' \in [Levels -> [Candles -> Nat]]
         /\ \A k \in Levels, c \in Candles :
              deleted'[k][c] = deleted[k][c]
                + (IF clock >= EmitStart /\ c = Now THEN Only(l, n)[k] ELSE 0)
<1>1. deleted \in [Levels -> [Candles -> Nat]]
  BY DEF ReadersType
<1>2. \A k \in Levels, c \in Candles : deleted[k][c] \in Nat
  BY <1>1
<1>3. CASE clock >= EmitStart
  <2> DEFINE row == [deleted[l] EXCEPT ![Now] = deleted[l][Now] + n]
  <2>1. deleted' = [deleted EXCEPT ![l] = row]
    BY <1>3 DEF Recorded
  <2>2. row \in [Candles -> Nat]
        /\ \A c \in Candles : row[c] = IF c = Now THEN deleted[l][c] + n ELSE deleted[l][c]
    BY <1>1, NowType DEF ReadersType
  <2> HIDE DEF row
  <2>3. /\ deleted' \in [Levels -> [Candles -> Nat]] /\ deleted'[l] = row
        /\ \A k \in Levels \ {l} : deleted'[k] = deleted[k]
    BY <1>1, <2>1, <2>2
  <2> QED
    BY <1>2, <1>3, <2>2, <2>3, OnlyType
<1>4. CASE ~(clock >= EmitStart)
  BY <1>1, <1>2, <1>4 DEF Recorded
<1> QED
  BY <1>3, <1>4

LEMMA NothingDeleted ==
  ASSUME ReadersType, UNCHANGED deleted, NEW l
  PROVE  /\ deleted' \in [Levels -> [Candles -> Nat]]
         /\ \A k \in Levels, c \in Candles :
              deleted'[k][c] = deleted[k][c]
                + (IF clock >= EmitStart /\ c = Now THEN Only(l, 0)[k] ELSE 0)
<1>1. \A k \in Levels, c \in Candles : deleted[k][c] \in Nat
  BY DEF ReadersType
<1>2. \A k \in Levels : Only(l, 0)[k] = 0
  BY DEF Only
<1> QED
  BY <1>1, <1>2 DEF ReadersType

\* What the scan holds of an order.
LEMMA ScannedFacts ==
  ASSUME ReadersType, ScanAgrees, NEW o \in Orders
  PROVE  /\ scanned[o] \in Tracked \cup {NoOrder} /\ orders[o] \in Tracked \cup {NoOrder}
         /\ Entry(scanned[o]) /\ Entry(orders[o])
         /\ Alive(scanned[o]) <=> Resting(o)
         /\ Resting(o) => scanned[o].level = orders[o].level /\ scanned[o].size = orders[o].size
<1>1. scanned[o] \in Tracked \cup {NoOrder} /\ orders[o] \in Tracked \cup {NoOrder}
  BY DEF ReadersType, TypeOK, Tables
<1>2. Entry(scanned[o]) /\ Entry(orders[o])
  BY <1>1, EntryType
<1>3. Alive(orders[o]) <=> Resting(o)
  BY DEF Alive, Resting, Known
<1> QED
  BY <1>1, <1>2, <1>3, SameRestAlive DEF ScanAgrees

LEMMA SameRestAt ==
  ASSUME NEW e, NEW l \in Levels, NEW q \in Sizes,
         \A k \in Levels : Rest(e, k) = IF k = l THEN q ELSE 0
  PROVE  SameRest(At(l, q), e)
  BY AtType DEF SameRest

LEMMA DroppedRests ==
  ASSUME NEW e, \A k \in Levels : Rest(e, k) = 0
  PROVE  SameRest(NoOrder, e)
  BY DEF SameRest, Rest

LEMMA ScanAddMoves ==
  ASSUME ReadersType, NEW o \in Orders, NEW l \in Levels, NEW q \in Sizes, ScanAdd(o, l, q)
  PROVE  ScanMoves(o, At(l, q), Only(l, 0))
<1>1. scanned' = [scanned EXCEPT ![o] = At(l, q)] /\ UNCHANGED deleted
  BY DEF ScanAdd, ScanPut, At
<1>2. At(l, q) \in Tracked \cup {NoOrder} /\ SameRest(At(l, q), At(l, q))
  BY AtType DEF SameRest
<1> QED
  BY <1>1, <1>2, NothingDeleted DEF ScanMoves

\* What a modify shrinks an order by at its old level.
LEMMA ScanModifyMoves ==
  ASSUME ReadersType, ScanAgrees, NEW o \in Orders, NEW l \in Levels, NEW q \in Sizes,
         ScanModify(o, l, q), NEW gone \in [Levels -> Nat],
         \A k \in Levels :
           gone[k] = IF Resting(o) /\ k = orders[o].level THEN Shrunk(orders[o], l, q) ELSE 0
  PROVE  ScanMoves(o, At(l, q), gone)
<1>1. At(l, q) \in Tracked \cup {NoOrder} /\ q \in Nat
      /\ SameRest(At(l, q), At(l, q))
      /\ \A k : Rest(At(l, q), k) = IF k = l THEN q ELSE 0
  BY AtType DEF SameRest
<1>2. CASE scanned[o] = NoOrder
  <2>1. \A k \in Levels : gone[k] = 0
    BY <1>2, ScannedFacts DEF Alive
  <2>2. scanned' = [scanned EXCEPT ![o] = At(l, q)] /\ UNCHANGED deleted
    BY <1>2 DEF ScanModify, ScanAdd, ScanPut, At
  <2>3. /\ deleted' \in [Levels -> [Candles -> Nat]]
        /\ \A k \in Levels, c \in Candles : deleted'[k][c] = deleted[k][c] + 0
    BY <2>2 DEF ReadersType
  <2>4. \A k \in Levels, c \in Candles :
          deleted'[k][c] = deleted[k][c]
            + (IF clock >= EmitStart /\ c = Now THEN gone[k] ELSE 0)
    BY <2>1, <2>3
  <2> QED
    BY <1>1, <2>2, <2>3, <2>4 DEF ScanMoves
<1>3. CASE scanned[o] # NoOrder
  <2> DEFINE j == scanned[o].level
             n == Shrunk(scanned[o], l, q)
  <2>1. j \in Levels /\ scanned[o].size \in Nat
    BY <1>3, ScannedFacts DEF Entry
  <2>2. n \in Nat
    BY <1>1, <2>1 DEF Shrunk
  <2>3. ~Resting(o) => n = 0
    BY <1>1, <1>3, <2>1, ScannedFacts DEF Shrunk, Alive
  <2>4. Resting(o) => j = orders[o].level /\ n = Shrunk(orders[o], l, q)
    BY ScannedFacts DEF Shrunk
  <2>5. Recorded(j, n)
    BY <1>3 DEF ScanModify
  <2> HIDE DEF j, n
  <2>6. \A k \in Levels : gone[k] = Only(j, n)[k]
    BY <2>2, <2>3, <2>4, OnlyType
  <2>7. /\ deleted' \in [Levels -> [Candles -> Nat]]
        /\ \A k \in Levels, c \in Candles :
             deleted'[k][c] = deleted[k][c]
               + (IF clock >= EmitStart /\ c = Now THEN gone[k] ELSE 0)
    BY <2>1, <2>2, <2>5, <2>6, RecordedMoves
  <2>8. \E s \in Tracked \cup {NoOrder} :
          scanned' = [scanned EXCEPT ![o] = s] /\ SameRest(s, At(l, q))
    <3>1. CASE q > 0
      BY <1>1, <1>3, <3>1 DEF ScanModify, ScanPut, At
    <3>2. CASE ~(q > 0)
      <4>1. SameRest(NoOrder, At(l, q))
        BY <1>1, <3>2, DroppedRests
      <4> QED
        BY <1>3, <3>2, <4>1 DEF ScanModify, ScanDrop
    <3> QED
      BY <3>1, <3>2
  <2> QED
    BY <2>7, <2>8 DEF ScanMoves
<1> QED
  BY <1>2, <1>3

LEMMA ScanFillMoves ==
  ASSUME ReadersType, ScanAgrees, NEW o \in Orders, NEW l \in Levels, NEW q \in Sizes,
         Names(o, l, q), ScanFill(o, l, q), NEW e,
         \A k \in Levels : Rest(e, k) = IF k = l THEN orders[o].size - q ELSE 0
  PROVE  ScanMoves(o, e, Only(l, 0))
<1>1. /\ scanned[o] # NoOrder /\ scanned[o].size = orders[o].size /\ orders[o].size \in Sizes
      /\ orders[o].size \in Nat /\ q \in Nat /\ q <= orders[o].size
  BY ScannedFacts, KnownType, BoundAssumption DEF Names, Resting, Alive, ReadersType, Sizes
<1>2. CASE orders[o].size > q
  <2>1. orders[o].size - q \in Sizes
    BY <1>1, <1>2, BoundAssumption DEF Sizes
  <2>2. scanned' = [scanned EXCEPT ![o] = At(l, orders[o].size - q)] /\ UNCHANGED deleted
    BY <1>1, <1>2 DEF ScanFill, ScanPut, At
  <2>3. At(l, orders[o].size - q) \in Tracked \cup {NoOrder}
        /\ SameRest(At(l, orders[o].size - q), e)
    BY <2>1, AtType, SameRestAt
  <2> QED
    BY <2>2, <2>3, NothingDeleted DEF ScanMoves
<1>3. CASE ~(orders[o].size > q)
  <2>1. SameRest(NoOrder, e)
    BY <1>1, <1>3, DroppedRests
  <2>2. scanned' = [scanned EXCEPT ![o] = NoOrder] /\ UNCHANGED deleted
    BY <1>1, <1>3 DEF ScanFill, ScanDrop
  <2> QED
    BY <2>1, <2>2, NothingDeleted DEF ScanMoves
<1> QED
  BY <1>2, <1>3

\* On a complete feed a cancel names what goes: its size, or the whole order.
LEMMA ScanCancelMoves ==
  ASSUME ReadersType, ScanAgrees, NEW o \in Orders, NEW l \in Levels, NEW q \in Sizes,
         NEW partial \in BOOLEAN, Names(o, l, q), partial \/ q \in {0, orders[o].size},
         ScanCancel(o, l, q, partial), NEW cut, cut = Reduction(o, q, partial), NEW e,
         \A k \in Levels : Rest(e, k) = IF k = l THEN orders[o].size - cut ELSE 0
  PROVE  ScanMoves(o, e, Only(l, cut))
<1>1. /\ scanned[o] # NoOrder /\ scanned[o].size = orders[o].size /\ scanned[o].level = l
      /\ orders[o].size \in Sizes
      /\ orders[o].size \in Nat /\ q \in Nat /\ q <= orders[o].size
  BY ScannedFacts, KnownType, BoundAssumption DEF Names, Resting, Alive, ReadersType, Sizes
<1>2. cut = (IF q > 0 THEN q ELSE orders[o].size) /\ cut \in Nat
  BY <1>1 DEF Reduction, Least
<1>3. Recorded(l, cut)
  BY <1>1, <1>2 DEF ScanCancel
<1>4. /\ deleted' \in [Levels -> [Candles -> Nat]]
      /\ \A k \in Levels, c \in Candles :
           deleted'[k][c] = deleted[k][c]
             + (IF clock >= EmitStart /\ c = Now THEN Only(l, cut)[k] ELSE 0)
  BY <1>2, <1>3, RecordedMoves
<1>5. CASE orders[o].size > cut
  <2>1. partial /\ orders[o].size - cut \in Sizes
    BY <1>1, <1>2, <1>5, BoundAssumption DEF Sizes
  <2>2. scanned' = [scanned EXCEPT ![o] = At(l, orders[o].size - cut)]
    BY <1>1, <1>2, <1>5, <2>1 DEF ScanCancel, ScanPut, At
  <2>3. At(l, orders[o].size - cut) \in Tracked \cup {NoOrder}
        /\ SameRest(At(l, orders[o].size - cut), e)
    BY <2>1, AtType, SameRestAt
  <2> QED
    BY <1>4, <2>2, <2>3 DEF ScanMoves
<1>6. CASE ~(orders[o].size > cut)
  <2>1. SameRest(NoOrder, e)
    <3>1. orders[o].size - cut = 0
      BY <1>1, <1>2, <1>6
    <3> QED
      BY <3>1, DroppedRests
  <2>2. scanned' = [scanned EXCEPT ![o] = NoOrder]
    BY <1>1, <1>2, <1>6 DEF ScanCancel, ScanDrop
  <2> QED
    BY <1>4, <2>1, <2>2 DEF ScanMoves
<1> QED
  BY <1>5, <1>6

-----------------------------------------------------------------------------
(* One event read by all three.                                            *)

\* The page makes of its order o one that rests what e does, if no clear passed
\* it by.
PageFollows(o, e) ==
  /\ \E d : dom' = [dom EXCEPT ![o] = d] /\ PageEntry(d)
  /\ shown' \in [Levels -> Nat]
  /\ ~missed => \E d : PageMoves(o, d) /\ SameRest(d, e)

\* What the records of the reported window say before the event is booked.
LEMMA BaseWithdrawn ==
  ASSUME ReadersInv, clock >= EmitStart, NEW l \in Levels, NEW c \in Candles \ cleared
  PROVE  deleted[l][c] = Base[l].stats[c].withdrawn
<1>1. CASE emitting
  BY <1>1 DEF ReadersInv, DeletesAgree, DeletedIsWithdrawn, Stats, Base, Opens
<1>2. CASE ~emitting
  <2>1. Base[l] = Reopened(levels[l])
    BY <1>2 DEF Base, Opens
  <2>2. Base[l].stats[c].withdrawn = 0
    BY <2>1 DEF Reopened, NoHistory, NoStats
  <2> QED
    BY <1>2, <2>2 DEF ReadersInv, DeletesAgree
<1> QED
  BY <1>1, <1>2

LEMMA EventAgrees ==
  ASSUME ReadersInv, TypeOK', Deliver, UNCHANGED <<cleared, missed>>,
         NEW o \in Orders, NEW e, NEW gone,
         LedgerMoves(o, e, gone), ScanMoves(o, e, gone), PageFollows(o, e)
  PROVE  ReadersInv'
<1>1. /\ e \in Tracked \cup {NoOrder} /\ orders' = [orders EXCEPT ![o] = e]
      /\ orders \in Tables /\ gone \in [Levels -> Nat]
  BY DEF LedgerMoves, ReadersInv, ReadersType, TypeOK, Tables
<1>2. ReadersType'
  <2>1. /\ DOMAIN dom' = Orders /\ dom' = [p \in Orders |-> dom'[p]]
        /\ \A p \in Orders : PageEntry(dom'[p])
    BY DEF PageFollows, ReadersInv, ReadersType
  <2>2. scanned' \in Tables
    BY DEF ScanMoves, ReadersInv, ReadersType, Tables
  <2> QED
    BY <2>1, <2>2 DEF ReadersType, PageFollows, ScanMoves, PageEntry
<1>3. \A l \in Levels : /\ Demand(l)' = Demand(l) - Rest(orders[o], l) + Rest(e, l)
                        /\ Demand(l) \in Nat /\ Rest(orders[o], l) \in Nat
                        /\ Rest(e, l) \in Nat /\ Rest(orders[o], l) <= Demand(l)
  <2> TAKE l \in Levels
  <2>1. Demand(l)' = Cardinality(Units(orders', l))
    BY DEF Demand, RestingUnits, Units, Known
  <2> QED
    BY <1>1, <2>1, DemandIsUnits, UnitsUpdate
<1>4. LedgerAgrees'
  <2>1. \A l \in Levels : Total(Base[l]) = Demand(l)
    BY BaseFacts DEF ReadersInv, ReadersType
  <2>2. \A l \in Levels : Unseen(levels'[l]) /\ Total(levels'[l]) = Demand(l)'
    BY <1>3, <2>1 DEF LedgerMoves, Became
  <2> QED
    BY <2>2 DEF LedgerAgrees, Unseen, Total
<1>5. ScanAgrees'
  <2>1. PICK s \in Tracked \cup {NoOrder} :
          scanned' = [scanned EXCEPT ![o] = s] /\ SameRest(s, e)
    BY DEF ScanMoves
  <2>2. scanned \in Tables
    BY DEF ReadersInv, ReadersType
  <2>3. \A p \in Orders : SameRest(scanned'[p], orders'[p])
    BY <1>1, <2>1, <2>2 DEF Tables, ReadersInv, ScanAgrees
  <2> QED
    BY <2>3 DEF ScanAgrees, SameRest
<1>6. PageAgrees'
  <2>1. CASE missed
    BY <2>1 DEF PageAgrees
  <2>2. CASE ~missed
    <3>1. PICK d : PageMoves(o, d) /\ SameRest(d, e)
      BY <2>2 DEF PageFollows
    <3>2. /\ DOMAIN dom = Orders /\ dom = [p \in Orders |-> dom[p]]
          /\ \A p \in Orders : SameRest(dom[p], orders[p])
          /\ \A l \in Levels : shown[l] = Demand(l)
      BY <2>2 DEF ReadersInv, ReadersType, PageAgrees
    <3>3. \A k \in Levels : Rest(dom[o], k) = Rest(orders[o], k) /\ Rest(d, k) = Rest(e, k)
      BY <3>1, <3>2 DEF SameRest
    <3>4. \A k \in Levels : Rest(dom[o], k) <= shown[k]
      BY <1>3, <3>2, <3>3
    <3>5. \A k \in Levels : shown'[k] = Demand(k)'
      BY <1>3, <3>1, <3>2, <3>3, <3>4 DEF PageMoves
    <3>6. \A p \in Orders : SameRest(dom'[p], orders'[p])
      BY <1>1, <3>1, <3>2 DEF PageMoves, Tables
    <3> QED
      BY <3>5, <3>6 DEF PageAgrees, SameRest
  <2> QED
    BY <2>1, <2>2
<1>7. DeletesAgree'
  <2>1. emitting' = (emitting \/ clock >= EmitStart) /\ clock' = clock /\ Now \in Candles
    BY NowType DEF Deliver, ReadersInv, ReadersType
  <2>2. \A l \in Levels, c \in Candles :
          deleted'[l][c] = deleted[l][c]
            + (IF clock >= EmitStart /\ c = Now THEN gone[l] ELSE 0)
    BY DEF ScanMoves
  <2>3. emitting' => clock >= EmitStart
    BY <2>1 DEF ReadersInv, DeletesAgree
  <2>4. ~emitting' => \A l \in Levels, c \in Candles : deleted'[l][c] = 0
    <3>1. ~emitting' => ~emitting /\ ~(clock >= EmitStart)
      BY <2>1
    <3>2. ~(clock >= EmitStart) =>
            \A l \in Levels, c \in Candles : deleted'[l][c] = deleted[l][c] + 0
      BY <2>2
    <3>3. ~emitting => \A l \in Levels, c \in Candles : deleted[l][c] = 0
      BY DEF ReadersInv, DeletesAgree
    <3> QED
      BY <3>1, <3>2, <3>3
  <2>5. ASSUME emitting', NEW l \in Levels, NEW c \in Candles \ cleared
        PROVE  deleted'[l][c] = levels'[l].stats[c].withdrawn
    <3>1. deleted[l][c] = Base[l].stats[c].withdrawn
      BY <2>3, <2>5, BaseWithdrawn
    <3>2. deleted'[l][c] = deleted[l][c] + (IF c = Now THEN gone[l] ELSE 0)
      BY <2>2, <2>3, <2>5
    <3>3. levels'[l].stats[c].withdrawn
            = Base[l].stats[c].withdrawn + (IF c = Now THEN gone[l] ELSE 0)
      BY DEF LedgerMoves, Became
    <3> QED
      BY <3>1, <3>2, <3>3
  <2>6. DeletedIsWithdrawn'
    BY <2>5 DEF DeletedIsWithdrawn, Stats
  <2> QED
    BY <2>1, <2>3, <2>4, <2>6 DEF DeletesAgree
<1> QED
  BY <1>2, <1>4, <1>5, <1>6, <1>7 DEF ReadersInv

-----------------------------------------------------------------------------
(* The events of the feed.                                                 *)

\* The page's order is the tracked one, when no clear passed the page by.
LEMMA PageFacts ==
  ASSUME ReadersInv, ~missed, NEW o \in Orders
  PROVE  /\ \A k \in Levels : Rest(dom[o], k) = Rest(orders[o], k)
         /\ Resting(o) => /\ dom[o] # NoOrder /\ dom[o].level = orders[o].level
                          /\ dom[o].size = orders[o].size
<1>1. Entry(dom[o]) /\ Entry(orders[o]) /\ SameRest(dom[o], orders[o])
  BY EntryType, ScannedFacts DEF ReadersInv, ReadersType, PageAgrees
<1>2. Resting(o) => Alive(orders[o])
  BY DEF Resting, Known, Alive
<1> QED
  BY <1>1, <1>2, SameRestAlive DEF SameRest, Alive

LEMMA PageArrives ==
  ASSUME ReadersInv, NEW o \in Orders, NEW l \in Levels, NEW q \in Sizes,
         DomAdd(o, l, q) \/ DomModify(o, l, q)
  PROVE  PageFollows(o, At(l, q))
<1>1. q \in Nat /\ \A k : Rest(At(l, q), k) = IF k = l THEN q ELSE 0
  BY AtType
<1>2. PICK d : PageMoves(o, d) /\ \A k \in Levels : Rest(d, k) = IF k = l THEN q ELSE 0
  BY <1>1, AddMoves, ModifyMoves DEF ReadersInv
<1>3. SameRest(d, At(l, q))
  BY <1>1, <1>2 DEF SameRest
<1> QED
  BY <1>2, <1>3 DEF PageFollows, PageMoves

\* What a fill leaves of the order it names.
LEMMA PageFills ==
  ASSUME ReadersInv, NEW o \in Orders, NEW l \in Levels, NEW q \in Sizes,
         Names(o, l, q), DomExecute(o, q), NEW e,
         \A k \in Levels : Rest(e, k) = IF k = l THEN orders[o].size - q ELSE 0
  PROVE  PageFollows(o, e)
<1>1. /\ q \in Nat /\ orders[o].size \in Nat /\ q <= orders[o].size /\ Resting(o)
      /\ orders[o].level = l
  BY KnownType, BoundAssumption DEF Names, Resting, ReadersInv, ReadersType, Sizes
<1>2. PICK d : /\ PageMoves(o, d)
               /\ \A k \in Levels : Rest(d, k) = Rest(dom[o], k) - PartOf(Rest(dom[o], k), q)
  BY <1>1, ExecuteMoves DEF ReadersInv
<1>3. ASSUME ~missed
      PROVE  SameRest(d, e)
  <2>1. ASSUME NEW k \in Levels
        PROVE  Rest(d, k) = Rest(e, k)
    <3>1. Rest(dom[o], k) = IF k = l THEN orders[o].size ELSE 0
      BY <1>1, <1>3, PageFacts DEF Rest, Resting, Known
    <3>2. CASE k = l
      BY <1>1, <1>2, <3>1, <3>2 DEF PartOf
    <3>3. CASE k # l
      BY <1>1, <1>2, <3>1, <3>3 DEF PartOf
    <3> QED
      BY <3>2, <3>3
  <2> QED
    BY <2>1 DEF SameRest
<1> QED
  BY <1>2, <1>3 DEF PageFollows, PageMoves

\* What a cancel leaves of the order it names.
LEMMA PageCancels ==
  ASSUME ReadersInv, NEW o \in Orders, NEW l \in Levels, NEW q \in Sizes,
         NEW partial \in BOOLEAN, Names(o, l, q), partial \/ q \in {0, orders[o].size},
         DomCancel(o, q, partial), NEW e,
         \A k \in Levels : Rest(e, k)
           = IF k = l THEN orders[o].size - Reduction(o, q, partial) ELSE 0
  PROVE  PageFollows(o, e)
<1>1. /\ q \in Nat /\ orders[o].size \in Nat /\ q <= orders[o].size /\ Resting(o)
      /\ orders[o].level = l
  BY KnownType, BoundAssumption DEF Names, Resting, ReadersInv, ReadersType, Sizes
<1>2. Reduction(o, q, partial) = IF q > 0 THEN q ELSE orders[o].size
  BY <1>1 DEF Reduction, Least
<1>3. /\ shown' \in [Levels -> Nat]
      /\ \E d : dom' = [dom EXCEPT ![o] = d] /\ PageEntry(d)
      /\ dom[o] # NoOrder /\ q <= dom[o].size /\ (partial \/ q \in {0, dom[o].size})
           => \E d : /\ PageMoves(o, d)
                     /\ \A k \in Levels : Rest(d, k)
                          = IF k = dom[o].level /\ q > 0 THEN dom[o].size - q ELSE 0
  BY <1>1, CancelMoves DEF ReadersInv
<1>4. ASSUME ~missed
      PROVE  \E d : PageMoves(o, d) /\ SameRest(d, e)
  <2>1. dom[o] # NoOrder /\ dom[o].level = l /\ dom[o].size = orders[o].size
    BY <1>1, <1>4, PageFacts
  <2>2. PICK d : /\ PageMoves(o, d)
                 /\ \A k \in Levels : Rest(d, k)
                      = IF k = l /\ q > 0 THEN orders[o].size - q ELSE 0
    BY <1>1, <1>3, <2>1
  <2>3. \A k \in Levels : Rest(d, k) = Rest(e, k)
    BY <1>1, <1>2, <2>2
  <2> QED
    BY <2>2, <2>3 DEF SameRest
<1> QED
  BY <1>3, <1>4 DEF PageFollows

LEMMA AddAgrees ==
  ASSUME ReadersInv, TypeOK', UNCHANGED <<cleared, missed>>,
         NEW o \in Orders, NEW l \in Levels, NEW q \in Sizes, Add(o, l, q)
  PROVE  ReadersInv'
<1>1. Deliver /\ ~Resting(o) /\ orders' = [orders EXCEPT ![o] = At(l, q)]
  BY DEF Add, AddOrder, Track, At
<1>2. levels' = [Base EXCEPT ![l] = Added(@, Now, q)]
  BY DEF Add, AddOrder, AfterAdd
<1>3. LedgerMoves(o, At(l, q), Only(l, 0))
  BY <1>1, <1>2, ArrivalMoves DEF ReadersInv, ReadersType
<1>4. ScanMoves(o, At(l, q), Only(l, 0))
  BY ScanAddMoves DEF Add, ReadersInv
<1>5. PageFollows(o, At(l, q))
  BY PageArrives DEF Add
<1> QED
  BY <1>1, <1>3, <1>4, <1>5, EventAgrees

LEMMA ModifyAgrees ==
  ASSUME ReadersInv, TypeOK', UNCHANGED <<cleared, missed>>,
         NEW o \in Orders, NEW l \in Levels, NEW q \in Sizes, Modify(o, l, q)
  PROVE  ReadersInv'
<1>1. ScanModify(o, l, q) /\ PageFollows(o, At(l, q)) /\ TypeOK /\ LedgerAgrees
      /\ ReadersType /\ ScanAgrees /\ q \in Nat
  BY PageArrives, BoundAssumption DEF Modify, ReadersInv, ReadersType, Sizes
<1> DEFINE Moved(gone) ==
      /\ Deliver /\ LedgerMoves(o, At(l, q), gone) /\ gone \in [Levels -> Nat]
      /\ \A k \in Levels : gone[k]
           = IF Resting(o) /\ k = orders[o].level THEN Shrunk(orders[o], l, q) ELSE 0
<1>2. ASSUME MoveOrder(o, l, q)
      PROVE  \E gone : Moved(gone)
  <2>1. orders[o].level \in Levels /\ orders[o].size \in Nat /\ l # orders[o].level /\ Known(o)
    BY <1>1, <1>2, KnownType DEF MoveOrder
  <2>2. LedgerMoves(o, At(l, q), Only(orders[o].level, orders[o].size))
    BY <1>1, <1>2, MoveMoves
  <2>3. ~Resting(o) => orders[o].size = 0
    BY <2>1 DEF Resting
  <2>4. Moved(Only(orders[o].level, orders[o].size))
    BY <1>2, <2>1, <2>2, <2>3, OnlyType DEF MoveOrder, Shrunk
  <2> QED
    BY <2>4
<1>3. ASSUME DiscoverOrder(o, l, q)
      PROVE  \E gone : Moved(gone)
  <2>1. ~Resting(o) /\ orders' = [orders EXCEPT ![o] = At(l, q)]
        /\ levels' = [Base EXCEPT ![l] = Inferred(@, Now, q)]
    BY <1>3 DEF DiscoverOrder, Track, At, Resting
  <2>2. LedgerMoves(o, At(l, q), Only(l, 0))
    BY <1>1, <2>1, ArrivalMoves
  <2>3. Moved(Only(l, 0))
    BY <1>3, <2>1, <2>2, OnlyType DEF DiscoverOrder
  <2> QED
    BY <2>3
<1>4. ASSUME Known(o) /\ orders[o].level = l /\ ResizeOrder(o, q)
      PROVE  \E gone : Moved(gone)
  <2> DEFINE n == orders[o].size
             g == IF q >= n THEN 0 ELSE n - q
  <2>1. n \in Nat /\ Known(o) /\ orders[o].level = l /\ g \in Nat
    BY <1>1, <1>4, KnownType
  <2>2. orders' = [orders EXCEPT ![o] = At(l, q)] /\ levels' = AfterResize(o, q)
    BY <1>4 DEF ResizeOrder, Track, At
  <2>3. LedgerMoves(o, At(l, q), Only(l, g))
    BY <1>1, <2>1, <2>2, ResizeMoves
  <2>4. ~Resting(o) => n = 0
    BY <2>1 DEF Resting
  <2>5. \A k \in Levels : Only(l, g)[k]
          = IF Resting(o) /\ k = orders[o].level THEN Shrunk(orders[o], l, q) ELSE 0
    BY <1>1, <2>1, <2>4, OnlyType DEF Shrunk
  <2>6. Moved(Only(l, g))
    BY <1>4, <2>1, <2>3, <2>5, OnlyType DEF ResizeOrder
  <2> QED
    BY <2>6
<1>5. PICK gone : Moved(gone)
  BY <1>2, <1>3, <1>4 DEF Modify
<1>6. ScanMoves(o, At(l, q), gone)
  BY <1>1, <1>5, ScanModifyMoves
<1> QED
  BY <1>1, <1>5, <1>6, EventAgrees

LEMMA FillAgrees ==
  ASSUME ReadersInv, TypeOK', UNCHANGED <<cleared, missed>>,
         NEW o \in Orders, NEW l \in Levels, NEW q \in Sizes, Fill(o, l, q)
  PROVE  ReadersInv'
<1> DEFINE n == orders[o].size
           e == At(l, n - q)
<1>1. /\ TypeOK /\ LedgerAgrees /\ Known(o) /\ Deliver /\ orders[o].level = l
      /\ q \in Nat /\ n \in Nat /\ q <= n /\ n \in Sizes
  BY KnownType, BoundAssumption
     DEF ReadersInv, ReadersType, Fill, Names, Resting, FillOrder, Sizes
<1>2. n - q \in Sizes
  BY <1>1, BoundAssumption DEF Sizes
<1>3. orders' = [orders EXCEPT ![o] = e]
  <2>1. (IF n > q THEN n - q ELSE 0) = n - q
    BY <1>1
  <2> QED
    BY <2>1 DEF Fill, FillOrder, Track, Names, At
<1>4. e \in Tracked \cup {NoOrder} /\ \A k : Rest(e, k) = IF k = l THEN n - q ELSE 0
  BY <1>2, AtType
<1>5. levels' = [Base EXCEPT ![orders[o].level] = Executed(Base[orders[o].level], Now, q)]
  BY <1>1 DEF Fill, FillOrder, AfterFill
<1> HIDE DEF e
<1>6. LedgerMoves(o, e, Only(l, 0))
  <2>1. LedgerMoves(o, e, Only(orders[o].level, IF TRUE THEN 0 ELSE q))
    BY <1>1, <1>3, <1>4, <1>5, DepartureMoves
  <2> QED
    BY <1>1, <2>1
<1>7. ScanMoves(o, e, Only(l, 0))
  BY <1>1, <1>4, ScanFillMoves DEF Fill, ReadersInv
<1>8. PageFollows(o, e)
  BY <1>1, <1>4, PageFills DEF Fill
<1> QED
  BY <1>1, <1>6, <1>7, <1>8, EventAgrees

LEMMA CancelAgrees ==
  ASSUME ReadersInv, TypeOK', UNCHANGED <<cleared, missed>>,
         NEW o \in Orders, NEW l \in Levels, NEW q \in Sizes, NEW partial \in BOOLEAN,
         Cancel(o, l, q, partial)
  PROVE  ReadersInv'
<1> DEFINE n == orders[o].size
           cut == Reduction(o, q, partial)
           e == IF n - cut = 0 THEN NoOrder ELSE At(l, n - cut)
<1>1. /\ TypeOK /\ LedgerAgrees /\ Known(o) /\ Deliver /\ orders[o].level = l
      /\ q \in Nat /\ n \in Nat /\ q <= n /\ n \in Sizes
  BY KnownType, BoundAssumption
     DEF ReadersInv, ReadersType, Cancel, Names, Resting, CancelOrder, Sizes
<1>2. cut \in Nat /\ cut <= n
  BY <1>1 DEF Reduction, Least
<1>3. orders' = [orders EXCEPT ![o] = e]
      /\ levels' = [Base EXCEPT ![orders[o].level] =
                       Withdrawn(Base[orders[o].level], Now, cut)]
  BY DEF Cancel, CancelOrder, At
<1> HIDE DEF cut
<1>4. n - cut \in Sizes /\ n - cut \in Nat
  BY <1>1, <1>2, BoundAssumption DEF Sizes
<1>5. e \in Tracked \cup {NoOrder} /\ \A k : Rest(e, k) = IF k = l THEN n - cut ELSE 0
  <2>1. CASE n - cut = 0
    BY <2>1 DEF Rest
  <2>2. CASE n - cut # 0
    BY <1>4, <2>2, AtType
  <2> QED
    BY <2>1, <2>2
<1> HIDE DEF e
<1>6. LedgerMoves(o, e, Only(l, cut))
  <2>1. LedgerMoves(o, e, Only(orders[o].level, IF FALSE THEN 0 ELSE cut))
    BY <1>1, <1>2, <1>3, <1>5, DepartureMoves
  <2> QED
    BY <1>1, <2>1
<1>7. \A k \in Levels : Rest(e, k)
        = IF k = l THEN orders[o].size - Reduction(o, q, partial) ELSE 0
  BY <1>5 DEF cut
<1>8. ScanMoves(o, e, Only(l, cut))
  BY <1>1, <1>7, ScanCancelMoves DEF Cancel, ReadersInv, cut
<1>9. PageFollows(o, e)
  BY <1>1, <1>7, PageCancels DEF Cancel
<1> QED
  BY <1>1, <1>6, <1>8, <1>9, EventAgrees

\* What a clear leaves of a level: nothing, and no change to what other candles
\* call withdrawn.
LEMMA ClearedLevel ==
  ASSUME TypeOK, LedgerAgrees, ClearBook, NEW l \in Levels
  PROVE  /\ Unseen(levels'[l]) /\ Total(levels'[l]) = 0
         /\ \A c \in Candles \ {Now} :
              levels'[l].stats[c].withdrawn = Base[l].stats[c].withdrawn
<1>1. /\ Base[l] \in LevelType /\ Unseen(Base[l]) /\ Total(Base[l]) = Demand(l)
      /\ Demand(l) \in Nat /\ Now \in Candles
  BY BaseFacts, NowType
<1>2. Became(Emptied(Base[l], Now), Base[l], Now, 0, 0)
  BY <1>1, EmptiedBecame
<1> DEFINE M == Withdrawn(Base[l], Now, Demand(l))
<1>3. Became(M, Base[l], Now, Total(Base[l]) - Demand(l), Demand(l))
  BY <1>1, WithdrawnBecame
<1> HIDE DEF M
<1>4. M \in LevelType /\ Unseen(M)
  BY <1>3 DEF Became
<1>5. Became(Emptied(M, Now), M, Now, 0, 0)
  BY <1>1, <1>4, EmptiedBecame
<1>6. levels'[l] \in {Emptied(M, Now), Emptied(Base[l], Now)}
  BY DEF ClearBook, M
<1>7. \A d \in Candles : Base[l].stats[d].withdrawn \in Nat /\ M.stats[d].withdrawn \in Nat
  BY <1>1, <1>4 DEF LevelType, StatsType
<1>8. CASE levels'[l] = Emptied(Base[l], Now)
  BY <1>2, <1>7, <1>8 DEF Became
<1>9. CASE levels'[l] = Emptied(M, Now)
  BY <1>3, <1>5, <1>7, <1>9 DEF Became
<1> QED
  BY <1>6, <1>8, <1>9

LEMMA ClearAgrees ==
  ASSUME ReadersInv, TypeOK', NEW priced \in BOOLEAN, Clear(priced)
  PROVE  ReadersInv'
<1>1. /\ TypeOK /\ LedgerAgrees /\ ClearBook /\ Deliver /\ ReadersType
      /\ orders' = [o \in Orders |-> NoOrder]
  BY DEF ReadersInv, ReadersType, Clear, ClearBook
<1>2. /\ scanned' = [o \in Orders |-> NoOrder] /\ UNCHANGED deleted
      /\ cleared' = cleared \cup {Now} /\ missed' = (missed \/ ~priced)
  BY DEF Clear, ScanClear
<1>3. \A l \in Levels : Demand(l)' = 0
  <2> TAKE l \in Levels
  <2>1. Demand(l)' = Cardinality(Units(orders', l))
    BY DEF Demand, RestingUnits, Units, Known
  <2> QED
    BY <1>1, <2>1, NoUnits
<1>4. ASSUME priced
      PROVE  ReadersType' /\ PageAgrees'
  <2>1. dom' = [o \in Orders |-> NoOrder] /\ shown' = [l \in Levels |-> 0]
    BY <1>4 DEF Clear, DomClear
  <2>2. ReadersType'
    BY <1>1, <1>2, <2>1 DEF ReadersType, PageEntry, Tables
  <2>3. PageAgrees'
    BY <1>1, <1>3, <2>1 DEF PageAgrees, SameRest, Rest
  <2> QED
    BY <2>2, <2>3
<1>5. ASSUME ~priced
      PROVE  ReadersType' /\ PageAgrees'
  BY <1>1, <1>2, <1>5 DEF Clear, DomClear, ReadersType, PageEntry, Tables, PageAgrees
<1>6. LedgerAgrees'
  <2>1. \A l \in Levels : Unseen(levels'[l]) /\ Total(levels'[l]) = 0
    BY <1>1, ClearedLevel
  <2> QED
    BY <1>3, <2>1 DEF LedgerAgrees, Unseen, Total
<1>7. ScanAgrees'
  BY <1>1, <1>2 DEF ScanAgrees, SameRest, Rest
<1>8. DeletesAgree'
  <2>1. emitting' = (emitting \/ clock >= EmitStart) /\ clock' = clock
    BY <1>1 DEF Deliver
  <2>2. emitting' => clock >= EmitStart
    BY <2>1 DEF ReadersInv, DeletesAgree
  <2>3. ~emitting' => \A l \in Levels, c \in Candles : deleted'[l][c] = 0
    <3>1. ~emitting' => ~emitting
      BY <2>1
    <3> QED
      BY <1>2, <3>1 DEF ReadersInv, DeletesAgree
  <2>4. ASSUME emitting', NEW l \in Levels, NEW c \in Candles \ cleared'
        PROVE  deleted'[l][c] = levels'[l].stats[c].withdrawn
    <3>1. c \in Candles \ cleared /\ c # Now
      BY <1>2
    <3>2. deleted[l][c] = Base[l].stats[c].withdrawn
      BY <2>2, <2>4, <3>1, BaseWithdrawn
    <3>3. levels'[l].stats[c].withdrawn = Base[l].stats[c].withdrawn
      BY <1>1, <3>1, ClearedLevel
    <3> QED
      BY <1>2, <3>2, <3>3
  <2>5. DeletedIsWithdrawn'
    BY <2>4 DEF DeletedIsWithdrawn, Stats
  <2> QED
    BY <2>1, <2>2, <2>3, <2>5 DEF DeletesAgree
<1>9. ReadersType' /\ PageAgrees'
  BY <1>4, <1>5
<1> QED
  BY <1>6, <1>7, <1>8, <1>9 DEF ReadersInv

\* Time passes, or nothing happens.
LEMMA QuietAgrees ==
  ASSUME ReadersInv, TypeOK', UNCHANGED <<readers, cleared, missed>>,
         UNCHANGED <<fed, emitting, orders, levels>>, clock' \in Ticks, clock <= clock'
  PROVE  ReadersInv'
<1>1. /\ UNCHANGED <<dom, shown, scanned, deleted>> /\ clock \in Nat /\ clock' \in Nat
      /\ EmitStart \in Nat
  BY BoundAssumption DEF readers, ReadersInv, ReadersType, TypeOK, Ticks
<1>2. \A l : Demand(l)' = Demand(l)
  BY DEF Demand, RestingUnits, Known
<1>3. ReadersType'
  BY <1>1 DEF ReadersInv, ReadersType, PageEntry
<1>4. LedgerAgrees' /\ ScanAgrees' /\ PageAgrees'
  BY <1>1, <1>2 DEF ReadersInv, LedgerAgrees, Unseen, Total, ScanAgrees, PageAgrees, SameRest
<1>5. emitting' => clock' >= EmitStart
  BY <1>1 DEF ReadersInv, DeletesAgree
<1>6. DeletesAgree'
  BY <1>1, <1>5 DEF ReadersInv, DeletesAgree, DeletedIsWithdrawn, Stats
<1> QED
  BY <1>3, <1>4, <1>6 DEF ReadersInv

-----------------------------------------------------------------------------
(* The theorems.                                                           *)

\* Every event of the complete feed is one of the ledger's own.
LEMMA FeedIsNext ==
  ASSUME [ReadersNext]_<<vars, readers, cleared, missed>>
  PROVE  [Next]_vars
<1>1. ASSUME NEW o \in Orders, NEW l \in Levels, NEW q \in EventSizes, OrderEventRead(o, l, q)
      PROVE  Next
  <2>1. o \in Ids
    BY IdAssumption
  <2> QED
    BY <1>1, <2>1 DEF OrderEventRead, Add, Modify, Fill, Cancel, Next, OrderEvent
<1>2. ASSUME NEW priced \in BOOLEAN, Clear(priced)
      PROVE  Next
  BY <1>2 DEF Clear, Next
<1> QED
  BY <1>1, <1>2 DEF ReadersNext, Next, vars

LEMMA ReadersStep ==
  ReadersInv /\ [ReadersNext]_<<vars, readers, cleared, missed>> => ReadersInv'
<1> SUFFICES ASSUME ReadersInv, [ReadersNext]_<<vars, readers, cleared, missed>>
             PROVE  ReadersInv'
  OBVIOUS
<1>1. TypeOK /\ TypeOK'
  BY FeedIsNext, TypeStep DEF ReadersInv, ReadersType
<1>2. ASSUME NEW o \in Orders, NEW l \in Levels, NEW q \in EventSizes,
             OrderEventRead(o, l, q), UNCHANGED <<cleared, missed>>
      PROVE  ReadersInv'
  <2>1. q \in Sizes
    BY BoundAssumption
  <2>2. CASE Add(o, l, q)
    BY <1>1, <1>2, <2>1, <2>2, AddAgrees
  <2>3. CASE Modify(o, l, q)
    BY <1>1, <1>2, <2>1, <2>3, ModifyAgrees
  <2>4. CASE Fill(o, l, q)
    BY <1>1, <1>2, <2>1, <2>4, FillAgrees
  <2>5. ASSUME NEW partial \in BOOLEAN, Cancel(o, l, q, partial)
        PROVE  ReadersInv'
    BY <1>1, <1>2, <2>1, <2>5, CancelAgrees
  <2> QED
    BY <1>2, <2>2, <2>3, <2>4, <2>5 DEF OrderEventRead
<1>3. ASSUME NEW priced \in BOOLEAN, Clear(priced)
      PROVE  ReadersInv'
  BY <1>1, <1>3, ClearAgrees
<1>4. CASE Tick /\ UNCHANGED <<readers, cleared, missed>>
  <2>1. clock' \in Ticks /\ clock <= clock'
    BY <1>1, <1>4, BoundAssumption DEF Tick, TypeOK, Ticks
  <2> QED
    BY <1>1, <1>4, <2>1, QuietAgrees DEF Tick
<1>5. CASE UNCHANGED <<vars, readers, cleared, missed>>
  <2>1. clock' \in Ticks /\ clock <= clock'
    BY <1>1, <1>5, BoundAssumption DEF vars, TypeOK, Ticks
  <2> QED
    BY <1>1, <1>5, <2>1, QuietAgrees DEF vars
<1> QED
  BY <1>2, <1>3, <1>4, <1>5 DEF ReadersNext

LEMMA ReadersStart == ReadersInit => ReadersInv
<1> SUFFICES ASSUME ReadersInit
             PROVE  ReadersInv
  OBVIOUS
<1>1. Init /\ TypeOK
  BY TypeInit DEF ReadersInit
<1>2. /\ dom = [o \in Orders |-> NoOrder] /\ shown = [l \in Levels |-> 0]
      /\ scanned = [o \in Orders |-> NoOrder]
      /\ deleted = [l \in Levels |-> [c \in Candles |-> 0]]
      /\ orders = [o \in Orders |-> NoOrder] /\ clock = 0 /\ emitting = (EmitStart = 0)
      /\ levels = [l \in Levels |-> EmptyLevel]
  BY <1>1 DEF ReadersInit, Init
<1>3. ReadersType
  BY <1>1, <1>2 DEF ReadersType, PageEntry, Tables
<1>4. \A l \in Levels : Demand(l) = 0
  BY <1>2, DemandIsUnits, NoUnits
<1>5. Unseen(EmptyLevel) /\ Total(EmptyLevel) = 0
  BY DEF Unseen, EmptyLevel, Total, NoHistory, NoStats
<1>6. LedgerAgrees
  BY <1>2, <1>4, <1>5 DEF LedgerAgrees
<1>7. ScanAgrees /\ PageAgrees
  BY <1>2, <1>4 DEF ScanAgrees, PageAgrees, SameRest
<1>8. \A l \in Levels, c \in Candles : deleted[l][c] = 0 /\ levels[l].stats[c].withdrawn = 0
  BY <1>2 DEF EmptyLevel, NoHistory, NoStats
<1>9. DeletesAgree
  <2>1. emitting => clock >= EmitStart
    <3>1. emitting => EmitStart = 0
      BY <1>2
    <3>2. clock = 0
      BY <1>2
    <3>3. EmitStart = 0 => clock >= EmitStart
      BY <3>2
    <3> QED
      BY <3>1, <3>3
  <2>2. DeletedIsWithdrawn
    BY <1>8 DEF DeletedIsWithdrawn, Stats
  <2> QED
    BY <1>8, <2>1, <2>2 DEF DeletesAgree
<1> QED
  BY <1>3, <1>6, <1>7, <1>9 DEF ReadersInv

\* The ledger, the timeline page and the delete scan keep agreeing.
THEOREM ReadersStayTogether == ReadersSpec => []ReadersInv
  BY ReadersStart, ReadersStep, PTL DEF ReadersSpec

\* On a complete feed of any length the ledger, its order table, the timeline
\* page and the delete scan believe in the same book, until a clear without a
\* price passes the page by.
THEOREM BooksAlwaysAgree == ReadersSpec => []BooksAgree
<1>1. ReadersInv => BooksAgree
  <2> SUFFICES ASSUME ReadersInv
               PROVE  BooksAgree
    OBVIOUS
  <2>1. \A o \in Orders : Entry(scanned[o]) /\ Entry(orders[o]) /\ Entry(dom[o])
    BY ScannedFacts, EntryType DEF ReadersInv, ReadersType
  <2>2. \A o \in Orders : Rests(scanned[o]) = Rests(orders[o])
    BY <2>1, SameRestAlive DEF ReadersInv, ScanAgrees
  <2>3. ~missed => \A o \in Orders : Rests(dom[o]) = Rests(orders[o])
    BY <2>1, SameRestAlive DEF ReadersInv, PageAgrees
  <2> QED
    BY <2>2, <2>3 DEF BooksAgree, ReadersInv, LedgerAgrees, PageAgrees
<1> QED
  BY <1>1, ReadersStayTogether, PTL

\* The page never consumes a refill lot twice: whatever was filled, replaced,
\* moved or cancelled before, the contracts it attributes to an order are those
\* the order rests.
THEOREM LotsFit == ReadersSpec => []LotsFitOrder
<1>1. ReadersInv => LotsFitOrder
  BY DEF ReadersInv, ReadersType, PageEntry, Fit, LotsFitOrder
<1> QED
  BY <1>1, ReadersStayTogether, PTL

\* What the delete scan reports of a level and candle is what the ledger calls
\* withdrawn there, wherever in the candle the requested range begins.
THEOREM DeletesAreWithdrawals == ReadersSpec => []DeletedIsWithdrawn
<1>1. ReadersInv => DeletedIsWithdrawn
  BY DEF ReadersInv, DeletesAgree
<1> QED
  BY <1>1, ReadersStayTogether, PTL

\* A complete feed is one of the feeds the ledger is proved for, so what holds
\* of the ledger holds of it beside its two readers.
THEOREM ReadersFeedTheLedger == ReadersSpec => Spec
<1>1. ReadersInit => Init
  BY DEF ReadersInit
<1>2. [ReadersNext]_<<vars, readers, cleared, missed>> => [Next]_vars
  BY FeedIsNext
<1> QED
  BY <1>1, <1>2, PTL DEF ReadersSpec, Spec

=============================================================================
