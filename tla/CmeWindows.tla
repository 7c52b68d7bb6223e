----------------------------- MODULE CmeWindows -----------------------------
(***************************************************************************)
(* The windows of candles a CME page asks for (cme_provider/engines.py and *)
(* cme_provider/footprint_index.py): which candles a window has, how they  *)
(* are built from the trades, and the places they are kept in: the LRU     *)
(* caches of chart and footprint candles, the cumulative deltas, and the   *)
(* footprint index on disk, which answers a window from the blocks that    *)
(* cover it.  Each holder of state is a record; an operation returns the   *)
(* answer or the next record.                                              *)
(*                                                                         *)
(* One symbol, timeframe and bin size: they are part of every key.         *)
(***************************************************************************)
EXTENDS CmeTrades

CONSTANTS
  MaxWindow,      \* MAX_WINDOW_CANDLES
  Parts,          \* what output_decimal_places can show of a tick
  CacheSize       \* footprint_cache_size, candle_cache_size

OpenOf(at)     == Interval * (at \div Interval)
OpensOf(frame) == {OpenOf(frame[k].at) : k \in DOMAIN frame}

TradesOf(frame, open) == SelectSeq(frame, LAMBDA t : OpenOf(t.at) = open)

-----------------------------------------------------------------------------
(* _frame_window                                                           *)
LimitOf(limit) == Max({1, Min({MaxWindow, limit})})

(* available is the end of the archives, if they name one; asked the end   *)
(* the page names, if it names one.                                        *)
LatestEnd(trades, available) ==
  {OpenOf(t) : t \in IF available # {} THEN available
                     ELSE {OpenOf(u) + Interval : u \in Latest(trades)}}

EndOf(latest, asked) ==
  OpenOf(Max({Interval, Min({IF asked = {} THEN latest ELSE Max(asked), latest})}))

(* An empty window is moved back to the last trade before it.              *)
MovedBack(trades, end, asked, limit) ==
  IF \/ asked = {} \/ LatestBefore(trades, end) = {}
     \/ RangeFrame(trades, end - limit * Interval, end) # <<>>
  THEN end ELSE OpenOf(Max(LatestBefore(trades, end))) + Interval

(* One turn of the loop that looks for the candles that are missing.       *)
Expanded(trades, start, end, limit) ==
  LET missing == limit - Cardinality(OpensOf(RangeFrame(trades, start, end)))
      older   == LatestBefore(trades, start)
      wanted  == Min({start - missing * Interval} \union {OpenOf(t) : t \in older})
  IN  IF missing <= 0 \/ older = {} THEN start
      ELSE Min({start, Max({wanted} \union EarliestPartition(trades))})

(* _last_candle_frame                                                      *)
LastCandles(frame, limit) ==
  LET newest == {o \in OpensOf(frame) : Cardinality({p \in OpensOf(frame) : p > o}) < limit}
  IN  SelectSeq(frame, LAMBDA t : OpenOf(t.at) \in newest)

FrameWindow(trades, available, asked, limit) ==
  IF LatestEnd(trades, available) = {}
  THEN [frame |-> <<>>, start |-> 0, end |-> 0, older |-> FALSE]
  ELSE LET end   == MovedBack(trades, EndOf(Max(LatestEnd(trades, available)), asked), asked, limit)
           start == FoldLeft(LAMBDA s, turn : Expanded(trades, s, end, limit),
                             end - limit * Interval, [turn \in 1 .. 8 |-> turn])
           frame == LastCandles(RangeFrame(trades, start, end), limit)
           shown == IF frame = <<>> THEN start ELSE Min(OpensOf(frame))
       IN  [frame |-> frame, start |-> shown, end |-> end,
            older |-> \E t \in EarliestPartition(trades) : shown > t]

-----------------------------------------------------------------------------
(* _chart_candles_from_frame: the prices of a candle.                      *)
PricesOf(frame, open) ==
  LET ts == TradesOf(frame, open)
      ps == {ts[k].price : k \in DOMAIN ts}
  IN  [open |-> ts[1].price, high |-> Max(ps), low |-> Min(ps), close |-> Last(ts).price]

(* _footprint_candles_from_frame: bins and the time in them as CandleBins  *)
(* has them, with contracts for quantities.                                *)
Plain(t) == [at |-> t.at, price |-> t.price, quantity |-> t.size,
             side |-> CASE t.side = "B" -> "buy" [] t.side = "A" -> "sell" [] OTHER -> "none"]

RecordOfFrame(ts, open) == Record(Traded([k \in DOMAIN ts |-> Plain(ts[k])]), open + Interval - 1)

(* The trades of no side count for the total only.                         *)
ContractsIn(ts, i) ==
  SumFunction([k \in DOMAIN ts |-> IF Index(ts[k].price) = i THEN ts[k].size ELSE 0])

(* _footprint_bin_payload: a ratio of 3 in a bin of at least the median    *)
(* size is abnormal.                                                       *)
AbnormalRatio(ratio, unit, total, totals) ==
  /\ Positive(totals) # <<>>
  /\ ratio >= 3 * unit
  /\ 2 * total >= TwiceMedian(Positive(totals))

(* _format_decimal rounds to even.                                         *)
HalfEven(n, d) ==
  LET q == n \div d
  IN  IF 2 * (n % d) > d \/ (2 * (n % d) = d /\ q % 2 = 1) THEN q + 1 ELSE q

(* The efficiency a page shows; _add_efficiency_percentiles ranks what is  *)
(* shown.                                                                  *)
EfficiencyShown(ts, i) ==
  LET ps == {ts[k].price : k \in {j \in DOMAIN ts : Index(ts[j].price) = i}}
  IN  HalfEven(Parts * (Max(ps) - Min(ps)), ContractsIn(ts, i))

EfficiencyRank(ts, traded, i) ==
  LET order == Ordered(traded)
  IN  RankSum([k \in DOMAIN order |-> EfficiencyShown(ts, order[k])], EfficiencyShown(ts, i))

FootprintBins(ts, open) ==
  LET r      == RecordOfFrame(ts, open)
      drawn  == Features(r)
      totals == [k \in DOMAIN drawn |-> ContractsIn(ts, drawn[k].index)]
      traded == {drawn[k].index : k \in {j \in DOMAIN drawn : totals[j] > 0}}
  IN  [k \in DOMAIN drawn |->
         [index        |-> drawn[k].index,
          buy          |-> drawn[k].buy,
          sell         |-> drawn[k].sell,
          total        |-> totals[k],
          side         |-> drawn[k].side,
          volume       |-> drawn[k].volume,
          spent        |-> drawn[k].spent,
          abnormalBuy  |-> AbnormalRatio(drawn[k].buyRatio, r.unit, totals[k], totals),
          abnormalSell |-> AbnormalRatio(drawn[k].sellRatio, r.unit, totals[k], totals),
          abnormal     |-> k \in Spikes(totals),
          rank         |-> IF totals[k] = 0 THEN {}
                           ELSE {EfficiencyRank(ts, traded, drawn[k].index)}]]

(* A candle has the number of its place, from the newest, in the frame it  *)
(* was built from; the ids of its bins begin with it.                      *)
FootprintOf(frame, open) ==
  [open   |-> open,
   number |-> Cardinality({o \in OpensOf(frame) : o >= open}),
   prices |-> PricesOf(frame, open),
   bins   |-> FootprintBins(TradesOf(frame, open), open)]

-----------------------------------------------------------------------------
(* _cached_chart_candles, _cached_footprint_candles: what is not in the    *)
(* cache is built from the trades of the missing candles alone.            *)
Missing(cache, frame) == {o \in OpensOf(frame) : ~Cached(cache, o)}

MissingFrame(cache, frame) == SelectSeq(frame, LAMBDA t : OpenOf(t.at) \in Missing(cache, frame))

FootprintsOf(cache, frame) ==
  LET order == Ordered(OpensOf(frame))
  IN  [k \in DOMAIN order |->
         IF Cached(cache, order[k]) THEN InCache(cache, order[k])
         ELSE FootprintOf(MissingFrame(cache, frame), order[k])]

(* Those found are moved to the end first, then those built are added.     *)
FootprintCache(cache, frame) ==
  LET found == Ordered(OpensOf(frame) \ Missing(cache, frame))
      built == Ordered(Missing(cache, frame))
      moved == FoldLeft(LAMBDA c, o : Kept(c, o, InCache(c, o), Len(c)), cache, found)
  IN  FoldLeft(LAMBDA c, o : Kept(c, o, FootprintOf(MissingFrame(cache, frame), o), CacheSize),
               moved, built)

(* _attach_cumulative_delta_fields                                         *)
WithDeltas(candles, deltas) ==
  [k \in DOMAIN candles |-> [candle |-> candles[k], delta |-> deltas[candles[k].open]]]

-----------------------------------------------------------------------------
(* FootprintCandleIndex: blocks <<start, end>> that are ready, and rows by *)
(* the opening time of the candle.                                         *)
NewIndex == [blocks |-> {}, rows |-> <<>>]

(* store_window: a block reaches back as far as the limit of the window,   *)
(* whether the candles do or reach further.                                *)
Stored(index, window, limit, candles) ==
  LET opens == {candles[k].candle.open : k \in DOMAIN candles} \ {0}
      row(o) == candles[CHOOSE k \in DOMAIN candles : candles[k].candle.open = o]
  IN  IF limit * Interval <= 0 THEN index
      ELSE [blocks |-> index.blocks \union {<<window.end - limit * Interval, window.end>>},
            rows   |-> [o \in DOMAIN index.rows \union opens |->
                          IF o \in opens THEN row(o) ELSE index.rows[o]]]

(* _covers: no time of the window is without a block.                      *)
CoversWindow(blocks, from, to) ==
  \A t \in {from} \union {u \in {b[2] : b \in blocks} : from < u /\ u < to} :
    \E b \in blocks : b[1] <= t /\ t < b[2]

(* load_window: the last rows before the end.                              *)
IndexRows(index, end, limit) ==
  {o \in DOMAIN index.rows :
     o < end /\ Cardinality({p \in DOMAIN index.rows : o < p /\ p < end}) < limit}

Answers(index, end, limit) ==
  /\ CoversWindow(index.blocks, end - limit * Interval, end)
  /\ IndexRows(index, end, limit) # {}

FromIndex(index, end, limit) ==
  LET order == Ordered(IndexRows(index, end, limit))
  IN  [k \in DOMAIN order |-> index.rows[order[k]]]

-----------------------------------------------------------------------------
(* footprint_window, as far as the trigger engine, whose signals are those *)
(* of TriggerPages.  A state holds the caches and the index.               *)
NewProvider == [footprints |-> <<>>, deltas |-> <<>>, index |-> NewIndex]

Built(s, trades, available, asked, limit) ==
  LET window  == FrameWindow(trades, available, asked, limit)
      candles == FootprintsOf(s.footprints, window.frame)
      deltas  == DeltasOf(s.deltas, trades, OpensOf(window.frame))
  IN  WithDeltas(candles, deltas)

Found(s, trades, available, asked, limit) ==
  \E latest \in LatestEnd(trades, available) : Answers(s.index, EndOf(latest, asked), limit)

FootprintWindow(s, trades, available, asked, limit) ==
  IF Found(s, trades, available, asked, LimitOf(limit))
  THEN FromIndex(s.index, EndOf(Max(LatestEnd(trades, available)), asked), LimitOf(limit))
  ELSE Built(s, trades, available, asked, LimitOf(limit))

AfterWindow(s, trades, available, asked, limit) ==
  LET window == FrameWindow(trades, available, asked, LimitOf(limit))
  IN  IF Found(s, trades, available, asked, LimitOf(limit)) THEN s
      ELSE [footprints |-> FootprintCache(s.footprints, window.frame),
            deltas     |-> DeltaCache(s.deltas, trades, OpensOf(window.frame), CacheSize),
            index      |-> Stored(s.index, window, LimitOf(limit),
                                  Built(s, trades, available, asked, LimitOf(limit)))]

(* chart_window: no index; _merge_chart_candles_with_footprints puts the   *)
(* prices of the chart over those of the footprint.                        *)
ChartWindow(s, trades, available, asked, limit) ==
  LET frame   == FrameWindow(trades, available, asked, LimitOf(limit)).frame
      candles == FootprintsOf(s.footprints, frame)
  IN  WithDeltas([k \in DOMAIN candles |->
                    [candles[k] EXCEPT !.prices = PricesOf(frame, candles[k].open)]],
                 DeltasOf(s.deltas, trades, OpensOf(frame)))

(* _trigger_analysis_frame: the candles the trigger engine is given reach  *)
(* back five more intervals.                                               *)
AnalysisFrame(trades, opens) ==
  IF opens = {} THEN <<>>
  ELSE RangeFrame(trades,
                  Max({Min(opens) - 5 * Interval} \union EarliestPartition(trades)),
                  Max(opens) + Interval)

-----------------------------------------------------------------------------
(* record_closed_position_history: the candles of all days, day by day;    *)
(* each day but the first begins with the last candle of the day before,   *)
(* and all but the last are evaluated until the end of their last candle.  *)
HistoryFrames(trades, end) ==
  LET days   == DaysOf(Max(EarliestPartition(trades)), end)
      pieces == [k \in DOMAIN days |->
                   RangeFrame(trades,
                              Max({DayStart(days[k])} \union EarliestPartition(trades)),
                              Min({DayStart(days[k] + 1), end}))]
  IN  SelectSeq(pieces, LAMBDA f : f # <<>>)

HistoryChunks(trades, available) ==
  LET end    == Max(IF available # {} THEN available
                    ELSE {OpenOf(u) + Interval : u \in Latest(trades)})
      frames == HistoryFrames(trades, end)
      carry(k) == IF k = 1 THEN {} ELSE {Max(OpensOf(frames[k - 1]))}
      opens(k) == carry(k) \union OpensOf(frames[k])
      final(k) == \E t \in DOMAIN frames[k] : DayOf(frames[k][t].at) = DayOf(end - 1)
  IN  IF trades = <<>> \/ end <= Max(EarliestPartition(trades)) THEN <<>>
      ELSE [k \in DOMAIN frames |->
              [opens |-> opens(k),
               until |-> IF final(k) THEN end ELSE Max(opens(k)) + Interval - 1]]

-----------------------------------------------------------------------------
(* _new_york_contract_profile_from_frame and _profile_for_day: contracts   *)
(* by bin.  A session is in a window when it meets its trades.             *)
Profile(frame) ==
  [i \in {Index(frame[k].price) : k \in DOMAIN frame} |->
     [buy  |-> SumFunction([k \in DOMAIN frame |->
                 IF Index(frame[k].price) = i /\ frame[k].side = "B" THEN frame[k].size ELSE 0]),
      sell |-> SumFunction([k \in DOMAIN frame |->
                 IF Index(frame[k].price) = i /\ frame[k].side = "A" THEN frame[k].size ELSE 0])]]

SessionsOf(frame) ==
  LET first == Min({frame[k].at : k \in DOMAIN frame})
      last  == Max({frame[k].at : k \in DOMAIN frame})
  IN  {d \in first \div DayLength .. last \div DayLength :
         /\ d * DayLength + SessionUntil >= first
         /\ d * DayLength + SessionFrom <= last}

SessionProfiles(trades, frame) ==
  IF frame = <<>> THEN {}
  ELSE {[date |-> d, bins |-> Profile(RangeFrame(trades, d * DayLength + SessionFrom,
                                                 d * DayLength + SessionUntil))] :
          d \in {e \in SessionsOf(frame) :
                   RangeFrame(trades, e * DayLength + SessionFrom, e * DayLength + SessionUntil) # <<>>}}

=============================================================================
