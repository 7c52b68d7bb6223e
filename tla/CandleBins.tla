----------------------------- MODULE CandleBins -----------------------------
(***************************************************************************)
(* What the trades of one candle become (core/trade_mapping.py and         *)
(* core/contract_spike.py with study/candle_builder.py,                    *)
(* study/study_snapshot.py): the bins of the order-flow candle, the time   *)
(* the price stayed in each of them, the diagonal ratios, the abnormal     *)
(* bins and the high-volume nodes.  The module has no variables: the       *)
(* builder that calls it is CandleClose.                                   *)
(*                                                                         *)
(* A price is a number of ticks, a quantity a number of the smallest steps *)
(* the exchange allows.  Decimals are exact here: a quotient is kept as a  *)
(* whole number of parts of 1 / unit, with one unit for all bins of a      *)
(* candle.                                                                 *)
(***************************************************************************)
EXTENDS Integers, FiniteSets, Sequences, SequencesExt

CONSTANTS
  BinSize,      \* fixed_bin_size, in ticks
  One           \* a quantity of 1, in steps

-----------------------------------------------------------------------------
(* bin_index: rounds towards minus infinity, as \div does.                 *)
Index(price) == price \div BinSize

(* A candle without trades.  at is the bin of the price and since the time *)
(* it has been there; both mean nothing before the first trade.            *)
NewCandle == [open |-> 0, high |-> 0, low |-> 0, close |-> 0,
              bins |-> <<>>, spent |-> <<>>, at |-> 0, since |-> 0]

Untouched(c) == DOMAIN c.bins = {}

(* f with v at x, whether x is in the domain of f or not.                  *)
With(f, x, v) == [y \in DOMAIN f \union {x} |-> IF y = x THEN v ELSE f[y]]

(* _update_ohlc                                                            *)
WithPrice(c, p) ==
  IF Untouched(c) THEN [c EXCEPT !.open = p, !.high = p, !.low = p, !.close = p]
  ELSE [c EXCEPT !.high = Max({@, p}), !.low = Min({@, p}), !.close = p]

(* The bin of the price is given the time since the price came there.      *)
Stayed(c, until) ==
  IF until <= c.since THEN c.spent
  ELSE With(c.spent, c.at,
            (IF c.at \in DOMAIN c.spent THEN c.spent[c.at] ELSE 0) + until - c.since)

(* PriceDwellTracker.observe: a trade before the last change of bin is not *)
(* looked at, and one in the same bin changes nothing.                     *)
Dwell(c, t) ==
  IF Untouched(c) THEN [c EXCEPT !.at = Index(t.price), !.since = t.at]
  ELSE IF t.at < c.since \/ Index(t.price) = c.at THEN c
  ELSE [c EXCEPT !.spent = Stayed(c, t.at), !.at = Index(t.price), !.since = t.at]

(* L2BinState.apply_trade                                                  *)
WithTrade(bins, t) ==
  LET i   == Index(t.price)
      old == IF i \in DOMAIN bins THEN bins[i]
             ELSE [buy |-> 0, sell |-> 0, lowest |-> t.price, highest |-> t.price]
  IN  With(bins, i,
           [buy     |-> old.buy + (IF t.side = "buy" THEN t.quantity ELSE 0),
            sell    |-> old.sell + (IF t.side = "sell" THEN t.quantity ELSE 0),
            lowest  |-> Min({old.lowest, t.price}),
            highest |-> Max({old.highest, t.price})])

(* ActiveCandle.apply_trade                                                *)
ApplyTrade(c, t) ==
  LET dwelt == Dwell(WithPrice(c, t.price), t)
  IN  [dwelt EXCEPT !.bins = WithTrade(@, t)]

Traded(trades) == FoldLeft(ApplyTrade, NewCandle, trades)

-----------------------------------------------------------------------------
(* calculate_diagonal_imbalance_ratios: what was bought in a bin against   *)
(* what was sold in the bin below, what was sold against what was bought   *)
(* in the bin above; less than 1 counts as 1.                              *)
Buys(bins, i)  == IF i \in DOMAIN bins THEN bins[i].buy ELSE 0
Sells(bins, i) == IF i \in DOMAIN bins THEN bins[i].sell ELSE 0

Below(bins, i) == Max({One, Sells(bins, i - 1)})
Above(bins, i) == Max({One, Buys(bins, i + 1)})

(* The unit in which every ratio and every efficiency is a whole number.   *)
TotalOf(b) == b.buy + b.sell

UnitOf(bins) ==
  ProductSet({1} \union UNION {{Below(bins, i), Above(bins, i), TotalOf(bins[i])} \ {0} :
                               i \in DOMAIN bins})

(* freeze_l2_bin_state: what a record keeps of a bin.  The efficiency is   *)
(* the price range of the bin's trades per quantity traded in it, and is   *)
(* missing when the quantities are zero.                                   *)
Frozen(bins, spent, i) ==
  LET b == bins[i]
      u == UnitOf(bins)
  IN  [index      |-> i,
       buy        |-> b.buy,
       sell       |-> b.sell,
       lowest     |-> b.lowest,
       highest    |-> b.highest,
       buyRatio   |-> b.buy * (u \div Below(bins, i)),
       sellRatio  |-> b.sell * (u \div Above(bins, i)),
       efficiency |-> IF TotalOf(b) = 0 THEN <<>>
                      ELSE <<(b.highest - b.lowest) * (u \div TotalOf(b))>>,
       spent      |-> IF i \in DOMAIN spent THEN spent[i] ELSE 0]

Ordered(S) == SetToSortSeq(S, <)

(* ActiveCandle.close, and to_record of a candle that is still open with   *)
(* the time of the snapshot for the time of the close.                     *)
Record(c, until) ==
  LET order == Ordered(DOMAIN c.bins)
      spent == IF Untouched(c) THEN c.spent ELSE Stayed(c, until)
  IN  [open |-> c.open, high |-> c.high, low |-> c.low, close |-> c.close,
       unit |-> UnitOf(c.bins),
       bins |-> [k \in DOMAIN order |-> Frozen(c.bins, spent, order[k])]]

(* close_active_candle_for_kline: the prices are those of the kline.       *)
RecordOfKline(c, k, until) ==
  Record([c EXCEPT !.open = k.open, !.high = k.high, !.low = k.low, !.close = k.close], until)

(* dominant_diagonal_side, and dominant_side_volume                        *)
DiagonalSide(b) ==
  IF b.buyRatio > b.sellRatio THEN "BUY"
  ELSE IF b.sellRatio > b.buyRatio THEN "SELL" ELSE "NONE"

DiagonalVolume(b) ==
  CASE DiagonalSide(b) = "BUY" -> b.buy
    [] DiagonalSide(b) = "SELL" -> b.sell
    [] OTHER -> 0

-----------------------------------------------------------------------------
(* output_bin_indices: the bins a page draws run without a gap over the    *)
(* body and the bins traded in; build_candle_bin_features fills the rest   *)
(* with empty bins.                                                        *)
DrawnIndices(r) ==
  LET shown == {Index(Min({r.open, r.close})), Index(Max({r.open, r.close}))}
                 \union {r.bins[k].index : k \in DOMAIN r.bins}
  IN  IF r.bins = <<>> THEN {} ELSE Min(shown) .. Max(shown)

EmptyFeature(i) ==
  [index |-> i, buy |-> 0, sell |-> 0, buyRatio |-> 0, sellRatio |-> 0,
   efficiency |-> <<>>, spent |-> 0, side |-> "NONE", volume |-> 0]

Feature(r, i) ==
  IF \E k \in DOMAIN r.bins : r.bins[k].index = i
  THEN LET b == r.bins[CHOOSE k \in DOMAIN r.bins : r.bins[k].index = i]
       IN  [index |-> i, buy |-> b.buy, sell |-> b.sell, buyRatio |-> b.buyRatio,
            sellRatio |-> b.sellRatio, efficiency |-> b.efficiency,
            spent |-> b.spent, side |-> DiagonalSide(b), volume |-> DiagonalVolume(b)]
  ELSE EmptyFeature(i)

Features(r) ==
  LET order == Ordered(DrawnIndices(r))
  IN  [k \in DOMAIN order |-> Feature(r, order[k])]

(* build_candle_study_snapshot: the newest records, newest first.          *)
Snapshot(records, count) ==
  LET newest == SortSeq(records, LAMBDA r, s : r.opened > s.opened)
  IN  SubSeq(newest, 1, Min({count, Len(newest)}))

-----------------------------------------------------------------------------
(* Medians and quartiles of a sequence of whole numbers.  A median is kept *)
(* twice, a quartile four times its size.                                  *)
Sorted(values) == SortSeq(values, <)

TwiceMedian(values) ==
  LET s == Sorted(values)
      m == Len(s) \div 2
  IN  IF Len(s) % 2 = 1 THEN 2 * s[m + 1] ELSE s[m] + s[m + 1]

(* _percentile with three quarters: the interpolated third quartile.       *)
FourTimesQuartile(values) ==
  LET s    == Sorted(values)
      rank == 3 * (Len(s) - 1)
      low  == (rank \div 4) + 1
  IN  4 * s[low] + (s[Min({low + 1, Len(s)})] - s[low]) * (rank % 4)

(* _percentile_ranks: the middle of the places a value has among the       *)
(* others, from 0 for the smallest to 2 (n - 1) for the largest.           *)
RankSum(values, v) ==
  Cardinality({j \in DOMAIN values : values[j] < v})
    + Len(values) - 1 - Cardinality({j \in DOMAIN values : values[j] > v})

Positive(values) == SelectSeq(values, LAMBDA v : v > 0)

(* calculate_contract_spike_metrics and is_contract_spike: the bins that   *)
(* exceed the median of the normal core by 12 / 0.6745 times its median    *)
(* deviation.  When the core does not deviate there are none.              *)
Spikes(totals) ==
  LET traded    == Positive(totals)
      core      == SelectSeq(traded, LAMBDA v : 4 * v <= FourTimesQuartile(traded))
      median    == TwiceMedian(core)
      deviation == TwiceMedian([k \in DOMAIN core |->
                     IF 2 * core[k] >= median THEN 2 * core[k] - median
                     ELSE median - 2 * core[k]])
  IN  IF traded = <<>> \/ deviation = 0 THEN {}
      ELSE {k \in DOMAIN totals : /\ totals[k] > 0
                                  /\ 6745 * 2 * (2 * totals[k] - median) >= 120000 * deviation}

(* detect_hvns: the bins of at least twice the median volume, and the core *)
(* bin, the first of the largest.                                          *)
HighVolume(totals) ==
  LET traded == Positive(totals)
  IN  IF traded = <<>> THEN {}
      ELSE {k \in DOMAIN totals : totals[k] > 0 /\ totals[k] >= TwiceMedian(traded)}

CoreBin(totals) ==
  CHOOSE k \in HighVolume(totals) :
    \A j \in HighVolume(totals) :
      totals[j] < totals[k] \/ (totals[j] = totals[k] /\ k <= j)

(* AdaptiveBinSizer.calculate: alpha percent of the median range of the    *)
(* last candles, in whole steps of the price, rounded half up, at least    *)
(* one.                                                                    *)
AdaptiveSize(ranges, lookback, alpha, step) ==
  LET recent == SubSeq(ranges, Max({1, Len(ranges) - lookback + 1}), Len(ranges))
      moved  == Positive(recent)
      parts  == 200 * step
  IN  IF moved = <<>> THEN step
      ELSE step * Max({1, (2 * alpha * TwiceMedian(moved) + parts) \div (2 * parts)})

=============================================================================
