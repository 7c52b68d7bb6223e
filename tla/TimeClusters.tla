---------------------------- MODULE TimeClusters ----------------------------
(***************************************************************************)
(* Where a candle absorbed: absorption_module/absorption_cluster_builder   *)
(* and absorption_memory.  Of the bins that passed the volume filter it    *)
(* takes single bins, or runs of neighbours, in which the price stayed     *)
(* long, keeps those whose volumes and diagonal ratios stand out against   *)
(* the other bins on both sides, and gives the best of them to the rolling *)
(* buffer of _process_closed_record.                                       *)
(*                                                                         *)
(* Bins are those of a record of CandleBins.  Thresholds are the defaults  *)
(* of AbsorptionRuntimeConfig.  A score is compared exactly.               *)
(***************************************************************************)
EXTENDS AbsorptionRules

SingleSharePercent   == 25   \* single_time_share_threshold
AdjacentSharePercent == 35   \* adjacent_time_cluster_share_threshold

(* _volume_valid_bins keeps the order of the bins.                         *)
ValidBins(bins) ==
  LET order == Ordered({k \in DOMAIN bins : VolumeValid(bins, k)})
  IN  [j \in DOMAIN order |-> bins[order[j]]]

-----------------------------------------------------------------------------
(* _build_time_candidates: sets of positions in bins.  duration is the     *)
(* length of the candle.                                                   *)
LongStay(bins, S, duration, percent) ==
  100 * SumFunctionOnSet([k \in DOMAIN bins |-> bins[k].spent], S) >= percent * Max({1, duration})

Singles(bins, duration) ==
  {{k} : k \in {j \in DOMAIN bins : LongStay(bins, {j}, duration, SingleSharePercent)}}

(* _adjacent_runs and _adjacent_time_cluster_windows: windows of two or    *)
(* more neighbours, none of which is a candidate by itself.                *)
Neighbours(bins, S) ==
  \A j, k \in S : j + 1 = k => bins[j].index + 1 = bins[k].index

Windows(bins, duration) ==
  {S \in {j .. k : j, k \in DOMAIN bins} :
     /\ Cardinality(S) >= 2
     /\ Neighbours(bins, S)
     /\ \A k \in S : {k} \notin Singles(bins, duration)
     /\ LongStay(bins, S, duration, AdjacentSharePercent)}

Candidates(bins, duration) == Singles(bins, duration) \union Windows(bins, duration)

-----------------------------------------------------------------------------
(* _reference_medians: of the positive values of the other bins, twice;    *)
(* without any there is no median and no result.                           *)
Fields == {"buy", "sell", "buyRatio", "sellRatio"}

ReferenceValues(bins, S, field) ==
  LET order == Ordered(DOMAIN bins \ S)
  IN  Positive([j \in DOMAIN order |-> bins[order[j]][field]])

HasReference(bins, S) == \A field \in Fields : ReferenceValues(bins, S, field) # <<>>

Reference2(bins, S, field) == TwiceMedian(ReferenceValues(bins, S, field))

Whole(bins, S, field) == SumFunctionOnSet([k \in DOMAIN bins |-> bins[k][field]], S)

(* _balanced: neither side is more than twice the other.                   *)
Balanced(v, w) == v > 0 /\ w > 0 /\ v <= 2 * w /\ w <= 2 * v

(* v is at least half times / 2 times the median.                          *)
Significant(v, half, median2) == 4 * v >= half * median2

(* _volume_rule_passes                                                     *)
VolumeRule(bins, S) ==
  LET bought == Whole(bins, S, "buy")
      sold   == Whole(bins, S, "sell")
  IN  /\ Significant(bought, 5, Reference2(bins, S, "buy"))
      /\ Significant(sold, 5, Reference2(bins, S, "sell"))
      /\ Balanced(bought, sold)

(* _single_diagonal_rule_passes and _cluster_diagonal_rule_passes          *)
DiagonalRule(bins, S) ==
  LET half == IF Cardinality(S) = 1 THEN 5 ELSE 3
  IN  \A k \in S : /\ Significant(bins[k].buyRatio, half, Reference2(bins, S, "buyRatio"))
                   /\ Significant(bins[k].sellRatio, half, Reference2(bins, S, "sellRatio"))
                   /\ Balanced(bins[k].buyRatio, bins[k].sellRatio)

Delta(bins, S) == Whole(bins, S, "buy") - Whole(bins, S, "sell")

(* _evaluate_absorption_candidate: bought absorption sets up a sale.       *)
Absorbs(bins, S) ==
  HasReference(bins, S) /\ VolumeRule(bins, S) /\ DiagonalRule(bins, S) /\ Delta(bins, S) # 0

SetupSide(bins, S) == IF Delta(bins, S) > 0 THEN "SELL" ELSE "BUY"

(* build_candle_absorption_results: what _process_closed_record chooses    *)
(* from.                                                                   *)
Results(bins, duration) == {S \in Candidates(bins, duration) : Absorbs(bins, S)}

Detected(bins, duration) == Results(bins, duration) # {}

ZoneOf(bins, S) ==
  [low  |-> bins[Min(S)].index * BinSize,
   high |-> (bins[Max(S)].index + 1) * BinSize]

-----------------------------------------------------------------------------
(* increment_closed_candle_count and update_rolling_buffer: the last       *)
(* results, and the bins of their candles by opening time.  The entry of a *)
(* candle is dropped with the first of its results.                        *)
NewMemory == [count |-> 0, results |-> <<>>, bins |-> {}]

Remembered(m, opened, max) ==
  LET appended == Append(m.results, opened)
      over     == Max({0, Len(appended) - max})
      dropped  == {appended[k] : k \in 1 .. over}
  IN  [count   |-> m.count + 1,
       results |-> SubSeq(appended, over + 1, Len(appended)),
       bins    |-> (m.bins \union {opened}) \ dropped]

=============================================================================
