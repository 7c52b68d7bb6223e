-------------------------- MODULE AbsorptionRules --------------------------
(***************************************************************************)
(* What LiveAbsorptionRuntime makes of a closed candle                     *)
(* (absorption/absorption_runtime.py, the side of its merge conflicts      *)
(* marked HEAD): _process_closed_record turns the bins of a record into    *)
(* decision bins and evaluates the reference candle rules, which open and  *)
(* close positions.  CandleClose says when a record is evaluated and       *)
(* ExecutionLink what becomes of the triggers.                             *)
(*                                                                         *)
(* Records and their bins are those of CandleBins.  Floats are exact here, *)
(* and entry_ratio_epsilon, a millionth, is less than any quantity.        *)
(***************************************************************************)
EXTENDS CandleBins

CONSTANT
  Left   \* REFERENCE_RULE_LEFT_CANDLE_COUNT

Opposite(side) == IF side = "BUY" THEN "SELL" ELSE "BUY"

-----------------------------------------------------------------------------
(* The rank of v is at least, or more than, percent / 100; one value has    *)
(* rank 1.                                                                 *)
RankAtLeast(values, v, percent) ==
  Len(values) = 1 \/ 100 * RankSum(values, v) >= percent * 2 * (Len(values) - 1)

RankAbove(values, v, percent) ==
  Len(values) = 1 \/ 100 * RankSum(values, v) > percent * 2 * (Len(values) - 1)

(* The deviation of v from the mean is at least 3 / 2 of the standard      *)
(* deviation, which is not 0 (n times the deviations, n n the variance).   *)
DeviatesUp(values, v) ==
  LET n        == Len(values)
      total    == SumFunction(values)
      away     == n * v - total
      variance == n * SumFunction([k \in DOMAIN values |-> values[k] * values[k]]) - total * total
  IN  variance > 0 /\ away > 0 /\ 4 * away * away >= 9 * variance

-----------------------------------------------------------------------------
(* _enrich_decision_bins                                                   *)
MinVolumePercent     == 15   \* min_valid_bin_volume_percentile
MinOppositePercent   == 20   \* dominant_side_min_opposite_volume_ratio
MinBinsForZscore     == 5    \* minimum_required_bins_for_zscore

Volumes(bins) == [k \in DOMAIN bins |-> TotalOf(bins[k])]

VolumeValid(bins, k) ==
  TotalOf(bins[k]) > 0 /\ RankAtLeast(Volumes(bins), TotalOf(bins[k]), MinVolumePercent)

Own(b, side)      == IF side = "BUY" THEN b.buy ELSE b.sell
OwnRatio(b, side) == IF side = "BUY" THEN b.buyRatio ELSE b.sellRatio

Dominates(b, side) ==
  /\ Own(b, side) > 0
  /\ OwnRatio(b, side) > OwnRatio(b, Opposite(side))
  /\ 100 * Own(b, side) >= MinOppositePercent * Own(b, Opposite(side))

DominantSide(bins, k) ==
  IF ~VolumeValid(bins, k) THEN "NONE"
  ELSE IF Dominates(bins[k], "BUY") THEN "BUY"
  ELSE IF Dominates(bins[k], "SELL") THEN "SELL" ELSE "NONE"

(* A bin has an efficiency when it has a dominant side.                    *)
HasEfficiency(bins) == {k \in DOMAIN bins : DominantSide(bins, k) # "NONE"}

EfficiencyAt(bins, k) == bins[k].efficiency[1]

Efficiencies(bins) ==
  LET order == Ordered(HasEfficiency(bins))
  IN  [j \in DOMAIN order |-> EfficiencyAt(bins, order[j])]

(* efficiency_percentile and efficiency_zscore against a threshold.        *)
MoreEfficient(bins, k, percent) ==
  k \in HasEfficiency(bins) /\ RankAbove(Efficiencies(bins), EfficiencyAt(bins, k), percent)

HasZscores(bins) == Cardinality(HasEfficiency(bins)) >= MinBinsForZscore

StandsOut(bins, k) ==
  HasZscores(bins) /\ DeviatesUp(Efficiencies(bins), EfficiencyAt(bins, k))

(* abnormal_contract                                                       *)
Abnormal(bins) == Spikes(Volumes(bins))

-----------------------------------------------------------------------------
(* _rounded_ui_volume rounds half up to whole contracts, and               *)
(* _record_rounded_cumulative_delta adds up what a page shows.             *)
Rounded(quantity) == (2 * quantity + One) \div (2 * One)

RoundedDelta(r) ==
  SumFunction([k \in DOMAIN r.bins |-> Rounded(r.bins[k].buy) - Rounded(r.bins[k].sell)])

(* x as seen by a side: more is better for it.                             *)
Toward(side, x) == IF side = "BUY" THEN x ELSE -x

(* _is_bullish_candle for BUY, _is_bearish_candle for SELL                 *)
Leans(r, side)      == Toward(side, r.close) > Toward(side, r.open)
DeltaLeans(r, side) == Toward(side, RoundedDelta(r)) > 0

(* The end of a candle where a stop of the side is put.                    *)
EndPrice(r, side) == IF side = "BUY" THEN r.low ELSE r.high
Edge(r, side)     == Toward(side, EndPrice(r, side))

(* _lowest_bin_sell_volume_is_zero, _highest_bin_buy_volume_is_zero        *)
EndIsBare(bins, side) ==
  /\ bins # <<>>
  /\ LET end == IF side = "BUY" THEN bins[1] ELSE bins[Len(bins)]
     IN  Rounded(Own(end, Opposite(side))) = 0

(* _buy_imbalance_bin, _sell_imbalance_bin: the bins with a diagonal ratio *)
(* above 100 on the side, below 1 on the other, and an efficiency above    *)
(* the lowest tenth.  Among them the highest ratio wins, then the          *)
(* efficiency, then the bin.                                               *)
Imbalanced(bins, unit, side) ==
  {k \in DOMAIN bins : /\ OwnRatio(bins[k], side) > 100 * unit
                       /\ OwnRatio(bins[k], Opposite(side)) < unit
                       /\ MoreEfficient(bins, k, 10)}

Preferred(bins, side, j, k) ==
  \/ OwnRatio(bins[j], side) > OwnRatio(bins[k], side)
  \/ /\ OwnRatio(bins[j], side) = OwnRatio(bins[k], side)
     /\ \/ EfficiencyAt(bins, j) > EfficiencyAt(bins, k)
        \/ EfficiencyAt(bins, j) = EfficiencyAt(bins, k) /\ j >= k

TriggerBin(bins, unit, side) ==
  CHOOSE j \in Imbalanced(bins, unit, side) :
    \A k \in Imbalanced(bins, unit, side) : Preferred(bins, side, j, k)

-----------------------------------------------------------------------------
(* _closed_records_up_to_reference: a stable sort by the opening time.  A  *)
(* record of the same candle that was closed later comes last.             *)
UpTo(records, opened) ==
  LET upto == {k \in DOMAIN records : records[k].opened <= opened}
      order == SetToSortSeq(upto, LAMBDA j, k :
                 \/ records[j].opened < records[k].opened
                 \/ records[j].opened = records[k].opened /\ j < k)
  IN  [k \in DOMAIN order |-> records[order[k]]]

(* _buy_entry_stop_reference, _sell_entry_stop_reference: the further of   *)
(* the ends of the last two candles, ...                                   *)
Selected(records, side) ==
  LET n == Len(records)
  IN  IF Edge(records[n - 1], side) <= Edge(records[n], side) THEN n - 1 ELSE n

(* ... beyond the ends of the Left candles before it ...                   *)
BreaksLeft(records, side) ==
  LET i == Selected(records, side)
  IN  i > Left /\ \A j \in i - Left .. i - 1 :
                    Edge(records[i], side) < Edge(records[j], side)

(* ... after a candle that went the other way on purpose or whose delta    *)
(* was for the side.                                                       *)
PreviousAgrees(previous, side) ==
  \/ Leans(previous, Opposite(side)) /\ DeltaLeans(previous, Opposite(side))
  \/ DeltaLeans(previous, side)

HasStop(records, side) ==
  BreaksLeft(records, side) /\ PreviousAgrees(records[Len(records) - 1], side)

(* What an entry for a side and an exit from the other side have in common. *)
(* The direction is read from the last of the records, the bins are those  *)
(* of the record under evaluation.                                         *)
Turns(records, record, side) ==
  /\ Leans(Last(records), side)
  /\ DeltaLeans(Last(records), side)
  /\ EndIsBare(record.bins, side)
  /\ Imbalanced(record.bins, record.unit, side) # {}

(* _detect_reference_entry_trigger: the stop of the trigger, if there is   *)
(* one.                                                                    *)
EntryStop(records, record, side) ==
  IF Turns(records, record, side) /\ HasStop(records, side)
  THEN {EndPrice(records[Selected(records, side)], side)} ELSE {}

(* _buy_exit_previous_condition, _sell_exit_previous_condition             *)
ExitPrevious(records, side) ==
  LET n        == Len(records)
      previous == records[n - 1]
  IN  \/ Leans(previous, side) /\ DeltaLeans(previous, side)
      \/ /\ n >= 3
         /\ DeltaLeans(previous, Opposite(side))
         /\ Edge(previous, Opposite(side)) < Edge(records[n], Opposite(side))
         /\ Leans(records[n - 2], side) /\ DeltaLeans(records[n - 2], side)

(* _detect_reference_exit_trigger, for a position of the side.             *)
Exits(records, record, side) ==
  Turns(records, record, Opposite(side)) /\ ExitPrevious(records, side)

(* _evaluate_reference_candle_rule_triggers, from its guards to the        *)
(* triggers it leaves: the stops of new entries, and the profitable open   *)
(* positions that are to be closed.  The commands are refreshed when there *)
(* is one.                                                                 *)
Evaluated(closed, record, positions) ==
  LET records   == UpTo(closed, record.opened)
      evaluates == record.bins # <<>> /\ Len(records) >= 2
  IN  [stops |-> [side \in {"BUY", "SELL"} |->
                    IF evaluates THEN EntryStop(records, record, side) ELSE {}],
       exits |-> {p \in positions : /\ evaluates
                                    /\ p.profit > 0
                                    /\ Exits(records, record, p.side)}]

Triggered(result) ==
  result.exits # {} \/ \E side \in DOMAIN result.stops : result.stops[side] # {}

=============================================================================
