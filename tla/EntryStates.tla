---------------------------- MODULE EntryStates ----------------------------
(***************************************************************************)
(* The older way of LiveAbsorptionRuntime to open and close positions:     *)
(* _evaluate_entry_state_machine waits, per side, for a candle that        *)
(* absorbed the other side and then for one in which its own side          *)
(* dominates; _evaluate_profit_exit_triggers closes profitable positions.  *)
(* On the side of the merge conflict marked HEAD the evaluation of a       *)
(* record no longer calls them (AbsorptionRules took their place); the     *)
(* tests still do.                                                         *)
(***************************************************************************)
EXTENDS TimeClusters

Timeout == 3   \* entry_state_timeout_closed_candles

-----------------------------------------------------------------------------
(* The bins a rule looks at, by the price of their lower end.              *)
PriceOf(b)  == b.index * BinSize
BodyLow(r)  == Min({r.open, r.close})
BodyHigh(r) == Max({r.open, r.close})

(* _candidate_entry_zone_bins: from the end of the candle to a third of    *)
(* its body.                                                               *)
EntryZone(r, side) ==
  {k \in DOMAIN r.bins : /\ VolumeValid(r.bins, k)
                         /\ r.low <= PriceOf(r.bins[k]) \/ side = "SELL"
                         /\ PriceOf(r.bins[k]) <= r.high \/ side = "BUY"
                         /\ IF side = "BUY"
                            THEN 3 * (PriceOf(r.bins[k]) - BodyLow(r)) <= BodyHigh(r) - BodyLow(r)
                            ELSE 3 * (BodyHigh(r) - PriceOf(r.bins[k])) <= BodyHigh(r) - BodyLow(r)}

(* _candidate_body_bins, of a candle that goes towards the side.           *)
Body(r, side) ==
  {k \in DOMAIN r.bins : /\ VolumeValid(r.bins, k)
                         /\ Leans(r, side)
                         /\ PriceOf(r.bins[k]) \in BodyLow(r) .. BodyHigh(r)}

-----------------------------------------------------------------------------
(* _detect_absorption_seed: in the zone the other side dominates with a    *)
(* large volume and a high ratio, and moves the price little.              *)
OwnRatios(bins, side) == [k \in DOMAIN bins |-> OwnRatio(bins[k], side)]

Seed(bins, k, side) ==
  LET valid == ValidBins(bins)
      other == Opposite(side)
  IN  /\ DominantSide(bins, k) = other
      /\ ~RankAbove(Efficiencies(bins), EfficiencyAt(bins, k), 20)
      /\ 4 * TotalOf(bins[k]) >= FourTimesQuartile(Volumes(valid))
      /\ 4 * OwnRatio(bins[k], other) > 5 * TwiceMedian(OwnRatios(valid, other))

Seeds(r, side) == \E k \in EntryZone(r, side) : Seed(r.bins, k, side)

(* _dominance_candidate                                                    *)
Dominance(bins, k, side) ==
  /\ DominantSide(bins, k) = side
  /\ RankAtLeast(Efficiencies(bins), EfficiencyAt(bins, k), 80)
  /\ StandsOut(bins, k)
  /\ 2 * OwnRatio(bins[k], side) > 13 * OwnRatio(bins[k], Opposite(side))

(* _detect_dominance_confirmation                                          *)
Confirms(r, side) == \E k \in Body(r, side) : Dominance(r.bins, k, side)

(* _detect_profit_exit_trigger, for a position of the side.                *)
ProfitExit(r, side) ==
  /\ Leans(r, Opposite(side))
  /\ \E k \in EntryZone(r, Opposite(side)) : Dominance(r.bins, k, Opposite(side))

-----------------------------------------------------------------------------
(* One side of _evaluate_entry_state_machine.  A state is <<>> or holds    *)
(* what it waits with; count is the number of the candle, and end the      *)
(* candle's end on the side of the stop, as Edge gives it.                 *)
Tracked(state, end) ==
  IF state = <<>> THEN <<>> ELSE <<[state[1] EXCEPT !.stop = Min({@, end})]>>

TimedOut(state, count) == state # <<>> /\ count >= state[1].expires

Enters(state, confirms, count) == state # <<>> /\ ~TimedOut(state, count) /\ confirms

(* The state after the candle: a state that times out is dropped without a *)
(* look for a new one, and a new one replaces the old.                     *)
After(state, seeds, confirms, end, count) ==
  IF TimedOut(state, count) THEN <<>>
  ELSE IF seeds THEN <<[expires |-> count + Timeout, stop |-> end, since |-> count]>>
  ELSE IF Enters(state, confirms, count) THEN <<>>
  ELSE Tracked(state, end)

StopOf(state, end) == Tracked(state, end)[1].stop

EvaluatedSide(state, r, side, count) ==
  [state |-> After(state, Seeds(r, side), Confirms(r, side), Edge(r, side), count),
   stops |-> IF Enters(state, Confirms(r, side), count)
             THEN {Toward(side, StopOf(state, Edge(r, side)))} ELSE {}]

=============================================================================
