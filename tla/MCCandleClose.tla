--------------------------- MODULE MCCandleClose ---------------------------
(* CandleClose on a small instance, and what the candles it evaluates go   *)
(* through: the definitions of CandleBins, TimeClusters, AbsorptionRules   *)
(* and EntryStates against reference definitions over bounded inputs.      *)
EXTENDS CandleClose

E == INSTANCE EntryStates WITH BinSize <- 2, One <- 2, Left <- 2

-----------------------------------------------------------------------------
(* Three trades of a candle that closes at 3, in any order of their times. *)
Trades == [1 .. 3 -> [at : 0 .. 2, price : {0, 1, 2, 5}, quantity : {3},
                      side : {"buy", "sell"}]]

\* The bins hold the quantities and prices of their trades, each once.
ASSUME BinsHoldTheirTrades ==
  \A trades \in Trades :
    LET bins == E!Traded(trades).bins
        inBin(i) == {k \in 1 .. 3 : E!Index(trades[k].price) = i}
    IN  /\ DOMAIN bins = {E!Index(trades[k].price) : k \in 1 .. 3}
        /\ \A i \in DOMAIN bins :
             /\ bins[i].buy  = 3 * Cardinality({k \in inBin(i) : trades[k].side = "buy"})
             /\ bins[i].sell = 3 * Cardinality({k \in inBin(i) : trades[k].side = "sell"})
             /\ bins[i].lowest  = E!Min({trades[k].price : k \in inBin(i)})
             /\ bins[i].highest = E!Max({trades[k].price : k \in inBin(i)})

\* The time from the first trade handled to the close is given to the bins
\* once, whatever the order of the trades.
ASSUME TimeIsGivenOnce ==
  \A trades \in Trades : trades[1].at >= trades[2].at \/ trades[1].side = "buy" =>
    LET bins == E!Record(E!Traded(trades), 3).bins
    IN  E!SumFunction([k \in DOMAIN bins |-> bins[k].spent]) = 3 - trades[1].at

\* A bin's ratio times what it is compared with is what was traded in it.
ASSUME RatiosAreExact ==
  \A trades \in Trades : trades[1].at = 0 /\ trades[2].at = 1 /\ trades[3].at = 2 =>
    LET c == E!Traded(trades)
        r == E!Record(c, 3)
    IN  \A k \in DOMAIN r.bins :
          LET b == r.bins[k]
          IN  /\ b.buyRatio * E!Below(c.bins, b.index) = b.buy * r.unit
              /\ b.sellRatio * E!Above(c.bins, b.index) = b.sell * r.unit
              /\ b.efficiency[1] * E!TotalOf(b) = (b.highest - b.lowest) * r.unit

\* What a page draws has no gap, repeats no bin and loses none.
ASSUME DrawnWithoutGap ==
  \A trades \in Trades : trades[1].at = 0 /\ trades[2].at = 1 /\ trades[3].at = 2 =>
    LET r == E!Record(E!Traded(trades), 3)
        f == E!Features(r)
    IN  /\ \A k \in 2 .. Len(f) : f[k].index = f[k - 1].index + 1
        /\ E!SumFunction([k \in DOMAIN f |-> f[k].buy + f[k].sell]) = 9

-----------------------------------------------------------------------------
Totals == [1 .. 4 -> {0, 1, 2, 3, 90}] \union [1 .. 5 -> {1, 2, 60}]

\* Abnormal bins and high-volume nodes are the largest bins, and neither is
\* ever every bin; the core bin is one of the nodes.
ASSUME LargestStandOut ==
  \A totals \in Totals :
    LET above(S) == \A j \in S, k \in DOMAIN totals : totals[k] >= totals[j] => k \in S
    IN  /\ above(E!Spikes(totals)) /\ E!Spikes(totals) # DOMAIN totals
        /\ above(E!HighVolume(totals)) /\ E!HighVolume(totals) # DOMAIN totals
        /\ E!HighVolume(totals) # {} => E!CoreBin(totals) \in E!HighVolume(totals)
ASSUME SomeStandOut == E!Spikes(<<1, 2, 3, 90>>) = {4} /\ E!HighVolume(<<1, 2, 3, 90>>) = {4}

\* A percentile rank is the mean of the places of the value in sorted order.
ASSUME RanksAreMeanPlaces ==
  \A totals \in Totals : \A k \in DOMAIN totals :
    LET sorted == E!Sorted(totals)
        places == {j \in DOMAIN sorted : sorted[j] = totals[k]}
    IN  E!RankSum(totals, totals[k]) = E!Min(places) + E!Max(places) - 2

-----------------------------------------------------------------------------
(* Records that differ in their ends, their direction and their delta.     *)
RuleRecord(low, up, delta) ==
  [opened |-> 0, open |-> 5, close |-> IF up THEN 6 ELSE 4, low |-> low, high |-> 9 - low,
   unit |-> 1,
   bins |-> <<[index |-> 0, buy |-> IF delta > 0 THEN 4 ELSE 0, sell |-> IF delta < 0 THEN 4 ELSE 0,
               lowest |-> 0, highest |-> 1, buyRatio |-> 0, sellRatio |-> 0,
               efficiency |-> <<0>>, spent |-> 0]>>]

RuleRecords == {RuleRecord(low, up, delta) : low \in 1 .. 2, up \in BOOLEAN, delta \in {-1, 1}}

\* The stop of an entry lies beyond the candles before it and is not passed
\* by the ones after it.
ASSUME StopIsTheEnd ==
  \A records \in [1 .. 4 -> RuleRecords], side \in {"BUY", "SELL"} :
    E!HasStop(records, side) =>
      LET i == E!Selected(records, side)
      IN  \A j \in 1 .. 4 : /\ j >= i => E!Edge(records[i], side) <= E!Edge(records[j], side)
                            /\ j \in i - 2 .. i - 1 =>
                                 E!Edge(records[i], side) < E!Edge(records[j], side)

\* The rules need no more than the last Left + 2 records ...
ASSUME WindowIsEnough ==
  \A older \in RuleRecords, records \in [1 .. 4 -> RuleRecords], side \in {"BUY", "SELL"} :
    E!HasStop(records, side) <=> E!HasStop(<<older>> \o records, side)

\* ... but a record a late trade made of a candle of theirs takes a place.
ASSUME LateRecordTakesPlace ==
  \E records \in [1 .. 4 -> RuleRecords], late \in RuleRecords :
    /\ E!HasStop(records, "BUY")
    /\ ~E!HasStop(<<records[2], records[3], late, records[4]>>, "BUY")

\* Candles of trades in which a fall ends: the last one opens a position and
\* closes a profitable one of the other side.
Earlier == <<[at |-> 0, price |-> 6, quantity |-> 4, side |-> "sell"],
             [at |-> 1, price |-> 7, quantity |-> 8, side |-> "buy"]>>
Falling == <<[at |-> 0, price |-> 6, quantity |-> 8, side |-> "sell"],
             [at |-> 1, price |-> 4, quantity |-> 8, side |-> "sell"]>>
Bought  == <<[at |-> 0, price |-> 2, quantity |-> 400, side |-> "buy"],
             [at |-> 1, price |-> 3, quantity |-> 2, side |-> "buy"]>>
RecordOfTrades(opened, trades) ==
  LET r == E!Record(E!Traded(trades), 3)
  IN  [opened |-> opened, open |-> r.open, close |-> r.close, low |-> r.low, high |-> r.high,
       unit |-> r.unit, bins |-> r.bins]
ASSUME RulesFire ==
  LET closed == [k \in 1 .. 4 |->
                   RecordOfTrades(k, IF k = 4 THEN Bought ELSE IF k = 3 THEN Falling ELSE Earlier)]
      short  == [side |-> "SELL", profit |-> 1]
      result == E!Evaluated(closed, closed[4], {short, [short EXCEPT !.profit = 0],
                                                [short EXCEPT !.side = "BUY"]})
  IN  /\ result.stops["BUY"] = {2} /\ result.stops["SELL"] = {} /\ result.exits = {short}
      /\ ~E!Triggered(E!Evaluated(closed, closed[3], {short}))

\* The candles of tests/test_absorption_detection_rules.py:159-205.
TestBin(i, spent, buy, sell, buyRatio, sellRatio) ==
  [index |-> i, spent |-> spent, buy |-> buy, sell |-> sell,
   buyRatio |-> buyRatio, sellRatio |-> sellRatio]
ASSUME ClustersAsTested ==
  LET plain(i) == TestBin(i, 1, 20, 20, 20, 20)
      spike    == <<plain(0), TestBin(1, 20, 60, 56, 60, 58), plain(2), plain(3)>>
      cluster  == <<plain(0), TestBin(1, 12, 32, 36, 32, 31), TestBin(2, 12, 32, 36, 32, 31), plain(3)>>
      large    == <<TestBin(0, 1, 40, 40, 40, 40), TestBin(1, 20, 120, 128, 120, 120)>>
  IN  /\ E!Results(spike, 60) = {{2}} /\ E!SetupSide(spike, {2}) = "SELL"
      /\ E!ZoneOf(spike, {2}) = [low |-> 2, high |-> 4]
      /\ E!Results(cluster, 60) = {{2, 3}} /\ E!SetupSide(cluster, {2, 3}) = "BUY"
      /\ E!ZoneOf(cluster, {2, 3}) = [low |-> 2, high |-> 6]
      /\ E!Results(large, 60) = {{2}}

\* No candidate has a gap, and a single bin is in no other candidate.
ASSUME CandidatesHaveNoGap ==
  \A spent \in [1 .. 4 -> {0, 10, 20, 30}], gap \in 1 .. 4 :
    LET bins == [k \in 1 .. 4 |-> TestBin(IF k < gap THEN k ELSE k + 1, spent[k], 1, 1, 1, 1)]
    IN  \A S, T \in E!Candidates(bins, 60) :
          /\ Cardinality(S) = E!Max({bins[k].index : k \in S}) - E!Min({bins[k].index : k \in S}) + 1
          /\ Cardinality(S) = 1 => S = T \/ S \intersect T = {}

\* A candle evaluated twice leaves a result in the buffer without its bins.
ASSUME BufferForgetsBins ==
  LET twice == E!FoldLeft(LAMBDA m, c : E!Remembered(m, c, 3), E!NewMemory, <<1, 2, 1, 3>>)
  IN  twice.results = <<2, 1, 3>> /\ twice.bins = {2, 3}

-----------------------------------------------------------------------------
(* Four candles of the entry states: whether each seeds or confirms, and   *)
(* its end.                                                                *)
Scripts == [1 .. 4 -> [seeds : BOOLEAN, confirms : BOOLEAN, end : 1 .. 2]]

StateAfter(script, n) ==
  E!FoldLeft(LAMBDA s, k : E!After(s, script[k].seeds, script[k].confirms, script[k].end, k),
             <<>>, [k \in 1 .. n |-> k])

\* An entry follows a candle that absorbed by fewer than Timeout candles, and
\* its stop is the furthest end since then.
ASSUME EntriesFollowAbsorption ==
  \A script \in Scripts, n \in 1 .. 4 :
    LET before == StateAfter(script, n - 1)
        c      == script[n]
    IN  E!Enters(before, c.confirms, n) =>
          \E k \in 1 .. n - 1 :
            /\ script[k].seeds /\ n - k < E!Timeout
            /\ E!StopOf(before, c.end) = E!Min({script[j].end : j \in k .. n})

=============================================================================
