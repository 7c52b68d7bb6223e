---------------------------- MODULE MCZoneReplay ----------------------------
(* ZoneReplay on three prices.  In the first footprint the opposing        *)
(* contracts of the BID side grow and then shrink, so that a run restarts; *)
(* the second has a terminal on either side, the wrong way round, so that  *)
(* zones are crossed; in the third an ASK zone may grow over two levels,   *)
(* and nothing trades at the bottom.                                       *)
EXTENDS ZoneReplay

Traded(b, s, k) == [buy |-> b, sell |-> s, spike |-> k]

MCFootprints ==
  {<<Traded(0, 3, TRUE), Traded(2, 4, FALSE), Traded(1, 3, FALSE)>>,
   <<Traded(3, 0, TRUE), Traded(1, 3, FALSE), Traded(0, 3, TRUE)>>,
   <<Traded(0, 0, FALSE), Traded(3, 1, FALSE), Traded(3, 0, TRUE)>>}

-----------------------------------------------------------------------------
(* The payloads and reports of levels, in candles of ten milliseconds.     *)
R == INSTANCE LevelReports WITH CandleSpan <- 10, None <- -1

Activity(opening, plain, refilled, refillExecuted, executed, withdrawn, closing) ==
  [candle |-> 10, price |-> 1, side |-> "BID", opening |-> opening, plain |-> plain,
   added |-> plain + refilled, executed |-> executed, withdrawn |-> withdrawn,
   closing |-> closing, refills |-> refilled, refilled |-> refilled,
   refillExecuted |-> refillExecuted, refillWithdrawn |-> withdrawn,
   orders |-> {}, fills |-> executed]

Activities ==
  {Activity(o, p, r, re, e, w, c) :
     o \in 0 .. 1, p \in 0 .. 1, r \in 0 .. 2, re \in 0 .. 3, e \in 0 .. 4, w \in 0 .. 1, c \in 0 .. 2}

\* A refill rate never passes 100 %, a level's does when more was executed than
\* was there, and then the report says that it does not add up.
ASSUME RatesAreBounded ==
  \A s \in Activities :
    LET r == R!Report(s)
    IN  /\ r.refillRate[1] \in 0 .. 1000
        /\ r.exceeds => ~r.conserved
        /\ r.rate # <<>> => (r.rate[1] > 1000 <=> r.exceeds)
        /\ r.conserved => r.closing <= r.available

\* 100 % does not say that everything was executed: rates are rounded.
ASSUME RatesAreRounded == R!Rate(2999, 3000) = <<1000>>

\* A bin of market contracts stands out only among at least five.
ASSUME SpikesNeedFiveBins ==
  /\ \A n \in 1 .. 4 : \A values \in [1 .. n -> 0 .. 3] : \A x \in 0 .. 3 :
       x \in R!ToSet(values) => ~R!Spike(x, values)
  /\ R!Spike(1, <<0, 0, 0, 0, 1>>)

FootBin(low, high, buy, sell) == [low |-> low, high |-> high, buy |-> buy, sell |-> sell]
Foot(open, bins) == [open |-> open, close |-> open + 9, bins |-> bins]
Ladder == <<FootBin(1, 2, 0, 9), FootBin(2, 3, 1, 0), FootBin(3, 4, 1, 0),
            FootBin(4, 5, 1, 0), FootBin(5, 6, 1, 0)>>

\* Every price from the lowest to the highest end has one bin, in whatever
\* order the bins are told, and the neighbours of a bin are those that touch it.
ASSUME EachPriceHasItsBin ==
  \A order \in {<<1, 2, 3, 4, 5>>, <<3, 5, 1, 4, 2>>, <<5, 4, 3, 2, 1>>} :
    LET bins == [k \in 1 .. 5 |-> Ladder[order[k]]]
    IN  /\ \A price \in 1 .. 6 : bins[R!BinFor(bins, price)].low = R!Min({price, 5})
        /\ \A k \in 1 .. 5 :
             {bins[j].low : j \in R!Neighbours(bins, k, "above")} = {bins[k].low + 1} \ {6}
        /\ \A k \in 1 .. 5 :
             {bins[j].low : j \in R!Neighbours(bins, k, "below")} = {bins[k].low - 1} \ {0}

Change(opens, price, refilled, executed) ==
  [candle |-> opens, price |-> price, side |-> "BID", refills |-> IF refilled > 0 THEN 1 ELSE 0,
   refilled |-> refilled, executed |-> executed, withdrawn |-> 0]

\* One event's changes of a level make one payload, and no contract is lost or
\* told twice.
ASSUME ChangesAreToldOnce ==
  \A a, b, c \in {Change(t, p, n, 2 - n) : t \in {10, 20}, p \in 1 .. 2, n \in {0, 2}} :
    LET changes == <<a, b, c>>
        grouped == R!Grouped(changes)
        total(seq, field) == R!SumFunction([k \in DOMAIN seq |-> seq[k][field]])
    IN  /\ \A j, k \in DOMAIN grouped : R!KeyOf(grouped[j]) = R!KeyOf(grouped[k]) => j = k
        /\ {R!KeyOf(grouped[k]) : k \in DOMAIN grouped} = {R!KeyOf(d) : d \in {a, b, c}}
        /\ \A field \in {"refills", "refilled", "executed", "withdrawn"} :
             total(grouped, field) = total(changes, field)

Told(change, s, candles, at) == R!ChangePayload(change, s, s.closing, candles, at, FALSE)

Stats(refilled, executed, refillExecuted) ==
  Activity(1, 0, refilled, refillExecuted, executed, 0, refilled + 1 - executed)

\* A zone counts the refills of its levels, but what was executed at them only
\* up to their last refill change: fills of other contracts are not told.
ASSUME ZonesTellOldTrades ==
  LET candles == <<Foot(10, Ladder)>>
      before == Told(Change(10, 1, 1, 0), Stats(1, 1, 0), candles, 12)
      after == Told(Change(10, 2, 1, 0), Stats(1, 1, 0), candles, 14)
      bucket == R!Filed(R!Filed(R!Filed(<<>>, before), after), after)
      zone == R!ZonePayload(<<R!LevelAt(bucket, 2, "BID"), R!LevelAt(bucket, 1, "BID")>>, "BID")
  IN  \* Between the two payloads one more contract was executed at the price 1.
      /\ zone.refills = 2 /\ zone.refilled = 2 /\ zone.low = 1 /\ zone.high = 3
      /\ zone.filled = 2 /\ zone.filled < 1 + Stats(1, 2, 0).executed
      /\ zone.passes /\ zone.spike

\* A change to the refills of an earlier candle whose footprint has no bin for
\* the price is filed in the candle of its event, and counted in its zones.
ASSUME MissingBinsMixCandles ==
  LET candles == <<Foot(10, SubSeq(Ladder, 2, 5)), Foot(20, Ladder)>>
      old == Told(Change(10, 1, 0, 1), Stats(2, 2, 1), candles, 23)
      new == Told(Change(20, 1, 1, 0), Stats(1, 1, 0), candles, 25)
      bucket == R!Filed(R!Filed(<<>>, old), new)
  IN  /\ R!FiledAt(old) = 20 /\ R!FiledAt(new) = 20
      /\ R!LevelAt(bucket, 1, "BID").refills = 3
      /\ R!FiledAt(Told(Change(10, 1, 0, 1), Stats(2, 2, 1), <<Foot(10, Ladder)>>, 23)) = 10

\* The orders a zone hands to the actor proxy are its levels, not orders of the
\* market: one for each, and the most refilled first.
ASSUME ProxyOrdersAreLevels ==
  \A m, n \in 0 .. 2 :
    LET candles == <<Foot(10, Ladder)>>
        bucket == <<Told(Change(10, 1, m, 0), Stats(m, 1, 0), candles, 12),
                    Told(Change(10, 2, n, 0), Stats(n, 1, 0), candles, 14)>>
        orders == R!ProxyOrders(R!Latest(bucket \o SubSeq(bucket, 1, 1)))
    IN  /\ {o.id : o \in R!ToSet(orders)} = {p.key : p \in R!ToSet(bucket)}
        /\ Len(orders) = 2 /\ orders[1].refilled = R!Max({m, n})
        /\ \A k \in 1 .. 2 : orders[k].initial >= orders[k].size

=============================================================================
