---------------------------- MODULE LevelReports ----------------------------
(***************************************************************************)
(* What process/dataProcessEngine.py tells of the levels it keeps: the     *)
(* report of a level's activity in a candle, the footprint figures of a    *)
(* price, the payload of a refill change, the payload of a zone and the    *)
(* orders it hands to the actor proxy.  Pure: what a level holds is the    *)
(* argument (LevelLedger keeps it), and so are the levels of a zone        *)
(* (ZoneBook finds them).  Prices and times are numbers.                   *)
(***************************************************************************)
EXTENDS Integers, SequencesExt

CONSTANTS
  CandleSpan, \* the length of a candle, in ms
  None        \* a bin without an upper end

-----------------------------------------------------------------------------
(* Reports of levels.  A rate is in tenths of a percent, rounded, and the  *)
(* empty sequence where it is not defined.                                 *)
Rate(part, whole) ==
  IF whole > 0 THEN <<(2000 * part + whole) \div (2 * whole)>> ELSE <<>>

\* The contracts of a row that should be left, of those it had and got.
Expected(s) == s.opening + s.added - s.executed - s.withdrawn

(* _price_activity_payloads, of the activity s of a level in a candle.     *)
Report(s) ==
  LET executed == Min({s.refilled, s.refillExecuted})
  IN  [candle |-> s.candle, price |-> s.price, side |-> s.side,
       opening |-> s.opening, added |-> s.added, executed |-> s.executed,
       withdrawn |-> s.withdrawn, closing |-> s.closing, plain |-> s.plain,
       available |-> s.opening + s.added,
       rate |-> Rate(s.executed, s.opening + s.added),
       exceeds |-> s.executed > s.opening + s.added,
       conserved |-> s.closing = Expected(s) /\ Expected(s) >= 0,
       split |-> s.added = s.plain + s.refilled,
       refills |-> s.refills, refilled |-> s.refilled,
       refillExecuted |-> executed,
       refillWithdrawn |-> Min({s.refilled, s.refillWithdrawn}),
       refillRate |-> IF s.refilled > 0 THEN Rate(executed, s.refilled) ELSE <<0>>,
       hasRefill |-> s.refills > 0 /\ s.refilled > 0,
       orders |-> s.orders,
       active |-> s.orders # {} \/ s.executed > 0 \/ s.added > 0]

-----------------------------------------------------------------------------
(* The footprint.  A candle without a closing time is one instant long.    *)
CloseOf(c)      == IF c.close > 0 THEN c.close ELSE c.open
Holds(c, at) == c.open <= at /\ at <= CloseOf(c)

(* _footprint_bin_for_price: the first bin the price lies in, or else the  *)
(* last that ends at it; 0 if there is none.                               *)
BinFor(bins, price) ==
  LET within == {k \in DOMAIN bins :
                   IF bins[k].high = None THEN bins[k].low = price
                   ELSE bins[k].low <= price /\ price < bins[k].high}
      ending == {k \in DOMAIN bins : bins[k].high = price /\ bins[k].low <= price}
  IN  IF within # {} THEN Min(within) ELSE Max(ending \cup {0})

\* The reports of levels without a bin in their candle's footprint are dropped.
InFootprint(candles, s) ==
  \E k \in DOMAIN candles :
    /\ Holds(candles[k], s.candle)
    /\ \A j \in 1 .. k - 1 : ~Holds(candles[j], s.candle)
    /\ BinFor(candles[k].bins, s.price) # 0

(* _footprint_adjacent_bin: bins are put in order of their ends.           *)
UpperEnd(b) == IF b.high = None THEN b.low ELSE b.high

Before(bins, i, j) ==
  \/ bins[i].low < bins[j].low
  \/ /\ bins[i].low = bins[j].low
     /\ \/ UpperEnd(bins[i]) < UpperEnd(bins[j])
        \/ UpperEnd(bins[i]) = UpperEnd(bins[j]) /\ i < j

Twin(bins, k) ==
  Min({k} \cup {j \in DOMAIN bins : /\ bins[k].high # None
                                    /\ bins[j].low = bins[k].low
                                    /\ UpperEnd(bins[j]) = bins[k].high})

Neighbours(bins, k, direction) ==
  LET beyond(i, j) == IF direction = "above" THEN Before(bins, i, j) ELSE Before(bins, j, i)
      far == {j \in DOMAIN bins : beyond(Twin(bins, k), j)}
  IN  {j \in far : ~\E i \in far : beyond(i, j)}

Contracts(bins, found, side) ==
  LET sides == {IF side = "buy" THEN bins[k].buy ELSE bins[k].sell : k \in found}
  IN  Max(sides \cup {0})

(* _z_score at least 9/5: with n numbers of sum s and of squares q, the    *)
(* score of x is (n x - s) / sqrt(n q - s s).                              *)
Spike(x, values) ==
  LET n == Len(values)
      s == SumFunction(values)
      spread == n * SumFunction([k \in DOMAIN values |-> values[k] * values[k]]) - s * s
      over == n * x - s
  IN  spread > 0 /\ over > 0 /\ 25 * over * over >= 81 * spread

RatioMin == 4

NoMetrics ==
  [open |-> 0, low |-> None, high |-> None, buy |-> 0, sell |-> 0,
   hits |-> 0, against |-> 1, passes |-> FALSE, spike |-> FALSE]

(* _footprint_metrics_for_order: of the first candle that holds the time   *)
(* and has a bin for the price.                                            *)
MetricsIn(c, k, side) ==
  LET b == c.bins[k]
      hits == IF side = "BID" THEN b.sell ELSE b.buy
      other == IF side = "BID" THEN b.buy ELSE b.sell
      against == Max({1, IF side = "BID" THEN Contracts(c.bins, Neighbours(c.bins, k, "above"), "buy")
                         ELSE Contracts(c.bins, Neighbours(c.bins, k, "below"), "sell")})
  IN  [open |-> c.open, low |-> b.low, high |-> b.high, buy |-> b.buy, sell |-> b.sell,
       hits |-> hits, against |-> against,
       passes |-> other = 0 /\ hits > 0 /\ hits >= RatioMin * against,
       spike |-> Spike(hits, [j \in DOMAIN c.bins |-> IF side = "BID" THEN c.bins[j].sell
                                                                     ELSE c.bins[j].buy])]

Metrics(candles, at, price, side) ==
  LET found == {k \in DOMAIN candles : Holds(candles[k], at) /\ BinFor(candles[k].bins, price) # 0}
  IN  IF found = {} THEN NoMetrics
      ELSE LET c == candles[Min(found)] IN MetricsIn(c, BinFor(c.bins, price), side)

-----------------------------------------------------------------------------
(* Refill changes.  A change is what one event did to the refills of a     *)
(* level in a candle; those of one event to one level count as one.        *)
KeyOf(c) == [candle |-> c.candle, price |-> c.price, side |-> c.side]

Merged(changes, key) ==
  LET of(field) == SumFunction([k \in DOMAIN changes |->
                                  IF KeyOf(changes[k]) = key THEN changes[k][field] ELSE 0])
  IN  [candle |-> key.candle, price |-> key.price, side |-> key.side,
       refills |-> of("refills"), refilled |-> of("refilled"),
       executed |-> of("executed"), withdrawn |-> of("withdrawn")]

Grouped(changes) ==
  LET first(k) == \A j \in 1 .. k - 1 : KeyOf(changes[j]) # KeyOf(changes[k])
      firsts == FoldLeftDomain(LAMBDA keys, k : IF first(k) THEN Append(keys, KeyOf(changes[k])) ELSE keys,
                               <<>>, changes)
  IN  [k \in DOMAIN firsts |-> Merged(changes, firsts[k])]

Reason(c) == IF c.refilled > 0 THEN "REFILL"
             ELSE IF c.executed > 0 THEN "REFILL_EXECUTED" ELSE "REFILL_WITHDRAWN"

(* to_payload of the stand-in order that _payloads_for_level_changes makes *)
(* of a level: with the level's figures in the candle, or, if changes are  *)
(* told one by one, with those of the change.                              *)
ChangePayload(c, s, resting, candles, at, single) ==
  LET m == Metrics(candles, c.candle, c.price, c.side)
      refilled == IF single THEN c.refilled ELSE s.refilled
      executed == IF single THEN c.executed ELSE s.refillExecuted
  IN  [key |-> KeyOf(c), price |-> c.price, side |-> c.side, at |-> at,
       reason |-> Reason(c), open |-> m.open, marker |-> c.candle,
       low |-> IF m.low = None THEN c.price ELSE m.low,
       high |-> IF m.high = None THEN c.price ELSE m.high,
       buy |-> m.buy, sell |-> m.sell, passes |-> m.passes, spike |-> m.spike,
       refills |-> IF single THEN c.refills ELSE s.refills,
       refilled |-> refilled, executed |-> executed,
       withdrawn |-> IF single THEN c.withdrawn ELSE s.refillWithdrawn,
       rate |-> IF refilled > 0 THEN Rate(Min({refilled, Max({0, executed})}), refilled) ELSE <<0>>,
       direction |-> IF c.side = "BID" THEN "LONG" ELSE "SHORT",
       size |-> resting, initial |-> s.opening, largest |-> s.opening + s.added,
       trades |-> s.fills, filled |-> s.executed]

ChangePayloads(changes, stats, resting, candles, at, single) ==
  LET grouped == Grouped(changes)
  IN  [k \in DOMAIN grouped |->
         ChangePayload(grouped[k], stats[KeyOf(grouped[k])], resting[KeyOf(grouped[k])],
                       candles, at, single)]

\* The candle whose zones the payload takes part in.
FiledAt(p) == IF p.open > 0 THEN p.open ELSE (p.at \div CandleSpan) * CandleSpan

(* bucket[order_key] = payload: a level's payload replaces its last one.   *)
Filed(bucket, p) ==
  LET same == {k \in DOMAIN bucket : bucket[k].key = p.key}
  IN  IF same = {} THEN Append(bucket, p) ELSE [bucket EXCEPT ![Min(same)] = p]

-----------------------------------------------------------------------------
(* Zones.  The payloads of one price and side make a level, told by the    *)
(* last of its payloads that has refills.                                  *)
Total(payloads, field(_)) == SumFunction([k \in DOMAIN payloads |-> field(payloads[k])])

Representative(payloads) ==
  LET refilling == {k \in DOMAIN payloads : payloads[k].refills > 0 \/ payloads[k].refilled > 0}
      among == IF refilling = {} THEN DOMAIN payloads ELSE refilling
      later(i, j) == \/ payloads[i].at > payloads[j].at
                     \/ payloads[i].at = payloads[j].at /\ payloads[i].refills > payloads[j].refills
  IN  payloads[Min({k \in among : ~\E j \in among : later(j, k)})]

LevelAt(bucket, price, side) ==
  LET own == SelectSeq(bucket, LAMBDA p : p.price = price /\ p.side = side)
  IN  [price |-> price, side |-> side, payloads |-> own,
       low |-> Min({price} \cup {own[k].low : k \in DOMAIN own}),
       high |-> Max({price} \cup {own[k].high : k \in DOMAIN own}),
       refills |-> Total(own, LAMBDA p : p.refills),
       refilled |-> Total(own, LAMBDA p : p.refilled),
       executed |-> Total(own, LAMBDA p : p.executed),
       withdrawn |-> Total(own, LAMBDA p : p.withdrawn),
       buy |-> Max({own[k].buy : k \in DOMAIN own}),
       sell |-> Max({own[k].sell : k \in DOMAIN own})]

(* _latest_refill_payloads_by_order: of each level the newest payload, in  *)
(* the place of its first.                                                 *)
Latest(payloads) ==
  LET newest(key) == CHOOSE k \in DOMAIN payloads :
        /\ payloads[k].key = key
        /\ \A j \in DOMAIN payloads : payloads[j].key = key =>
             IF j > k THEN payloads[j].at < payloads[k].at ELSE payloads[j].at <= payloads[k].at
      first(k) == \A j \in 1 .. k - 1 : payloads[j].key # payloads[k].key
  IN  FoldLeftDomain(LAMBDA found, k : IF first(k) THEN Append(found, payloads[newest(payloads[k].key)])
                                                   ELSE found,
                     <<>>, payloads)

(* _actor_proxy_order_from_payload, of a payload made here: its size is    *)
(* known, and it comes with no threshold for a large order.                *)
ProxyOrder(p) ==
  LET largest == Max({p.initial, p.largest, p.size})
  IN  [id |-> p.key, price |-> p.price, side |-> p.side, size |-> p.size,
       initial |-> IF largest > 0 THEN largest ELSE Max({p.size, p.refilled, p.filled}),
       refills |-> p.refills, refilled |-> p.refilled, executed |-> p.filled,
       reason |-> "HIGH_REFILL"]

(* _actor_proxy_payload_from_orders: the most refilled first.              *)
Outranks(o, p) ==
  LET rank(q) == <<q.refilled, q.refills, q.initial, q.executed>>
  IN  \E k \in 1 .. 4 : /\ rank(o)[k] > rank(p)[k]
                        /\ \A j \in 1 .. k - 1 : rank(o)[j] = rank(p)[j]

ProxyOrders(payloads) ==
  LET orders == [k \in DOMAIN payloads |-> ProxyOrder(payloads[k])]
      name(o) == <<o.id, o.price, o.side>>
      kept == {k \in DOMAIN orders : \A j \in 1 .. k - 1 : name(orders[j]) # name(orders[k])}
      ahead(j, k) == \/ Outranks(orders[j], orders[k])
                     \/ ~Outranks(orders[k], orders[j]) /\ j < k
      place(k) == 1 + Cardinality({j \in kept : ahead(j, k)})
  IN  [n \in 1 .. Cardinality(kept) |-> orders[CHOOSE k \in kept : place(k) = n]]

(* _payload_from_refill_zone, of the levels of a zone of a side; the last  *)
(* of them is its terminal.                                                *)
ZonePayload(levels, side) ==
  LET told == [k \in DOMAIN levels |-> Representative(levels[k].payloads)]
      all == FlattenSeq([k \in DOMAIN levels |-> levels[k].payloads])
      latest == Latest(all)
      refilled == Total(levels, LAMBDA l : l.refilled)
      executed == Min({refilled, Total(levels, LAMBDA l : l.executed)})
      low == Min({levels[k].low : k \in DOMAIN levels})
      high == Max({levels[k].high : k \in DOMAIN levels})
  IN  [open |-> Last(told).open, at |-> Max({told[k].at : k \in DOMAIN told}),
       price |-> Last(levels).price, side |-> side, low |-> low, high |-> high,
       stop |-> IF side = "BID" THEN low ELSE high,
       refills |-> Total(levels, LAMBDA l : l.refills),
       refilled |-> refilled, executed |-> executed,
       withdrawn |-> Total(levels, LAMBDA l : l.withdrawn),
       rate |-> IF refilled > 0 THEN Rate(executed, refilled) ELSE <<0>>,
       buy |-> Total(levels, LAMBDA l : l.buy), sell |-> Total(levels, LAMBDA l : l.sell),
       passes |-> Last(told).passes, spike |-> Last(told).spike,
       filled |-> Total(latest, LAMBDA p : p.filled),
       trades |-> Total(latest, LAMBDA p : p.trades),
       orders |-> ProxyOrders(latest)]

=============================================================================
