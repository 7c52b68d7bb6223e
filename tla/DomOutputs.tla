----------------------------- MODULE DomOutputs -----------------------------
(***************************************************************************)
(* The rest of a timeline payload: the ladder beside the page with the     *)
(* busiest order of each price, the quote lines, and how much of it all is *)
(* sent when there is more than a page can draw (DOM/engine.py).           *)
(***************************************************************************)
EXTENDS DomDrawing

\* a precedes b as tuples of integers do.
Precedes(a, b) ==
  \E n \in DOMAIN a : a[n] < b[n] /\ \A m \in 1 .. n - 1 : a[m] = b[m]

SortedBy(s, key(_)) ==
  LET order == SortSeq([i \in DOMAIN s |-> i],
                       LAMBDA i, j : Precedes(Append(key(s[i]), i), Append(key(s[j]), j)))
  IN  [k \in DOMAIN order |-> s[order[k]]]

\* The elements of a set of integers, and of tuples of integers, in order.
Ascending(S) ==
  [k \in 1 .. Cardinality(S) |-> CHOOSE x \in S : Cardinality({y \in S : y <= x}) = k]

Descending(S) ==
  [k \in 1 .. Cardinality(S) |-> CHOOSE x \in S : Cardinality({y \in S : Precedes(x, y)}) = k - 1]

-----------------------------------------------------------------------------
(* _record_book_activity: what the drawn events of one order, of one type  *)
(* and side, come to at a price.                                           *)
Counted(drawn) == SelectSeq(drawn, LAMBDA p : p.asked # 0 /\ p.size > 0)

ActivityKey(p) == <<p.asked, p.key, p.type, p.level[1]>>

ActivityOf(key, counted) ==
  LET own == SelectSeq(counted, LAMBDA p : ActivityKey(p) = key)
      total(f) == SumFunction(f)
  IN  [price |-> key[1], id |-> key[2], type |-> key[3], side |-> key[4],
       total |-> total([k \in DOMAIN own |-> own[k].size]), count |-> Len(own),
       last |-> Last(own).size, current |-> Last(own).current,
       refills |-> total([k \in DOMAIN own |-> own[k].count]),
       refilled |-> total([k \in DOMAIN own |-> own[k].refill])]

\* The activities, in the order in which they began.
Activities(counted) ==
  LET keys == Distinct([k \in DOMAIN counted |-> ActivityKey(counted[k])])
  IN  [k \in DOMAIN keys |-> ActivityOf(keys[k], counted)]

\* _top_book_activity_by_price: the largest activity of each price, then the
\* five largest of these.
Largest(activities, price) ==
  LET own == SelectSeq(activities, LAMBDA a : a.price = price)
  IN  own[Min({k \in DOMAIN own : \A j \in DOMAIN own :
                 ~Precedes(<<own[k].total, own[k].count>>, <<own[j].total, own[j].count>>)})]

TopOrders(counted) ==
  LET activities == Activities(counted)
      prices == Distinct([k \in DOMAIN activities |-> activities[k].price])
      largest == [k \in DOMAIN prices |-> Largest(activities, prices[k])]
  IN  First(SortedBy(largest, LAMBDA a : <<-a.total, -a.count, -a.id>>), 5)

\* Contracts executed at a price: buys take from the ask side.
ExecutedAt(counted, price, side) ==
  SumFunctionOnSet([k \in DOMAIN counted |-> counted[k].size],
    {k \in DOMAIN counted : counted[k].type = "execute" /\ counted[k].asked = price
                            /\ counted[k].level[1] = side})

\* _order_book_levels, from the highest price down, as many as are shown.
Ladder(view, built) ==
  LET counted == Counted(Drawn(view, built))
      top == TopOrders(counted)
      executed == {counted[k].asked : k \in {j \in DOMAIN counted : counted[j].type = "execute"}}
      prices == {p \in SidePrices(built.shown, "bid") \cup SidePrices(built.shown, "ask")
                       \cup {top[k].price : k \in DOMAIN top} \cup executed : InPrices(view, p)}
      row(p) == [price |-> p,
                 bid |-> built.shown[<<"bid", p>>], ask |-> built.shown[<<"ask", p>>],
                 bought |-> ExecutedAt(counted, p, "ask"), sold |-> ExecutedAt(counted, p, "bid"),
                 top |-> SelectSeq(top, LAMBDA a : a.price = p)]
      down == Reverse(Ascending(prices))
  IN  First([k \in DOMAIN down |-> row(down[k])], MaxLevels)

-----------------------------------------------------------------------------
(* Quotes: of the prices events name in one time bucket, the closest pair  *)
(* that is not crossed; 0 where there is none.                             *)

\* _non_crossed_quote
Quote(bids, asks, bid, ask) ==
  LET pairs == {q \in bids \X asks : q[1] < q[2]}
      closest == {q \in pairs : \A r \in pairs : q[2] - q[1] <= r[2] - r[1]}
      belowAsk == {b \in bids : ask # 0 /\ b < ask}
      aboveBid == {a \in asks : bid # 0 /\ a > bid}
  IN  IF pairs # {} THEN CHOOSE q \in closest : \A r \in closest : q[1] >= r[1]
      ELSE <<IF belowAsk # {} THEN Max(belowAsk) ELSE bid,
             IF aboveBid # {} THEN Min(aboveBid) ELSE ask>>

\* _quote_lines_from_events
QuoteLines(view, events) ==
  LET named == {k \in DOMAIN events : events[k].price # 0 /\ events[k].side # "none"
                                      /\ In(view.buffer, events[k])}
      bucket(k) == (events[k].at \div Bucket) * Bucket
      prices(b, side) == {events[k].price : k \in {j \in named : bucket(j) = b
                                                                 /\ events[j].side = side}}
      buckets == Ascending({bucket(k) : k \in named})
      add(q, b) == LET quote == Quote(prices(b, "bid"), prices(b, "ask"), q.bid, q.ask)
                   IN  [bid |-> quote[1], ask |-> quote[2],
                        bids |-> Extended(q.bids, b, quote[1]),
                        asks |-> Extended(q.asks, b, quote[2])]
  IN  FoldLeft(add, [bid |-> 0, ask |-> 0, bids |-> <<>>, asks |-> <<>>], buckets)

\* _line_with_window_edges: a line reaches from edge to edge.
ToEdges(line, w) ==
  LET first == IF line[1].at > w.from THEN <<[line[1] EXCEPT !.at = w.from]>> ELSE <<>>
      last == IF Last(line).at < w.to THEN <<[Last(line) EXCEPT !.at = w.to]>> ELSE <<>>
      whole == first \o line \o last
  IN  IF line = <<>> THEN <<>>
      ELSE IF Len(whole) = 1
      THEN <<[line[1] EXCEPT !.at = w.from], [line[1] EXCEPT !.at = w.to]>>
      ELSE whole

\* The lines a payload holds: the quotes, or the book where there are none.
Lines(view, events, built, limit) ==
  LET quotes == QuoteLines(view, events)
      line(own, other) == Sampled(ToEdges(IF own # <<>> THEN own ELSE other, view.buffer), limit)
  IN  [bid |-> line(quotes.bids, built.bids), ask |-> line(quotes.asks, built.asks)]

-----------------------------------------------------------------------------
(* Sampling.  A point is [from, to, price, type, amount].                  *)

\* _render_contract_amount: an event without a size counts what it changes.
EventPoint(p) ==
  [from |-> p.at, to |-> p.at, price |-> p.level[2], type |-> p.type,
   amount |-> IF p.size > 0 THEN p.size ELSE Max({p.net, -p.net})]

SegmentPoint(g) ==
  [from |-> g.from, to |-> g.to, price |-> g.level[2], type |-> "resting", amount |-> g.size]

\* _render_priority_score
Family == [resting |-> 0, cancel |-> 1, modify |-> 2, add |-> 3, execute |-> 4]
Score(p) == IF p.amount <= LowContracts THEN <<0, Family[p.type], p.amount>>
            ELSE <<1, p.amount, Family[p.type]>>

\* _sample_render_points_by_priority
Preferred(points, limit) ==
  LET scores == {Score(points[k]) : k \in DOMAIN points}
      higher(c) == Cardinality({k \in DOMAIN points : Precedes(c, Score(points[k]))})
      group(c) == Sampled(SelectSeq(points, LAMBDA p : Score(p) = c), limit - higher(c))
      order == Descending({c \in scores : higher(c) < limit})
      chosen == FlattenSeq([k \in DOMAIN order |-> group(order[k])])
  IN  IF Len(points) <= limit THEN points
      ELSE SortedBy(chosen, LAMBDA p : <<p.from, p.to, p.price>>)

\* _sample_points_with_primary_window: what lies in the window comes first.
Sent(points, limit, plan) ==
  LET inside == SelectSeq(points, LAMBDA p : p.from <= plan.to /\ p.to >= plan.from)
      margin == SelectSeq(points, LAMBDA p : ~(p.from <= plan.to /\ p.to >= plan.from))
  IN  IF Len(points) <= limit THEN points
      ELSE IF Len(inside) >= limit THEN Preferred(inside, limit)
      ELSE SortedBy(inside \o Preferred(margin, limit - Len(inside)),
                    LAMBDA p : <<p.from, p.to, p.price>>)

-----------------------------------------------------------------------------
(* _dom_positive_refill_outputs: one output for a bucket, price and side.  *)
OutputOf(q) ==
  [bucket |-> q.bucket, level |-> q.level, at |-> q.at, count |-> q.count, total |-> q.total,
   executed |-> Min({q.total, q.executed}), withdrawn |-> q.withdrawn,
   rate |-> IF q.total > 0 THEN RoundHalfEven(Min({q.total, q.executed}) * 1000, q.total) ELSE 0]

Outputs(points) == {OutputOf(q) : q \in {p \in points : p.at > 0 /\ p.count >= MinCount}}

-----------------------------------------------------------------------------
(* DomWindowPayloadCacheEngine: a cache is a sequence of [key, payload],   *)
(* the least recently used first.                                          *)
Without(cache, key) == SelectSeq(cache, LAMBDA c : c.key # key)

Got(cache, key) ==
  Without(cache, key) \o SelectSeq(cache, LAMBDA c : c.key = key)

Put(cache, key, payload, size) ==
  Final(Append(Without(cache, key), [key |-> key, payload |-> payload]), size)

=============================================================================
