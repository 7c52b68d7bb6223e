--------------------------- MODULE MCBookReaders ---------------------------
(* BookReaders on a small instance: a candle of two instants, the second   *)
(* of which opens the reported window, and the next candle; and what a     *)
(* timeline page is answered with (DomEvents, DomPages, DomDrawing and     *)
(* DomOutputs) over bounded feeds.                                         *)
EXTENDS BookReaders, TLC

MCCandleOf(t) == IF t <= 1 THEN 1 ELSE 2

BookSymmetry == Permutations(Orders) \cup Permutations(Levels)

\* A day of 24 instants, and answers of at most four events.
D == INSTANCE DomOutputs WITH
       MaxEvents <- 4, OrderRows <- 32, PrefetchTimes <- 2, PrefetchMax <- 2, Day <- 24,
       NoWindow <- NoOrder, InitialSpan <- 6, Retention <- 4, OverscanTimes <- 2,
       OverscanMax <- 3, Bucket <- 2, MaxContextIds <- 2, Prices <- 1 .. 3, MinCount <- 1,
       LowContracts <- 1, MaxLevels <- 2

Window(from, to) == [from |-> from, to |-> to]

-----------------------------------------------------------------------------
(* Drawing a feed: one event at each instant.                              *)
Event(type, id, side, price, size, partial) ==
  [type |-> type, id |-> id, side |-> side, price |-> price, size |-> size,
   partial |-> partial, inst |-> 1]

Events ==
  {Event("add", 1, "bid", 1, 2, FALSE), Event("add", 2, "bid", 1, 3, FALSE),
   Event("modify", 1, "bid", 1, 3, FALSE), Event("modify", 1, "bid", 2, 3, FALSE),
   Event("execute", 1, "bid", 1, 1, FALSE), Event("clear", 0, "none", 1, 0, FALSE),
   Event("cancel", 1, "none", 0, 0, TRUE), Event("cancel", 1, "bid", 1, 1, TRUE),
   Event("cancel", 2, "bid", 1, 1, FALSE)}

Timed(s) == [k \in DOMAIN s |-> [at |-> k, seq |-> k] @@ s[k]]
Feeds == {Timed(s) : s \in [1 .. 3 -> Events]}

View == [plan |-> Window(2, 3), buffer |-> Window(2, 4), lowest |-> 1, highest |-> 3]

After(feed, n) == D!Built(View, SubSeq(feed, 1, n))

\* A cancel that is not partial and names less than its order rests: the page
\* forgets the order and leaves the rest of it at the level.
Orphans(s, e) ==
  /\ e.type = "cancel" /\ ~e.partial
  /\ e.id \in DOMAIN s.orders /\ 0 < e.size /\ e.size < s.orders[e.id].size

Orphaned(feed, t) ==
  \E n \in 1 .. t : Orphans(After(feed, n - 1), feed[n])
                    /\ \A m \in n .. t : feed[m].type # "clear"

\* What is drawn at an instant is what rests then: the segments of a level
\* add up to its contracts after the events until that instant, as the orders
\* the page tracks do, whatever the feed names or leaves out; only contracts
\* without an order are in the book and not in the drawing.
ASSUME SegmentsTileTheBook ==
  \A feed \in Feeds :
    LET drawn == After(feed, 3).segments
    IN  \A t \in 2 .. 3 : (\E l \in D!BookLevels :
          LET s == After(feed, t)
          IN  \/ s.book[l] # D!SumFunctionOnSet([k \in DOMAIN drawn |-> drawn[k].size],
                   {k \in DOMAIN drawn : drawn[k].level = l
                                         /\ drawn[k].from <= t /\ t < drawn[k].to})
              \/ s.book[l] # D!SumFunctionOnSet([o \in DOMAIN s.orders |-> s.orders[o].size],
                               {o \in DOMAIN s.orders : s.orders[o].level = l}))
          <=> Orphaned(feed, t)

\* An event's net_liquidity_change is not the change of the book when a
\* modify discovers its order, an add replaces one, or a cancel of an unknown
\* order names a size.
Misstated(s, e) ==
  \/ e.type = "modify" /\ e.id \notin DOMAIN s.orders
  \/ e.type = "add" /\ e.id \in DOMAIN s.orders /\ s.orders[e.id].size > 0
  \/ e.type = "cancel" /\ e.id \notin DOMAIN s.orders /\ e.size > 0

ASSUME NetChangeIsNotTheBooks ==
  \A feed \in Feeds :
    LET s == After(feed, 2)
        t == After(feed, 3)
        drawn == Len(t.payloads) > Len(s.payloads)
    IN  drawn => (Misstated(s, feed[3]) <=>
          D!Last(t.payloads).net # D!SumFunction(t.book) - D!SumFunction(s.book))

\* Where the window has no event up to its end, the book beside the page is
\* one that comes after it.
ASSUME LaterBookIsShown ==
  \A feed \in {f \in Feeds : f[1].type = "add"} :
    LET moved == [k \in 1 .. 2 |-> [feed[k] EXCEPT !.at = 3 + k]]
    IN  D!Built(View, moved).shown = D!Built(View, moved).book

\* A refill that is executed in the next bucket counts nowhere: its own point
\* does not know of it and the next one has nothing to execute.
Refill == Timed(<<Event("add", 1, "bid", 1, 2, FALSE), Event("execute", 1, "bid", 1, 1, FALSE),
                  Event("modify", 1, "bid", 1, 2, FALSE), Event("execute", 1, "bid", 1, 2, FALSE)>>)

ASSUME LateFillsAreLost ==
  LET b == D!Built([View EXCEPT !.plan = Window(1, 4), !.buffer = Window(1, 4)], Refill)
      points == {D!PointOf(D!PointKey(b.payloads[k]), b.payloads) : k \in DOMAIN b.payloads}
  IN  /\ \E p \in points : p.total = 1
      /\ \A p \in points : p.executed = 0
      /\ D!Last(b.payloads).executed = 1

\* The contracts points report as withdrawn or executed never exceed what was
\* refilled until then, over all buckets together.
ASSUME RefillsAreUsedOnce ==
  \A feed \in {Timed(<<Event("add", 1, "bid", 1, 2, FALSE),
                       Event("execute", 1, "bid", 1, 1, FALSE)>> \o s) :
                 s \in [1 .. 3 -> {e \in Events : e.id = 1}]} :
    LET p == After(feed, 5).payloads
    IN  D!SumFunction([k \in DOMAIN p |-> p[k].executed + p[k].withdrawn])
          <= D!SumFunction([k \in DOMAIN p |-> p[k].refill])

\* An event read from the file and again from the index is two events.
ASSUME NumberedTwiceIsTwoEvents ==
  LET e == [at |-> 2, seq |-> 1] @@ Event("execute", 1, "bid", 1, 1, FALSE)
      a == [at |-> 1, seq |-> 1] @@ Event("add", 1, "bid", 1, 2, FALSE)
      again == [e EXCEPT !.seq = 2]
  IN  D!SumFunction(D!Built(View, D!Distinct(<<a, e, again>>)).book)
        < D!SumFunction(D!Built(View, D!Distinct(<<a, e, e>>)).book)

-----------------------------------------------------------------------------
(* Windows.                                                                *)

\* A plan is a window of its day, except that a date with times beyond it
\* gives one that ends before it starts.
ASSUME PlansLieInTheirDay ==
  \A from \in {0, 3, 20, 30, 50}, to \in {0, 2, 22, 48, 60}, date \in {NoOrder, 24}, latest \in {4, 40} :
    LET p == D!Resolved(from, to, date, latest)
        b == D!Buffer(p)
    IN  /\ p.from < p.to <=> p.from < p.navTo
        /\ p.from >= p.navTo => date # NoOrder /\ to > date + 24 /\ (from = 0 \/ from >= date + 24)
        /\ p.from < p.to =>
             /\ p.navFrom <= p.load /\ p.load <= p.from /\ p.to <= p.navTo
             /\ b.from <= p.from /\ p.to <= b.to /\ b.to <= p.navTo

\* A request without times shows an event whenever the part of the day that
\* is searched has one.
ASSUME SnapsToAnEvent ==
  \A times \in SUBSET {1, 3, 9, 15, 23} :
    LET p == D!Resolved(0, 12, NoOrder, 12)
        found(w) == LET in == {t \in times : w.from <= t /\ t <= w.to}
                    IN  [k \in 1 .. Cardinality(in) |-> [at |-> D!Ascending(in)[k]]]
        plan == D!Snapped(p, found(p), found(D!Later(p)), found(D!Sooner(p)))
    IN  times # {} => \E t \in times : plan.from <= t /\ t <= plan.to

-----------------------------------------------------------------------------
(* Reading.                                                                *)
Record(at, id, inst, size) ==
  [at |-> at, id |-> id, inst |-> inst, size |-> size, type |-> "add", side |-> "bid", price |-> 1]

\* Six events, two of them of one instant and in the margin on either side.
Rows == [k \in 1 .. 6 |-> [seq |-> k] @@ Record(<<1, 2, 4, 4, 6, 7>>[k], k, 1, 1)]

Inside(w, s) == {s[k] : k \in {j \in DOMAIN s : D!In(w, s[j])}}

\* A cut answer keeps the events of the window that is drawn while they fit,
\* then the nearest rows of the index or a spread of the margin; it is never
\* larger than one row beyond the limit.
ASSUME CutAnswersKeepTheWindow ==
  \A from \in 1 .. 7, to \in 1 .. 7 :
    LET w == Window(from, to)
        rows == D!FromIndex(Rows, Window(1, 7), w)
        cut == D!Limited(Rows, 4, w)
    IN  from <= to =>
          /\ Len(rows) <= 5 /\ Len(cut) <= 4
          /\ Cardinality(Inside(w, Rows)) <= 4 => Inside(w, Rows) \subseteq D!ToSet(rows) \cap D!ToSet(cut)
          /\ \A k \in 2 .. Len(rows) : rows[k - 1].seq < rows[k].seq
          /\ \A k \in 2 .. Len(cut) : cut[k - 1].seq < cut[k].seq

\* Sampling keeps both ends and takes no position twice.
ASSUME SamplesKeepTheirEnds ==
  \A n \in 2 .. 9, limit \in 2 .. 9 :
    LET p == D!Positions(n, limit)
    IN  limit < n => p[1] = 1 /\ p[limit] = n /\ \A k \in 2 .. limit : p[k - 1] < p[k]

\* The file and its index answer with the same events as long as one batch
\* holds them; over two batches the numbers start anew, and events of one
\* instant are no longer in the order of the venue.
Venue(s) == [k \in DOMAIN s |-> s[k].id]

ASSUME FileAndIndexAgree ==
  LET records == [k \in 1 .. 4 |-> Record(<<1, 2, 2, 3>>[k], k, 1, 1)]
      file(batches) == D!InOrder(D!FromFile(batches, Window(1, 3), {1}, NoOrder))
      index == D!FromIndex(D!Numbered(records), Window(1, 3), NoOrder)
  IN  /\ Venue(file(<<records>>)) = Venue(index)
      /\ Venue(file(<<SubSeq(records, 1, 2), SubSeq(records, 3, 4)>>)) # Venue(index)

\* Every batch chooses the instrument of its own largest size: one answer
\* holds two of them, and the page then leaves out the other one's events.
ASSUME BatchesChooseAnew ==
  LET batches == <<<<Record(1, 1, 1, 5), Record(2, 2, 2, 1)>>, <<Record(3, 3, 1, 1), Record(3, 4, 2, 2)>>>>
      read == D!FromFile(batches, Window(1, 3), {1, 2}, NoOrder)
  IN  /\ {read[k].inst : k \in DOMAIN read} = {1, 2}
      /\ \A k \in 1 .. 2 : D!OfPrimary(read, Window(1, 3))[1].inst = 1

\* With the whole file indexed, the events a page reads are those of the
\* venue from the start of its retention on: none is lost, none is twice.
Archive(rows) ==
  <<[day |-> 0, batches |-> <<rows>>, outrights |-> {1},
     index |-> [ready |-> TRUE, until |-> 24, rows |-> rows]]>>

ASSUME ReadWholeAndOnce ==
  \A from \in 1 .. 6 :
    LET rows == [k \in 1 .. 4 |-> [seq |-> k] @@ Record(<<1, 3, 3, 6>>[k], 1 + (k % 2), 1, 1)]
        plan == D!PlanOf(Window(0, 24), from, from + 2)
        read == D!EventsForPlan(Archive(rows), plan, Window(from, from + 2))
    IN  /\ D!ToSet(read) = Inside(Window(plan.load, plan.to), rows)
        /\ Len(read) = Cardinality(D!ToSet(read))

\* Before that the page begins from an empty book where its retention does
\* not fit one answer: the rows after the first five are not read.
ASSUME LateRowsAreNotRead ==
  LET rows == [k \in 1 .. 7 |-> [seq |-> k] @@ Record(<<1, 1, 1, 1, 1, 2, 5>>[k], k, 1, 1)]
      plan == D!PlanOf(Window(0, 24), 4, 6)
  IN  \A e \in D!ToSet(D!EventsForPlan(Archive(rows), plan, Window(4, 6))) : e.id # 6

\* The search before an empty window is cut like any answer: with more events
\* than one answer holds, the page does not move to the last of them.
ASSUME SnapsBackTooFar ==
  LET rows == [k \in 1 .. 6 |-> [seq |-> k] @@ Record(k, k, 1, 1)]
      p == D!PlanOf(Window(0, 24), 12, 18)
      sooner == D!EventsForWindow(Archive(rows), D!Sooner(p), NoOrder)
  IN  D!Snapped(p, <<>>, <<>>, sooner).from < 6

-----------------------------------------------------------------------------
(* What is sent.                                                           *)

\* A quote is the closest pair that is not crossed.  Without such a pair each
\* side is compared with the quote before, not with the other side: the quote
\* may be crossed, though the one before was not.
ASSUME QuotesMayCross ==
  LET sets == SUBSET (1 .. 4)
      crossed(q) == q[1] # 0 /\ q[2] # 0 /\ q[1] >= q[2]
  IN  /\ \A bids \in sets, asks \in sets :
           LET q == D!Quote(bids, asks, 2, 3)
           IN  /\ (\E b \in bids, a \in asks : b < a) => ~crossed(q)
               /\ crossed(q) => q[1] \in bids /\ q[2] \in asks
      /\ crossed(D!Quote({3}, {2}, 1, 4))

\* A line without a step reaches from edge to edge of what is drawn.
ASSUME LinesReachTheEdges ==
  \A first \in 1 .. 4, second \in {0, 2, 3, 4} :
    LET points == IF second > first THEN <<first, second>> ELSE <<first>>
        line == D!ToEdges([k \in DOMAIN points |-> [at |-> points[k], price |-> k]], Window(2, 4))
    IN  /\ Len(line) >= 2 /\ line[1].at <= 2 /\ D!Last(line).at >= 4
        /\ \A k \in 2 .. Len(line) : line[k - 1].at <= line[k].at

\* As many points are sent as allowed, those of the window before any other,
\* and of these none is left out for one of a lower score.
Points == [1 .. 4 -> {[from |-> t, to |-> t, price |-> 1, type |-> k, amount |-> n] :
                        t \in {1, 3}, k \in {"resting", "execute"}, n \in {1, 4}}]

ASSUME LargestAreSent ==
  \A points \in Points :
    LET sent == D!Sent(points, 2, Window(2, 3))
        inside(s) == Cardinality({k \in DOMAIN s : s[k].from >= 2})
    IN  /\ Len(sent) = 2
        /\ inside(sent) = D!Min({2, inside(points)})
        /\ \A k \in DOMAIN points, j \in DOMAIN sent :
             points[k] \notin D!ToSet(sent) /\ (points[k].from >= 2 <=> sent[j].from >= 2)
               => ~D!Precedes(D!Score(sent[j]), D!Score(points[k]))

\* The ladder holds at its prices what rests there; cut to a number of rows it
\* keeps the highest prices, and the best bid may not be among them.
ASSUME LadderLosesBids ==
  LET book == Timed(<<Event("add", 1, "bid", 1, 2, FALSE), Event("add", 2, "ask", 2, 3, FALSE),
                      Event("add", 3, "ask", 3, 1, FALSE)>>)
      ladder(feed) == D!Ladder(View, D!Built(View, feed))
      rested(l, side) == D!SumFunction([k \in DOMAIN l |-> l[k][side]])
  IN  /\ \A feed \in Feeds :
           rested(ladder(feed), "bid") = D!SumFunction(D!Built(View, feed).shown)
      /\ rested(ladder(book), "ask") = 4 /\ rested(ladder(book), "bid") = 0

\* The busiest order of a price is that of most contracts, and contracts are
\* counted once.
ASSUME BusiestIsTop ==
  \A feed \in Feeds :
    LET drawn == D!Counted(D!Drawn(View, D!Built(View, feed)))
        activities == D!Activities(drawn)
        top == D!TopOrders(drawn)
    IN  /\ D!SumFunction([k \in DOMAIN activities |-> activities[k].total])
              = D!SumFunction([k \in DOMAIN drawn |-> drawn[k].size])
        /\ \A j \in DOMAIN top, k \in DOMAIN activities :
             activities[k].price = top[j].price => activities[k].total <= top[j].total
        /\ \A k \in 2 .. Len(top) : top[k].total <= top[k - 1].total

\* What the iceberg filter shows are the pinned orders and those its path
\* shows enough refills of.
ASSUME FilterShowsItsOrders ==
  \A pinned \in SUBSET {1, 2}, threshold \in 1 .. 2, late \in BOOLEAN :
    LET drawn == D!Built(View, Refill).payloads
        path == D!PathPayloads(IF late THEN SubSeq(Refill, 3, 4) ELSE Refill)
        f == D!Filtered(drawn, threshold, pinned, path)
    IN  /\ f.ids = pinned \cup (IF threshold = 1 /\ ~late THEN {1} ELSE {})
        /\ \A k \in DOMAIN f.payloads : f.payloads[k].key \in f.ids

\* The payload cache forgets the payload least recently asked for.
ASSUME CacheForgetsTheOldest ==
  LET put(c, k) == D!Put(c, k, k, 2)
      two == put(put(<<>>, 1), 2)
  IN  /\ {c.key : c \in D!ToSet(put(two, 3))} = {2, 3}
      /\ {c.key : c \in D!ToSet(put(D!Got(two, 1), 3))} = {1, 3}

=============================================================================
