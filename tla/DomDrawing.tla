----------------------------- MODULE DomDrawing -----------------------------
(***************************************************************************)
(* What the timeline page draws of the events of a window: DOM/engine.py   *)
(* from _build_payload on.  Orders are those of PageOrders, at a level     *)
(* <<side, price>>.                                                        *)
(*                                                                         *)
(* Events are those of DomEvents; type is "add", "modify", "execute",      *)
(* "cancel", "clear" or "other", side "bid", "ask" or "none"; a cancel is  *)
(* partial under the action C.  A view is [plan, buffer, lowest, highest]: *)
(* the window, what is drawn around it, and the prices asked for.          *)
(***************************************************************************)
EXTENDS DomPages, PageOrders

CONSTANTS
  Prices,
  MinCount,       \* DOM_REFILL_POINT_MIN_COUNT
  LowContracts,   \* DOM_LOW_CONTRACT_THRESHOLD
  MaxLevels       \* max_price_levels

BookLevels == {"bid", "ask"} \X Prices

InPrices(view, p) == p = 0 \/ (view.lowest <= p /\ p <= view.highest)

-----------------------------------------------------------------------------
(* The book.                                                               *)

EmptyBook == [l \in BookLevels |-> 0]

SidePrices(book, side) == {p \in Prices : book[<<side, p>>] > 0}
BestBid(book) == IF SidePrices(book, "bid") = {} THEN 0 ELSE Max(SidePrices(book, "bid"))
BestAsk(book) == IF SidePrices(book, "ask") = {} THEN 0 ELSE Min(SidePrices(book, "ask"))

\* _adjust_level: a level without contracts is dropped.
Adjust(book, l, delta) == [book EXCEPT ![l] = Max({0, @ + delta})]

\* A fill or cancel takes what it names out of the level, also when nothing
\* is left of the order; any other event lifts the order and puts it anew.
Replaced(book, prev, l, e) ==
  LET taken == IF e.type \in {"execute", "cancel"} THEN TakenBy(prev, l, e) ELSE prev[1].size
      lifted == IF prev = <<>> THEN book ELSE Adjust(book, prev[1].level, -taken)
  IN  IF e.type \in {"add", "modify"} THEN Adjust(lifted, l, e.size) ELSE lifted

\* What a page keeps while it goes through the events.  since is started_at_ms.
Blank ==
  [orders |-> <<>>, since |-> <<>>, book |-> EmptyBook, unnamed |-> 0,
   segments |-> <<>>, bids |-> <<>>, asks |-> <<>>, payloads |-> <<>>,
   shown |-> EmptyBook, taken |-> FALSE]

OrderOf(s, key) == IF key \in DOMAIN s.orders THEN <<s.orders[key]>> ELSE <<>>

PutOrder(orders, key, next) ==
  [k \in (DOMAIN orders \ {key}) \cup (IF next = <<>> THEN {} ELSE {key}) |->
     IF k = key THEN next[1] ELSE orders[k]]

\* _close_segment: an order is drawn from the event that gave it its size.
Segment(view, key, order, since, until) ==
  IF \/ order.size <= 0 \/ until <= since
     \/ until < view.buffer.from \/ since > view.buffer.to
     \/ ~InPrices(view, order.level[2])
  THEN <<>>
  ELSE <<[from |-> Max({since, view.buffer.from}), to |-> Min({until, view.buffer.to}),
          level |-> order.level, id |-> key, size |-> order.size]>>

\* _close_all_segments
AllSegments(view, s, until) ==
  LET keys == SetToSeq(DOMAIN s.orders)
  IN  FlattenSeq([k \in DOMAIN keys |->
        Segment(view, keys[k], s.orders[keys[k]], s.since[keys[k]], until)])

-----------------------------------------------------------------------------
(* One event: _apply_event and the loop of _build_payload around it.       *)

LevelOf(prev, e) ==
  <<IF e.side # "none" THEN e.side ELSE IF prev # <<>> THEN prev[1].level[1] ELSE "none",
    IF e.price # 0 THEN e.price ELSE IF prev # <<>> THEN prev[1].level[2] ELSE 0>>

\* What the page calls the change an event makes to the book.
NetChange(prev, e) ==
  LET known == prev # <<>>
      size == IF known THEN prev[1].size ELSE 0
  IN  CASE e.type = "add" -> e.size
        [] e.type = "modify" -> IF known THEN e.size - size ELSE 2 * e.size
        [] e.type = "execute" -> -PartOf(size, e.size)
        [] OTHER -> IF known THEN -PartOf(size, IF e.size > 0 THEN e.size ELSE size) ELSE -e.size

Payload(s, key, e, l, prev, next, book) ==
  LET refilled == e.type = "modify" /\ prev # <<>> /\ l = prev[1].level
                  /\ Refilled(prev[1], e.size) > 0
      taken == LotsTakenBy(prev, l, e)
  IN  [at |-> e.at, key |-> key, type |-> e.type, level |-> l, asked |-> e.price,
       size |-> e.size,
       current |-> IF next = <<>> THEN 0 ELSE next[1].size,
       before |-> <<s.book[<<"bid", l[2]>>], s.book[<<"ask", l[2]>>]>>,
       after |-> <<book[<<"bid", l[2]>>], book[<<"ask", l[2]>>]>>,
       count |-> IF refilled THEN 1 ELSE 0,
       refill |-> IF refilled THEN Refilled(prev[1], e.size) ELSE 0,
       executed |-> IF e.type = "execute" THEN taken ELSE 0,
       withdrawn |-> IF e.type \in {"modify", "cancel"} THEN taken ELSE 0,
       net |-> NetChange(prev, e)]

Applied(view, s, key, e) ==
  LET prev == OrderOf(s, key)
      l == LevelOf(prev, e)
      next == LeftOf(prev, l, e)
      book == Replaced(s.book, prev, l, e)
      named == l[2] # 0 /\ l[1] # "none"
  IN  IF ~named THEN s
      ELSE [s EXCEPT
        !.orders = PutOrder(@, key, next),
        !.since = [k \in DOMAIN PutOrder(s.orders, key, next) |->
                     IF k = key THEN e.at ELSE @[k]],
        !.book = book,
        !.segments = @ \o (IF prev = <<>> THEN <<>>
                           ELSE Segment(view, key, prev[1], s.since[key], e.at)),
        !.payloads = Append(@, Payload(s, key, e, l, prev, next, book))]

\* _append_best_lines
Extended(line, at, p) ==
  IF p = 0 \/ (line # <<>> /\ Last(line).price = p) THEN line
  ELSE Append(line, [at |-> at, price |-> p])

WithLines(view, s, e) ==
  IF ~In(view.buffer, e) THEN s
  ELSE [s EXCEPT !.bids = Extended(@, e.at, BestBid(s.book)),
                 !.asks = Extended(@, e.at, BestAsk(s.book))]

\* The book shown is that of the last event up to the end of the window.
WithBook(view, s, e) ==
  IF e.at <= view.plan.to THEN [s EXCEPT !.shown = s.book, !.taken = TRUE] ELSE s

Emptied(view, s, e) ==
  [s EXCEPT !.segments = @ \o AllSegments(view, s, e.at),
            !.orders = <<>>, !.since = <<>>, !.book = EmptyBook]

Stepped(view, s, e) ==
  LET unnamed == IF e.id = 0 THEN s.unnamed + 1 ELSE s.unnamed
      key == IF e.id = 0 THEN -unnamed ELSE e.id
  IN  IF e.type = "other" \/ (e.price = 0 /\ e.type # "cancel") THEN s
      ELSE IF e.type = "clear" THEN WithBook(view, Emptied(view, s, e), e)
      ELSE WithBook(view, WithLines(view,
             Applied(view, [s EXCEPT !.unnamed = unnamed], key, e), e), e)

\* event_identity: what makes two events the same.
Identity(e) == <<e.inst, e.seq, e.at, e.id, e.type, e.type = "cancel" /\ e.partial>>

Once(events) ==
  FoldLeft(LAMBDA kept, e : IF \E k \in DOMAIN kept : Identity(kept[k]) = Identity(e)
                            THEN kept ELSE Append(kept, e), <<>>, events)

\* Events of one time and number are taken by order and action.
Letter == [add |-> 1, cancel |-> 2, execute |-> 3, modify |-> 4, clear |-> 5, other |-> 6]

DrawOrder(events) ==
  LET key(i) == <<events[i].at, events[i].seq, events[i].id, Letter[events[i].type], i>>
      less(a, b) == \E n \in 1 .. 5 : a[n] < b[n] /\ \A m \in 1 .. n - 1 : a[m] = b[m]
      order == SortSeq([i \in DOMAIN events |-> i], LAMBDA i, j : less(key(i), key(j)))
  IN  [k \in DOMAIN order |-> events[order[k]]]

\* The loop of _build_payload and what follows it.
Built(view, events) ==
  LET s == FoldLeft(LAMBDA acc, e : Stepped(view, acc, e), Blank, Once(DrawOrder(events)))
      line(points, best) == IF points # <<>> \/ best = 0 THEN points
                            ELSE <<[at |-> view.buffer.from, price |-> best]>>
  IN  [s EXCEPT !.segments = @ \o AllSegments(view, s, view.buffer.to),
                !.bids = line(@, BestBid(s.book)), !.asks = line(@, BestAsk(s.book)),
                !.shown = IF s.taken THEN @ ELSE s.book]

Drawn(view, built) ==
  SelectSeq(built.payloads, LAMBDA p : In(view.buffer, p) /\ InPrices(view, p.asked))

-----------------------------------------------------------------------------
(* Refill points: a price and side whose orders were refilled often enough *)
(* in one time bucket.                                                     *)
PointKey(p) == <<(p.at \div Bucket) * Bucket, p.level>>

\* executed_refill_contracts never exceeds what was refilled until then.
PointOf(key, payloads) ==
  LET own == SelectSeq(payloads, LAMBDA p :
               PointKey(p) = key /\ p.count + p.executed + p.withdrawn > 0)
      counted(k) == SumFunctionOnSet([j \in DOMAIN own |-> own[j].count], 1 .. k)
      enough == {k \in DOMAIN own : counted(k) >= MinCount}
      add(t, p) == LET total == t.total + p.refill
                   IN  [total |-> total, executed |-> Min({total, t.executed + p.executed})]
      sums == FoldLeft(add, [total |-> 0, executed |-> 0], own)
  IN  [bucket |-> key[1], level |-> key[2], count |-> counted(Len(own)),
       total |-> sums.total, executed |-> sums.executed,
       withdrawn |-> SumFunction([j \in DOMAIN own |-> own[j].withdrawn]),
       orders |-> {own[j].key : j \in DOMAIN own},
       at |-> IF enough = {} THEN 0 ELSE own[Min(enough)].at]

Points(view, payloads) ==
  {q \in {PointOf(PointKey(payloads[k]), payloads) : k \in DOMAIN payloads} :
     /\ q.count >= MinCount /\ q.at > 0
     /\ view.plan.from <= q.at /\ q.at <= view.plan.to}

-----------------------------------------------------------------------------
(* The iceberg filter: the orders that were refilled by threshold contracts *)
(* or more, or are pinned; path is their events over the whole day.         *)
RefilledBy(payloads, key) ==
  SumFunctionOnSet([k \in DOMAIN payloads |-> payloads[k].refill],
                   {k \in DOMAIN payloads : payloads[k].key = key})

Icebergs(payloads, keys, threshold, pinned) ==
  {i \in keys : RefilledBy(payloads, i) >= threshold \/ i \in pinned}

\* _order_path_payloads_from_raw_events: without the clears, and without the
\* events the page passes over for want of a price.
PathPayloads(events) ==
  LET view == [buffer |-> [from |-> 0, to |-> -1], lowest |-> 0, highest |-> -1]
      named == SelectSeq(InOrder(events), LAMBDA e : e.type \notin {"other", "clear"} /\ e.id # 0)
  IN  FoldLeft(LAMBDA s, e : Applied(view, s, e.id, e), Blank, named).payloads

\* A path replaces what the window knows of the orders unless it is empty;
\* an order it shows too few refills of is dropped again.
Filtered(payloads, threshold, pinned, path) ==
  LET keys == {payloads[k].key : k \in DOMAIN payloads}
      chosen == Icebergs(payloads, keys, threshold, {}) \cup pinned
      known == IF path # <<>> THEN path
               ELSE SelectSeq(payloads, LAMBDA p : p.key \in chosen)
      final == Icebergs(known, chosen, threshold, pinned)
  IN  [ids |-> final, payloads |-> SelectSeq(known, LAMBDA p : p.key \in final)]

=============================================================================
