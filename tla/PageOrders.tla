----------------------------- MODULE PageOrders -----------------------------
(***************************************************************************)
(* An order as the timeline page tracks it (DomOrderState of DOM/models.py *)
(* under _apply_event of DOM/engine.py).  The contracts it rests are those *)
(* it existed with and those that replaced fills; the ages of refill lots  *)
(* are left out, since _apply_event counts a lot for the event that        *)
(* consumes it.  Used by BookReaders, event by event, and by DomPages, for *)
(* a whole window.                                                         *)
(***************************************************************************)
EXTENDS Integers

PartOf(n, q) == IF q <= n THEN q ELSE n

Fresh(l, q) == [level |-> l, size |-> q, pending |-> 0, existing |-> q, lots |-> 0]

\* Mutant of Consumed: refill lots are consumed first.
ConsumedLotsOnly(e, q) ==
  [e EXCEPT !.lots = @ - PartOf(@, q)]

\* _consume_order_liquidity
Consumed(e, q) ==
  LET existing == PartOf(e.existing, q)
  IN  [e EXCEPT !.existing = @ - existing, !.lots = @ - PartOf(@, q - existing)]

\* Any growth of an order that was filled, or that still rests replaced
\* contracts, counts as refill.
Refilled(e, q) == IF q > e.size /\ (e.pending > 0 \/ e.lots > 0) THEN q - e.size ELSE 0

Modified(e, q) ==
  IF q < e.size THEN [Consumed(e, e.size - q) EXCEPT !.size = q]
  ELSE IF Refilled(e, q) > 0
  THEN [e EXCEPT !.size = q, !.lots = @ + Refilled(e, q), !.pending = 0]
  ELSE [e EXCEPT !.size = q, !.existing = @ + (q - e.size)]

\* A fill waits to be replaced as a whole, the book loses what is known.
LessFill(e, q) ==
  LET known == PartOf(e.size, q)
  IN  [Consumed(e, known) EXCEPT !.size = @ - known, !.pending = @ + q]

LessCancel(e, q) ==
  LET gone == IF q > 0 THEN PartOf(e.size, q) ELSE e.size
  IN  [Consumed(e, gone) EXCEPT !.size = @ - gone]

\* An order of size 0 is kept while fills of it may still be replaced.
Stays(e) == e.size > 0 \/ e.pending > 0

IfStays(e) == IF Stays(e) THEN <<e>> ELSE <<>>

\* What _apply_event makes of the order an event names, of none (<<>>) or of
\* prev[1], at the level l it names: a sequence of at most one order.
LeftOf(prev, l, e) ==
  CASE e.type = "add" \/ (e.type = "modify" /\ prev = <<>>) -> <<Fresh(l, e.size)>>
    [] prev = <<>> -> <<>>
    [] e.type = "modify" -> IfStays(IF l = prev[1].level THEN Modified(prev[1], e.size)
                                 ELSE Fresh(l, e.size))
    [] e.type = "execute" -> IfStays(LessFill(prev[1], e.size))
    [] OTHER -> LET left == LessCancel(prev[1], e.size)
                IN  IF left.size > 0 /\ e.partial THEN <<left>> ELSE <<>>

\* The contracts of an order an event takes out of the book, known to the page.
TakenBy(prev, l, e) ==
  IF prev = <<>> \/ e.type = "add" THEN 0
  ELSE CASE e.type = "modify" -> IF l # prev[1].level THEN prev[1].size
                                 ELSE prev[1].size - PartOf(prev[1].size, e.size)
         [] e.type = "cancel" /\ e.size = 0 -> prev[1].size
         [] OTHER -> PartOf(prev[1].size, e.size)

\* Of these, contracts that had replaced fills.
LotsTakenBy(prev, l, e) ==
  IF prev = <<>> THEN 0 ELSE prev[1].lots - Consumed(prev[1], TakenBy(prev, l, e)).lots

=============================================================================
