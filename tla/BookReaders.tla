---------------------------- MODULE BookReaders ----------------------------
(***************************************************************************)
(* Three readers rebuild an order book from the same raw events, each with *)
(* code of its own: the level ledger of process/dataProcessEngine.py, the  *)
(* timeline page of DOM/engine.py (_build_payload, _apply_event) and the   *)
(* delete scan of absorption/session_service.py.  Here they read one feed  *)
(* together, and what they show is compared.                               *)
(*                                                                         *)
(* The feed is complete: every order is seen before it trades, an id is    *)
(* not reused while it rests, fills and cancels name the level and no more *)
(* than the size the order has there, and a cancel that is not partial     *)
(* names the whole order or no size.  The readers enforce none of this and *)
(* handle the rest differently; a replay of one venue file from its start, *)
(* without the price filter of restrict_events, is so.                     *)
(***************************************************************************)
EXTENDS LevelLedger, PageOrders

VARIABLES
  dom,       \* orders: what the timeline page tracks, by order id
  shown,     \* bid_levels and ask_levels of the timeline page
  scanned,   \* orders: what the delete scan tracks, by order id
  deleted,   \* groups: contracts deleted, by level and candle
  cleared,   \* history: the candles in which a clear arrived
  missed     \* history: a clear without a price arrived

readers == <<dom, shown, scanned, deleted>>

\* What is held for an id that is not tracked is no order of the page either.
PageOrder == [level : Levels, size : Nat, pending : Nat, existing : Nat, lots : Nat]

ASSUME PageAssumption == NoOrder \notin PageOrder

-----------------------------------------------------------------------------
(* The timeline page.                                                      *)

\* _adjust_level: a level without contracts is dropped.
Adjusted(book, l, delta) == [book EXCEPT ![l] = IF @ + delta > 0 THEN @ + delta ELSE 0]

\* Mutant of Lifted: the order stays at the level it leaves.
LiftedNothing(o) == shown

Lifted(o) ==
  IF dom[o] = NoOrder THEN shown ELSE Adjusted(shown, dom[o].level, -dom[o].size)

Kept(e) == IF Stays(e) THEN e ELSE NoOrder

DomPut(o, l, e, q) ==
  /\ dom' = [dom EXCEPT ![o] = e]
  /\ shown' = Adjusted(Lifted(o), l, q)

DomAdd(o, l, q) == DomPut(o, l, Fresh(l, q), q)

DomModify(o, l, q) ==
  IF dom[o] = NoOrder THEN DomAdd(o, l, q)
  ELSE DomPut(o, l, Kept(IF l = dom[o].level THEN Modified(dom[o], q) ELSE Fresh(l, q)), q)

DomExecute(o, q) ==
  IF dom[o] = NoOrder THEN UNCHANGED <<dom, shown>>
  ELSE LET left == LessFill(dom[o], q)
       IN  DomPut(o, dom[o].level, Kept(left), left.size)

DomCancel(o, q, partial) ==
  IF dom[o] = NoOrder THEN UNCHANGED <<dom, shown>>
  ELSE LET left == LessCancel(dom[o], q)
       IN  DomPut(o, dom[o].level,
                  IF left.size > 0 /\ partial THEN left ELSE NoOrder, left.size)

\* A clear without a price is skipped like every event without one.
DomClear(priced) ==
  IF priced
  THEN /\ dom' = [o \in Orders |-> NoOrder]
       /\ shown' = [l \in Levels |-> 0]
  ELSE UNCHANGED <<dom, shown>>

-----------------------------------------------------------------------------
(* The delete scan.                                                        *)

\* record_delete: contracts deleted in the requested range, by candle.
Recorded(l, n) ==
  deleted' = IF clock >= EmitStart
             THEN [deleted EXCEPT ![l][Now] = @ + n]
             ELSE deleted

ScanPut(o, l, q) ==
  scanned' = [scanned EXCEPT ![o] = [level |-> l, size |-> q]]
ScanDrop(o) == scanned' = [scanned EXCEPT ![o] = NoOrder]

ScanAdd(o, l, q) == ScanPut(o, l, q) /\ UNCHANGED deleted

ScanFill(o, l, q) ==
  /\ UNCHANGED deleted
  /\ IF scanned[o] # NoOrder /\ scanned[o].size > q
     THEN ScanPut(o, l, scanned[o].size - q)
     ELSE ScanDrop(o)

\* Mutant of Shrunk: an order that moves is not deleted at its old level.
ShrunkInPlace(e, l, q) == IF q < e.size THEN e.size - q ELSE 0

\* What a modify deletes at the old level.
Shrunk(e, l, q) == IF l # e.level THEN e.size ELSE IF q < e.size THEN e.size - q ELSE 0

ScanModify(o, l, q) ==
  IF scanned[o] = NoOrder THEN ScanAdd(o, l, q)
  ELSE /\ Recorded(scanned[o].level, Shrunk(scanned[o], l, q))
       /\ IF q > 0 THEN ScanPut(o, l, q) ELSE ScanDrop(o)

\* The size of the event is taken as it is, known order or not.
ScanCancel(o, l, q, partial) ==
  IF scanned[o] = NoOrder THEN Recorded(l, q) /\ UNCHANGED scanned
  ELSE LET e == scanned[o]
           gone == IF q > 0 THEN q ELSE e.size
       IN  /\ Recorded(e.level, gone)
           /\ IF e.size > gone /\ partial THEN ScanPut(o, e.level, e.size - gone)
              ELSE ScanDrop(o)

ScanClear ==
  /\ scanned' = [o \in Orders |-> NoOrder]
  /\ UNCHANGED deleted

-----------------------------------------------------------------------------
(* The complete feed, read by all three.                                   *)

Names(o, l, q) == Resting(o) /\ orders[o].level = l /\ q <= orders[o].size

Add(o, l, q) ==
  ~Resting(o) /\ AddOrder(o, l, q) /\ DomAdd(o, l, q) /\ ScanAdd(o, l, q)

Modify(o, l, q) ==
  /\ \/ MoveOrder(o, l, q)
     \/ DiscoverOrder(o, l, q)
     \/ Known(o) /\ orders[o].level = l /\ ResizeOrder(o, q)
  /\ DomModify(o, l, q) /\ ScanModify(o, l, q)

Fill(o, l, q) ==
  Names(o, l, q) /\ FillOrder(o, l, q) /\ DomExecute(o, q) /\ ScanFill(o, l, q)

Cancel(o, l, q, partial) ==
  /\ Names(o, l, q)
  /\ partial \/ q \in {0, orders[o].size}
  /\ CancelOrder(o, l, q, partial) /\ DomCancel(o, q, partial)
  /\ ScanCancel(o, l, q, partial)

Clear(priced) ==
  /\ ClearBook /\ DomClear(priced) /\ ScanClear
  /\ cleared' = cleared \cup {Now}
  /\ missed' = (missed \/ ~priced)

ReadersInit ==
  /\ Init
  /\ dom = [o \in Orders |-> NoOrder] /\ shown = [l \in Levels |-> 0]
  /\ scanned = [o \in Orders |-> NoOrder]
  /\ deleted = [l \in Levels |-> [c \in Candles |-> 0]]
  /\ cleared = {} /\ missed = FALSE

OrderEventRead(o, l, q) ==
  \/ Add(o, l, q)
  \/ Modify(o, l, q)
  \/ Fill(o, l, q)
  \/ \E partial \in BOOLEAN : Cancel(o, l, q, partial)

ReadersNext ==
  \/ \E o \in Orders, l \in Levels, q \in EventSizes :
       OrderEventRead(o, l, q) /\ UNCHANGED <<cleared, missed>>
  \/ \E priced \in BOOLEAN : Clear(priced)
  \/ Tick /\ UNCHANGED <<readers, cleared, missed>>

ReadersSpec == ReadersInit /\ [][ReadersNext]_<<vars, readers, cleared, missed>>

-----------------------------------------------------------------------------

Rests(e) == IF e # NoOrder /\ e.size > 0 THEN <<e.level, e.size>> ELSE <<>>

\* The ledger, its order table, the timeline page and the delete scan believe
\* in the same book: what the ledger holds at a level is what the tracked orders
\* rest there (_record_price_activity and _add_order, _modify_order, ... update
\* them separately), and the page draws the same orders and levels (_apply_event,
\* _adjust_level), until a clear without a price passes the page by.
BooksAgree ==
  /\ \A l \in Levels : Total(levels[l]) = Demand(l)
  /\ \A o \in Orders : Rests(scanned[o]) = Rests(orders[o])
  /\ ~missed => /\ \A l \in Levels : shown[l] = Demand(l)
                /\ \A o \in Orders : Rests(dom[o]) = Rests(orders[o])

\* The contracts the page attributes to an order, those it existed with and
\* those that replaced fills, are the contracts it rests: a refill is executed
\* or withdrawn once, whatever was filled, replaced, moved or cancelled before.
LotsFitOrder ==
  \A o \in Orders : dom[o] # NoOrder => dom[o].existing + dom[o].lots = dom[o].size

\* The delete scan reports of a level and candle exactly what the ledger calls
\* withdrawn there, also when the range begins inside the candle
\* (record_delete and consume), unless a clear withdrew orders as well.
DeletedIsWithdrawn ==
  emitting => \A l \in Levels, c \in Candles \ cleared :
                deleted[l][c] = Stats(l, c).withdrawn

=============================================================================
