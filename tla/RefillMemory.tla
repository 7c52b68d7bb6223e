---------------------------- MODULE RefillMemory ----------------------------
(***************************************************************************)
(* The trigger engine's memory of refills and order books (triggerEngine.py *)
(* 640-870, 911-1060 and 2901-3600): what it takes from a DOM payload, the *)
(* two names of an instrument it is kept under, how a record ages, and     *)
(* what references it becomes.  TriggerEngine reduces the memory to one    *)
(* name and a record to its zone; this module has no variables and states  *)
(* the rest.                                                               *)
(*                                                                         *)
(* One timeframe.  A name of an instrument, a price and a time are         *)
(* numbers, and None stands for a field that is missing, empty or, where   *)
(* the code treats it so, zero.  Fields the code looks up under several    *)
(* names are one field here.  A payload and everything listed in it are    *)
(* items:                                                                  *)
(*   mt5, symbol, provider: names          id: a sequence, <<>> if missing *)
(*   order: the order it is about                                          *)
(*   time, end: its own time, and the end of its window                    *)
(*   price, side, count, total, executed, activity: its refill             *)
(*   bought, sold: the figures of market orders it gives, a set each       *)
(*   opened: footprint_open_time_ms        bin, zone: <<low, high>> or <<>> *)
(*   direction, reference: the direction and the reference side it names   *)
(*   action: ENTRY unless it names one                                     *)
(*   contracts: [bid, ask, other], what it says of a book level    *)
(*   cancels: canceled_zone_ids                                            *)
(*   levels, bookLevels, sessions: <<a sequence of items>>, or <<>>        *)
(*   points, outputs, events: sequences of items                           *)
(*   best, lines: [bid, ask], the best prices it names, and the last ones  *)
(*     of its two lines                                                    *)
(***************************************************************************)
EXTENDS Integers, FiniteSets, Sequences, SequencesExt

CONSTANTS
  None,          \* a field that is not there; less than every number used
  Names,         \* names of instruments
  Interval,      \* TIMEFRAME_INTERVAL_MS of the timeframe
  Lifetime       \* config.refill_lifetime_candles

-----------------------------------------------------------------------------
(* Fields.                                                                 *)

\* a or b or c ...
First(values) ==
  LET given == SelectSeq(values, LAMBDA v : v # None)
  IN  IF given = <<>> THEN None ELSE Head(given)

Optional(o) == IF o = <<>> THEN <<>> ELSE o[1]
NonNegative(n) == IF n > 0 THEN n ELSE 0
Largest(figures) == Max({NonNegative(n) : n \in figures} \union {0})

NormalizedSide(s) ==
  CASE s \in {"B", "BUY", "BID"} -> "BID" [] s \in {"A", "SELL", "ASK"} -> "ASK" [] OTHER -> s

-----------------------------------------------------------------------------
(* Records of a payload.                                                   *)

(* What items that do not say so themselves belong to; given are the       *)
(* arguments of the call.                                                  *)
Context(p, given) ==
  LET symbol == First(<<given.symbol, p.mt5, p.symbol, p.provider>>)
  IN [symbol |-> symbol,
      provider |-> First(<<given.provider, p.provider, p.symbol, symbol>>),
      time |-> IF given.time # None THEN given.time ELSE First(<<p.time, p.end, 0>>)]

(* An item is a refill when it has a level and the figures of the ledger.  *)
IsRecord(item, context) ==
  /\ item.price # None /\ NormalizedSide(item.side) \in {"BID", "ASK"}
  /\ item.count # None /\ item.total # None
  /\ NonNegative(item.count) > 0 \/ item.activity
  /\ First(<<item.mt5, item.symbol, context.symbol, item.provider>>) # None

(* An item without an id is recognised by its level, time and refill.      *)
RecordOf(item, context) ==
  LET symbol   == First(<<item.mt5, item.symbol, context.symbol, item.provider>>)
      provider == First(<<item.provider, item.symbol, context.provider, symbol>>)
      time     == First(<<item.time, context.time>>)
      count    == NonNegative(item.count)
      total    == NonNegative(item.total)
      side     == NormalizedSide(item.side)
      stableId == <<symbol, provider, time, item.price, side,
                    item.order, count, total>>
  IN [id |-> IF item.id # <<>> THEN item.id ELSE stableId,
      symbol |-> symbol, provider |-> provider, time |-> time,
      price |-> item.price, side |-> side, count |-> count, total |-> total,
      executed |-> Min({total, NonNegative(item.executed)}), activity |-> item.activity,
      bought |-> Largest(item.bought), sold |-> Largest(item.sold),
      opened |-> IF item.opened = None THEN 0 ELSE item.opened,
      bin |-> item.bin, zone |-> item.zone,
      direction |-> item.direction, reference |-> item.reference, action |-> item.action]

(* A set of records has one record of an id, the last one put there.       *)
Without(records, ids) == {r \in records : r.id \notin ids}
Put(records, r) == Without(records, {r.id}) \union {r}

(* The payload itself, its sessions, points, outputs, events and levels,   *)
(* in this order.                                                          *)
RECURSIVE RecordsOf(_, _)
RecordsOf(p, given) ==
  LET context == Context(p, given)
      add(records, item) ==
        IF IsRecord(item, context) THEN Put(records, RecordOf(item, context)) ELSE records
      addSession(records, session) ==
        LET more == RecordsOf(session, context)
        IN  Without(records, {r.id : r \in more}) \union more
      levels == IF p.bookLevels # <<>> THEN p.bookLevels ELSE p.levels
  IN FoldLeft(add, FoldLeft(addSession, add({}, p), Optional(p.sessions)),
              p.points \o p.outputs \o p.events \o Optional(levels))

-----------------------------------------------------------------------------
(* Order books of a payload.                                               *)

IsBookLevel(item) ==
  item.price # None /\ (\E k \in DOMAIN item.contracts : item.contracts[k] > 0)

BookLevels(p) ==
  SelectSeq(Optional(IF p.levels # <<>> THEN p.levels ELSE p.bookLevels), IsBookLevel)

HasBook(p) ==
  \/ BookLevels(p) # <<>> \/ p.events # <<>> \/ p.outputs # <<>>
  \/ p.lines # [bid |-> None, ask |-> None]

Best(levels, side) ==
  LET prices == {levels[k].price : k \in {j \in DOMAIN levels : levels[j].contracts[side] > 0}}
  IN  IF prices = {} THEN None ELSE IF side = "bid" THEN Max(prices) ELSE Min(prices)

Book(p, given) ==
  LET symbol == First(<<given.symbol, p.mt5, p.symbol, p.provider>>)
      levels == BookLevels(p)
  IN [symbol |-> symbol,
      provider |-> First(<<given.provider, p.provider, p.symbol, symbol>>),
      time |-> IF given.time # None THEN given.time ELSE First(<<p.time, p.end, 0>>),
      bid |-> First(<<p.best.bid, Best(levels, "bid"), p.lines.bid>>),
      ask |-> First(<<p.best.ask, Best(levels, "ask"), p.lines.ask>>),
      payload |-> p]

(* A payload without levels of its own gives the books of its sessions.    *)
Books(p, given) ==
  LET sources == IF p.levels = <<>> /\ p.bookLevels = <<>> /\ p.sessions # <<>>
                 THEN p.sessions[1] ELSE <<p>>
      has(q)  == HasBook(q) /\ Book(q, given).symbol # None
      found   == SelectSeq(sources, has)
  IN [k \in DOMAIN found |-> Book(found[k], given)]

-----------------------------------------------------------------------------
(* The memory: refills and the last book by name.                          *)

NoMemory == [refills |-> [n \in Names |-> {}], books |-> [n \in Names |-> <<>>]]

Both(symbol, provider) == {symbol, provider} \ {None}

StoreBook(m, b) ==
  [m EXCEPT !.books = [n \in Names |-> IF n \in Both(b.symbol, b.provider) THEN <<b>> ELSE @[n]]]

ClearBook(m, symbol, provider) ==
  [m EXCEPT !.books = [n \in Names |-> IF n \in Both(symbol, provider) THEN <<>> ELSE @[n]]]

BookFor(m, symbol, provider) ==
  LET named == SelectSeq(<<symbol, provider>>, LAMBDA n : n # None /\ m.books[n] # <<>>)
  IN  IF named = <<>> THEN <<>> ELSE m.books[Head(named)]

StoreRecord(m, r) ==
  [m EXCEPT !.refills =
     [n \in Names |-> IF n \in Both(r.symbol, r.provider) THEN Put(@[n], r) ELSE @[n]]]

(* A record is taken from the names given, and from all names only if      *)
(* none of those has it.                                                   *)
ForgetRecord(m, id, names) ==
  LET known == {n \in names : \E r \in m.refills[n] : r.id = id}
  IN [m EXCEPT !.refills =
        [n \in Names |-> IF known = {} \/ n \in known THEN Without(@[n], {id}) ELSE @[n]]]

Cancel(m, p, given) ==
  LET names == Both(First(<<given.symbol, p.mt5, p.symbol>>),
                    First(<<given.provider, p.provider, p.symbol>>))
  IN FoldLeft(LAMBDA acc, id : ForgetRecord(acc, id, names), m, p.cancels)

Take(m, p, given) ==
  LET records == RecordsOf(p, given)
  IN  FoldLeft(StoreRecord, Cancel(m, p, given), SetToSeq(records))

(* set_order_book_snapshot: the payload, or each of its books.             *)
SetBook(m, p, given) ==
  LET books == Books(p, given)
      takeBook(acc, b) ==
        Take(StoreBook(acc, b), b.payload,
             [symbol |-> b.symbol, provider |-> b.provider, time |-> b.time])
  IN IF books = <<>> THEN Take(m, p, given) ELSE FoldLeft(takeBook, m, books)

(* A page's payload: one without a book removes the book there was.        *)
PublishTimeline(m, p, symbol, provider) ==
  LET given == [symbol |-> symbol, provider |-> provider, time |-> None]
      next  == SetBook(m, p, given)
  IN IF Books(p, given) = <<>> THEN ClearBook(next, symbol, provider) ELSE next

(* The book a candle [open, close, symbol, provider] is evaluated with.    *)
BookContext(m, c, p) ==
  LET given == [symbol |-> c.symbol, provider |-> c.provider, time |-> c.close]
      books == Books(p, given)
  IN IF books # <<>> THEN <<books[1]>>
     ELSE BookFor(SetBook(m, p, given), c.symbol, c.provider)

-----------------------------------------------------------------------------
(* Ages and references.                                                    *)

RecordsFor(m, symbol, provider) ==
  LET of(n) == IF n = None THEN {} ELSE m.refills[n]
  IN  Without(of(symbol), {r.id : r \in of(provider)}) \union of(provider)

LaterThan(c, r) == r.time > 0 /\ r.time > c.close

(* How many candles before c the record was made; those without a time     *)
(* stay new.                                                               *)
Age(c, r) ==
  IF r.time <= 0 \/ r.time >= c.open THEN 0
  ELSE NonNegative((c.open - r.time + Interval - 1) \div Interval)

Found(m, c) == {r \in RecordsFor(m, c.symbol, c.provider) : ~LaterThan(c, r)}

Active(m, c, sides, liveOnly) ==
  {r \in Found(m, c) : /\ Age(c, r) <= Lifetime
                       /\ liveOnly => Age(c, r) = 0
                       /\ r.count > 0 /\ r.side \in sides}

(* What is too old for the candle is forgotten under every name.           *)
AfterLook(m, c) ==
  LET expired == {r.id : r \in {x \in Found(m, c) : Age(c, x) > Lifetime}}
  IN [m EXCEPT !.refills = [n \in Names |-> Without(@[n], expired)]]

ActivityFor(m, symbol, provider) == {r \in RecordsFor(m, symbol, provider) : r.activity}

(* The candle whose footprint the record was found in, or the candle of    *)
(* its time.                                                               *)
MatchesCandle(c, r) ==
  IF r.opened > 0 THEN r.opened = c.open ELSE r.time > 0 /\ r.time \in c.open .. c.close

EntryDirection(r) ==
  IF r.direction \in {"BUY", "LONG", "BUY_ENTRY"} THEN "LONG"
  ELSE IF r.direction \in {"SELL", "SHORT", "SELL_ENTRY"} THEN "SHORT"
  ELSE IF r.side = "BID" THEN "LONG" ELSE "SHORT"

EntryReference(r, c) ==
  LET direction == EntryDirection(r)
      opposite  == IF direction = "LONG" THEN "SELL" ELSE "BUY"
  IN [id |-> r.id, low |-> Min({r.zone[1], r.zone[2]}), high |-> Max({r.zone[1], r.zone[2]}),
      direction |-> direction,
      side |-> IF r.reference \in {"BUY", "SELL"} THEN r.reference ELSE opposite,
      candle |-> IF r.opened > 0 THEN r.opened ELSE c.open, time |-> r.time,
      count |-> r.count, executed |-> r.executed]

EntryReferences(m, c) ==
  {EntryReference(r, c) :
     r \in {x \in Active(m, c, {"BID", "ASK"}, FALSE) :
              MatchesCandle(c, x) /\ x.action = "ENTRY" /\ x.zone # <<>>}}

(* What an exit is looked for in: the bin of a refill at which market      *)
(* orders were executed, or its price alone.                               *)
ExitItems(m, c, side) ==
  {[id |-> r.id, buys |-> r.bought, sells |-> r.sold,
    low |-> IF r.bin = <<>> THEN r.price ELSE Min({r.bin[1], r.bin[2]}),
    high |-> IF r.bin = <<>> THEN r.price ELSE Max({r.bin[1], r.bin[2]})] :
     r \in {x \in Active(m, c, {side}, TRUE) : x.bought > 0 \/ x.sold > 0}}

=============================================================================
