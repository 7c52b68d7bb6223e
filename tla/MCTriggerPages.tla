---------------------------- MODULE MCTriggerPages ----------------------------
(* TriggerPages with one place for a zone of either side and three candles: *)
(* one that touches the BID zone and executes beyond it, one that touches   *)
(* it and executes beyond neither, and one that touches the ASK zone only,  *)
(* above the price of its refill and below the centre of its bin; the       *)
(* windows of candles such a page is given, on a few archives; and the      *)
(* memory of the engine under the names of an instrument.                   *)
EXTENDS TriggerPages

W == INSTANCE CmeWindows WITH BinSize <- 2, One <- 2, Interval <- 2, DayLength <- 8, Shift <- 2,
       SessionFrom <- 2, SessionUntil <- 6, MaxWindow <- 4, Parts <- 10, CacheSize <- 2

Bar(low, high, buys, sells, lower, upper) ==
  [low |-> low, high |-> high, buys |-> buys, sells |-> sells, lower |-> lower, upper |-> upper]

M == INSTANCE RefillMemory WITH None <- -1, Names <- 1 .. 3, Interval <- 10, Lifetime <- 2

MCShapes == {Bar(1, 4, {2, 3}, {}, {1}, {3}), Bar(1, 3, {}, {1}, {1}, {2}),
             Bar(4, 5, {}, {4}, {3}, {4})}

MCPlaces ==
  {[side |-> "BID", low |-> 1, high |-> 2, count |-> 1, levels |-> 1],
   [side |-> "ASK", low |-> 3, high |-> 4, count |-> 2, levels |-> 1]}

-----------------------------------------------------------------------------
(* Archives of two contracts: with a trade in every candle, and with empty *)
(* candles at 4, 8 and 10.                                                 *)
Dense == [k \in 1 .. 13 |->
            [at |-> k, contract |-> IF k = 3 \/ k > 5 THEN 2 ELSE 1, price |-> k % 4, size |-> 1 + (k % 3),
             side |-> IF k % 3 = 0 THEN "A" ELSE IF k = 5 THEN "N" ELSE "B"]]
Sparse == SelectSeq(Dense, LAMBDA t : t.at \notin {4, 5, 8, 9, 10, 11})

Requests == [end : {{}, {7}, {10}}, limit : 1 .. 2]

Shown(s, trades, r) == W!FootprintWindow(s, trades, {}, r.end, r.limit)
Asked(s, trades, r) == W!AfterWindow(s, trades, {}, r.end, r.limit)

WithoutNumbers(answer) == [k \in DOMAIN answer |-> [answer[k] EXCEPT !.candle.number = 0]]

\* With a trade in every candle, what was asked before changes no answer but
\* the numbers of its candles.
ASSUME KeptWindowsAreFresh ==
  \A r1, r2 \in Requests :
    LET s == Asked(W!NewProvider, Dense, r1)
    IN  WithoutNumbers(Shown(s, Dense, r2)) = WithoutNumbers(Shown(W!NewProvider, Dense, r2))

\* Two candles of a window may have one number ...
ASSUME NumbersRepeat ==
  LET answer == Shown(Asked(W!NewProvider, Dense, [end |-> {7}, limit |-> 1]), Dense,
                      [end |-> {8}, limit |-> 2])
  IN  Len(answer) = 2 /\ answer[1].candle.number = answer[2].candle.number

\* ... and with empty candles, two blocks that meet answer a window with
\* fewer candles than there are.
ASSUME BlocksMissCandles ==
  LET s == Asked(Asked(W!NewProvider, Sparse, [end |-> {14}, limit |-> 2]), Sparse,
                 [end |-> {10}, limit |-> 2])
      r == [end |-> {14}, limit |-> 4]
  IN  Len(Shown(s, Sparse, r)) < Len(Shown(W!NewProvider, Sparse, r))

\* A window has the newest candles before its end, as many as were asked for
\* or all there are.
ASSUME WindowsAreFull ==
  \A trades \in {Dense, Sparse}, end \in {{}, {1}, {5}, {10}, {11}}, limit \in {1, 3} :
    LET w     == W!FrameWindow(trades, {}, end, limit)
        opens == W!OpensOf(w.frame)
        all   == {o \in W!OpensOf(W!RangeFrame(trades, -2, 14)) : o < w.end}
    IN  /\ opens \subseteq all /\ Cardinality(opens) = W!Min({limit, Cardinality(all)})
        /\ \A o \in opens, p \in all : p >= o => p \in opens

\* A delta is the sum over the day, or the session, until the candle's end,
\* however the series was loaded.
ASSUME DeltasAreSums ==
  \A trades \in {Dense, Sparse}, first, open \in {0, 2, 4, 6, 12} :
    LET cache == W!DeltaCache(<<>>, trades, {first}, 2)
        d     == W!DeltasOf(cache, trades, {open})[open]
        sum(from) == LET f == W!RangeFrame(trades, from, open + 2)
                     IN  W!SumFunction([k \in DOMAIN f |-> W!SignedOf(f[k])])
    IN  /\ d.day = sum(8 * ((open + 2) \div 8) - 2)
        /\ d.session = IF open % 8 \in 2 .. 5 THEN {sum(8 * (open \div 8) + 2)} ELSE {}

\* The history evaluates every candle, and every candle together with the
\* one before it.
ASSUME HistoryIsWhole ==
  \A trades \in {Dense, Sparse} :
    LET chunks == W!HistoryChunks(trades, {})
        all    == W!OpensOf(W!RangeFrame(trades, -2, 14))
    IN  \A o \in all : \E k \in DOMAIN chunks :
          /\ o \in chunks[k].opens
          /\ \A p \in all : p < o /\ (\A q \in all : q <= p \/ q >= o) => p \in chunks[k].opens

\* The bins of a candle hold the contracts traded in it, those of no side
\* in their totals only.
ASSUME BinsHoldContracts ==
  \A open \in {0, 2, 4, 6} :
    LET frame == W!RangeFrame(Dense, -2, 14)
        ts    == W!TradesOf(frame, open)
        bins  == W!FootprintOf(frame, open).bins
        sum(f) == W!SumFunction(f)
    IN  /\ sum([k \in DOMAIN bins |-> bins[k].total]) = sum([k \in DOMAIN ts |-> ts[k].size])
        /\ sum([k \in DOMAIN bins |-> bins[k].buy - bins[k].sell]) =
             sum([k \in DOMAIN ts |-> W!SignedOf(ts[k])])
        /\ sum([k \in DOMAIN bins |-> bins[k].total - bins[k].buy - bins[k].sell]) =
             IF open = 4 THEN 3 ELSE 0

\* A chart shows the prices of its candles, the sessions their contracts,
\* and the trigger engine reaches back before the first of them.
ASSUME ChartsAgree ==
  LET frame == W!FrameWindow(Dense, {}, {}, 3).frame
      chart == W!ChartWindow(W!NewProvider, Dense, {}, {}, 3)
      fresh == Shown(W!NewProvider, Dense, [end |-> {}, limit |-> 3])
      opens == W!OpensOf(frame)
  IN  /\ chart = fresh
      /\ opens \subseteq W!OpensOf(W!AnalysisFrame(Dense, opens))
      /\ \A p \in W!SessionProfiles(Dense, frame), i \in 0 .. 1 :
           i \in DOMAIN p.bins =>
             LET ts == W!RangeFrame(Dense, 8 * p.date + 2, 8 * p.date + 6)
             IN  p.bins[i].buy + p.bins[i].sell =
                   W!ContractsIn(SelectSeq(ts, LAMBDA t : t.side # "N"), i)

\* The events of a day are its trades, each with a side.
ASSUME EventsHaveSides ==
  LET events == W!DayEvents(<<SubSeq(Dense, 8, 13), SubSeq(Dense, 1, 7)>>, 0)
  IN  /\ [k \in DOMAIN events |-> events[k].at] = [k \in 1 .. 5 |-> k]
      /\ events[5].side = "B"

-----------------------------------------------------------------------------
(* The memory of refills under the names of an instrument: 1 and 2 are the  *)
(* terminal's and the provider's name of one, in candles of ten.            *)
Item == [mt5 |-> -1, symbol |-> -1, provider |-> -1, id |-> <<>>, order |-> -1, time |-> -1, end |-> -1,
         price |-> -1, side |-> "", count |-> -1, total |-> -1, executed |-> 0, activity |-> FALSE,
         bought |-> {}, sold |-> {}, opened |-> -1, bin |-> <<>>, zone |-> <<>>, direction |-> "",
         reference |-> "", action |-> "ENTRY", contracts |-> [bid |-> 0, ask |-> 0, other |-> 0],
         cancels |-> <<>>, levels |-> <<>>, bookLevels |-> <<>>, sessions |-> <<>>,
         points |-> <<>>, outputs |-> <<>>, events |-> <<>>,
         best |-> [bid |-> -1, ask |-> -1], lines |-> [bid |-> -1, ask |-> -1]]

RefillItem(id, at) ==
  [Item EXCEPT !.id = id, !.time = at, !.price = 5, !.side = "BUY", !.count = 1, !.total = 2,
               !.executed = 3, !.zone = <<7, 5>>]

Nobody == [symbol |-> -1, provider |-> -1, time |-> -1]
Given(s, p) == [symbol |-> s, provider |-> p, time |-> -1]
CandleFrom(o) == [open |-> o, close |-> o + 9, symbol |-> 1, provider |-> 2]
Remembered(p, given) == M!SetBook(M!NoMemory, p, given)
IdsAt(m, c) == {r.id : r \in M!Active(m, c, {"BID", "ASK"}, FALSE)}
Zone1 == [Item EXCEPT !.mt5 = 1, !.provider = 2, !.events = <<RefillItem(<<1>>, 12)>>]

\* A cancellation removes the zone whose records it finds under both names,
\* or under neither of the names it gives; one that gives a single name of
\* the two leaves a copy, which candles of both names go on to find.
ASSUME CancelLeavesACopy ==
  \A s, p \in {-1, 1, 2, 3} :
    LET m == M!SetBook(Remembered(Zone1, Nobody), [Item EXCEPT !.symbol = s, !.provider = p, !.cancels = <<<<1>>>>],
                       Nobody)
        named == {s, p} \ {-1}
    IN  (<<1>> \in IdsAt(m, CandleFrom(10))) <=> Cardinality(named \intersect {1, 2}) = 1

\* What a payload says beside its sessions, cancellations and refills, is
\* read only when none of the sessions has a book.
ASSUME SessionsHideThePayload ==
  \A hasBook \in BOOLEAN :
    LET session == [Item EXCEPT !.points = <<RefillItem(<<2>>, 12)>>,
                                !.lines.bid = IF hasBook THEN 4 ELSE -1]
        outer   == [Item EXCEPT !.cancels = <<<<1>>>>, !.points = <<RefillItem(<<3>>, 12)>>,
                                !.sessions = <<<<session>>>>]
        m == M!SetBook(Remembered(Zone1, Nobody), outer, Given(1, 2))
    IN  IdsAt(m, CandleFrom(10)) = IF hasBook THEN {<<1>>, <<2>>} ELSE {<<2>>, <<3>>}

\* Of two sessions, one without a book is not read when the other has one.
ASSUME BooklessSessionsAreLost ==
  LET quiet == [Item EXCEPT !.points = <<RefillItem(<<2>>, 12)>>]
      drawn == [Item EXCEPT !.points = <<RefillItem(<<3>>, 12)>>, !.lines.ask = 6]
      ids(ss) == IdsAt(Remembered([Item EXCEPT !.sessions = <<ss>>], Given(1, 2)), CandleFrom(10))
  IN  ids(<<quiet>>) = {<<2>>} /\ ids(<<quiet, drawn>>) = {<<3>>}

\* A refill that is listed twice is one record, with the later figures;
\* executed contracts beyond the refill are not counted.
ASSUME LaterListsWin ==
  LET early == [RefillItem(<<1>>, 12) EXCEPT !.total = 9]
      rs    == M!RecordsOf([Item EXCEPT !.mt5 = 1, !.points = <<early, RefillItem(<<>>, 12)>>,
                                        !.events = <<RefillItem(<<1>>, 12), RefillItem(<<>>, 12)>>], Nobody)
  IN  Cardinality(rs) = 2 /\ \A r \in rs : r.total = 2 /\ r.executed = 2

\* From one candle to the next a record grows older by one candle, so that
\* it is found in the candle of its time and Lifetime candles after it ...
ASSUME OneCandleOlder ==
  \A at \in 1 .. 30, o \in {10, 20, 30, 40} :
    LET r == [time |-> at]
        m == Remembered([Item EXCEPT !.mt5 = 1, !.events = <<RefillItem(<<1>>, at)>>], Nobody)
    IN  at <= o + 9 =>
          /\ M!Age(CandleFrom(o + 10), r) = M!Age(CandleFrom(o), r) + 1
          /\ (<<1>> \in IdsAt(m, CandleFrom(o))) <=> M!Age(CandleFrom(o), r) <= 2

\* ... but a record without a time is new in every candle, for good, and
\* the reference of none unless it names its candle.
ASSUME TimelessStayNew ==
  LET m == Remembered([Item EXCEPT !.mt5 = 1, !.points = <<RefillItem(<<1>>, -1)>>], Nobody)
  IN  \A o \in {10, 20, 90} :
        /\ IdsAt(m, CandleFrom(o)) = {<<1>>} /\ M!AfterLook(m, CandleFrom(o)) = m
        /\ M!EntryReferences(m, CandleFrom(o)) = {}

\* A look at a newer candle forgets what an older candle would have found:
\* candles evaluated out of order lose references.
ASSUME NewerLookForgets ==
  \A first, second \in {10, 20, 30, 40, 50} :
    LET m     == Remembered(Zone1, Nobody)
        after == M!EntryReferences(M!AfterLook(m, CandleFrom(first)), CandleFrom(second))
    IN  after = IF second = 10 /\ first < 40 THEN M!EntryReferences(m, CandleFrom(10)) ELSE {}

\* A reference is a zone with its bounds in order; the side it looks for is
\* the opposite of its direction unless the payload names one, and the
\* direction that of the level's side unless the payload names one.
ASSUME ReferencesFollowTheirSide ==
  \A side \in {"B", "SELL"}, direction \in {"", "LONG", "SELL"}, reference \in {"", "BUY", "SELL"} :
    LET item == [RefillItem(<<1>>, 12) EXCEPT !.side = side, !.direction = direction, !.reference = reference]
        refs == M!EntryReferences(Remembered([Item EXCEPT !.mt5 = 1, !.events = <<item>>], Nobody),
                                  CandleFrom(10))
    IN  \A r \in refs :
          /\ r.low = 5 /\ r.high = 7
          /\ direction = "" => (r.direction = "LONG") = (side = "B")
          /\ reference = "" => (r.side = "SELL") = (r.direction = "LONG")

\* A page without a book takes away the book of both names, those of a
\* candle it is evaluated with stay.
ASSUME BooksAreReplaced ==
  LET book == [Item EXCEPT !.levels = <<<<[Item EXCEPT !.price = 5, !.contracts.bid = 1],
                                        [Item EXCEPT !.price = 6, !.contracts.ask = 1]>>>>]
      m    == M!PublishTimeline(M!NoMemory, book, 1, 2)
      c    == CandleFrom(10)
  IN  /\ M!BookFor(m, 1, 2)[1].bid = 5 /\ M!BookFor(m, 2, 1)[1].ask = 6
      /\ M!BookContext(m, c, Item) = M!BookFor(m, 1, 2)
      /\ M!BookContext(m, c, book)[1].time = 19
      /\ M!BookFor(M!PublishTimeline(m, Item, 1, 2), 1, 2) = <<>>
      /\ M!BookFor(M!PublishTimeline(m, Item, 3, 3), 1, 2) # <<>>

\* A live exit looks at the bins of refills made in its own candle, at
\* which market orders were executed.
ASSUME ExitsAreLive ==
  \A at \in {5, 12, 25}, bought \in {{}, {0, 3}}, bin \in {<<>>, <<8, 6>>} :
    LET item == [RefillItem(<<1>>, at) EXCEPT !.bought = bought, !.bin = bin]
        m    == Remembered([Item EXCEPT !.mt5 = 1, !.events = <<item>>], Nobody)
    IN  M!ExitItems(m, CandleFrom(10), "BID") =
          IF at = 12 /\ bought # {}
          THEN {[id |-> <<1>>, buys |-> 3, sells |-> 0,
                 low |-> IF bin = <<>> THEN 5 ELSE 6, high |-> IF bin = <<>> THEN 5 ELSE 8]}
          ELSE {}

=============================================================================
