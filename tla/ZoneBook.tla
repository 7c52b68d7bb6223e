------------------------------ MODULE ZoneBook ------------------------------
(***************************************************************************)
(* Refill zones of process/dataProcessEngine.py, for one symbol and        *)
(* timeframe during one replay.  Every refill that the level ledger counts *)
(* is looked at here: neighbouring levels with refills may form a zone,    *)
(* a new zone may replace or cancel the active ones, and a strongly        *)
(* one-sided bin of the footprint (a terminal) cancels the zones of its    *)
(* side that it has passed.                                                *)
(*                                                                         *)
(* Prices are footprint bins, numbered upwards: the bin p reaches from p   *)
(* to p + 1, so neighbouring bins touch.  A replay reads the footprints of *)
(* its range before the events, so the bins of a candle are complete from  *)
(* its first event on.                                                     *)
(***************************************************************************)
EXTENDS Integers, FiniteSets, Sequences

CONSTANTS
  TopPrice,    \* prices are 1 .. TopPrice
  Footprints,  \* the footprints a candle may have
  Candles,     \* bound: number of candles of the replay
  MaxRefills,  \* bound: refills within one candle
  EmitCandles, \* the candles at which the published window may begin
  CountMin     \* REFILL_ZONE_COUNT_MIN

Price == 1 .. TopPrice
Side  == {"BID", "ASK"}

(* A bin: contracts bought and sold by market orders, and whether the side *)
(* that traded passes the diagonal ratio and the z-score of a terminal.    *)
Bin == [buy : Nat, sell : Nat, spike : BOOLEAN]

ASSUME ZoneAssumption ==
  /\ TopPrice \in Nat /\ Candles \in Nat \ {0} /\ MaxRefills \in Nat
  /\ EmitCandles \subseteq Nat /\ CountMin \in Nat \ {0}
  /\ Footprints \subseteq [Price -> Bin]

VARIABLES
  emitFrom, \* the first candle whose payloads are published
  candle,   \* the candle of the next event
  foot,     \* its footprint
  refills,  \* refills counted in it, per side and price
  active,   \* _active_zones_by_key
  emitted,  \* _emitted_zone_ids
  checked,  \* _terminal_cancel_checked_by_candle_key of the candle
  out,      \* the payloads published for the last event
  shown,    \* history: zones published so far
  view      \* history: the live zones of a consumer that obeys every payload

zoneVars ==
  <<emitFrom, candle, foot, refills, active, emitted, checked, out, shown, view>>

-----------------------------------------------------------------------------
(* Finding zones among the levels of a candle.                             *)

(* Contracts traded at a bin against and with the resting side: a BID is   *)
(* hit by market sells.                                                    *)
Against(b, side) == IF side = "BID" THEN b.buy ELSE b.sell
Hits(b, side)    == IF side = "BID" THEN b.sell ELSE b.buy

(* A bin where only one market side traded, and heavily.                   *)
Terminal(b, side) == Against(b, side) = 0 /\ Hits(b, side) > 0 /\ b.spike

SumOver(counts, prices) ==
  LET sum[n \in 0 .. TopPrice] ==
        IF n = 0 THEN 0 ELSE sum[n - 1] + IF n \in prices THEN counts[n] ELSE 0
  IN sum[TopPrice]

(* The zone of a run of levels that ends at a terminal, if it is one.  Its *)
(* output_id holds these fields, so with another count it is another zone. *)
ZoneOf(side, run, counts, bins, c) ==
  LET prices == {run[i] : i \in 1 .. Len(run)}
      low == CHOOSE q \in prices : \A r \in prices : q <= r
      high == CHOOSE q \in prices : \A r \in prices : q >= r
  IN IF Terminal(bins[run[Len(run)]], side) /\ SumOver(counts, prices) >= CountMin
     THEN {[candle |-> c, side |-> side, low |-> low, high |-> high + 1,
            count |-> SumOver(counts, prices), levels |-> Cardinality(prices)]}
     ELSE {}

(* Mutant of LevelStep: a run is not restarted when the opposing contracts *)
(* grow.                                                                   *)
LevelStepUnordered(side, acc, p, counts, bins, c) ==
  LET b == bins[p]
      run == Append(acc.run, p)
  IN IF Against(b, side) >= Hits(b, side) THEN [acc EXCEPT !.run = <<>>]
     ELSE IF Against(b, side) # 0 THEN [acc EXCEPT !.run = run]
     ELSE [run |-> <<>>, found |-> acc.found \union ZoneOf(side, run, counts, bins, c)]

(* One level of the wanted side: it breaks the run, restarts it, extends   *)
(* it, or closes it when no opposing contracts traded there.               *)
LevelStep(side, acc, p, counts, bins, c) ==
  LET b == bins[p]
      restart == acc.run # <<>> /\
                 Against(b, side) > Against(bins[acc.run[Len(acc.run)]], side)
      run == IF restart THEN <<p>> ELSE Append(acc.run, p)
  IN IF Against(b, side) >= Hits(b, side) THEN [acc EXCEPT !.run = <<>>]
     ELSE IF Against(b, side) # 0 THEN [acc EXCEPT !.run = run]
     ELSE [run |-> <<>>, found |-> acc.found \union ZoneOf(side, run, counts, bins, c)]

Break(acc) == [acc EXCEPT !.run = <<>>]

(* _buy_refill_zones scans the levels downwards, _sell_refill_zones        *)
(* upwards.  A level with refills on the other side breaks the run; at one *)
(* price the ASK level comes first in both scans.                          *)
BidZones(counts, bins, c) ==
  LET scan[n \in 0 .. TopPrice] ==
        IF n = 0 THEN [run |-> <<>>, found |-> {}]
        ELSE LET p == TopPrice + 1 - n
                 acc == IF counts["ASK"][p] > 0 THEN Break(scan[n - 1]) ELSE scan[n - 1]
             IN IF counts["BID"][p] > 0
                THEN LevelStep("BID", acc, p, counts["BID"], bins, c) ELSE acc
  IN scan[TopPrice].found

AskZones(counts, bins, c) ==
  LET scan[p \in 0 .. TopPrice] ==
        IF p = 0 THEN [run |-> <<>>, found |-> {}]
        ELSE LET acc == IF counts["ASK"][p] > 0
                        THEN LevelStep("ASK", scan[p - 1], p, counts["ASK"], bins, c)
                        ELSE scan[p - 1]
             IN IF counts["BID"][p] > 0 THEN Break(acc) ELSE acc
  IN scan[TopPrice].found

Candidates(counts, bins, c) == BidZones(counts, bins, c) \union AskZones(counts, bins, c)

-----------------------------------------------------------------------------
(* The active zones.                                                       *)

Above(z, other) == z.low > other.high
Below(z, other) == z.high < other.low

(* A zone further on in the direction in which its side is pushed.         *)
Beyond(z, other) == IF z.side = "BID" THEN Below(z, other) ELSE Above(z, other)

SameZone(z, other) == z.side = other.side /\ z.low = other.low /\ z.high = other.high

Rivals(book, z) == {a \in book : a.side = z.side /\ ~SameZone(a, z)}

(* A zone is refused unless it lies beyond every other zone of its side.   *)
Refused(book, z) == \E a \in Rivals(book, z) : ~Beyond(z, a)

(* Mutants of Replaced: the zones of the other side, or those of its own   *)
(* side, are never cancelled.                                              *)
ReplacedOneSided(book, z) == {a \in book : a.side = z.side}

ReplacedCrossed(book, z) ==
  {a \in book : \/ z.side = "BID" /\ a.side = "ASK" /\ Above(z, a)
                \/ z.side = "ASK" /\ a.side = "BID" /\ Below(z, a)}

(* What a new zone cancels: its earlier forms, the other zones of its      *)
(* side, and the zones of the other side that it has crossed.              *)
Replaced(book, z) ==
  {a \in book : \/ a.side = z.side
                \/ z.side = "BID" /\ a.side = "ASK" /\ Above(z, a)
                \/ z.side = "ASK" /\ a.side = "BID" /\ Below(z, a)}

(* A terminal of the footprint lies beyond the zone.                       *)
Passed(a, bins) ==
  \E p \in Price :
    /\ Terminal(bins[p], a.side)
    /\ Beyond([side |-> a.side, low |-> p, high |-> p + 1], a)

(* The zones left by the terminals of the candle.                          *)
Outlived(book, bins) == {a \in book : ~Passed(a, bins)}

-----------------------------------------------------------------------------
NoRefills == [s \in Side |-> [p \in Price |-> 0]]

ZoneInit ==
  /\ emitFrom \in EmitCandles
  /\ candle = 1
  /\ foot \in Footprints
  /\ refills = NoRefills
  /\ active = {} /\ emitted = {} /\ checked = {}
  /\ out = <<>> /\ shown = {} /\ view = {}

(* A payload names the zones it cancels and shows at most one zone.        *)
Payload(cancels, zones) == [cancels |-> cancels, zones |-> zones]

(* Mutant of Announce: the emission test is applied to zones only, and a   *)
(* payload that shows no zone is dropped.                                  *)
AnnounceZonesOnly(payloads) ==
  LET published == IF candle >= emitFrom /\ payloads # <<>>
                   THEN <<payloads[Len(payloads)]>> ELSE <<>>
      zones == UNION {published[i].zones : i \in DOMAIN published}
      cancels == UNION {published[i].cancels : i \in DOMAIN published}
  IN /\ out' = published
     /\ shown' = shown \union zones
     /\ view' = (view \ cancels) \union zones

(* Payloads of the warm-up are dropped.  No payload of an event cancels    *)
(* the zone another one of them shows, so a consumer may apply them        *)
(* together.                                                               *)
Announce(payloads) ==
  LET published == IF candle >= emitFrom THEN payloads ELSE <<>>
      zones == UNION {published[i].zones : i \in DOMAIN published}
      cancels == UNION {published[i].cancels : i \in DOMAIN published}
  IN /\ out' = published
     /\ shown' = shown \union zones
     /\ view' = (view \ cancels) \union zones

(* _terminal_cancel_payloads runs on every event unless the active zones   *)
(* are the ones left by the last check of the candle.                      *)
Book == IF checked = active THEN active ELSE Outlived(active, foot)

TerminalPayloads ==
  IF Book = active THEN <<>> ELSE <<Payload(active \ Book, {})>>

(* An event that adds no refill.                                           *)
OtherEvent ==
  /\ active' = Book
  /\ checked' = IF active = {} THEN checked ELSE Book
  /\ Announce(TerminalPayloads)
  /\ UNCHANGED <<emitFrom, candle, foot, refills, emitted>>

RefillCount ==
  SumOver(refills["BID"], Price) + SumOver(refills["ASK"], Price)

(* An event that adds a refill at a level of the book: the zone that holds *)
(* the level, if there is one, becomes active.                             *)
Refill(side, p) ==
  LET counts == [refills EXCEPT ![side][p] = @ + 1]
      zones == {z \in Candidates(counts, foot, candle) :
                  /\ z.side = side /\ z.low <= p /\ p < z.high
                  /\ z \notin emitted
                  /\ ~Refused(Book, z)}
  IN /\ RefillCount < MaxRefills
     /\ refills' = counts
     /\ checked' = IF active = {} THEN checked ELSE Book
     /\ \/ /\ zones = {}
           /\ active' = Book
           /\ Announce(TerminalPayloads)
           /\ UNCHANGED emitted
        \/ \E z \in zones :
             /\ active' = (Book \ Replaced(Book, z)) \union {z}
             /\ emitted' = emitted \union {z}
             /\ Announce(TerminalPayloads \o <<Payload(Replaced(Book, z), {z})>>)
     /\ UNCHANGED <<emitFrom, candle, foot>>

(* Mutant of NextCandle: the check of the last candle is taken for the new *)
(* one.                                                                    *)
NextCandleChecked ==
  /\ candle < Candles
  /\ candle' = candle + 1
  /\ foot' \in Footprints
  /\ refills' = NoRefills
  /\ out' = <<>>
  /\ UNCHANGED <<emitFrom, active, emitted, checked, shown, view>>

(* The next event is of a later candle: refill payloads and terminal       *)
(* checks are kept per candle.                                             *)
NextCandle ==
  /\ candle < Candles
  /\ candle' = candle + 1
  /\ foot' \in Footprints
  /\ refills' = NoRefills
  /\ checked' = {}
  /\ out' = <<>>
  /\ UNCHANGED <<emitFrom, active, emitted, shown, view>>

ZoneNext ==
  \/ OtherEvent
  \/ \E side \in Side, p \in Price : Refill(side, p)
  \/ NextCandle

ZoneSpec == ZoneInit /\ [][ZoneNext]_zoneVars

-----------------------------------------------------------------------------
(* _active_zone_payload leaves at most one active zone on a side.          *)
OnePerSide == \A a, b \in active : a.side = b.side => a = b

(* An active BID zone never lies entirely above an active ASK zone: of two *)
(* zones that the market has crossed the later one cancels the earlier.    *)
NoInversion ==
  \A a, b \in active : a.side = "BID" /\ b.side = "ASK" => ~Above(a, b)

(* A consumer that starts with the emit window and obeys canceled_zone_ids *)
(* knows exactly the active zones that were published: no cancellation is  *)
(* left out of the payloads.                                               *)
StreamMatchesBook == view = active \intersect shown

(* A zone that lived through an event has no terminal of the event's       *)
(* candle beyond it, although the terminals are looked at only when the    *)
(* active zones have changed since the last look.                          *)
PassedAreCancelled ==
  [][candle' = candle => \A a \in active \intersect active' : ~Passed(a, foot)]_zoneVars

(* The levels that the zone ending at the terminal t consists of, written  *)
(* without a scan: the levels of its side with no break between them and   *)
(* the terminal and with opposing contracts that shrink towards it.        *)
RunTo(counts, side, t) ==
  LET other == CHOOSE s \in Side : s # side
      span(q) == IF q <= t THEN q .. t ELSE t .. q
      before(q, r) == IF side = "BID" THEN q > r ELSE q < r
      levels(q) == {r \in span(q) : counts[side][r] > 0}
      edge(q) == IF q <= t THEN q .. t - 1 ELSE t .. q - 1
  IN {t} \union
     {q \in Price :
        /\ before(q, t) /\ counts[side][q] > 0
        /\ \A r \in edge(q) : counts[other][r] = 0
        /\ \A r \in levels(q) : Against(foot[r], side) < Hits(foot[r], side)
        /\ \A r \in levels(q) \ {t} : Against(foot[r], side) # 0
        /\ \A r, u \in levels(q) :
              before(r, u) => Against(foot[r], side) >= Against(foot[u], side)}

(* The zone of the run that ends at the level s[2] of the side s[1], and    *)
(* when it is one: the level has refills, is a terminal, and the run has   *)
(* enough of them.                                                         *)
RunZones(counts, c, s) ==
  LET run == RunTo(counts, s[1], s[2])
  IN {[candle |-> c, side |-> s[1], low |-> lo, high |-> hi + 1,
       count |-> SumOver(counts[s[1]], run), levels |-> Cardinality(run)] :
        lo \in {q \in run : \A r \in run : q <= r},
        hi \in {q \in run : \A r \in run : q >= r}}

EndsRun(counts, s) ==
  /\ counts[s[1]][s[2]] > 0
  /\ Terminal(foot[s[2]], s[1])
  /\ SumOver(counts[s[1]], RunTo(counts, s[1], s[2])) >= CountMin

(* The two scans, with their resets and restarts, find exactly the runs    *)
(* that end at a terminal, and count all the refills of the run; for any   *)
(* refills a candle with this footprint may have.                          *)
ZonesAreRuns ==
  candle = 1 /\ refills = NoRefills =>
    \A counts \in [Side -> [Price -> 0 .. 2]] :
      Candidates(counts, foot, candle) =
        UNION {RunZones(counts, candle, s) : s \in {s \in Side \X Price : EndsRun(counts, s)}}

(* The payloads keep the promise of ZoneStream.                            *)
Stream == INSTANCE ZoneStream WITH live <- view
KeepsPromise == Stream!Spec
=============================================================================
