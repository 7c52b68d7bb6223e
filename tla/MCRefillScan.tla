---------------------------- MODULE MCRefillScan ----------------------------
(* RefillScan on the file of MCTimelineIndex, whose four events fall into  *)
(* two candles of three milliseconds.                                      *)
EXTENDS RefillScan

MCEndOf(b) == IF b = 0 THEN 0 ELSE b + 1
MCStamp(e) == IF e <= 2 THEN e ELSE e - 1
MCWindows == {[from |-> 0, to |-> 2], [from |-> 1, to |-> 4]}
\* The first ends inside a candle; the first two together make the third.
MCScanWindows ==
  {[from |-> 0, to |-> 1], [from |-> 1, to |-> 6], [from |-> 0, to |-> 6]}

\* The loop of _covers finds every gap, whichever windows are stored.
ASSUME LoopFindsGaps ==
  LET all == {w \in [from : 0 .. 3, to : 1 .. 4] : w.from < w.to}
  IN  \A stored \in UNION {kSubset(n, all) : n \in 0 .. 3} : \A w \in all :
        Chained(stored, w) <=> NoGap(stored, w)

-----------------------------------------------------------------------------
(* The answers of scans, in candles of ten milliseconds.                   *)
S == INSTANCE ScanAnswers WITH CandleSpan <- 10, None <- -1, NoScore <- -1

Span(from, to) == [from |-> from, to |-> to]

Activity(symbol, at, price, side, opening, plain, refilled, executed, withdrawn) ==
  [symbol |-> symbol, candle |-> at, price |-> price, side |-> side, opening |-> opening,
   plain |-> plain, added |-> plain + refilled, executed |-> executed, withdrawn |-> withdrawn,
   closing |-> opening + plain + refilled - executed - withdrawn, refills |-> refilled,
   refilled |-> refilled, refillExecuted |-> S!Min({refilled, executed}), refillWithdrawn |-> 0,
   orders |-> IF plain + refilled > 0 THEN {at} ELSE {}]

\* The payload of a report, and one of a change of refills.
Reported(a) ==
  LET report == S!Report(a)
      more == [kind |-> "report", based |-> TRUE, symbol |-> a.symbol, at |-> a.candle,
               marker |-> a.candle, filled |-> 0, trades |-> 0]
  IN  [f \in DOMAIN report \cup DOMAIN more |-> IF f \in DOMAIN more THEN more[f] ELSE report[f]]

Changed(symbol, at, marker, price, side, refills, executed) ==
  [kind |-> "change", based |-> TRUE, symbol |-> symbol, at |-> at, marker |-> marker,
   price |-> price, side |-> side, refills |-> refills, refilled |-> refills,
   refillExecuted |-> executed, refillWithdrawn |-> 0, filled |-> executed, trades |-> 1,
   orders |-> {at}]

Acts == {Activity("ES", at, 1, "BID", o, p, r, e, 0) :
           at \in {10, 20}, o \in 0 .. 1, p \in 0 .. 1, r \in 0 .. 2, e \in 0 .. 2}
Sums == {a \in Acts : a.closing >= 0}

\* The row of one report repeats its figures and what it says of itself.
ASSUME ScansRepeatReports ==
  \A a \in Acts \cup {[b EXCEPT !.closing = @ + 1] : b \in Acts} :
    LET report == S!Report(a)
        found == S!Aggregated(Span(10, 30), <<Reported(a)>>)
    IN  \A row \in found :
          /\ Cardinality(found) = 1
          /\ \A f \in (DOMAIN row \cap DOMAIN report) : row[f] = report[f]

\* Reports and changes of a level give one row, whatever their order: the
\* figures are the report's, and changes add to them only when there is none.
Mixes == {<<Reported(a), Changed("ES", 11, 10, 1, "BID", 1, 0), Changed("ES", 12, 10, 1, "BID", 2, 1)>> :
            a \in {b \in Sums : b.candle = 10}}

ASSUME RowsForgetTheOrder ==
  \A mix \in Mixes, order \in Permutations(1 .. 3) :
    LET mixed == [k \in 1 .. 3 |-> mix[order[k]]]
    IN  /\ S!Aggregated(Span(10, 30), mixed) = S!Aggregated(Span(10, 30), mix)
        /\ \A row \in S!Aggregated(Span(10, 30), mix) :
             row.refilled = mix[1].refilled /\ row.filled = 1 /\ row.trades = 2
        /\ \A row \in S!Aggregated(Span(10, 30), SubSeq(mix, 2, 3)) : row.refilled = 3

\* A payload outside of the window is in no row; one whose marker lies before
\* the window is in the row of its own time, and so not in its candle's.
ASSUME MarkersStayInTheWindow ==
  \A from \in 8 .. 16 :
    LET found == S!Aggregated(Span(from, 30), <<Changed("ES", 14, 10, 1, "BID", 1, 0)>>)
    IN  /\ (found = {}) <=> (from > 14)
        /\ \A row \in found : row.marker = IF from <= 10 THEN 10 ELSE 14

Rows(acts) == S!Aggregated(Span(10, 30), [k \in DOMAIN acts |-> Reported(acts[k])])

Market == Rows(<<Activity("ES", 10, 1, "BID", 1, 1, 2, 2, 0), Activity("ES", 10, 1, "ASK", 0, 1, 0, 0, 0),
                 Activity("ES", 20, 2, "BID", 0, 0, 0, 0, 0), Activity("ES", 20, 2, "ASK", 2, 0, 1, 1, 1),
                 Activity("MES", 10, 1, "BID", 0, 2, 1, 3, 0)>>)

Requests == [refills : -1 .. 2, activity : {<<>>, <<"O", 1>>, <<"A", 1>>, <<"B", 2>>},
             rate : {<<>>, <<0>>, <<500>>, <<1000>>}]

\* What matches and the other sides of the matched levels are told apart, and
\* together are all that is known of these levels; asking for more never
\* brings another row.
ASSUME SummaryIsTheOtherSide ==
  \A request \in Requests :
    LET matched == S!Matched(Market, request)
        summary == S!Summary(Market, matched)
        more == [request EXCEPT !.refills = S!Max({1, @ + 1})]
    IN  /\ S!Accepted(request) /\ \A m \in matched : m.active
        /\ matched \cap summary = {}
        /\ matched \cup summary
             = {r \in Market : \E m \in matched : S!LevelKey(m) = S!LevelKey(r)}
        /\ S!Matched(Market, more) \subseteq matched

\* The file keeps one row where two symbols have a candle, price and side in
\* common: the answer from memory has both.
ASSUME FileForgetsSymbols ==
  LET rank == [s \in {"ES", "MES"} |-> IF s = "ES" THEN 1 ELSE 2]
      any == [refills |-> 1, activity |-> <<>>, rate |-> <<>>]
      stored == S!Stored(Market, rank)
  IN  /\ {S!FileKey(r) : r \in stored} = {S!FileKey(r) : r \in Market}
      /\ Cardinality(S!Matched(Market, any)) = 3
      /\ Cardinality(S!Matched(stored, any)) = 2
      /\ \A r \in stored : r.symbol = "ES" => S!FileKey(r) # <<10, 1, "BID">>

\* Events that two blocks have read are counted twice in the answer of both.
ASSUME BlocksCountTwice ==
  LET block(from, to) == [from |-> from, to |-> to, processed |-> to - from, candles |-> 1]
  IN  S!LoadedCounts({block(10, 20), block(10, 30)}, Span(10, 30), {}).processed = 30

Binned(low, high, score) == [low |-> low, high |-> high, score |-> score]
Candle(bins) == [symbol |-> "ES", candles |-> <<[open |-> 10, bins |-> bins], [open |-> 20, bins |-> bins]>>]

\* Bins that do not overlap share the refills of their candle among them; a bin
\* without an upper end has none, and a candle that opened before the window
\* is not shown.
ASSUME SpikesShareTheCandle ==
  LET whole == {Candle(<<Binned(1, 2, 5), Binned(2, 3, 7), Binned(3, 4, -1)>>)}
      of(spikes, open, side) ==
        S!SumFunction([r \in {r \in spikes : r.marker = open} |-> r.refills[side]])
      known(open, side) ==
        S!SumFunction([r \in {r \in Market : r.symbol = "ES" /\ r.marker = open /\ r.side = side} |-> r.refills])
      spikes == S!Spikes(Span(10, 30), whole, Market, 5)
  IN  /\ \A open \in {10, 20}, side \in {"BID", "ASK"} : of(spikes, open, side) = known(open, side)
      /\ {r.marker : r \in S!Spikes(Span(12, 30), whole, Market, 5)} = {20}
      /\ {r.price : r \in S!Spikes(Span(10, 30), whole, Market, 6)} = {2}
      /\ \A r \in S!Spikes(Span(10, 30), {Candle(<<Binned(1, -1, 5)>>)}, Market, 5) :
           \A side \in {"BID", "ASK"} : r.refills[side] = 0

Deleted(at, price, kind, contracts) ==
  [symbol |-> "ES", at |-> at, price |-> price, side |-> "BID", kind |-> kind, contracts |-> contracts]

Drops == <<Deleted(12, 1, "C", 2), Deleted(14, 1, "M", 1), Deleted(21, 1, "C", 0), Deleted(25, 2, "M", 3)>>

\* A delete scan counts every deletion of its window and side once, and a
\* candle that the window cuts is shown with a part of its deletions.
ASSUME DeletionsAreCounted ==
  \A from \in 10 .. 15, least \in -1 .. 2 :
    LET found == S!DeleteRows(Span(from, 30), "BID", Drops, S!DeleteRequest(least, 0))
        first == {r \in found : r.marker = 10}
    IN  /\ \A r \in found : r.deletes = r.counts["C"] + r.counts["M"]
        /\ \A r \in found : r.contracts = r.deleted["C"] + r.deleted["M"] /\ r.contracts >= r.deletes
        /\ \A r \in found : r.deletes >= least
        /\ \A r \in first : r.contracts = IF from <= 12 THEN 3 ELSE 1
        /\ first = {} <=> (from > 14 \/ (least = 2 /\ from > 12))

=============================================================================
