----------------------------- MODULE ScanAnswers -----------------------------
(***************************************************************************)
(* What the scans of absorption/session_service.py answer.  A refill scan  *)
(* brings the payloads of a replay to rows, one for each candle, price and *)
(* side of a symbol, filters them and adds the bins of a high spike score; *)
(* a delete scan counts what was deleted there.  Pure: RefillScan says     *)
(* which events a row is made of and when rows come from the file, and     *)
(* BookReaders which deletions a delete scan sees.                         *)
(*                                                                         *)
(* The payload of a scan is a report of LevelReports or a refill change:   *)
(* kind says which, symbol whose it is, at when it happened, marker where  *)
(* on the chart, and based whether it has price-base figures.              *)
(***************************************************************************)
EXTENDS LevelReports

CONSTANT NoScore  \* a bin of the footprint without a spike score

Within(w, t) == w.from <= t /\ t < w.to

-----------------------------------------------------------------------------
(* The rows of a refill scan.                                              *)

(* _chart_aligned_refill_scan_payload: a time of 0 is a missing one.  What *)
(* is outside of the window is dropped, a marker outside of it moved.      *)
TimeOf(p)   == IF p.at > 0 THEN p.at ELSE p.marker
InScan(w, p) == p.based /\ Within(w, TimeOf(p)) /\ p.side \in {"BID", "ASK"}

Aligned(w, p) ==
  [p EXCEPT !.marker = IF @ > 0 /\ Within(w, @) THEN @ ELSE TimeOf(p)]

RowKey(p)   == <<p.symbol, p.marker, p.price, p.side>>
LevelKey(p) == <<p.symbol, p.marker, p.price>>

(* _aggregate_refill_scan_payloads, of the payloads of one key: the figures *)
(* of the last report, or, if there is none, the sums of the changes.       *)
Aggregate(group) ==
  LET reports == SelectSeq(group, LAMBDA p : p.kind = "report")
      changes == SelectSeq(group, LAMBDA p : p.kind = "change")
      told(field) == IF reports = <<>> THEN 0 ELSE Last(reports)[field]
      sum(field) == SumFunction([k \in DOMAIN changes |-> changes[k][field]])
      count(field) == IF reports = <<>> THEN sum(field) ELSE told(field)
      refilled == count("refilled")
      executed == Min({count("refillExecuted"), refilled})
      opening == told("opening")
      added == told("added")
      left == opening + added - told("executed") - told("withdrawn")
      orders == UNION {group[k].orders : k \in DOMAIN group}
  IN  [symbol |-> group[1].symbol, marker |-> group[1].marker,
       price |-> group[1].price, side |-> group[1].side,
       opening |-> opening, added |-> added, executed |-> told("executed"),
       withdrawn |-> told("withdrawn"), closing |-> told("closing"), plain |-> told("plain"),
       available |-> opening + added, rate |-> Rate(told("executed"), opening + added),
       conserved |-> told("closing") = left /\ left >= 0,
       split |-> added = told("plain") + refilled,
       refills |-> count("refills"), refilled |-> refilled, refillExecuted |-> executed,
       refillWithdrawn |-> count("refillWithdrawn"),
       refillRate |-> IF refilled > 0 THEN Rate(executed, refilled) ELSE <<0>>,
       hasRefill |-> count("refills") > 0,
       filled |-> sum("filled"), trades |-> sum("trades"),
       orders |-> orders,
       active |-> orders # {} \/ told("executed") > 0 \/ added > 0]

Aggregated(w, payloads) ==
  LET inside == SelectSeq(payloads, LAMBDA p : InScan(w, p))
      aligned == [k \in DOMAIN inside |-> Aligned(w, inside[k])]
      keys == {RowKey(aligned[k]) : k \in DOMAIN aligned}
  IN  {Aggregate(SelectSeq(aligned, LAMBDA p : RowKey(p) = key)) : key \in keys}

-----------------------------------------------------------------------------
(* RefillScanIndex keeps rows under a key without the symbol: of two rows  *)
(* with one key the later written stays.  Rows are written in the order of *)
(* their markers, sides and prices, and of these first of the first symbol.*)
FileKey(row) == <<row.marker, row.price, row.side>>

Stored(rows, rank) ==
  {r \in rows : \A q \in rows : FileKey(q) = FileKey(r) => rank[q.symbol] <= rank[r.symbol]}

\* load: the counts of the blocks that overlap the window are added up.
LoadedCounts(blocks, w, rows) ==
  LET over == {b \in blocks : b.to > w.from /\ b.from < w.to}
      sum(field(_)) == FoldSet(LAMBDA b, n : n + field(b), 0, over)
  IN  [processed |-> sum(LAMBDA b : b.processed), candles |-> sum(LAMBDA b : b.candles),
       emitted |-> Cardinality(rows)]

-----------------------------------------------------------------------------
(* The answer of a refill scan.  A request names the least refill count,   *)
(* and may name an activity, as <<letter, number>>, and a least rate, in   *)
(* tenths of a percent, as <<rate>>.                                       *)
Letters == {"O", "A", "B"}

Accepted(request) ==
  /\ \/ request.activity = <<>>
     \/ request.activity[1] \in Letters /\ request.activity[2] >= 0
  /\ request.rate = <<>> \/ request.rate[1] \in 0 .. 1000

(* _matches_refill_activity_filter                                         *)
HasActivity(row, activity) ==
  \/ activity = <<>>
  \/ activity[1] = "O" /\ Cardinality(row.orders) >= activity[2]
  \/ /\ activity[1] # "O" /\ row.added >= activity[2]
     /\ row.side = IF activity[1] = "A" THEN "ASK" ELSE "BID"

(* _displayed_execution_rate: a rate that is not defined counts as 0.      *)
DisplayedRate(row) ==
  IF row.hasRefill THEN row.refillRate[1]
  ELSE IF row.rate = <<>> THEN 0 ELSE row.rate[1]

Matched(rows, request) ==
  LET least == Max({0, request.refills})
  IN  {r \in rows : /\ r.refills >= least /\ (least > 0 \/ r.active)
                    /\ HasActivity(r, request.activity)
                    /\ request.rate = <<>> \/ DisplayedRate(r) >= request.rate[1]}

\* The rows of a matched level that did not match themselves.
Summary(rows, matched) ==
  {r \in rows : /\ LevelKey(r) \in {LevelKey(m) : m \in matched}
                /\ RowKey(r) \notin {RowKey(m) : m \in matched}}

-----------------------------------------------------------------------------
(* _spike_score_scan_payloads: the bins of the candles that open in the    *)
(* window whose score is high enough, with what happened at their prices.  *)
(* A footprint is a symbol with its candles.                               *)
ActivityIn(rows, symbol, open, side, bin) ==
  {r \in rows : /\ r.symbol = symbol /\ r.side = side
                /\ (r.marker \div CandleSpan) * CandleSpan = open
                /\ bin.low <= r.price /\ r.price < UpperEnd(bin)}

SpikeRow(rows, symbol, open, bin) ==
  LET on(side) == ActivityIn(rows, symbol, open, side, bin)
      sum(field(_), side) == FoldSet(LAMBDA r, n : n + field(r), 0, on(side))
  IN  [symbol |-> symbol, marker |-> open, price |-> bin.low, score |-> bin.score,
       refills |-> [s \in {"BID", "ASK"} |-> sum(LAMBDA r : r.refills, s)],
       executed |-> [s \in {"BID", "ASK"} |-> sum(LAMBDA r : r.executed, s)]]

SpikesOf(w, footprint, rows, least) ==
  LET candles == {c \in ToSet(footprint.candles) : Within(w, c.open)}
      spikes(c) == {b \in ToSet(c.bins) : b.score # NoScore /\ b.score >= least}
  IN  UNION {{SpikeRow(rows, footprint.symbol, c.open, b) : b \in spikes(c)} : c \in candles}

Spikes(w, footprints, rows, least) ==
  UNION {SpikesOf(w, f, rows, least) : f \in footprints}

-----------------------------------------------------------------------------
(* The answer of a delete scan, of the deletions of its side: kind is "C"  *)
(* for a cancel and "M" for a change of the order.                         *)
DeleteRequest(deletes, contracts) ==
  [deletes |-> Max({1, deletes}), contracts |-> Max({0, contracts})]

Deletions(w, side, deleted) ==
  SelectSeq(deleted, LAMBDA d : d.contracts > 0 /\ d.side = side /\ Within(w, d.at))

DeleteKey(d) == <<d.symbol, (d.at \div CandleSpan) * CandleSpan, d.price>>

DeleteRow(deletions, key) ==
  LET own == SelectSeq(deletions, LAMBDA d : DeleteKey(d) = key)
      of(kind) == SelectSeq(own, LAMBDA d : (d.kind = "M") = (kind = "M"))
      contracts(ds) == SumFunction([k \in DOMAIN ds |-> ds[k].contracts])
  IN  [symbol |-> key[1], marker |-> key[2], price |-> key[3],
       counts |-> [kind \in {"C", "M"} |-> Len(of(kind))],
       deleted |-> [kind \in {"C", "M"} |-> contracts(of(kind))],
       deletes |-> Len(own), contracts |-> contracts(own)]

DeleteRows(w, side, deleted, request) ==
  LET deletions == Deletions(w, side, deleted)
      keys == {DeleteKey(deletions[k]) : k \in DOMAIN deletions}
  IN  {r \in {DeleteRow(deletions, key) : key \in keys} :
         r.deletes >= request.deletes /\ r.contracts >= request.contracts}

=============================================================================
