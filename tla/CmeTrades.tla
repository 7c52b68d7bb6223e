----------------------------- MODULE CmeTrades -----------------------------
(***************************************************************************)
(* The trades of CME archives (cme_provider/local_data.py): the frame of a *)
(* trading day, of one contract; the frame of a time range, of several     *)
(* days; the cumulative delta of a day or session, loaded piece by piece   *)
(* and kept; and the events with a side.  The archives are read once, so a *)
(* frame kept by the LRU caches of days and partitions is what it would be *)
(* if it was read again, and those caches are left out.                    *)
(*                                                                         *)
(* trades is the sequence of the archives' trades in the order of their    *)
(* partitions.  Time zones are shifts of a day; the days on which clocks   *)
(* change are left out.                                                    *)
(***************************************************************************)
EXTENDS CandleBins

CONSTANTS
  Interval,       \* the length of a candle
  DayLength,      \* the length of a day
  Shift,          \* a trading day begins Shift before its date (UTC)
  SessionFrom,    \* the New York session, by the time of the day (UTC)
  SessionUntil

-----------------------------------------------------------------------------
(* trading_day_for_timestamp_ms, trading_day_bounds_utc_ms                 *)
DayOf(at)      == (at + Shift) \div DayLength
DayStart(day)  == day * DayLength - Shift

(* _active_outright_contract: the first of the contracts with the most     *)
(* contracts traded.                                                       *)
VolumeOf(trades, contract) ==
  SumFunction([k \in DOMAIN trades |-> IF trades[k].contract = contract THEN trades[k].size ELSE 0])

ActiveContract(trades) ==
  LET names == {trades[k].contract : k \in DOMAIN trades}
  IN  CHOOSE c \in names : \A d \in names :
        \/ VolumeOf(trades, d) < VolumeOf(trades, c)
        \/ VolumeOf(trades, d) = VolumeOf(trades, c) /\ c <= d

InRange(trades, from, to) == SelectSeq(trades, LAMBDA t : from <= t.at /\ t.at < to)

(* A stable sort.                                                          *)
ByTime(trades) ==
  LET order == SortSeq([k \in DOMAIN trades |-> k], LAMBDA j, k :
                 trades[j].at < trades[k].at \/ (trades[j].at = trades[k].at /\ j < k))
  IN  [k \in DOMAIN order |-> trades[order[k]]]

(* trade_frame_for_trading_day                                             *)
DayFrame(trades, day) ==
  LET all == ByTime(InRange(trades, DayStart(day), DayStart(day + 1)))
  IN  SelectSeq(all, LAMBDA t : t.contract = ActiveContract(all))

(* trade_frame_for_time_range: the frames of the days, cut to the range.   *)
DaysOf(from, to) == [k \in 1 .. DayOf(Max({from, to - 1})) - DayOf(from) + 1 |-> DayOf(from) + k - 1]

Pieces(trades, from, to) ==
  LET days == DaysOf(from, to)
  IN  [k \in DOMAIN days |-> InRange(DayFrame(trades, days[k]), from, to)]

RangeFrame(trades, from, to) ==
  IF to <= from THEN <<>> ELSE FlattenSeq(Pieces(trades, from, to))

(* The contracts of a frame; a page shows the name when there is one.      *)
ContractsOf(frame) == {frame[k].contract : k \in DOMAIN frame}

(* latest_event_time_ms, of trades of any outright contract, and           *)
(* earliest_partition_time_ms: none or one time.                           *)
LatestBefore(trades, before) ==
  LET times == {t \in {trades[k].at : k \in DOMAIN trades} : t < before}
  IN  IF times = {} THEN {} ELSE {Max(times)}

Latest(trades) ==
  IF trades = <<>> THEN {} ELSE {Max({trades[k].at : k \in DOMAIN trades})}

EarliestPartition(trades) ==
  IF trades = <<>> THEN {}
  ELSE {DayLength * (Min({trades[k].at : k \in DOMAIN trades}) \div DayLength)}

-----------------------------------------------------------------------------
(* cumulative_delta_reset_context: the day and the session the delta of a  *)
(* candle is counted from.  A candle that opens before the session is not  *)
(* in it.                                                                  *)
SessionDate(open)   == open \div DayLength
SessionActive(open) == open % DayLength \in SessionFrom .. SessionUntil - 1

DaySeries(open)     == [kind |-> "day", id |-> DayOf(open), start |-> DayStart(DayOf(open))]
SessionSeries(open) == [kind |-> "session", id |-> SessionDate(open),
                        start |-> SessionDate(open) * DayLength + SessionFrom]

SeriesOf(open) == {DaySeries(open)} \union (IF SessionActive(open) THEN {SessionSeries(open)} ELSE {})

(* _signed_contract_delta_arrays                                           *)
SignedOf(t) == CASE t.side = "B" -> t.size [] t.side = "A" -> -t.size [] OTHER -> 0

(* An LRU cache is a sequence, the oldest first.                           *)
Cached(cache, key) == \E k \in DOMAIN cache : cache[k].key = key

InCache(cache, key) == cache[CHOOSE k \in DOMAIN cache : cache[k].key = key].value

Kept(cache, key, value, size) ==
  LET moved == Append(SelectSeq(cache, LAMBDA e : e.key # key), [key |-> key, value |-> value])
  IN  SubSeq(moved, Max({1, Len(moved) - size + 1}), Len(moved))

(* _cumulative_delta_series: what is kept of a series reaches until        *)
(* loaded; if that is not far enough the rest is loaded and added.         *)
LoadedUntil(entry, trades, until) ==
  LET frame == RangeFrame(trades, entry.loaded, until)
      last  == Last(entry.prefix)
      sums  == [k \in DOMAIN frame |->
                  last + SumFunction([j \in 1 .. k |-> SignedOf(frame[j])])]
  IN  [loaded |-> until,
       times  |-> entry.times \o [k \in DOMAIN frame |-> frame[k].at],
       prefix |-> entry.prefix \o sums]

NewSeries(start) == [loaded |-> start, times |-> <<>>, prefix |-> <<0>>]

SeriesEntry(cache, trades, series, until) ==
  LET known == Cached(cache, series)
      entry == IF known THEN InCache(cache, series) ELSE NewSeries(series.start)
  IN  IF known /\ entry.loaded >= until THEN entry ELSE LoadedUntil(entry, trades, until)

(* _cumulative_delta_at                                                    *)
DeltaAt(entry, until) == entry.prefix[Cardinality({k \in DOMAIN entry.times : entry.times[k] < until}) + 1]

(* cumulative_contract_deltas: one entry for each series of the candles,   *)
(* far enough for the last of them.                                        *)
Reach(opens, series) == Max({open \in opens : series \in SeriesOf(open)}) + Interval

DeltasOf(cache, trades, opens) ==
  LET series == UNION {SeriesOf(open) : open \in opens}
      entry(s) == SeriesEntry(cache, trades, s, Reach(opens, s))
      at(s, open) == DeltaAt(entry(s), open + Interval)
  IN  [open \in opens |-> [day     |-> at(DaySeries(open), open),
                           session |-> IF SessionActive(open)
                                       THEN {at(SessionSeries(open), open)} ELSE {}]]

(* The series of days are loaded before those of sessions.                 *)
DeltaCache(cache, trades, opens, size) ==
  LET order == SetToSortSeq(UNION {SeriesOf(open) : open \in opens},
                 LAMBDA r, s : \/ r.kind = "day" /\ s.kind = "session"
                               \/ r.kind = s.kind /\ r.id < s.id)
  IN  FoldLeft(LAMBDA c, s : Kept(c, s, SeriesEntry(c, trades, s, Reach(opens, s)), size),
               cache, order)

-----------------------------------------------------------------------------
(* _extend_events_from_frame and _trade_side: trades of no size are left   *)
(* out; a trade without a side is bought unless its price is lower than    *)
(* that of the trade before it.                                            *)
Sided(frame) ==
  LET traded == SelectSeq(frame, LAMBDA t : t.size > 0)
      side(k) == IF traded[k].side \in {"B", "A"} THEN traded[k].side
                 ELSE IF k = 1 \/ traded[k].price >= traded[k - 1].price THEN "B" ELSE "A"
  IN  [k \in DOMAIN traded |-> [traded[k] EXCEPT !.side = side(k)]]

(* trades_for_trading_day: the events of a day, of all contracts, from the *)
(* partitions that reach into it.                                          *)
DayEvents(partitions, day) ==
  ByTime(InRange(FlattenSeq([k \in DOMAIN partitions |-> Sided(partitions[k])]),
                 DayStart(day), DayStart(day + 1)))

=============================================================================
