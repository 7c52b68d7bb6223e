----------------------------- MODULE DomEvents -----------------------------
(***************************************************************************)
(* What DOM/data_provider.py answers when the timeline page asks for the   *)
(* raw events of a window: from the index where it covers the window, else *)
(* from the venue file itself, cut to a number of events.  TimelineIndex   *)
(* says when an answer is kept and the index grows; here is what is in it. *)
(*                                                                         *)
(* A record of a venue file is [at, size, type, id, price, side, inst], in *)
(* venue order; price, id and inst are 0 where the record has none.  An    *)
(* event is a record with seq, the number its reader gave it.  Windows     *)
(* are [from, to], ends included; NoWindow stands for None.                *)
(***************************************************************************)
EXTENDS Integers, SequencesExt

CONSTANTS
  MaxEvents,        \* max_events_per_request
  OrderRows,        \* rows of an order query: max(8 * max_events_per_request, 10000)
  PrefetchTimes,    \* prefetch_window_multiplier
  PrefetchMax,      \* prefetch_max_ms
  Day,              \* milliseconds of a day
  NoWindow

In(w, e) == w.from <= e.at /\ e.at <= w.to

\* Sorted by time and number; equals keep their order, as Python's sort does.
Earlier(s, i, j) ==
  \/ s[i].at < s[j].at
  \/ s[i].at = s[j].at /\ s[i].seq < s[j].seq
  \/ s[i].at = s[j].at /\ s[i].seq = s[j].seq /\ i < j

InOrder(s) ==
  LET order == SortSeq([i \in DOMAIN s |-> i], LAMBDA i, j : Earlier(s, i, j))
  IN  [k \in DOMAIN order |-> s[order[k]]]

Numbered(records) == [k \in DOMAIN records |-> [seq |-> k] @@ records[k]]

First(s, n) == SubSeq(s, 1, IF n < Len(s) THEN n ELSE Len(s))
Final(s, n) == SubSeq(s, IF n < Len(s) THEN Len(s) - n + 1 ELSE 1, Len(s))

-----------------------------------------------------------------------------
(* Windows.                                                                *)

\* _primary_window: the part of the window the page is about to draw.
Primary(w, asked) ==
  IF asked = NoWindow THEN NoWindow
  ELSE LET from == Max({w.from, asked.from})
           to   == Min({w.to, asked.to})
       IN  IF to < from THEN NoWindow ELSE [from |-> from, to |-> to]

\* _expanded_window: what is loaded ahead, to either side.
Expanded(w) ==
  LET to == Max({w.from, w.to})
      padding == Min({PrefetchMax, Max({1, to - w.from}) * (PrefetchTimes - 1)})
  IN  [from |-> Max({0, w.from - padding}), to |-> to + padding]

\* _zip_member_names_for_window: members by day; those without a date are
\* read only if none has one.
Forever == -1
MembersOf(days, w) ==
  LET dated == {k \in DOMAIN days : days[k] >= 0}
      newest == Max({days[k] : k \in dated})
      last == IF w.to = Forever THEN newest ELSE Max({0, w.to}) \div Day
      firstDay == Max({0, w.from}) \div Day
  IN  IF dated = {} THEN DOMAIN days
      ELSE IF w.from <= 0 /\ w.to = Forever THEN {k \in dated : days[k] = newest}
      ELSE {k \in dated : firstDay <= days[k] /\ days[k] <= last}

\* available_time_bounds_ms, latest_available_end_ms and
\* initial_window_end_ms, of files that hold the days of these sets.
Bounds(files) ==
  LET days == UNION {files[k] : k \in DOMAIN files}
  IN  [from |-> Min(days) * Day, to |-> (Max(days) + 1) * Day]

LatestEnd(files) == (Max({Max(files[k]) : k \in DOMAIN files}) + 1) * Day

InitialEnd(files, span) ==
  Max({Min({(Max(files[k]) + 1) * Day, Max(files[k]) * Day + Max({1, span})}) :
         k \in DOMAIN files})

-----------------------------------------------------------------------------
(* Cutting an answer.                                                      *)

\* Python's round of a / b: a half goes to the even neighbour.
RoundHalfEven(a, b) ==
  LET q == (2 * a + b) \div (2 * b)
  IN  IF (2 * a + b) % (2 * b) = 0 /\ q % 2 = 1 THEN q - 1 ELSE q

\* _sample_dom_events and _sample_points: as many positions, evenly apart.
Positions(n, limit) ==
  [k \in 1 .. limit |-> 1 + RoundHalfEven((k - 1) * (n - 1), Max({1, limit - 1}))]

Sampled(s, limit) ==
  IF Len(s) <= limit THEN s
  ELSE LET at == Positions(Len(s), limit) IN [k \in 1 .. limit |-> s[at[k]]]

\* _limit_raw_events: the primary window first, what is left of the limit is
\* spread over the rest.
Limited(events, limit, primary) ==
  LET ordered == InOrder(events)
      inside == SelectSeq(ordered, LAMBDA e : In(primary, e))
      margin == SelectSeq(ordered, LAMBDA e : ~In(primary, e))
  IN  IF Len(ordered) <= limit THEN ordered
      ELSE IF primary = NoWindow THEN First(ordered, limit)
      ELSE IF Len(inside) >= limit THEN Sampled(inside, limit)
      ELSE IF margin = <<>> THEN inside
      ELSE InOrder(inside \o Sampled(margin, limit - Len(inside)))

-----------------------------------------------------------------------------
(* Reading a venue file: _events_from_records, _events_from_store.         *)

\* _active_instrument_id_from_records: the instrument of most contracts in the
\* primary window if anything is in it; of several, that of the lowest id.
Active(records, primary) ==
  LET inside == IF primary = NoWindow THEN {}
                ELSE {k \in DOMAIN records : In(primary, records[k])}
      counted == IF inside = {} THEN DOMAIN records ELSE inside
      ids == {records[k].inst : k \in counted}
      size(i) == SumFunctionOnSet([k \in DOMAIN records |-> records[k].size],
                                  {k \in counted : records[k].inst = i})
  IN  Min({i \in ids : \A j \in ids : size(i) >= size(j)})

\* The numbers start anew with every batch.
OfBatch(records, w, outrights, primary) ==
  LET inWindow == SelectSeq(records, LAMBDA r : In(w, r))
      outright == SelectSeq(inWindow, LAMBDA r : r.inst \in outrights)
      active == SelectSeq(outright, LAMBDA r : r.inst = Active(outright, primary))
      kept == IF outrights = {} THEN inWindow ELSE active
  IN  Numbered(InOrder(Numbered(kept)))

\* Batches that end before the window are passed over, the first that begins
\* after it ends the reading.
FromFile(batches, w, outrights, primary) ==
  LET after == {k \in DOMAIN batches : batches[k][1].at > w.to}
      read == {k \in DOMAIN batches : Last(batches[k]).at >= w.from
                                      /\ \A j \in after : k < j}
  IN  FlattenSeq([k \in DOMAIN batches |->
                    IF k \in read THEN OfBatch(batches[k], w, outrights, primary) ELSE <<>>])

-----------------------------------------------------------------------------
(* Reading the index.  Its rows are the events of the outrights, numbered  *)
(* through the file.                                                       *)

RowsIn(rows, w) == InOrder(SelectSeq(rows, LAMBDA e : In(w, e)))

\* _index_rows_for_window: the primary window, then the nearest rows around
\* it.  An answer that was cut is not marked as sampled.
FromIndex(rows, w, primary) ==
  IF primary = NoWindow THEN First(RowsIn(rows, w), MaxEvents + 1)
  ELSE LET inside == First(RowsIn(rows, primary), MaxEvents + 1)
           remaining == Max({1, MaxEvents - Len(inside) + 1})
           before == Max({1, remaining \div 2})
           after == Max({1, remaining - before})
       IN  IF Len(inside) >= MaxEvents THEN inside
           ELSE Final(RowsIn(rows, [from |-> w.from, to |-> primary.from - 1]), before)
                \o inside
                \o First(RowsIn(rows, [from |-> primary.to + 1, to |-> w.to]), after)

\* _events_from_index answers only for what was indexed.
Covers(index, w) == index.ready \/ index.until >= w.to

\* _order_events_from_index: nothing before the whole file is indexed.
OrderRowsOf(index, ids, w) ==
  IF index.ready
  THEN First(SelectSeq(RowsIn(index.rows, w), LAMBDA e : e.id \in ids), OrderRows)
  ELSE <<>>

-----------------------------------------------------------------------------
(* The answer.  A member of an archive is [day, batches, outrights,      *)
(* index]; index is [ready, until, rows].                                  *)

OfMember(m, w, primary) ==
  IF Covers(m.index, w) THEN FromIndex(m.index.rows, w, primary)
  ELSE FromFile(m.batches, w, m.outrights, primary)

\* _load_events_from_zip: a cut answer ends the reading unless a primary
\* window says what matters.
OfArchive(members, w, primary) ==
  LET add(read, m) ==
        LET all == read.events \o OfMember(m, w, primary)
        IN  IF read.done THEN read
            ELSE IF Len(all) > MaxEvents
            THEN [events |-> Limited(all, MaxEvents, primary), sampled |-> TRUE,
                  done |-> primary = NoWindow]
            ELSE [read EXCEPT !.events = all]
  IN  FoldLeft(add, [events |-> <<>>, sampled |-> FALSE, done |-> FALSE], members)

\* events_for_window and _load_file, of one archive: the members are those of
\* the days asked for, the rest that is loaded lies around the window.
EventsForWindow(members, w, asked) ==
  LET load == Expanded(w)
      days == MembersOf([k \in DOMAIN members |-> members[k].day], w)
      chosen == SelectSeq([k \in DOMAIN members |-> [key |-> k, member |-> members[k]]],
                          LAMBDA m : m.key \in days)
      answer == OfArchive([k \in DOMAIN chosen |-> chosen[k].member], load, Primary(load, asked))
  IN  InOrder(SelectSeq(answer.events, LAMBDA e : In(w, e)))

\* order_events_for_window, of one archive.
OrderEvents(members, ids, w) ==
  IF ids = {} \/ w.to < w.from THEN <<>>
  ELSE InOrder(FlattenSeq([k \in DOMAIN members |-> OrderRowsOf(members[k].index, ids, w)]))

=============================================================================
