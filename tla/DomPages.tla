------------------------------ MODULE DomPages ------------------------------
(***************************************************************************)
(* The timeline page of DOM/engine.py: which window a request is answered  *)
(* with, and which events are read for it.  DomDrawing says what is drawn. *)
(*                                                                         *)
(* A request's dates and times are numbers, 0 where it has none.  A plan   *)
(* is [from, to, load, navFrom, navTo]: the window, how far back events    *)
(* are read and the day it lies in.  What a request is answered with before *)
(* there is any file is left out.                                          *)
(***************************************************************************)
EXTENDS DomEvents

CONSTANTS
  InitialSpan,    \* _initial_view_span_ms
  Retention,      \* retention_ms
  OverscanTimes,  \* render_overscan_multiplier
  OverscanMax,    \* render_overscan_max_ms
  Bucket,         \* _time_bucket_ms
  MaxContextIds   \* order ids whose earlier events are asked for: 1200

-----------------------------------------------------------------------------
(* Windows.                                                                *)

DayOf(t) == [from |-> (Max({0, t}) \div Day) * Day, to |-> (Max({0, t}) \div Day + 1) * Day]

LoadFrom(nav, from) == Max({nav.from, from - Retention})

PlanOf(nav, from, to) ==
  [from |-> from, to |-> to, load |-> LoadFrom(nav, from), navFrom |-> nav.from, navTo |-> nav.to]

Nav(plan) == [from |-> plan.navFrom, to |-> plan.navTo]

\* DomWindowPlanningEngine.resolve; date is the first instant of a day or
\* NoWindow, latest the end the provider proposes.
Resolved(from, to, date, latest) ==
  LET dated == date # NoWindow /\ to <= 0
      start == IF dated /\ from <= 0 THEN date ELSE Max({0, from})
      asked == IF dated THEN Min({date + Day, start + InitialSpan}) ELSE Max({0, to})
      end == IF asked > 0 THEN asked ELSE latest
      begin == IF start <= 0 \/ start >= end THEN Max({0, end - InitialSpan}) ELSE start
      nav == IF date # NoWindow THEN [from |-> date, to |-> date + Day] ELSE DayOf(begin)
      clipped == Max({nav.from, begin})
  IN  PlanOf(nav, clipped, Min({nav.to, Max({clipped + 1, end})}))

Span(plan) == Max({1, plan.to - plan.from})

\* _render_buffer_plan: what is drawn beyond the window, within the day.
Buffer(plan) ==
  LET padding == Min({OverscanMax, Span(plan) * (OverscanTimes - 1)})
      from == Max({plan.navFrom, plan.from - padding})
  IN  PlanOf(Nav(plan), from, Max({from + 1, Min({plan.navTo, plan.to + padding})}))

\* _snap_empty_window_to_next_event: an empty window moves to the next event
\* of the day, else to the last one found in some time before it.
SnapTo(plan, t) ==
  LET from == Max({plan.navFrom, t})
      to == Min({plan.navTo, from + Span(plan)})
  IN  IF to <= from THEN plan ELSE PlanOf(Nav(plan), from, to)

Later(plan) == [from |-> Min({plan.navTo, plan.to + 1}), to |-> plan.navTo]

Sooner(plan) ==
  LET from == Max({plan.navFrom, plan.from - Max({InitialSpan, Span(plan) * 10})})
  IN  [from |-> from, to |-> Max({from, plan.from - 1})]

Times(events) == {events[k].at : k \in DOMAIN events}

Snapped(plan, loaded, later, earlier) ==
  IF (\E t \in Times(loaded) : plan.from <= t /\ t <= plan.to) \/ plan.to >= plan.navTo THEN plan
  ELSE IF later # <<>> THEN SnapTo(plan, Min(Times(later)))
  ELSE IF earlier # <<>> THEN SnapTo(plan, Max(Times(earlier)))
  ELSE plan

\* _render_plan_for_loaded_events: without an end of its own the window ends
\* with the events.
Rendered(plan, loaded, explicit) ==
  LET times == Times(loaded)
      last == IF Max(times) > Min(times) THEN Max(times) ELSE Min(times) + Bucket
      from == Max({plan.from, Min(times)})
  IN  IF explicit \/ times = {} \/ last >= plan.to THEN plan
      ELSE [plan EXCEPT !.from = from, !.to = Min({plan.to, Max({last, from + Bucket})})]

-----------------------------------------------------------------------------
(* The events of a plan.                                                   *)

\* dict.fromkeys
Distinct(s) ==
  FoldLeft(LAMBDA kept, x : IF x \in ToSet(kept) THEN kept ELSE Append(kept, x), <<>>, s)

\* _visible_order_context_events: the first orders of the window.
ContextIds(visible) ==
  ToSet(First(Distinct(SelectSeq([k \in DOMAIN visible |-> visible[k].id], LAMBDA i : i # 0)),
              MaxContextIds))

\* _provider_result_for_plan: the events before the window, those of its
\* orders once more, and the window itself; equal events are taken once.
EventsForPlan(members, plan, asked) ==
  LET window == [from |-> plan.from, to |-> plan.to]
      before == [from |-> plan.load, to |-> Max({plan.load, plan.from - 1})]
      visible == EventsForWindow(members, window, asked)
  IN  IF plan.load >= plan.from THEN visible
      ELSE InOrder(Distinct(EventsForWindow(members, before, NoWindow)
                            \o OrderEvents(members, ContextIds(visible), before)
                            \o visible))

\* _filter_provider_result_to_primary_instrument: of several instruments of
\* equal size, the one met first.
OfPrimary(events, plan) ==
  LET inside == SelectSeq(events, LAMBDA e : In(plan, e) /\ e.inst > 0)
      size(i) == SumFunctionOnSet([k \in DOMAIN inside |-> Max({1, inside[k].size})],
                                  {k \in DOMAIN inside : inside[k].inst = i})
      largest == {k \in DOMAIN inside : \A j \in DOMAIN inside :
                    size(inside[k].inst) >= size(inside[j].inst)}
  IN  IF inside = <<>> THEN events
      ELSE SelectSeq(events, LAMBDA e : e.inst = inside[Min(largest)].inst)

\* timeline_window up to the payload: the window drawn, what is drawn around
\* it and the events of both.
Answer(members, from, to, date, latest) ==
  LET asked == Resolved(from, to, date, latest)
      read(plan) == EventsForPlan(members, Buffer(plan), [from |-> plan.from, to |-> plan.to])
      found(w) == EventsForWindow(members, w, NoWindow)
      plan == IF from = 0 /\ to = 0
              THEN Snapped(asked, read(asked), found(Later(asked)), found(Sooner(asked)))
              ELSE asked
      drawn == Rendered(plan, read(plan), to > 0)
      events == IF Buffer(drawn) = Buffer(plan) THEN read(plan) ELSE read(drawn)
  IN  [plan |-> drawn, buffer |-> Buffer(drawn), events |-> OfPrimary(events, drawn)]

=============================================================================
