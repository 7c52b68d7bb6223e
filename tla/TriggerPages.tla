----------------------------- MODULE TriggerPages -----------------------------
(***************************************************************************)
(* The trigger engine that the chart pages share.  The DOM output feeds    *)
(* its memory of refills while candles close; whenever a page is asked     *)
(* for, the provider (_trigger_signals of cme_provider/engines.py) lets    *)
(* the engine evaluate all candles again with an empty store of setups and *)
(* positions (enrich_candles without persist_state).  The memory and the   *)
(* actor proxies are not part of that store: they are the engine's own.    *)
(***************************************************************************)
EXTENDS TriggerEngine, FiniteSets

CONSTANTS
  Shapes,      \* candles: records [low, high, buys, sells, lower, upper]
  Places,      \* what a zone may be: records [side, low, high, count, levels]
  MaxCandles,  \* bound: closed candles
  MaxZones     \* bound: zones published

ASSUME PagesAssumption == MaxCandles \in Nat /\ MaxZones \in Nat

VARIABLES
  history,   \* the closed candles, oldest first
  memory,    \* _refills_by_key of the shared engine
  running,   \* positions whose actor proxy runs
  known,     \* history: zones published so far
  gone,      \* history: zones that were cancelled
  page,      \* what the last page was given: the store at its end
  stale      \* TRUE when a candle or a payload came after that page

pageVars == <<history, memory, running, known, gone, page, stale>>

NoPage == WithFreshStore(<<>>, {})

PagesInit ==
  /\ history = <<>> /\ memory = <<>>
  /\ running = {} /\ known = {} /\ gone = {}
  /\ page = NoPage /\ stale = TRUE

LastClosed == IF history = <<>> THEN 0 ELSE Last(history).at

(* A refill payload of the candle in progress; it may cancel others.       *)
PublishZone ==
  \E place \in Places, cancels \in {{}} \union {{z} : z \in ToSet(memory)} :
    LET z == [candle |-> LastClosed + 1, side |-> place.side,
              low |-> place.low, high |-> place.high,
              count |-> place.count, levels |-> place.levels]
    IN /\ LastClosed < MaxCandles
       /\ Cardinality(known) < MaxZones
       /\ z \notin known
       /\ memory' = StoreRecords(memory, cancels, {z})
       /\ known' = known \union {z}
       /\ gone' = gone \union cancels
       /\ stale' = TRUE
       /\ UNCHANGED <<history, running, page>>

(* The candle in progress closes.  A candle without trades is not in the   *)
(* history: the next one follows at a distance.                            *)
CandleCloses ==
  \E shape \in Shapes, skipped \in 0 .. 1 :
    /\ LastClosed + skipped < MaxCandles
    /\ skipped = 1 => \A z \in known : z.candle <= LastClosed
    /\ history' = Append(history,
         [at |-> LastClosed + 1 + skipped, low |-> shape.low, high |-> shape.high,
          buys |-> shape.buys, sells |-> shape.sells])
    /\ stale' = TRUE
    /\ UNCHANGED <<memory, running, known, gone, page>>

(* enrich_candles: every closed candle with a fresh store; the live candle *)
(* goes with the last closed one.                                          *)
Enrich(live) ==
  LET after[i \in 0 .. Len(history)] ==
        IF i = 0 THEN WithFreshStore(memory, running)
        ELSE Evaluate(after[i - 1], history[i], IF i = Len(history) THEN live ELSE {})
  IN after[Len(history)]

(* A page is asked for.                                                    *)
ServePage ==
  \E shape \in Shapes \union {NoPosition} :
    LET live == IF shape = NoPosition THEN {}
                ELSE {[at |-> LastClosed + 1, low |-> shape.low, high |-> shape.high,
                       buys |-> shape.buys, sells |-> shape.sells,
                       lower |-> shape.lower, upper |-> shape.upper]}
        result == Enrich(live)
    IN /\ history # <<>>
       /\ page' = [result EXCEPT !.records = <<>>, !.tracked = {}]
       /\ memory' = result.records
       /\ running' = result.tracked
       /\ stale' = FALSE
       /\ UNCHANGED <<history, known, gone>>

PagesNext == PublishZone \/ CandleCloses \/ ServePage

PagesSpec == PagesInit /\ [][PagesNext]_pageVars

-----------------------------------------------------------------------------
(* The signals of a page alternate and belong together, its entries are    *)
(* retests, also over candles without trades, and beside an open position  *)
(* it keeps only setups that could reverse it, whatever earlier pages left *)
(* in the memory of the shared engine.                                     *)
PageSound == Alternates(page) /\ EntersOnRetest(page) /\ WaitsOpposite(page)

(* A page enters no zone that was cancelled before the page was asked for. *)
PageSkipsCancelled ==
  ~stale => \A i \in 1 .. Len(page.log) :
              page.log[i].type = "ENTRY" => page.log[i].zone \notin gone

(* The actor proxy of the position that is open at the end of a page runs, *)
(* although earlier pages have started and stopped proxies of the same     *)
(* positions.                                                              *)
ProxyOfOpenPositionRuns == InPosition(page) => page.position \in running
=============================================================================
