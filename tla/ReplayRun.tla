------------------------------ MODULE ReplayRun ------------------------------
(***************************************************************************)
(* One call of DataProcessEngine.run_replay (process/dataProcessEngine.py) *)
(* over several symbols.  The symbols are replayed one after another, each *)
(* from the start of the range; the events before emit_start_ms only warm  *)
(* the book up.  One flag for the whole run says whether the reported      *)
(* window has opened, and one list collects the payloads of the run.       *)
(*                                                                         *)
(* The ledger of LevelLedger is reduced to what the window decides: which  *)
(* candles of a symbol have a record, and whether a record counts events   *)
(* of the warm-up, of the window, or of both.                              *)
(***************************************************************************)
EXTENDS Integers, FiniteSets

CONSTANTS
  Symbols,      \* number of symbols of the request
  MaxTime,      \* bound: the last instant of the range, which starts at 0
  EmitStart,    \* emit_start_ms
  MaxEvents,    \* bound: how many events the run delivers
  MaxYield,     \* bound: how many payloads one event produces
  MaxPayloads,  \* max_payloads
  Collect,      \* collect_event_payloads
  CandleOf(_)   \* _event_candle_open_time_ms

Times   == 0 .. MaxTime
Turns   == 1 .. Symbols
Candles == {CandleOf(t) : t \in Times}
Keys    == Turns \X Candles
Parts   == {"warmup", "window"}

ASSUME ReplayAssumption ==
  /\ Symbols \in Nat /\ MaxTime \in Nat /\ EmitStart \in Nat
  /\ MaxEvents \in Nat /\ MaxYield \in Nat /\ MaxPayloads \in Nat
  /\ Collect \in BOOLEAN
  /\ \A t \in Times : CandleOf(t) \in Nat

VARIABLES
  turn,      \* the symbol being replayed
  clock,     \* time of its next event
  fed,       \* events delivered so far
  emitting,  \* emit_window_started
  records,   \* _price_activity_levels: what each record counts, {} for none
  touched,   \* _price_activity_touched
  events,    \* number of event payloads published
  reported,  \* records published when the replay is over
  limited,   \* limit_reached
  done,      \* run_replay has returned
  opener     \* history: the symbol whose event opened the window, 0 before

vars == <<turn, clock, fed, emitting, records, touched, events, reported,
          limited, done, opener>>

-----------------------------------------------------------------------------

Part(t) == IF t < EmitStart THEN "warmup" ELSE "window"
Room    == MaxPayloads - events
Fewer(a, b) == IF a <= b THEN a ELSE b

NoRecords == [k \in Keys |-> {}]

\* The first event at or after emit_start_ms opens the window for the run.
Opens == ~emitting /\ clock >= EmitStart

\* Mutant of Kept: the records survive the opening, only the marks are dropped.
KeptThroughOpening == records

Kept == IF Opens THEN NoRecords ELSE records

\* How many of the payloads of an event are published.
Published(n) ==
  IF Collect /\ clock >= EmitStart THEN Fewer(n, Room) ELSE 0

\* Mutant of Touch: a record is marked whether or not the window is open.
TouchAlways == (IF Opens THEN {} ELSE touched) \cup {<<turn, CandleOf(clock)>>}

\* Marks are dropped with the records, and made only while emitting.
Touch ==
  (IF Opens THEN {} ELSE touched)
    \cup {k \in {<<turn, CandleOf(clock)>>} : emitting \/ Opens}

\* One event: counts says whether it reaches a record (a duplicate and an
\* unsupported action do not), n is how many payloads it produces.
HandleEvent(counts, n) ==
  /\ ~done /\ ~limited /\ turn <= Symbols /\ fed < MaxEvents
  /\ fed' = fed + 1
  /\ emitting' = (emitting \/ Opens)
  /\ opener' = IF Opens THEN turn ELSE opener
  /\ IF counts
     THEN /\ records' = [Kept EXCEPT ![<<turn, CandleOf(clock)>>] = @ \cup {Part(clock)}]
          /\ touched' = Touch
     ELSE /\ records' = Kept
          /\ touched' = IF Opens THEN {} ELSE touched
  /\ events' = events + Published(n)
  /\ limited' = (Collect /\ events' >= MaxPayloads)
  /\ UNCHANGED <<turn, clock, reported, done>>

\* The next event of the symbol is later than the last one.
Tick ==
  /\ ~done /\ ~limited /\ turn <= Symbols /\ clock < MaxTime
  /\ clock' = clock + 1
  /\ UNCHANGED <<turn, fed, emitting, records, touched, events, reported, limited, done, opener>>

\* The events of a symbol are used up: the next one starts from the beginning.
NextSymbol ==
  /\ ~done /\ ~limited /\ turn <= Symbols
  /\ turn' = turn + 1
  /\ clock' = 0
  /\ UNCHANGED <<fed, emitting, records, touched, events, reported, limited, done, opener>>

\* The records are reported in the order of symbol and candle, up to the limit;
\* a run that already reached the limit reports none.
Before(j, k) == j[1] < k[1] \/ (j[1] = k[1] /\ j[2] < k[2])

Report ==
  /\ ~done /\ (limited \/ turn > Symbols)
  /\ reported' = {k \in touched :
       ~limited /\ Cardinality({j \in touched : Before(j, k)}) < Room}
  /\ done' = TRUE
  /\ UNCHANGED <<turn, clock, fed, emitting, records, touched, events, limited, opener>>

Init ==
  /\ turn = 1 /\ clock = 0 /\ fed = 0
  /\ emitting = (EmitStart = 0)
  /\ records = NoRecords
  /\ touched = {} /\ events = 0 /\ reported = {}
  /\ limited = FALSE /\ done = FALSE
  /\ opener = 0

Next ==
  \/ \E counts \in BOOLEAN, n \in 0 .. MaxYield : HandleEvent(counts, n)
  \/ Tick
  \/ NextSymbol
  \/ Report

Spec == Init /\ [][Next]_vars

-----------------------------------------------------------------------------
(* Properties.                                                             *)

\* The marks and the records are two structures that are filled by one function
\* and emptied by another: once the window is open they name the same records,
\* so nothing that happened in the window is missing from the report and
\* nothing else is in it; before, no record is marked.
MarksAreRecords ==
  touched = IF emitting THEN {k \in Keys : records[k] # {}} ELSE {}

\* A reported record of the symbol that opened the window, or of an earlier
\* one, counts nothing of the warm-up, although the candle may have begun
\* before the window and the book is kept.
WarmupForgotten ==
  \A k \in reported : k[1] <= opener => "warmup" \notin records[k]

\* What test_emit_start_keeps_warmup_state_but_counts_only_scan_window says of
\* the engine: only the scan window is counted, for every symbol of a request.
OnlyScanWindowCounted == \A k \in reported : records[k] \subseteq {"window"}

=============================================================================
