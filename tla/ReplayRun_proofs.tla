-------------------------- MODULE ReplayRun_proofs --------------------------
(***************************************************************************)
(* Theorems about ReplayRun, for any number of symbols, any range, window  *)
(* and limit.                                                              *)
(***************************************************************************)
EXTENDS ReplayRun, TLAPS

\* What the theorems need of the types.
Typed ==
  /\ turn \in Nat /\ turn > 0 /\ clock \in Times /\ emitting \in BOOLEAN
  /\ records \in [Keys -> SUBSET Parts]
  /\ touched \subseteq Keys
  /\ opener \in Nat

LEMMA TypedInit == Init => Typed
  BY ReplayAssumption DEF Init, Typed, Times, NoRecords

\* The record an event reaches is one of the run.
LEMMA KeyType ==
  ASSUME Typed, turn <= Symbols
  PROVE  <<turn, CandleOf(clock)>> \in Keys
  BY ReplayAssumption DEF Typed, Keys, Turns, Candles

LEMMA KeptType == Typed => Kept \in [Keys -> SUBSET Parts]
  BY DEF Typed, Kept, NoRecords

LEMMA PartType == Part(clock) \in Parts
  BY DEF Part, Parts

LEMMA TypedStep == Typed /\ [Next]_vars => Typed'
<1> SUFFICES ASSUME Typed, [Next]_vars
             PROVE  Typed'
  OBVIOUS
<1>1. ASSUME NEW counts \in BOOLEAN, NEW n \in 0 .. MaxYield, HandleEvent(counts, n)
      PROVE  Typed'
  <2> DEFINE k == <<turn, CandleOf(clock)>>
  <2>1. k \in Keys
    BY <1>1, KeyType DEF HandleEvent
  <2>2. [Kept EXCEPT ![k] = @ \cup {Part(clock)}] \in [Keys -> SUBSET Parts]
    BY <2>1, KeptType, PartType
  <2>3. records' \in [Keys -> SUBSET Parts]
    BY <1>1, <2>2, KeptType DEF HandleEvent
  <2>4. touched' \subseteq Keys
    BY <1>1, <2>1 DEF HandleEvent, Touch, Typed
  <2>5. emitting' \in BOOLEAN
    BY <1>1 DEF HandleEvent, Opens
  <2>6. UNCHANGED <<turn, clock>> /\ opener' \in {turn, opener}
    BY <1>1 DEF HandleEvent
  <2> QED
    BY <2>3, <2>4, <2>5, <2>6 DEF Typed
<1>2. CASE Tick
  BY <1>2, ReplayAssumption DEF Tick, Typed, Times
<1>3. CASE NextSymbol
  BY <1>3, ReplayAssumption DEF NextSymbol, Typed, Times
<1>4. CASE Report
  BY <1>4 DEF Report, Typed
<1>5. CASE UNCHANGED vars
  BY <1>5 DEF vars, Typed
<1> QED
  BY <1>1, <1>2, <1>3, <1>4, <1>5 DEF Next

\* Once the window is open the marks name exactly the records, in every run.
THEOREM MarksMatchRecords == Spec => []MarksAreRecords
<1> DEFINE Inv == Typed /\ MarksAreRecords
<1>1. Init => MarksAreRecords
  BY DEF Init, MarksAreRecords, NoRecords
<1>2. Inv /\ [Next]_vars => MarksAreRecords'
  <2> SUFFICES ASSUME Inv, [Next]_vars
               PROVE  MarksAreRecords'
    OBVIOUS
  <2>1. ASSUME NEW counts \in BOOLEAN, NEW n \in 0 .. MaxYield, HandleEvent(counts, n)
        PROVE  MarksAreRecords'
    <3> DEFINE k == <<turn, CandleOf(clock)>>
               marked == IF Opens THEN {} ELSE touched
    <3>1. k \in Keys /\ Kept \in [Keys -> SUBSET Parts]
      BY <2>1, KeyType, KeptType DEF HandleEvent
    <3>2. emitting' = (emitting \/ Opens)
      BY <2>1 DEF HandleEvent
    <3>3. marked = IF emitting \/ Opens THEN {j \in Keys : Kept[j] # {}} ELSE {}
      BY DEF MarksAreRecords, Kept, NoRecords, Opens
    <3>4. CASE counts
      <4>1. records' = [Kept EXCEPT ![k] = @ \cup {Part(clock)}] /\ touched' = Touch
        BY <2>1, <3>4 DEF HandleEvent
      <4>2. {j \in Keys : records'[j] # {}} = {j \in Keys : Kept[j] # {}} \cup {k}
        BY <3>1, <4>1
      <4>3. touched' = marked \cup {j \in {k} : emitting \/ Opens}
        BY <4>1 DEF Touch
      <4> QED
        BY <3>2, <3>3, <4>2, <4>3 DEF MarksAreRecords
    <3>5. CASE ~counts
      <4>1. records' = Kept /\ touched' = marked
        BY <2>1, <3>5 DEF HandleEvent
      <4> QED
        BY <3>2, <3>3, <4>1 DEF MarksAreRecords
    <3> QED
      BY <3>4, <3>5
  <2>2. Tick \/ NextSymbol \/ Report \/ UNCHANGED vars => MarksAreRecords'
    BY DEF Tick, NextSymbol, Report, vars, MarksAreRecords
  <2> QED
    BY <2>1, <2>2 DEF Next
<1>3. Init => Typed
  BY TypedInit
<1>4. Inv /\ [Next]_vars => Typed'
  BY TypedStep
<1> QED
  BY <1>1, <1>2, <1>3, <1>4, PTL DEF Spec

-----------------------------------------------------------------------------
(* The warm-up is forgotten for the symbol that opened the window and for  *)
(* those before it.  The symbols are replayed in order, so a record of an  *)
(* earlier symbol is never touched again, and while the symbol that opened *)
(* the window is replayed, time has passed the start of the window.        *)

Forgotten ==
  opener > 0 =>
    /\ opener <= turn
    /\ turn = opener => clock >= EmitStart
    /\ \A k \in Keys : k[1] <= opener => "warmup" \notin records[k]

\* The window opens once: before, no opener is known unless the range starts
\* inside the window.
OpenedOnce == opener > 0 => emitting

LEMMA ForgottenStep ==
  Typed /\ OpenedOnce /\ Forgotten /\ [Next]_vars => (OpenedOnce /\ Forgotten)'
<1> SUFFICES ASSUME Typed, OpenedOnce, Forgotten, [Next]_vars
             PROVE  (OpenedOnce /\ Forgotten)'
  OBVIOUS
<1>1. turn \in Nat /\ turn > 0 /\ clock \in Nat /\ EmitStart \in Nat /\ opener \in Nat
  BY ReplayAssumption DEF Typed, Times
<1>2. ASSUME NEW counts \in BOOLEAN, NEW n \in 0 .. MaxYield, HandleEvent(counts, n)
      PROVE  (OpenedOnce /\ Forgotten)'
  <2> DEFINE k == <<turn, CandleOf(clock)>>
  <2>1. /\ emitting' = (emitting \/ Opens) /\ opener' = (IF Opens THEN turn ELSE opener)
        /\ UNCHANGED <<turn, clock>>
        /\ records' \in {Kept, [Kept EXCEPT ![k] = @ \cup {Part(clock)}]}
    BY <1>2 DEF HandleEvent
  <2>2. k \in Keys /\ Kept \in [Keys -> SUBSET Parts]
    BY <1>2, KeyType, KeptType DEF HandleEvent
  <2>3. OpenedOnce'
    BY <2>1 DEF OpenedOnce
  <2>4. \A j \in Keys : j # k => records'[j] = Kept[j]
    BY <2>1, <2>2
  <2>5. "warmup" \in records'[k] => "warmup" \in Kept[k] \/ clock < EmitStart
    BY <2>1, <2>2 DEF Part
  <2>6. CASE Opens
    <3>1. clock >= EmitStart /\ \A j \in Keys : Kept[j] = {}
      BY <2>6 DEF Opens, Kept, NoRecords
    <3>2. \A j \in Keys : "warmup" \notin records'[j]
      BY <1>1, <2>2, <2>4, <2>5, <3>1
    <3>3. opener' = turn
      BY <2>1, <2>6
    <3>4. Forgotten'
      BY <1>1, <2>1, <3>1, <3>2, <3>3 DEF Forgotten
    <3> QED
      BY <2>3, <3>4
  <2>7. CASE ~Opens
    <3>1. opener' = opener /\ Kept = records
      BY <2>1, <2>7 DEF Kept
    <3>2. ASSUME opener > 0, NEW j \in Keys, j[1] <= opener
          PROVE  "warmup" \notin records'[j]
      <4>1. "warmup" \notin Kept[j]
        BY <3>1, <3>2 DEF Forgotten
      <4>2. CASE j = k
        <5>1. turn = opener
          BY <1>1, <3>2, <4>2 DEF Forgotten
        <5>2. clock >= EmitStart
          BY <3>2, <5>1 DEF Forgotten
        <5> QED
          BY <1>1, <2>5, <4>1, <4>2, <5>2
      <4> QED
        BY <2>4, <4>1, <4>2
    <3>3. Forgotten'
      BY <2>1, <3>1, <3>2 DEF Forgotten
    <3> QED
      BY <2>3, <3>3
  <2> QED
    BY <2>6, <2>7
<1>3. CASE Tick
  <2>1. clock' = clock + 1 /\ UNCHANGED <<turn, emitting, records, opener>>
    BY <1>3 DEF Tick
  <2> QED
    BY <1>1, <2>1 DEF OpenedOnce, Forgotten
<1>4. CASE NextSymbol
  <2>1. turn' = turn + 1 /\ UNCHANGED <<emitting, records, opener>>
    BY <1>4 DEF NextSymbol
  <2> QED
    BY <1>1, <2>1 DEF OpenedOnce, Forgotten
<1>5. CASE Report \/ UNCHANGED vars
  BY <1>5 DEF Report, vars, OpenedOnce, Forgotten
<1> QED
  BY <1>2, <1>3, <1>4, <1>5 DEF Next

\* No record of the symbol that opened the window, or of an earlier one, ever
\* reports the warm-up.
THEOREM WarmupIsForgotten == Spec => []WarmupForgotten
<1> DEFINE Inv == Typed /\ OpenedOnce /\ Forgotten /\ reported \subseteq Keys
<1>1. Init => Inv
  BY TypedInit DEF Init, OpenedOnce, Forgotten
<1>2. Inv /\ [Next]_vars => Inv'
  <2> SUFFICES ASSUME Inv, [Next]_vars
               PROVE  Inv'
    OBVIOUS
  <2>1. (reported \subseteq Keys)'
    <3>1. Report => reported' \subseteq touched
      BY DEF Report
    <3>2. ~Report => UNCHANGED reported
      BY DEF Next, HandleEvent, Tick, NextSymbol, vars
    <3> QED
      BY <3>1, <3>2 DEF Typed
  <2> QED
    BY <2>1, TypedStep, ForgottenStep
<1>3. Inv => WarmupForgotten
  <2> SUFFICES ASSUME Inv, NEW k \in reported, k[1] <= opener
               PROVE  "warmup" \notin records[k]
    BY DEF WarmupForgotten
  <2>1. k \in Keys /\ k[1] \in Nat /\ k[1] > 0 /\ opener \in Nat
    BY ReplayAssumption DEF Keys, Turns, Typed
  <2> QED
    BY <2>1 DEF Forgotten
<1> QED
  BY <1>1, <1>2, <1>3, PTL DEF Spec

=============================================================================
