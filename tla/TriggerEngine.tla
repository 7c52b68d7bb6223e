---------------------------- MODULE TriggerEngine ----------------------------
(***************************************************************************)
(* triggerEngine.py for one symbol and timeframe: refill zones become      *)
(* entry setups, a setup whose zone is retested becomes a position, and a  *)
(* position ends with a reversal or, on a live candle, with an opposite    *)
(* refill.  The module has no variables: the engine's memory and the store *)
(* of setups and position that a caller may pass in are one record, and    *)
(* the handlers map it to the next one.  ZoneReplay and TriggerPages are   *)
(* the two users.                                                          *)
(*                                                                         *)
(* Left out: the ICEBURG signals, which the code always answers with none, *)
(* prices of signals, and the reset of a TRADING state without position,   *)
(* which no caller in the repository can bring about.                      *)
(***************************************************************************)
EXTENDS Integers, Sequences, SequencesExt

CONSTANTS
  MinRetest,         \* MIN_RETEST_CANDLES_SINCE_REFERENCE
  ReferenceTimeout,  \* REFERENCE_TIMEOUT_CANDLES
  TouchedTimeout,    \* TOUCHED_ZONE_TIMEOUT_CANDLES
  RefillLifetime     \* config.refill_lifetime_candles

ASSUME TriggerAssumption ==
  {MinRetest, ReferenceTimeout, TouchedTimeout, RefillLifetime} \subseteq Nat

(* A zone is a record with fields candle, side, low, high, and the numbers *)
(* count of its refills and levels of its levels.  A candle is a record    *)
(* [at, low, high, buys, sells]: its number, the lowest and the highest    *)
(* edge of a bin in its price range, and the footprint bins in which       *)
(* market buys and sells were executed.  A live candle has also lower and  *)
(* upper: the bins whose centre lies in its lower, or upper, wick or third *)
(* of the body.                                                            *)
NoPosition == [zone |-> "none"]

(* The record the handlers work on.  records: _refills_by_key, in order of *)
(* arrival; tracked: the positions whose actor proxy runs; setups and      *)
(* position: EntryState and OpenPosition of the store in use; log: the     *)
(* signals so far.                                                         *)
WithFreshStore(memory, running) ==
  [records |-> memory, tracked |-> running, setups |-> <<>>,
   position |-> NoPosition, log |-> <<>>]

(* entry_direction of a zone, and the price of its record: the terminal.   *)
Direction(z) == IF z.side = "BID" THEN "LONG" ELSE "SHORT"
RecordPrice(z) == IF z.side = "BID" THEN z.low ELSE z.high - 1

-----------------------------------------------------------------------------
(* Refill memory.                                                          *)

(* The entries that lie in a set, in their order: what is left of a list.  *)
(* A function, not SelectSeq, since the proofs have to look into it.       *)
Among(seq, wanted) ==
  LET first[n \in 0 .. Len(seq)] ==
        IF n = 0 THEN <<>>
        ELSE IF seq[n] \in wanted THEN Append(first[n - 1], seq[n]) ELSE first[n - 1]
  IN first[Len(seq)]

Forget(seq, zones) == Among(seq, ToSet(seq) \ zones)

(* Mutant of StoreRecords: nothing is cancelled.                           *)
StoreOnly(records, cancels, zones) == records \o SetToSeq(zones \ ToSet(records))

(* A snapshot with refills reaches the engine: what it cancels leaves the  *)
(* memory, then its records are stored.                                    *)
StoreRecords(records, cancels, zones) ==
  LET kept == Forget(records, cancels)
  IN kept \o SetToSeq(zones \ ToSet(kept))

(* Setups of cancelled zones are dropped from a store.                     *)
DropSetups(setups, cancels) ==
  Among(setups, {s \in ToSet(setups) : s.zone \notin cancels})

(* _active_refill_records forgets what is too old for the candle; records  *)
(* of later candles are kept and not returned.                             *)
Expire(records, at) ==
  Among(records, {z \in ToSet(records) :
                    z.candle > at \/ at - z.candle <= RefillLifetime})

(* What the references of a candle are sorted by: most refills, then most  *)
(* levels, first.  Their times are that of the candle, and the sort keeps  *)
(* the order of price and side the memory returns them in.                 *)
Rank(z) == <<-z.count, -z.levels, RecordPrice(z), IF z.side = "ASK" THEN 0 ELSE 1>>

Precedes(y, z) ==
  \E i \in 1 .. 4 : /\ Rank(y)[i] < Rank(z)[i]
                   /\ \A j \in 1 .. i - 1 : Rank(y)[j] = Rank(z)[j]

Inserted(seq, z) ==
  LET later == {y \in ToSet(seq) : Precedes(z, y)}
  IN Among(seq, ToSet(seq) \ later) \o <<z>> \o Among(seq, later)

Ranked(seq) ==
  LET first[n \in 0 .. Len(seq)] ==
        IF n = 0 THEN <<>> ELSE Inserted(first[n - 1], seq[n])
  IN first[Len(seq)]

(* _entry_absorption_candidates: the records of the reference candle.      *)
ReferencesOf(records, at) ==
  Ranked(Among(Expire(records, at), {z \in ToSet(records) : z.candle = at}))

-----------------------------------------------------------------------------
(* One setup and one candle: _process_entry_setup.                         *)

(* A setup has counted the candles evaluated since its reference; touched  *)
(* is the candle of its retest, or 0.                                      *)
NewSetup(z) == [zone |-> z, since |-> 0, touched |-> 0]

Aged(s) == [s EXCEPT !.since = @ + 1]

Expired(s, c) ==
  IF s.touched # 0 THEN c.at - s.touched > TouchedTimeout
  ELSE s.since > ReferenceTimeout

(* Contracts executed beyond the zone, at the centre of a bin.             *)
Executed(s, c) ==
  IF s.zone.side = "BID" THEN \E p \in c.buys : p >= s.zone.high
  ELSE \E p \in c.sells : p < s.zone.low

Touches(s, c) ==
  IF s.zone.side = "BID" THEN c.low <= s.zone.high ELSE c.high >= s.zone.low

(* The setup, aged by this candle, gives an entry signal.                  *)
Enters(s, c) ==
  /\ ~Expired(s, c) /\ Executed(s, c)
  /\ s.touched # 0 \/ (Touches(s, c) /\ s.since >= MinRetest)

(* _mark_retest, when the candle touches the zone and nothing is executed  *)
(* beyond it.                                                              *)
Marked(s, c) ==
  IF s.touched = 0 /\ Touches(s, c) /\ s.since >= MinRetest /\ ~Executed(s, c)
  THEN [s EXCEPT !.touched = c.at] ELSE s

(* What becomes of setups of the wanted directions that do not enter.      *)
Kept(setups, c, wanted) ==
  LET wantedOne(s) == Direction(s.zone) \in wanted
      step(s) == IF wantedOne(s) /\ ~Expired(Aged(s), c) THEN Marked(Aged(s), c) ELSE s
      stays(s) == ~wantedOne(s) \/ ~Expired(Aged(s), c)
      rest == Among(setups, {s \in ToSet(setups) : stays(s)})
  IN [i \in 1 .. Len(rest) |-> step(rest[i])]

(* The position in the list of the first setup that enters, or 0.          *)
FirstEntering(setups, c, wanted) ==
  LET enters == {i \in 1 .. Len(setups) :
                   Direction(setups[i].zone) \in wanted /\ Enters(Aged(setups[i]), c)}
  IN IF enters = {} THEN 0 ELSE CHOOSE i \in enters : \A j \in enters : i <= j

Opposite(direction) == IF direction = "LONG" THEN "SHORT" ELSE "LONG"

-----------------------------------------------------------------------------
(* Signals.                                                                *)

Entry(z, c, s) ==
  [type |-> "ENTRY", zone |-> z, at |-> c.at, touched |-> s.touched]
Exit(z, c) == [type |-> "EXIT", zone |-> z, at |-> c.at, touched |-> 0]

(* A position is identified by its zone and the candle it was entered at.  *)
PositionAt(z, c) == [zone |-> z, at |-> c.at]

(* Mutant of AfterEntry: all setups survive the entry.                     *)
AfterEntryAll(st, setups, s, c, signals) ==
  [st EXCEPT
     !.records = <<>>,
     !.position = PositionAt(s.zone, c),
     !.tracked = (@ \ {st.position}) \union {PositionAt(s.zone, c)},
     !.setups = setups,
     !.log = @ \o signals]

(* Mutant of AfterEntry: the old position's actor proxy is stopped last,   *)
(* when the state holds the new position already.                          *)
AfterEntryStopsLast(st, setups, s, c, signals) ==
  [AfterEntryAll(st, setups, s, c, signals) EXCEPT !.tracked = st.tracked \ {PositionAt(s.zone, c)}]

(* The bucket of the signal's refill is cleared, the actor proxies of the  *)
(* old and the new position are stopped and started, and only setups of    *)
(* the opposite direction survive (_trading_state_after_entry).            *)
AfterEntry(st, setups, s, c, signals) ==
  [st EXCEPT
     !.records = <<>>,
     !.position = PositionAt(s.zone, c),
     !.tracked = (@ \ {st.position}) \union {PositionAt(s.zone, c)},
     !.setups = Among(setups, {other \in ToSet(setups) :
                                 Direction(other.zone) # Direction(s.zone)}),
     !.log = @ \o signals]

(* Flat: _entry_signal.  A signal leaves the loop at once: setups before   *)
(* the entering one have aged, timed-out ones among them are still there,  *)
(* and setups after it have not aged.  Without a signal the best refill of *)
(* the candle becomes one more setup.                                      *)
EvaluateFlat(st, c) ==
  LET both == {"LONG", "SHORT"}
      n == FirstEntering(st.setups, c, both)
      aged(s) == IF Expired(Aged(s), c) THEN Aged(s) ELSE Marked(Aged(s), c)
      reached == [i \in 1 .. Len(st.setups) |->
                    IF i < n THEN aged(st.setups[i])
                    ELSE IF i = n THEN Aged(st.setups[i]) ELSE st.setups[i]]
      found == ReferencesOf(st.records, c.at)
  IN IF n # 0
     THEN AfterEntry(st, reached, reached[n], c, <<Entry(reached[n].zone, c, reached[n])>>)
     ELSE [st EXCEPT
             !.records = Expire(@, c.at),
             !.setups = Kept(@, c, both) \o
                        (IF found = <<>> THEN <<>> ELSE <<NewSetup(Head(found))>>)]

(* Mutant of ReverseAt: the old position gives no exit signal.             *)
ReverseSilently(st, n, c) ==
  LET s == Aged(st.setups[n])
  IN AfterEntry(st, st.setups, s, c, <<Entry(s.zone, c, s)>>)

(* In a position: a setup of the opposite direction enters, the position   *)
(* is closed and the new one opened on the same candle (_reverse_position).*)
ReverseAt(st, n, c) ==
  LET wanted == Opposite(Direction(st.position.zone))
      s == Aged(st.setups[n])
  IN AfterEntry(st, Kept(SubSeq(st.setups, 1, n - 1), c, {wanted}), s, c,
                <<Exit(st.position.zone, c), Entry(s.zone, c, s)>>)

(* _remember_opposite_entry_setups: every refill of the candle on the      *)
(* opposite side that is not a setup yet.                                  *)
Remember(st, c) ==
  LET wanted == Opposite(Direction(st.position.zone))
      known == {st.setups[i].zone : i \in 1 .. Len(st.setups)}
      found == Among(ReferencesOf(st.records, c.at),
                     {z \in ToSet(st.records) : Direction(z) = wanted /\ z \notin known})
  IN [st EXCEPT
        !.records = Expire(@, c.at),
        !.setups = @ \o [i \in 1 .. Len(found) |-> NewSetup(found[i])]]

(* _exit_buy_signal and _exit_sell_signal look at the live candle only: a  *)
(* refill of the opposite side ends the position when its price is in the  *)
(* range of the candle, or it is of this candle and the centre of its bin  *)
(* is in the candle's near wick or third.  The first search of the code is *)
(* for a refill that the second finds too, and the bin of a terminal is    *)
(* always one-sided.                                                       *)
ExitLive(st, live) ==
  LET records == Expire(st.records, live.at)
      hit(z) == /\ Direction(z) # Direction(st.position.zone)
                /\ \/ z.candle <= live.at /\ RecordPrice(z) \in live.low .. live.high
                   \/ /\ z.candle = live.at
                      /\ RecordPrice(z) \in IF z.side = "ASK" THEN live.lower ELSE live.upper
  IN IF \E i \in 1 .. Len(records) : hit(records[i])
     THEN [st EXCEPT
             !.records = <<>>, !.setups = <<>>, !.position = NoPosition,
             !.tracked = @ \ {st.position},
             !.log = Append(@, Exit(st.position.zone, live))]
     ELSE [st EXCEPT !.records = records]

(* process_closed_candle: a closed candle c, and the live candle that      *)
(* follows it, if there is one.                                            *)
Evaluate(st, c, live) ==
  IF st.position = NoPosition THEN EvaluateFlat(st, c)
  ELSE LET wanted == {Opposite(Direction(st.position.zone))}
           n == FirstEntering(st.setups, c, wanted)
           watched == Remember([st EXCEPT !.setups = Kept(@, c, wanted)], c)
       IN IF n # 0 THEN ReverseAt(st, n, c)
          ELSE IF live = {} THEN watched
          ELSE ExitLive(watched, CHOOSE l \in live : TRUE)

-----------------------------------------------------------------------------
(* Properties of a store.                                                  *)

InPosition(st) == st.position # NoPosition

(* Entry and exit signals alternate, an exit closes the position that the  *)
(* last entry opened, and the position is the one of the last entry.       *)
Alternates(st) ==
  LET n == Len(st.log)
  IN /\ \A i \in 1 .. n : st.log[i].type = IF i % 2 = 1 THEN "ENTRY" ELSE "EXIT"
     /\ \A i \in 2 .. n : st.log[i].type = "EXIT" => st.log[i].zone = st.log[i - 1].zone
     /\ InPosition(st) <=> n % 2 = 1
     /\ InPosition(st) => st.position.zone = st.log[n].zone

(* Setups waiting beside a position could only reverse it.                 *)
WaitsOpposite(st) ==
  InPosition(st) =>
    \A i \in 1 .. Len(st.setups) :
      Direction(st.setups[i].zone) # Direction(st.position.zone)

(* A zone gives one setup, and is entered once.                            *)
OncePerZone(st) ==
  /\ \A i, j \in 1 .. Len(st.setups) : st.setups[i].zone = st.setups[j].zone => i = j
  /\ \A i, j \in 1 .. Len(st.log) :
       st.log[i].type = "ENTRY" /\ st.log[j].type = "ENTRY" /\ st.log[i].zone = st.log[j].zone
         => i = j
  /\ \A i \in 1 .. Len(st.log), j \in 1 .. Len(st.setups) :
       st.log[i].type = "ENTRY" => st.log[i].zone # st.setups[j].zone

(* An entry is a retest: not within MinRetest candles of the zone's own    *)
(* candle, and within the timeout of the touch it confirms.                *)
EntersOnRetest(st) ==
  \A i \in 1 .. Len(st.log) :
    st.log[i].type = "ENTRY" =>
      /\ st.log[i].at - st.log[i].zone.candle >= MinRetest
      /\ st.log[i].touched # 0 =>
           /\ st.log[i].at - st.log[i].touched <= TouchedTimeout
           /\ st.log[i].touched - st.log[i].zone.candle >= MinRetest
=============================================================================
