----------------------------- MODULE ActorProxy -----------------------------
(***************************************************************************)
(* The actor proxy (actor_proxy/actor_proxy_engine.py and its store) for   *)
(* one position.  The orders behind the position's refill zone are its     *)
(* candidates; raw order events shrink, end and replace them; when few     *)
(* contracts are left for long enough the cluster gives an exit signal.    *)
(*                                                                         *)
(* The session service feeds the raw events of whatever window a page asks *)
(* for: an event may come again, and after later ones.  The trigger engine *)
(* starts and stops the tracking of a position each time a page is served. *)
(*                                                                         *)
(* Prices and sides are left out: every order of the model is on the side  *)
(* of the position and near enough to replace another.  An order far away  *)
(* is like one that is not tracked.                                        *)
(***************************************************************************)
EXTENDS Integers, Sequences, FiniteSets, SequencesExt

CONSTANTS
  Orders,    \* order ids
  Payload,   \* the candidates: a sequence of [id, initial], the dominant first
  Sizes,     \* sizes of order events
  Confirm,   \* confirm_window_ms
  Gap,       \* replacement_time_gap_ms
  Recent,    \* recent_window_ms
  Baseline,  \* refill contracts of the candidates before the entry
  Windows,   \* windows of the tracking: [from, until]
  MaxTime,   \* bound: times of events are 1 .. MaxTime
  MaxEvents  \* bound: number of raw events

ASSUME ProxyAssumption ==
  /\ {Confirm, Gap, Recent, MaxTime, MaxEvents} \subseteq Nat
  /\ Baseline \in Nat \ {0} /\ Sizes \subseteq Nat \ {0}
  /\ Windows \subseteq [from : 1 .. MaxTime, until : 1 .. MaxTime]
  /\ Payload \in Seq([id : Orders, initial : Nat \ {0}])

VARIABLES
  cluster,  \* the tracked cluster of the position, or NoCluster
  adds,     \* _recent_add_events of the engine
  record,   \* the time of the signal in _exit_signals_by_position_id, or 0
  events,   \* events so far
  at        \* history: the time of the last event that was looked at

vars == <<cluster, adds, record, events, at>>

Time == 1 .. MaxTime
Candidates == 1 .. Len(Payload)
ActiveStatus == {"ACTIVE", "REDUCED", "REPLACED"}
GoneStatus   == {"CANCELLED", "FILLED", "LOST"}

(* cands: the ActorCandidates; refills: REFILL activity; taken: contracts  *)
(* cancelled and filled, as far as they count; since, exit: times or 0.    *)
NoCluster == [tracked |-> FALSE, cands |-> <<>>, refills |-> <<>>, taken |-> 0,
              from |-> 0, until |-> 0, since |-> 0, exit |-> 0]

Distance(s, t) == IF s < t THEN t - s ELSE s - t
Least(a, b) == IF a < b THEN a ELSE b

Total(f) ==
  LET sum[i \in 0 .. Len(f)] == IF i = 0 THEN 0 ELSE sum[i - 1] + f[i]
  IN sum[Len(f)]

Initial == Total([i \in Candidates |-> Payload[i].initial])

(* What is older than the cutoff is dropped from a list.                   *)
NotBefore(seq, cutoff) ==
  FoldLeft(LAMBDA kept, x : IF x.t >= cutoff THEN Append(kept, x) ELSE kept, <<>>, seq)

-----------------------------------------------------------------------------
(* Candidates.                                                             *)

IsActive(c) == c.status \in ActiveStatus /\ c.size > 0

(* _replacement_matches                                                    *)
Matches(c, add, lost) ==
  /\ add.order # c.id
  /\ Distance(add.t, lost) <= Gap
  /\ c.initial <= 2 * add.size /\ add.size <= 2 * c.initial

(* _apply_replacement                                                      *)
Adopt(c, add) ==
  [c EXCEPT !.id = add.order, !.status = "REPLACED", !.size = add.size,
            !.replaced = add.t, !.lost = 0]

(* Mutant of Lose: the time of the loss is kept from an earlier loss.      *)
LoseUndated(c, t, status, recent) ==
  LET fits == {i \in DOMAIN recent : Matches(c, recent[i], t)}
  IN IF fits = {} THEN [c EXCEPT !.status = status, !.size = 0]
     ELSE Adopt(c, recent[CHOOSE i \in fits : \A j \in fits : i <= j])

(* _mark_candidate_lost: the recent add nearest in time takes over.        *)
Lose(c, t, status, recent) ==
  LET gone == [c EXCEPT !.status = status, !.size = 0, !.lost = t]
      fits == {i \in DOMAIN recent : Matches(gone, recent[i], t)}
      nearest(i) == \A j \in fits : \/ Distance(recent[i].t, t) < Distance(recent[j].t, t)
                                    \/ Distance(recent[i].t, t) = Distance(recent[j].t, t) /\ i <= j
  IN IF fits = {} THEN gone ELSE Adopt(gone, recent[CHOOSE i \in fits : nearest(i)])

(* _candidate_for_order_id: the first one, or 0.                           *)
CandidateFor(k, order) ==
  LET found == {i \in Candidates : k.cands[i].id = order}
  IN IF found = {} THEN 0 ELSE CHOOSE i \in found : \A j \in found : i <= j

(* The order is there again: the status REPLACED survives.                 *)
Back(c, size) ==
  [c EXCEPT !.status = IF @ = "REPLACED" THEN @ ELSE "ACTIVE", !.size = size]

(* Contracts cancelled and filled count up to the initial contracts.       *)
Take(k, n) == [k EXCEPT !.taken = Least(Initial, @ + n)]

-----------------------------------------------------------------------------
(* The events: _apply_event and its handlers.                              *)

(* ADD: the tracked order itself, or a replacement for the first candidate *)
(* that misses one.                                                        *)
ApplyAdd(k, e) ==
  LET i == CandidateFor(k, e.order)
      waiting == {j \in Candidates : /\ ~IsActive(k.cands[j]) /\ k.cands[j].lost > 0
                                     /\ Matches(k.cands[j], e, k.cands[j].lost)}
  IN IF i # 0 THEN [k EXCEPT !.cands[i] = [Back(@, e.size) EXCEPT !.lost = 0]]
     ELSE IF waiting = {} THEN k
     ELSE [k EXCEPT !.cands[CHOOSE j \in waiting : \A l \in waiting : j <= l] = Adopt(@, e)]

(* CLEAR: every active candidate is lost; any of them may adopt an add.    *)
ApplyClear(k, e, recent) ==
  [k EXCEPT !.cands = [i \in Candidates |->
     IF IsActive(@[i]) THEN Lose(@[i], e.t, "LOST", recent) ELSE @[i]]]

(* MODIFY: the size grows (a refill), shrinks, or is not given.            *)
ApplyModify(k, i, e, recent) ==
  LET c == k.cands[i]
      size == IF e.size > 0 THEN e.size ELSE c.size
  IN IF size > c.size
     THEN [k EXCEPT !.cands[i] = Back(c, size),
                    !.refills = Append(@, [t |-> e.t, n |-> size - c.size])]
     ELSE IF size < c.size
     THEN Take([k EXCEPT !.cands[i] = [c EXCEPT !.status = "REDUCED", !.size = size]],
               c.size - size)
     ELSE IF size = 0 THEN [k EXCEPT !.cands[i] = Lose(c, e.t, c.status, recent)]
     ELSE k

(* FILL or TRADE.  On a candidate that is gone it counts once more.        *)
ApplyFill(k, i, e, recent) ==
  LET c == k.cands[i]
      executed == IF e.size > 0 THEN e.size ELSE c.size
      left == c.size - Least(executed, c.size)
  IN Take([k EXCEPT !.cands[i] = IF left > 0 THEN [c EXCEPT !.size = left]
                                 ELSE Lose([c EXCEPT !.size = 0], e.t, "FILLED", recent)],
          executed)

ApplyCancel(k, i, e, recent) ==
  LET c == k.cands[i]
      wanted == IF e.size > 0 THEN e.size ELSE c.size
      cancelled == IF c.size > 0 THEN Least(wanted, c.size) ELSE wanted
      left == c.size - Least(cancelled, c.size)
  IN Take([k EXCEPT !.cands[i] =
             IF left > 0 THEN [c EXCEPT !.status = "REDUCED", !.size = left]
             ELSE Lose(c, e.t, "CANCELLED", recent)],
          cancelled)

Apply(k, e, recent) ==
  LET i == CandidateFor(k, e.order)
  IN CASE e.action = "ADD"    -> ApplyAdd(k, e)
       [] e.action = "CLEAR"  -> ApplyClear(k, e, recent)
       [] e.action \notin {"ADD", "CLEAR"} /\ i = 0 -> k
       [] e.action = "MODIFY" /\ i # 0 -> ApplyModify(k, i, e, recent)
       [] e.action = "FILL"   /\ i # 0 -> ApplyFill(k, i, e, recent)
       [] e.action = "CANCEL" /\ i # 0 -> ApplyCancel(k, i, e, recent)

-----------------------------------------------------------------------------
(* Weakness: cluster_metrics, _cluster_exit_score, _exit_conditions_met.   *)

ActiveContracts(k) ==
  Total([i \in Candidates |-> IF IsActive(k.cands[i]) THEN k.cands[i].size ELSE 0])

Pruned(k, now) == [k EXCEPT !.refills = NotBefore(@, now - Recent)]

(* Of the refills before the entry at most a quarter came recently.        *)
RefillDropped(k) ==
  4 * Total([i \in DOMAIN k.refills |-> k.refills[i].n]) <= Baseline

ReplacedWithin(k, now, window) ==
  \E i \in Candidates :
    k.cands[i].replaced > 0 /\ now - k.cands[i].replaced <= window

RatioLow(k) == 100 * ActiveContracts(k) < 35 * Initial

(* Mutant of Score: nothing is given for missing replacements, and the     *)
(* contracts taken are not looked at.                                      *)
ScoreBare(k, now) ==
  (IF RatioLow(k) THEN 35 * Initial - 100 * ActiveContracts(k) ELSE 0)
    + (IF RefillDropped(k) THEN 20 * Initial ELSE 0)

(* The score times 100 * Initial.                                          *)
Score(k, now) ==
  (IF RatioLow(k) THEN 35 * Initial - 100 * ActiveContracts(k) ELSE 0)
    + (IF RefillDropped(k) THEN 20 * Initial ELSE 0)
    + 20 * k.taken
    + (IF IsActive(k.cands[1]) THEN 0 ELSE 15 * Initial)
    + (IF \E r \in {k.cands[i].replaced : i \in Candidates} :
            /\ r > 0 /\ now - r <= Gap
            /\ \A i \in Candidates : k.cands[i].replaced <= r
       THEN 0 ELSE 10 * Initial)

Weak(k, now) ==
  /\ RatioLow(k) /\ RefillDropped(k)
  /\ \E i \in Candidates :
       \/ k.cands[i].status \in GoneStatus
       \/ k.cands[i].status = "REDUCED" /\ k.cands[i].size < k.cands[i].initial
  /\ ~ReplacedWithin(k, now, Confirm)
  /\ Score(k, now) >= 65 * Initial

(* Mutant of Assess: a weakness that ended counts from its first time.     *)
AssessUnbroken(k, now) ==
  IF k.exit # 0 \/ ~Weak(k, now) THEN k
  ELSE IF k.since = 0 THEN [k EXCEPT !.since = now]
  ELSE [k EXCEPT !.exit = now]

(* update_cluster_state after an event at the time now                     *)
Assess(k, now) ==
  IF k.exit # 0 THEN k
  ELSE IF ~Weak(k, now) THEN [k EXCEPT !.since = 0]
  ELSE IF k.since = 0 THEN [k EXCEPT !.since = now]
  ELSE IF now - k.since < Confirm THEN k
  ELSE [k EXCEPT !.exit = now]

-----------------------------------------------------------------------------
Init ==
  /\ cluster = NoCluster /\ adds = <<>> /\ record = 0 /\ events = 0 /\ at = 0

(* start_tracking: some orders of the payload shrank or are gone already.  *)
(* The window is the one of the replay, or open ended.                     *)
StartTracking ==
  \E size \in [Candidates -> Sizes \union {0}], window \in Windows, seen \in Time :
    /\ seen <= window.until
    /\ cluster' = [NoCluster EXCEPT
         !.tracked = TRUE, !.from = window.from, !.until = window.until,
         !.cands = [i \in Candidates |->
           [id |-> Payload[i].id, initial |-> Payload[i].initial, size |-> size[i],
            status |-> IF size[i] > 0 THEN "ACTIVE" ELSE "LOST",
            lost |-> IF size[i] > 0 THEN 0 ELSE seen, replaced |-> 0]]]
    /\ at' = 0
    /\ UNCHANGED <<adds, record, events>>

StopTracking ==
  /\ cluster.tracked
  /\ cluster' = NoCluster
  /\ at' = 0
  /\ UNCHANGED <<adds, record, events>>

Event ==
  [t : Time, action : {"ADD"}, order : Orders, size : Sizes]
    \union [t : Time, action : {"MODIFY", "FILL", "CANCEL"}, order : Orders, size : Sizes \union {0}]
    \union [t : Time, action : {"CLEAR"}, order : {""}, size : {0}]

(* _remember_add_event                                                     *)
Remembered(e) == IF e.action = "ADD" THEN NotBefore(Append(adds, e), e.t - Gap) ELSE adds

(* on_raw_dom_event; events outside the window change nothing.             *)
RawEvent ==
  \E e \in Event :
    /\ events < MaxEvents /\ events' = events + 1
    /\ cluster.tracked /\ cluster.from <= e.t /\ e.t <= cluster.until
    /\ adds' = Remembered(e)
    /\ cluster' = Assess(Pruned(Apply(cluster, e, Remembered(e)), e.t), e.t)
    /\ record' = IF cluster'.exit # cluster.exit THEN cluster'.exit ELSE record
    /\ at' = e.t

Next == StartTracking \/ StopTracking \/ RawEvent

Spec == Init /\ [][Next]_vars

-----------------------------------------------------------------------------
(* A candidate is active exactly while it has contracts, and one that is   *)
(* gone waits for a replacement from the time of its loss on: none is left *)
(* that neither counts nor can be replaced.                                *)
GoneWaitsForReplacement ==
  cluster.tracked => \A i \in Candidates :
    LET c == cluster.cands[i]
    IN /\ IsActive(c) <=> c.size > 0
       /\ ~IsActive(c) => c.status \in GoneStatus /\ c.lost > 0

(* When no contract of the actors is left, nothing has replaced them and   *)
(* nothing is refilled, the cluster is found weak at once, whatever was    *)
(* counted as cancelled or filled.                                         *)
AllGoneIsWeak ==
  cluster.tracked /\ at > 0 /\ ActiveContracts(cluster) = 0 /\ RefillDropped(cluster)
    /\ ~ReplacedWithin(cluster, at, Confirm)
  => cluster.since > 0 \/ cluster.exit > 0

(* The exit signal keeps the promise of ActorWatch: get_exit_signal gives  *)
(* the signal of the cluster, or else the one in the store.                *)
Watch == INSTANCE ActorWatch WITH
  Times  <- Time,
  phase  <- IF ~cluster.tracked THEN "off" ELSE IF cluster.exit > 0 THEN "exited"
            ELSE IF cluster.since > 0 THEN "weak" ELSE "watched",
  since  <- cluster.since,
  answer <- IF cluster.exit > 0 THEN cluster.exit ELSE record

KeepsWatch == Watch!Spec
=============================================================================
