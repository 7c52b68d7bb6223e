----------------------------- MODULE RefillScan -----------------------------
(***************************************************************************)
(* The refill scan of absorption/session_service.py over the DOM timeline  *)
(* index, which may be under construction meanwhile.                       *)
(*                                                                         *)
(* A scan replays the events of a window from the index, some rows at a    *)
(* time, and keeps what it found per candle: in the memory of its process, *)
(* and in an SQLite file that survives it and answers later scans of any   *)
(* window its blocks cover (process/refill_scan_index.py).  Both are keyed *)
(* by a version of the index, which is read before the replay.             *)
(*                                                                         *)
(* Data abstraction.  The levels of a candle are the set of events they    *)
(* count; a replay turns events into levels (ReplayRun, LevelLedger).      *)
(* Requests name no score, every event lies in a footprint of its candle,  *)
(* a process serves one scan at a time, and nothing writes the older disk  *)
(* cache.  The version is that of the one source.                          *)
(***************************************************************************)
EXTENDS TimelineIndex

CONSTANTS
  ScanWindows,    \* the windows that are scanned
  CandleSpan,     \* the length of a candle
  Warmup,         \* DATA_PROCESS_REFILL_SCAN_WARMUP_MS
  FetchSize,      \* batch_size of the replay source
  ScanCacheSize,  \* DATA_PROCESS_REFILL_SCAN_CACHE_SIZE
  MaxScans        \* bound: scans of one behaviour

ASSUME ScanAssumption ==
  /\ ScanWindows \subseteq [from : Nat, to : Nat]
  /\ \A w \in ScanWindows : w.from < w.to
  /\ CandleSpan \in Nat \ {0} /\ FetchSize \in Nat \ {0}
  /\ ScanCacheSize \in Nat \ {0} /\ Warmup \in Nat /\ MaxScans \in Nat

VARIABLES
  scan,    \* the scan of a process
  memory,  \* _refill_scan_cache of a process, least recently used first
  blocks,  \* refill_scan_blocks: the windows stored under a version
  kept,    \* refill_scan_rows, one record per version and candle
  scans    \* scans so far

scanVars == <<scan, memory, blocks, kept, scans>>
allVars == <<vars, scanVars>>

-----------------------------------------------------------------------------
(* Candles and windows.                                                    *)

Opens(c) == c * CandleSpan
Closes(c) == Opens(c) + CandleSpan - 1
CandleOf(e) == Stamp(e) \div CandleSpan
Candles == 0 .. CandleOf(EventCount)

\* The candles a scan reports: they open inside its window.  (What it reports
\* of the candle it begins in is marked with the time of an event instead, so
\* it never meets a row of a whole candle, and is left out.)
Marked(w) == {c \in Candles : w.from <= Opens(c) /\ Opens(c) < w.to}

\* The window, which leaves out its last millisecond, ends inside the candle.
Cut(w, c) == w.to <= Closes(c)

ReplayFrom(w) == IF w.from > Warmup THEN w.from - Warmup ELSE 0

\* Mutant of Version: the progress of an unfinished build is left out.
VersionOfStatus == <<status>>

\* _stable_dom_index_version: the row of the source.
Version == <<status, until>>

\* The source has a symbol to scan.
Listed == status = "READY" \/ until > 0

-----------------------------------------------------------------------------
(* What is kept of scans.  whole is history: no rebuild began while the    *)
(* events of the candle were read, and the scan saw the candle's end.  A   *)
(* record without events stands for no row.                                *)

Found(s) ==
  {[candle |-> c,
    events |-> {e \in s.read : CandleOf(e) = c},
    whole |-> ~s.disturbed /\ ~Cut(s.window, c)] : c \in Marked(s.window)}

\* RefillScanIndex.store: the rows of the window are replaced, one transaction.
KeepBlock(v, w, found) ==
  /\ kept' = {k \in kept : k.version = v => k.row.candle \notin Marked(w)}
               \cup {[version |-> v, row |-> r] : r \in found}
  /\ blocks' = blocks \cup {[version |-> v, window |-> w]}

BlocksOf(v) == {b.window : b \in {b \in blocks : b.version = v}}

\* One turn of the loop in _covers.
Reaching(reached, b) ==
  IF b.from <= reached /\ b.to > reached THEN b.to ELSE reached

\* How far the loop in _covers gets from start through a list.
ReachedBy(list, start) ==
  LET reached[n \in 0 .. Len(list)] ==
        IF n = 0 THEN start ELSE Reaching(reached[n - 1], list[n])
  IN  reached[Len(list)]

\* The rows of the SELECT before it: the windows that overlap w, in order.
Overlapping(windows, w) == {b \in windows : b.to > w.from /\ b.from < w.to}

Chained(windows, w) ==
  w.to <= ReachedBy(SetToSortSeq(Overlapping(windows, w),
                                 LAMBDA a, b : \/ a.from < b.from
                                               \/ a.from = b.from /\ a.to < b.to),
                    w.from)

\* What it computes: the windows leave no gap in w.
NoGap(windows, w) ==
  \A t \in w.from .. w.to - 1 : \E b \in windows : b.from <= t /\ t < b.to

Covers(v, w) == NoGap(BlocksOf(v), w)

\* RefillScanIndex.load, for a window that is covered.
Loaded(v, w) ==
  {k.row : k \in {k \in kept : k.version = v /\ k.row.candle \in Marked(w)}}

InMemory(p, v, w) ==
  {i \in DOMAIN memory[p] : memory[p][i].version = v /\ memory[p][i].window = w}

\* A result that was in memory becomes the most recent one.
Refreshed(p, i) == Append(RemoveAt(memory[p], i), memory[p][i])

\* A new one pushes out the oldest.
Memorised(p, v, w, found) ==
  LET all == Append(memory[p], [version |-> v, window |-> w, rows |-> found])
  IN  IF Len(all) > ScanCacheSize THEN Tail(all) ELSE all

Memorise(p, v, w, found) ==
  memory' = [memory EXCEPT ![p] = Memorised(p, v, w, found)]

-----------------------------------------------------------------------------
(* A scan.                                                                 *)

NoScan == [phase |-> "none"]

Scan0(w) ==
  [phase |-> "keyed", window |-> w, version |-> Version, read |-> {},
   disturbed |-> FALSE, at |-> ReplayFrom(w) \div CandleSpan, cursor |-> 0]

\* The result is in memory; it is stored in the file again.
AnswerFromMemory(p, w) ==
  /\ \E i \in InMemory(p, Version, w) :
       /\ KeepBlock(Version, w, memory[p][i].rows)
       /\ memory' = [memory EXCEPT ![p] = Refreshed(p, i)]
  /\ UNCHANGED scan

AnswerFromFile(p, w) ==
  /\ InMemory(p, Version, w) = {} /\ Covers(Version, w)
  /\ Memorise(p, Version, w, Loaded(Version, w))
  /\ UNCHANGED <<scan, blocks, kept>>

BeginReplay(p, w) ==
  /\ InMemory(p, Version, w) = {} /\ ~Covers(Version, w)
  /\ scan' = [scan EXCEPT ![p] = Scan0(w)]
  /\ UNCHANGED <<memory, blocks, kept>>

\* data_process_refill_scan_payload up to the replay: the version is read, and
\* what is known under it answers.
Request(p, w) ==
  /\ scan[p] = NoScan /\ Listed /\ scans < MaxScans
  /\ AnswerFromMemory(p, w) \/ AnswerFromFile(p, w) \/ BeginReplay(p, w)
  /\ scans' = scans + 1
  /\ UNCHANGED vars

\* The source has events in the window, as far as its row says.
HasEvents(w) == Listed /\ until >= ReplayFrom(w) /\ Stamp(1) <= w.to

\* DomDatabentoReplaySource.events selects the sources; the candles of the
\* window are read one after the other.
OpenSource(p) ==
  /\ scan[p].phase = "keyed"
  /\ scan' = [scan EXCEPT ![p].phase =
                IF HasEvents(scan[p].window) THEN "reading" ELSE "read"]
  /\ UNCHANGED <<vars, memory, blocks, kept, scans>>

InReplay(w, e) == ReplayFrom(w) <= Stamp(e) /\ Stamp(e) <= w.to

\* The rows of the candle behind the cursor.
Unread(s) ==
  {e \in rows : e > s.cursor /\ CandleOf(e) = s.at /\ InReplay(s.window, e)}

\* The first of them, as LIMIT cuts them.
Fetched(s) ==
  {e \in Unread(s) : Cardinality({d \in Unread(s) : d < e}) < FetchSize}

\* fetch_batch: one SELECT, which moves the cursor to the last row.
Fetch(p) ==
  /\ scan[p].phase = "reading" /\ Unread(scan[p]) # {}
  /\ \E last \in Fetched(scan[p]) :
       /\ \A e \in Fetched(scan[p]) : e <= last
       /\ scan' = [scan EXCEPT ![p].read = @ \cup Fetched(scan[p]),
                               ![p].cursor = last]
  /\ UNCHANGED <<vars, memory, blocks, kept, scans>>

\* A candle without further rows is left for good.
LeaveCandle(p) ==
  /\ scan[p].phase = "reading" /\ Unread(scan[p]) = {}
  /\ scan' = IF Opens(scan[p].at + 1) <= scan[p].window.to
             THEN [scan EXCEPT ![p].at = @ + 1]
             ELSE [scan EXCEPT ![p].phase = "read"]
  /\ UNCHANGED <<vars, memory, blocks, kept, scans>>

\* The replay is over: its result is stored under the version read before it.
FinishReplay(p) ==
  /\ scan[p].phase = "read"
  /\ LET s == scan[p]
     IN  /\ KeepBlock(s.version, s.window, Found(s))
         /\ Memorise(p, s.version, s.window, Found(s))
  /\ scan' = [scan EXCEPT ![p] = NoScan]
  /\ UNCHANGED <<vars, scans>>

\* A database error ends the request; nothing is stored.
ReplayFails(p) ==
  /\ scan[p] # NoScan
  /\ scan' = [scan EXCEPT ![p] = NoScan]
  /\ UNCHANGED <<vars, memory, blocks, kept, scans>>

-----------------------------------------------------------------------------

\* The index goes on; history notes when stored events are deleted.
Noticed ==
  /\ scan' = [p \in Procs |->
                IF scan[p] # NoScan /\ ~(rows \subseteq rows')
                THEN [scan[p] EXCEPT !.disturbed = TRUE] ELSE scan[p]]
  /\ UNCHANGED <<memory, blocks, kept, scans>>

IndexStep(p) ==
  \/ \E w \in Windows, through \in BOOLEAN : Ask(p, w, through)
  \/ Serve(p) \/ SelectFails(p) \/ ScanUnread(p) \/ Build(p) \/ Fail(p)

\* The process dies with its scan and its memory.
CrashAll(p) ==
  /\ Crash(p)
  /\ scan' = [scan EXCEPT ![p] = NoScan]
  /\ memory' = [memory EXCEPT ![p] = <<>>]
  /\ UNCHANGED <<blocks, kept, scans>>

ScanInit ==
  /\ Init
  /\ scan = [p \in Procs |-> NoScan]
  /\ memory = [p \in Procs |-> <<>>]
  /\ blocks = {} /\ kept = {} /\ scans = 0

ScanStep(p) ==
  \/ \E w \in ScanWindows : Request(p, w)
  \/ OpenSource(p) \/ Fetch(p) \/ LeaveCandle(p)
  \/ FinishReplay(p) \/ ReplayFails(p)

ScanNext ==
  \E p \in Procs : ScanStep(p) \/ (IndexStep(p) /\ Noticed) \/ CrashAll(p)

ScanSpec == ScanInit /\ [][ScanNext]_allVars

\* A request that was taken up is answered and the timer and its thread run.
\* Nothing says that a request is ever made, and nothing is asked of scans.
FairScanSpec ==
  ScanSpec /\ \A p \in Procs : /\ WF_allVars(Serve(p) /\ Noticed)
                               /\ WF_allVars(Build(p) /\ Noticed)

-----------------------------------------------------------------------------
(* Properties.                                                             *)

\* The events of a candle that the index vouches for: all of them if it is
\* finished, those before indexed_until_ms if it is not.
Vouched(c) ==
  {e \in Events : CandleOf(e) = c /\ (status = "READY" \/ Stamp(e) < until)}

\* The answers to a scan of w that are known now.
Answers(w) ==
  {m.rows : m \in {m \in UNION {Range(memory[p]) : p \in Procs} :
                     m.version = Version /\ m.window = w}}
    \cup IF Covers(Version, w) THEN {Loaded(Version, w)} ELSE {}

\* Whatever answers a scan under the present version of the index, from memory
\* or put together from blocks of other scans, has every candle of the window,
\* and in it every event the index vouches for, unless the last scan that
\* stored the candle ended inside it or was overtaken by a rebuild.
AnswersMissNothing ==
  \A w \in ScanWindows : \A found \in Answers(w) : \A c \in Marked(w) :
    \E r \in found :
      r.candle = c /\ (r.whole => Vouched(c) \subseteq r.events)

=============================================================================
