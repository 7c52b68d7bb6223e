---------------------------- MODULE TimelineIndex ----------------------------
(***************************************************************************)
(* The DOM timeline index of DOM/data_provider.py, for one source file.    *)
(*                                                                         *)
(* A window of a market-by-order file is answered from an SQLite index     *)
(* when the index covers it, and by scanning the file otherwise; a scan    *)
(* also starts a background thread that builds the index.  Several         *)
(* processes share the index: each has a thread of its own, a lock file    *)
(* that only one of them can hold, and a cache of the windows it loaded.   *)
(* Building takes one transaction per batch of the file, and a process may *)
(* fail or die between any two of them.                                    *)
(*                                                                         *)
(* Data abstraction.  An event is its ordinal in the file.  A process      *)
(* serves one request at a time, without a primary window and without      *)
(* prefetch padding, and no answer reaches max_events_per_request.  The    *)
(* index file is there from the start, without a row for the source.       *)
(***************************************************************************)
EXTENDS Integers, SequencesExt

CONSTANTS
  Procs,       \* the processes that use the index
  NoProc,      \* the holder of a lock that is free
  EventCount,  \* events of the file
  BatchCount,  \* batches the file is read in
  EndOf(_),    \* the last event of a batch
  Stamp(_),    \* ts_event_ms of an event
  Windows,     \* the windows that are requested
  CacheSize,   \* dom_file_cache_size
  MaxFaults    \* bound: errors and crashes of one behaviour

Events == 1 .. EventCount
UpTo(b) == 1 .. EndOf(b)

ASSUME FileAssumption ==
  /\ EventCount \in Nat \ {0} /\ BatchCount \in Nat \ {0}
  /\ EndOf(0) = 0 /\ EndOf(BatchCount) = EventCount
  /\ \A b \in 0 .. BatchCount : EndOf(b) \in 0 .. EventCount
  /\ \A a, b \in 0 .. BatchCount : a < b => EndOf(a) < EndOf(b)

\* Times are positive and the file is in time order.
ASSUME StampAssumption ==
  /\ \A e \in Events : Stamp(e) \in Nat \ {0}
  /\ \A d, e \in Events : d <= e => Stamp(d) <= Stamp(e)

ASSUME UseAssumption ==
  /\ NoProc \notin Procs
  /\ Windows \subseteq [from : Nat, to : Nat]
  /\ CacheSize \in Nat \ {0} /\ MaxFaults \in Nat

VARIABLES
  status,  \* dom_sources.status, "ABSENT" without a row
  until,   \* dom_sources.indexed_until_ms
  rows,    \* dom_events: the events stored
  lock,    \* the process that holds the lock file of the source
  worker,  \* what the index thread of a process is doing
  batch,   \* the batch its thread writes next
  query,   \* the request of a process
  cache,   \* _file_cache: windows and their events, least recently used first
  faults   \* errors and crashes so far

index == <<status, until, rows>>
vars  == <<status, until, rows, lock, worker, batch, query, cache, faults>>

-----------------------------------------------------------------------------
(* Requests.                                                               *)

InWindow(w) == {e \in Events : w.from <= Stamp(e) /\ Stamp(e) <= w.to}

NoQuery == [phase |-> "none"]

\* While the rows of a window are selected: exact says that the status read
\* before promised the whole window, disturbed that a rebuild has started
\* since.  Both are history; the code looks at neither again.
Selecting(w, through, exact) ==
  [phase |-> "selecting", window |-> w, through |-> through,
   exact |-> exact, disturbed |-> FALSE]

Scanning(w, through) ==
  [phase |-> "scanning", window |-> w, through |-> through]

Entry(w, events, exact, disturbed) ==
  [window |-> w, events |-> events, exact |-> exact, disturbed |-> disturbed]

\* Mutant of Remember: the cache is not trimmed.
RememberAll(p, entry) == Append(cache[p], entry)

\* A loaded window goes to the end of the cache; the oldest falls out.  It was
\* not cached: Ask would have answered from the cache.
Remember(p, entry) ==
  LET all == Append(cache[p], entry)
  IN  IF Len(all) > CacheSize THEN Tail(all) ELSE all

\* The places of the cached windows that answer w: itself, or one around it.
Hits(p, w) ==
  {i \in DOMAIN cache[p] :
     cache[p][i].window.from <= w.from /\ w.to <= cache[p][i].window.to}

\* The one that does: w itself if it is cached, else the last one around it.
Chosen(p, w) ==
  {i \in Hits(p, w) :
     \A j \in Hits(p, w) :
       \/ cache[p][i].window = w
       \/ cache[p][j].window # w /\ j <= i}

\* The cached window goes to the end of the cache.
Used(p, i) == Append(RemoveAt(cache[p], i), cache[p][i])

\* A finished index answers any window, an unfinished one what ends by
\* indexed_until_ms.
Covered(w) ==
  /\ status # "ABSENT"
  /\ status = "READY" \/ until >= w.to

\* The window ends before indexed_until_ms, not with it.
Exact(w) == status = "READY" \/ until > w.to

\* events_for_window, up to its first look at the index.
Ask(p, w, through) ==
  /\ query[p] = NoQuery
  /\ IF Hits(p, w) # {}
     THEN /\ \E i \in Chosen(p, w) : cache' = [cache EXCEPT ![p] = Used(p, i)]
          /\ UNCHANGED query
     ELSE /\ query' = [query EXCEPT ![p] =
                         IF Covered(w) THEN Selecting(w, through, Exact(w))
                         ELSE Scanning(w, through)]
          /\ UNCHANGED cache
  /\ UNCHANGED <<index, lock, worker, batch, faults>>

\* The rows of the window are selected and kept, complete or not.
Select(p) ==
  /\ query[p].phase = "selecting"
  /\ LET q == query[p]
         found == rows \cap InWindow(q.window)
     IN  cache' = [cache EXCEPT ![p] =
                     Remember(p, Entry(q.window, found, q.exact, q.disturbed))]
  /\ query' = [query EXCEPT ![p] = NoQuery]
  /\ UNCHANGED <<index, lock, worker, batch, faults>>

\* An error of the database sends the request to the file.
SelectFails(p) ==
  /\ query[p].phase = "selecting" /\ faults < MaxFaults
  /\ query' = [query EXCEPT ![p] = Scanning(@.window, @.through)]
  /\ faults' = faults + 1
  /\ UNCHANGED <<index, lock, worker, batch, cache>>

\* _start_indexing: no thread of this process is alive, nothing is finished.
MayStart(p) == worker[p] = "idle" /\ status # "READY"

\* _events_from_path_once: the file is scanned and its window kept.
Scanned(p) ==
  /\ query[p].phase = "scanning"
  /\ LET w == query[p].window
     IN  cache' = [cache EXCEPT ![p] = Remember(p, Entry(w, InWindow(w), TRUE, FALSE))]
  /\ query' = [query EXCEPT ![p] = NoQuery]
  /\ UNCHANGED <<index, lock, batch>>

\* Reading through the file starts the index thread, which waits three
\* seconds first.
Scan(p) ==
  /\ Scanned(p)
  /\ worker' = IF query[p].through /\ MayStart(p)
               THEN [worker EXCEPT ![p] = "waiting"] ELSE worker
  /\ UNCHANGED faults

\* _index_status finds no status when it cannot read the database, and so a
\* finished index is built once more.
ScanUnread(p) ==
  /\ query[p].phase = "scanning" /\ query[p].through
  /\ worker[p] = "idle" /\ status = "READY" /\ faults < MaxFaults
  /\ Scanned(p)
  /\ worker' = [worker EXCEPT ![p] = "waiting"]
  /\ faults' = faults + 1

-----------------------------------------------------------------------------
(* The index thread.                                                       *)

\* Mutant of LockFree: the lock file is opened but not locked.
LockIgnored == TRUE

LockFree == lock = NoProc

Release(p) == IF lock = p THEN NoProc ELSE lock

\* The timer fires: the thread takes the lock of the source or gives up.  It
\* does not look at the status again.
Fire(p) ==
  /\ worker[p] = "waiting"
  /\ IF LockFree
     THEN lock' = p /\ worker' = [worker EXCEPT ![p] = "locked"]
     ELSE worker' = [worker EXCEPT ![p] = "idle"] /\ UNCHANGED lock
  /\ UNCHANGED <<index, batch, query, cache, faults>>

\* Mutant of Cleared: the build resumes on what an earlier one left.
Resumed == rows

Cleared == {}

Disturbed(q) ==
  IF q.phase = "selecting" THEN [q EXCEPT !.disturbed = TRUE] ELSE q

\* First transaction: everything stored is deleted, the source is RUNNING.
Begin(p) ==
  /\ worker[p] = "locked"
  /\ status' = "RUNNING" /\ until' = 0 /\ rows' = Cleared
  /\ worker' = [worker EXCEPT ![p] = "building"]
  /\ batch' = [batch EXCEPT ![p] = 1]
  /\ query' = [q \in Procs |-> Disturbed(query[q])]
  /\ UNCHANGED <<lock, cache, faults>>

\* Mutant of NextRows: the first event of a batch is skipped.
NextRowsShort(p) == (EndOf(batch[p] - 1) + 2) .. EndOf(batch[p])

NextRows(p) == (EndOf(batch[p] - 1) + 1) .. EndOf(batch[p])

\* Mutant of Reached: everything of the batch's last millisecond is stored.
ReachedAhead(p) == Stamp(EndOf(batch[p])) + 1

Reached(p) == Stamp(EndOf(batch[p]))

\* One transaction per batch.  An ordinal that is already stored violates the
\* unique index and ends the build.
WriteBatch(p) ==
  /\ worker[p] = "building" /\ batch[p] <= BatchCount
  /\ IF NextRows(p) \cap rows = {}
     THEN /\ rows' = rows \cup NextRows(p)
          /\ until' = Reached(p)
          /\ batch' = [batch EXCEPT ![p] = @ + 1]
          /\ UNCHANGED <<lock, worker>>
     ELSE /\ worker' = [worker EXCEPT ![p] = "failing"]
          /\ lock' = Release(p)
          /\ UNCHANGED <<until, rows, batch>>
  /\ UNCHANGED <<status, query, cache, faults>>

\* The last transaction; the lock is released and the thread ends.
Finish(p) ==
  /\ worker[p] = "building" /\ batch[p] = BatchCount + 1
  /\ status' = "READY" /\ until' = Stamp(EventCount)
  /\ worker' = [worker EXCEPT ![p] = "idle"]
  /\ lock' = Release(p)
  /\ UNCHANGED <<rows, batch, query, cache, faults>>

\* An exception: leaving the block releases the lock before it is handled.
Fail(p) ==
  /\ worker[p] \in {"waiting", "locked", "building"} /\ faults < MaxFaults
  /\ worker' = [worker EXCEPT ![p] = "failing"]
  /\ lock' = Release(p)
  /\ faults' = faults + 1
  /\ UNCHANGED <<index, batch, query, cache>>

\* The handler marks the source, without the lock; a database error is ignored.
RecordError(p) ==
  /\ worker[p] = "failing"
  /\ status' \in {status, IF status = "ABSENT" THEN status ELSE "ERROR"}
  /\ worker' = [worker EXCEPT ![p] = "idle"]
  /\ UNCHANGED <<until, rows, lock, batch, query, cache, faults>>

\* The process dies and is started again: the system frees its lock, the
\* database keeps what was committed.
Crash(p) ==
  /\ faults < MaxFaults
  /\ worker' = [worker EXCEPT ![p] = "idle"]
  /\ batch' = [batch EXCEPT ![p] = 1]
  /\ lock' = Release(p)
  /\ query' = [query EXCEPT ![p] = NoQuery]
  /\ cache' = [cache EXCEPT ![p] = <<>>]
  /\ faults' = faults + 1
  /\ UNCHANGED index

-----------------------------------------------------------------------------

Init ==
  /\ status = "ABSENT" /\ until = 0 /\ rows = {}
  /\ lock = NoProc
  /\ worker = [p \in Procs |-> "idle"]
  /\ batch = [p \in Procs |-> 1]
  /\ query = [p \in Procs |-> NoQuery]
  /\ cache = [p \in Procs |-> <<>>]
  /\ faults = 0

Serve(p) == Select(p) \/ Scan(p)
Build(p) == Fire(p) \/ Begin(p) \/ WriteBatch(p) \/ Finish(p) \/ RecordError(p)

Next ==
  \E p \in Procs :
    \/ \E w \in Windows, through \in BOOLEAN : Ask(p, w, through)
    \/ Serve(p)
    \/ SelectFails(p) \/ ScanUnread(p)
    \/ Build(p)
    \/ Fail(p)
    \/ Crash(p)

Spec == Init /\ [][Next]_vars

-----------------------------------------------------------------------------
(* Properties.                                                             *)

QueryType ==
  {NoQuery}
    \cup [phase : {"selecting"}, window : Windows, through : BOOLEAN,
          exact : BOOLEAN, disturbed : BOOLEAN]
    \cup [phase : {"scanning"}, window : Windows, through : BOOLEAN]

EntryType ==
  [window : Windows, events : SUBSET Events, exact : BOOLEAN, disturbed : BOOLEAN]

\* Type correctness; a cache never outgrows its size.
TypeOK ==
  /\ status \in {"ABSENT", "RUNNING", "READY", "ERROR"}
  /\ until \in Nat /\ rows \subseteq Events
  /\ lock \in Procs \cup {NoProc}
  /\ worker \in [Procs -> {"idle", "waiting", "locked", "building", "failing"}]
  /\ batch \in [Procs -> 1 .. BatchCount + 1]
  /\ query \in [Procs -> QueryType]
  /\ cache \in [Procs -> Seq(EntryType)]
  /\ \A p \in Procs : Len(cache[p]) <= CacheSize
  /\ faults \in 0 .. MaxFaults

\* A source is READY only with every event of the file stored, whichever
\* processes built it, failed, or died on the way.
ReadyIsComplete == status = "READY" => rows = Events

\* What is stored is always a prefix of the file, cut where a batch ends:
\* an interrupted build leaves no hole for the next one to miss.
StoredIsPrefix == \E b \in 0 .. BatchCount : rows = UpTo(b)

\* What _events_from_index relies on when it answers from an unfinished build:
\* every event before indexed_until_ms is stored.
UntilIsStored == \A e \in Events : Stamp(e) < until => e \in rows

Cached(p) == {cache[p][i] : i \in DOMAIN cache[p]}

\* A window that was loaded while no rebuild began, from the file, a finished
\* index, or an unfinished one that reached beyond it, misses no event.
QuietLoadsComplete ==
  \A p \in Procs : \A e \in Cached(p) :
    e.exact /\ ~e.disturbed => e.events = InWindow(e.window)

\* As long as errors stop, so do scans of the file: eventually the index
\* answers whatever the caches do not.
ScansStop == ~[]<><<\E p \in Procs : query[p].phase = "scanning" /\ query[p].through /\ Scan(p)>>_vars

\* What the comment in _build_index_for_path_locked says of interrupted builds,
\* that they are lossless: also a window that ends exactly at indexed_until_ms
\* is complete when the index answers it.
InterruptedBuildsLossless ==
  \A p \in Procs : \A e \in Cached(p) :
    ~e.disturbed => e.events = InWindow(e.window)

=============================================================================
