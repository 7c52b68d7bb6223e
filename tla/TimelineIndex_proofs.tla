------------------------- MODULE TimelineIndex_proofs -------------------------
(***************************************************************************)
(* Theorems about TimelineIndex and about RefillScan over it, for any      *)
(* number of processes, any file and any number of errors and crashes.     *)
(*                                                                         *)
(* The invariant behind them says who may write: the thread that holds the *)
(* lock file.  From its first transaction on the source is not READY and   *)
(* exactly the batches the thread has written are stored; whatever errors  *)
(* and crashes it leaves behind is some number of whole batches.  Of a     *)
(* scan it says that, met by no rebuild, it finds and has read what the    *)
(* version it began with vouches for, as far as it has come.  The last     *)
(* part is about the loop that decides whether stored windows answer.      *)
(***************************************************************************)
EXTENDS RefillScan, FiniteSetTheorems, SequenceTheorems, TLAPS

\* What the theorems need of the types.
Typed ==
  /\ until \in Nat
  /\ worker \in [Procs -> {"idle", "waiting", "locked", "building", "failing"}]
  /\ batch \in [Procs -> 1 .. BatchCount + 1]
  /\ lock \in Procs \cup {NoProc}

\* A thread that may write holds the lock, and only such a thread does.
Locked == \A p \in Procs : lock = p <=> worker[p] \in {"locked", "building"}

\* b batches are stored, and indexed_until_ms says so.
Holds(b) ==
  /\ b \in 0 .. BatchCount /\ rows = UpTo(b)
  /\ until = IF b = 0 THEN 0 ELSE Stamp(EndOf(b))

Prefix == \E b \in 0 .. BatchCount : Holds(b)

Building ==
  \A p \in Procs : worker[p] = "building" =>
    status \notin {"READY", "ABSENT"} /\ Holds(batch[p] - 1)

IndexInv == Typed /\ Locked /\ Prefix /\ Building /\ ReadyIsComplete

-----------------------------------------------------------------------------

LEMMA BatchEnds ==
  ASSUME NEW b \in 1 .. BatchCount
  PROVE  /\ EndOf(b) \in Events /\ EndOf(b - 1) \in 0 .. EventCount
         /\ EndOf(b - 1) < EndOf(b)
  BY FileAssumption DEF Events

LEMMA LastBatch == BatchCount > 0 /\ UpTo(BatchCount) = Events
  BY FileAssumption DEF UpTo, Events

LEMMA NothingStored == UpTo(0) = {} /\ 0 \in 0 .. BatchCount
  BY FileAssumption DEF UpTo

LEMMA NextBatch ==
  ASSUME NEW p \in Procs, batch[p] \in 1 .. BatchCount
  PROVE  /\ UpTo(batch[p] - 1) \cap NextRows(p) = {}
         /\ UpTo(batch[p] - 1) \cup NextRows(p) = UpTo(batch[p])
         /\ Stamp(EndOf(batch[p])) \in Nat
  BY BatchEnds, StampAssumption DEF UpTo, NextRows, Events

LEMMA InitIndex == Init => IndexInv
<1> SUFFICES ASSUME Init PROVE IndexInv
  OBVIOUS
<1>1. Typed /\ Locked /\ Building
  BY FileAssumption, UseAssumption DEF Init, Typed, Locked, Building
<1>2. Holds(0)
  BY NothingStored DEF Init, Holds
<1>3. Prefix
  BY <1>2, NothingStored DEF Prefix
<1>4. ReadyIsComplete
  BY DEF Init, ReadyIsComplete
<1> QED
  BY <1>1, <1>3, <1>4 DEF IndexInv

\* A step that leaves the index alone and lets no thread get ahead.
LEMMA QuietStep ==
  ASSUME IndexInv, Typed', UNCHANGED <<status, rows, until>>, Locked',
         \A p \in Procs : worker'[p] = "building" =>
           worker[p] = "building" /\ batch'[p] = batch[p]
  PROVE  IndexInv'
<1>1. \A b : Holds(b) => Holds(b)'
  BY DEF Holds
<1>2. Prefix'
  BY <1>1 DEF IndexInv, Prefix
<1>3. Building'
  BY <1>1 DEF IndexInv, Building
<1>4. ReadyIsComplete'
  BY DEF IndexInv, ReadyIsComplete
<1> QED
  BY <1>2, <1>3, <1>4 DEF IndexInv

LEMMA FireKeeps ==
  ASSUME IndexInv, NEW p \in Procs, Fire(p)
  PROVE  IndexInv'
<1>1. Typed'
  BY DEF IndexInv, Typed, Fire, index
<1>2. Locked'
  BY UseAssumption DEF IndexInv, Typed, Locked, Fire, LockFree
<1>3. UNCHANGED <<status, rows, until>>
  BY DEF Fire, index
<1>4. \A q \in Procs : worker'[q] = "building" =>
        worker[q] = "building" /\ batch'[q] = batch[q]
  BY DEF IndexInv, Typed, Fire
<1> QED
  BY <1>1, <1>2, <1>3, <1>4, QuietStep

LEMMA BeginKeeps ==
  ASSUME IndexInv, NEW p \in Procs, Begin(p)
  PROVE  IndexInv'
<1>1. Typed'
  BY FileAssumption DEF IndexInv, Typed, Begin
<1>2. Locked'
  BY DEF IndexInv, Typed, Locked, Begin
<1>3. Holds(0)'
  BY NothingStored DEF Begin, Holds, Cleared
<1>4. Prefix'
  BY <1>3, NothingStored DEF Prefix
<1>5. \A q \in Procs : worker'[q] = "building" => q = p
  BY DEF IndexInv, Typed, Locked, Begin
<1>6. Building'
  <2>1. batch'[p] - 1 = 0
    BY DEF IndexInv, Typed, Begin
  <2> QED
    BY <2>1, <1>3, <1>5 DEF Building, Begin
<1>7. ReadyIsComplete'
  BY DEF Begin, ReadyIsComplete
<1> QED
  BY <1>1, <1>2, <1>4, <1>6, <1>7 DEF IndexInv

\* The ordinal of a batch is never taken: only this thread writes.
LEMMA WriteKeeps ==
  ASSUME IndexInv, NEW p \in Procs, WriteBatch(p)
  PROVE  IndexInv'
<1>1. PICK b \in 1 .. BatchCount : b = batch[p]
  BY FileAssumption DEF IndexInv, Typed, WriteBatch
<1>2. rows = UpTo(b - 1) /\ status \notin {"READY", "ABSENT"}
  BY <1>1 DEF IndexInv, Building, Holds, WriteBatch
<1>3. /\ rows' = rows \cup NextRows(p) /\ until' = Reached(p)
      /\ batch' = [batch EXCEPT ![p] = @ + 1]
      /\ UNCHANGED <<lock, worker, status>>
  BY <1>1, <1>2, NextBatch DEF WriteBatch
<1>4. Holds(b)'
  BY <1>1, <1>2, <1>3, NextBatch DEF Holds, Reached
<1>5. Typed'
  BY <1>1, <1>3, NextBatch, FileAssumption DEF IndexInv, Typed, Reached
<1>6. Locked'
  BY <1>3 DEF IndexInv, Locked
<1>7. Prefix'
  BY <1>1, <1>4 DEF Prefix
<1>8. Building'
  <2>1. \A q \in Procs : worker'[q] = "building" => q = p
    BY <1>3 DEF IndexInv, Locked, WriteBatch
  <2>2. batch'[p] - 1 = b
    BY <1>1, <1>3 DEF IndexInv, Typed
  <2> QED
    BY <2>1, <2>2, <1>2, <1>3, <1>4 DEF Building
<1>9. ReadyIsComplete'
  BY <1>2, <1>3 DEF ReadyIsComplete
<1> QED
  BY <1>5, <1>6, <1>7, <1>8, <1>9 DEF IndexInv

LEMMA FinishKeeps ==
  ASSUME IndexInv, NEW p \in Procs, Finish(p)
  PROVE  IndexInv'
<1>1. rows = Events /\ rows' = Events /\ rows = UpTo(BatchCount)
  BY FileAssumption, LastBatch DEF IndexInv, Typed, Building, Holds, Finish
<1>2. until' = Stamp(EndOf(BatchCount)) /\ until' \in Nat
  BY FileAssumption, StampAssumption DEF Finish, Events
<1>3. Typed'
  BY <1>2 DEF IndexInv, Typed, Finish, Release
<1>4. lock = p /\ lock' = NoProc
  BY DEF IndexInv, Locked, Finish, Release
<1>5. \A q \in Procs : worker'[q] \notin {"locked", "building"}
  BY <1>4 DEF IndexInv, Typed, Locked, Finish
<1>6. Locked'
  BY <1>4, <1>5, UseAssumption DEF Locked
<1>7. Holds(BatchCount)'
  BY <1>1, <1>2, LastBatch, FileAssumption DEF Holds
<1>8. Prefix'
  BY <1>7, FileAssumption DEF Prefix
<1>9. Building' /\ ReadyIsComplete'
  BY <1>1, <1>5 DEF Building, ReadyIsComplete
<1> QED
  BY <1>3, <1>6, <1>8, <1>9 DEF IndexInv

\* Fail and Crash: the thread of p stops and its lock, if it has it, is freed.
LEMMA StopKeeps ==
  ASSUME IndexInv, NEW p \in Procs, UNCHANGED <<status, rows, until>>,
         NEW to \in {"idle", "failing"}, worker' = [worker EXCEPT ![p] = to],
         lock' = Release(p), batch' = batch \/ batch' = [batch EXCEPT ![p] = 1]
  PROVE  IndexInv'
<1>1. Typed'
  BY FileAssumption DEF IndexInv, Typed, Release
<1>2. Locked'
  BY UseAssumption DEF IndexInv, Typed, Locked, Release
<1>3. \A q \in Procs : worker'[q] = "building" =>
        worker[q] = "building" /\ batch'[q] = batch[q]
  BY DEF IndexInv, Typed
<1> QED
  BY <1>1, <1>2, <1>3, QuietStep

LEMMA RecordKeeps ==
  ASSUME IndexInv, NEW p \in Procs, RecordError(p)
  PROVE  IndexInv'
<1>1. Typed'
  BY DEF IndexInv, Typed, RecordError
<1>2. Locked'
  BY DEF IndexInv, Typed, Locked, RecordError
<1>3. \A b : Holds(b) => Holds(b)'
  BY DEF Holds, RecordError
<1>4. Prefix'
  BY <1>3 DEF IndexInv, Prefix
<1>5. /\ status' = "READY" => status = "READY"
      /\ status # "ABSENT" => status' # "ABSENT"
  BY DEF RecordError
<1>6. \A q \in Procs : worker'[q] = "building" =>
        worker[q] = "building" /\ batch'[q] = batch[q]
  BY DEF IndexInv, Typed, RecordError
<1>7. Building'
  BY <1>3, <1>5, <1>6 DEF IndexInv, Building
<1>8. ReadyIsComplete'
  BY <1>5 DEF IndexInv, ReadyIsComplete, RecordError
<1> QED
  BY <1>1, <1>2, <1>4, <1>7, <1>8 DEF IndexInv

\* A scan only sets the timer of its own process.
LEMMA ScanKeeps ==
  ASSUME IndexInv, NEW p \in Procs, Scan(p) \/ ScanUnread(p)
  PROVE  IndexInv'
<1>1. /\ UNCHANGED <<index, lock, batch>>
      /\ \/ worker' = worker
         \/ worker[p] = "idle" /\ worker' = [worker EXCEPT ![p] = "waiting"]
  BY DEF Scan, ScanUnread, Scanned, MayStart
<1>2. Typed'
  BY <1>1 DEF IndexInv, Typed, index
<1>3. Locked'
  BY <1>1 DEF IndexInv, Typed, Locked
<1>4. UNCHANGED <<status, rows, until>>
  BY <1>1 DEF index
<1>5. \A q \in Procs : worker'[q] = "building" =>
        worker[q] = "building" /\ batch'[q] = batch[q]
  BY <1>1 DEF IndexInv, Typed
<1> QED
  BY <1>2, <1>3, <1>4, <1>5, QuietStep

LEMMA RestKeeps ==
  ASSUME IndexInv, UNCHANGED <<index, lock, worker, batch>>
  PROVE  IndexInv'
<1>1. Typed' /\ Locked'
  BY DEF IndexInv, Typed, Locked, index
<1> QED
  BY <1>1, QuietStep DEF index

LEMMA IndexInvStep == IndexInv /\ [Next]_vars => IndexInv'
<1> SUFFICES ASSUME IndexInv, [Next]_vars
             PROVE  IndexInv'
  OBVIOUS
<1>1. ASSUME NEW p \in Procs, NEW w \in Windows, NEW through \in BOOLEAN,
             Ask(p, w, through)
      PROVE  IndexInv'
  BY <1>1, RestKeeps DEF Ask
<1>2. ASSUME NEW p \in Procs, Serve(p)
      PROVE  IndexInv'
  BY <1>2, RestKeeps, ScanKeeps DEF Serve, Select
<1>3. ASSUME NEW p \in Procs, SelectFails(p) \/ ScanUnread(p)
      PROVE  IndexInv'
  BY <1>3, RestKeeps, ScanKeeps DEF SelectFails
<1>4. ASSUME NEW p \in Procs, Build(p)
      PROVE  IndexInv'
  BY <1>4, FireKeeps, BeginKeeps, WriteKeeps, FinishKeeps, RecordKeeps DEF Build
<1>5. ASSUME NEW p \in Procs, Fail(p)
      PROVE  IndexInv'
  BY <1>5, StopKeeps DEF Fail, index
<1>6. ASSUME NEW p \in Procs, Crash(p)
      PROVE  IndexInv'
  BY <1>6, StopKeeps DEF Crash, index
<1>7. CASE UNCHANGED vars
  BY <1>7, RestKeeps DEF vars, index
<1> QED
  BY <1>1, <1>2, <1>3, <1>4, <1>5, <1>6, <1>7 DEF Next

LEMMA IndexKept == Spec => []IndexInv
  BY InitIndex, IndexInvStep, PTL DEF Spec

\* A READY source holds every event of the file.
THEOREM ReadyMeansComplete == Spec => []ReadyIsComplete
<1>1. IndexInv => ReadyIsComplete
  BY DEF IndexInv
<1> QED
  BY <1>1, IndexKept, PTL

\* What is stored is always a number of whole batches from the start of the file.
THEOREM StoredStaysPrefix == Spec => []StoredIsPrefix
<1>1. IndexInv => StoredIsPrefix
  BY DEF IndexInv, Prefix, Holds, StoredIsPrefix
<1> QED
  BY <1>1, IndexKept, PTL

\* Every event before indexed_until_ms is stored.
LEMMA HeldUntil ==
  ASSUME NEW b \in 0 .. BatchCount, Holds(b), NEW e \in Events, Stamp(e) < until
  PROVE  e \in rows
<1>1. Stamp(e) \in Nat /\ e \in Nat
  BY StampAssumption DEF Events
<1>2. b > 0 /\ until = Stamp(EndOf(b))
  BY <1>1 DEF Holds
<1>3. EndOf(b) \in Events
  BY <1>2, BatchEnds
<1>4. Stamp(EndOf(b)) \in Nat
  BY <1>3, StampAssumption
<1>5. e <= EndOf(b)
  <2>1. SUFFICES ASSUME EndOf(b) <= e PROVE FALSE
    BY <1>3 DEF Events
  <2>2. Stamp(EndOf(b)) <= Stamp(e)
    BY <2>1, <1>3, StampAssumption
  <2> QED
    BY <2>2, <1>1, <1>2, <1>4
<1> QED
  BY <1>3, <1>5 DEF Holds, UpTo, Events

\* An index that is still being built can answer every window that ends before
\* its indexed_until_ms.
THEOREM UntilStaysStored == Spec => []UntilIsStored
<1>1. IndexInv => UntilIsStored
  BY HeldUntil DEF IndexInv, Prefix, UntilIsStored
<1> QED
  BY <1>1, IndexKept, PTL

-----------------------------------------------------------------------------
(* Requests and caches.                                                    *)

\* An entry that goes to the end of a cache drives out no other.
LEMMA MovedToEnd ==
  ASSUME NEW T, NEW s \in Seq(T), NEW i \in DOMAIN s
  PROVE  /\ Append(RemoveAt(s, i), s[i]) \in Seq(T)
         /\ Len(Append(RemoveAt(s, i), s[i])) = Len(s)
         /\ \A j \in 1 .. Len(s) : \E k \in DOMAIN s : Append(RemoveAt(s, i), s[i])[j] = s[k]
<1> DEFINE moved == Append(RemoveAt(s, i), s[i])
           a == SubSeq(s, 1, i - 1)
           b == SubSeq(s, i + 1, Len(s))
<1>1. i \in 1 .. Len(s) /\ Len(s) \in Nat /\ \A j \in 1 .. Len(s) : s[j] \in T
  OBVIOUS
<1>2. a \in Seq(T) /\ Len(a) = i - 1 /\ \A j \in 1 .. i - 1 : a[j] = s[j]
  BY <1>1, SubSeqProperties
<1>3. /\ b \in Seq(T) /\ Len(b) = Len(s) - i
      /\ \A j \in 1 .. Len(s) - i : b[j] = s[i + j]
  <2>1. \A j \in i + 1 .. Len(s) : s[j] \in T
    BY <1>1
  <2>2. i + 1 \in Int /\ Len(s) \in Int
    BY <1>1
  <2>3. /\ b \in Seq(T)
        /\ Len(b) = IF i + 1 <= Len(s) THEN Len(s) - (i + 1) + 1 ELSE 0
        /\ \A j \in 1 .. Len(s) - (i + 1) + 1 : b[j] = s[(i + 1) + j - 1]
    BY <2>1, <2>2, SubSeqProperties, SMTT(30)
  <2> QED
    BY <1>1, <2>3
<1> HIDE DEF a, b
<1>4. /\ a \o b \in Seq(T) /\ Len(a \o b) = Len(s) - 1
      /\ \A j \in 1 .. Len(s) - 1 : (a \o b)[j] = IF j < i THEN s[j] ELSE s[j + 1]
  <2>1. /\ a \o b \in Seq(T) /\ Len(a \o b) = Len(a) + Len(b)
        /\ \A j \in 1 .. Len(a) + Len(b) :
             (a \o b)[j] = IF j <= Len(a) THEN a[j] ELSE b[j - Len(a)]
    BY <1>2, <1>3, ConcatProperties
  <2>2. Len(a) + Len(b) = Len(s) - 1
    BY <1>1, <1>2, <1>3
  <2>3. ASSUME NEW j \in 1 .. Len(s) - 1
        PROVE  (a \o b)[j] = IF j < i THEN s[j] ELSE s[j + 1]
    <3>a. (a \o b)[j] = IF j <= i - 1 THEN a[j] ELSE b[j - (i - 1)]
      <4>1. j \in 1 .. Len(a) + Len(b)
        BY <2>2
      <4>2. (a \o b)[j] = IF j <= Len(a) THEN a[j] ELSE b[j - Len(a)]
        BY <2>1, <4>1
      <4> QED
        BY <1>2, <4>2
    <3>b. i \in Int /\ j \in Int /\ 1 <= j
      BY <1>1
    <3>1. CASE j < i
      <4>1. j \in 1 .. i - 1
        BY <3>1, <3>b
      <4>2. a[j] = s[j]
        BY <1>2, <4>1
      <4> QED
        BY <3>1, <3>a, <3>b, <4>2
    <3>2. CASE ~ (j < i)
      <4>1. (a \o b)[j] = b[j - (i - 1)]
        BY <3>2, <3>a, <3>b
      <4>2. j - (i - 1) \in 1 .. Len(s) - i /\ i + (j - (i - 1)) = j + 1
        BY <1>1, <3>2
      <4>3. b[j - (i - 1)] = s[j + 1]
        BY <1>3, <4>2
      <4> QED
        BY <3>2, <4>1, <4>3
    <3> QED
      BY <3>1, <3>2
  <2> QED
    BY <2>1, <2>2, <2>3
<1>5. moved = Append(a \o b, s[i])
  BY DEF RemoveAt, a, b
<1>6. /\ moved \in Seq(T) /\ Len(moved) = Len(s)
      /\ \A j \in 1 .. Len(s) : moved[j] = IF j < Len(s) THEN (a \o b)[j] ELSE s[i]
  BY <1>1, <1>4, <1>5
<1> HIDE DEF moved
<1>7. ASSUME NEW j \in 1 .. Len(s) PROVE \E k \in 1 .. Len(s) : moved[j] = s[k]
  <2>1. CASE j = Len(s)
    BY <1>1, <1>6, <2>1
  <2>2. CASE j < Len(s)
    <3>1. j \in 1 .. Len(s) - 1 /\ j + 1 \in 1 .. Len(s)
      BY <1>1, <2>2
    <3>2. moved[j] = IF j < i THEN s[j] ELSE s[j + 1]
      BY <1>4, <1>6, <2>2, <3>1
    <3> QED
      BY <3>1, <3>2
  <2> QED
    BY <1>1, <2>1, <2>2
<1>8. DOMAIN s = 1 .. Len(s)
  BY <1>1
<1>9. /\ moved \in Seq(T) /\ Len(moved) = Len(s)
      /\ \A j \in 1 .. Len(s) : \E k \in DOMAIN s : moved[j] = s[k]
  BY <1>6, <1>7, <1>8
<1> QED
  BY <1>9 DEF moved

LEMMA UsedKeeps ==
  ASSUME NEW p \in Procs, cache[p] \in Seq(EntryType), NEW i \in DOMAIN cache[p]
  PROVE  /\ Used(p, i) \in Seq(EntryType)
         /\ Len(Used(p, i)) = Len(cache[p])
         /\ \A j \in DOMAIN Used(p, i) : Used(p, i)[j] \in Cached(p)
<1>1. /\ Used(p, i) \in Seq(EntryType) /\ Len(Used(p, i)) = Len(cache[p])
      /\ \A j \in 1 .. Len(cache[p]) : \E k \in DOMAIN cache[p] : Used(p, i)[j] = cache[p][k]
  BY MovedToEnd DEF Used
<1> QED
  BY <1>1 DEF Cached

LEMMA RememberKeeps ==
  ASSUME NEW p \in Procs, cache[p] \in Seq(EntryType), Len(cache[p]) <= CacheSize,
         NEW entry \in EntryType
  PROVE  /\ Remember(p, entry) \in Seq(EntryType)
         /\ Len(Remember(p, entry)) <= CacheSize
         /\ \A j \in DOMAIN Remember(p, entry) :
              Remember(p, entry)[j] \in Cached(p) \cup {entry}
<1> DEFINE all == Append(cache[p], entry)
<1>1. /\ all \in Seq(EntryType) /\ Len(all) = Len(cache[p]) + 1
      /\ \A j \in 1 .. Len(all) : all[j] \in Cached(p) \cup {entry}
  BY DEF Cached
<1> HIDE DEF all
<1>2. Tail(all) \in Seq(EntryType) /\ Len(Tail(all)) = Len(all) - 1
  BY <1>1
<1>3. \A j \in 1 .. Len(all) - 1 : Tail(all)[j] = all[j + 1]
  BY <1>1
<1>4. Remember(p, entry) = IF Len(all) > CacheSize THEN Tail(all) ELSE all
  BY DEF Remember, all
<1>5. CacheSize \in Nat /\ Len(cache[p]) \in Nat
  BY UseAssumption
<1> QED
  BY <1>1, <1>2, <1>3, <1>4, <1>5, SMTT(30)

-----------------------------------------------------------------------------

Queries ==
  /\ status \in {"ABSENT", "RUNNING", "READY", "ERROR"}
  /\ rows \subseteq Events
  /\ query \in [Procs -> QueryType]
  /\ cache \in [Procs -> Seq(EntryType)]
  /\ \A p \in Procs : Len(cache[p]) <= CacheSize
  /\ faults \in 0 .. MaxFaults

\* A select that no rebuild disturbed still finds everything it was promised.
QuietSelects ==
  \A p \in Procs :
    query[p].phase = "selecting" /\ query[p].exact /\ ~query[p].disturbed
      => InWindow(query[p].window) \subseteq rows

ServeInv == IndexInv /\ Queries /\ QuietSelects /\ QuietLoadsComplete

LEMMA InitServe == Init => ServeInv
<1> SUFFICES ASSUME Init PROVE ServeInv
  OBVIOUS
<1>1. Queries
  BY UseAssumption DEF Init, Queries, QueryType
<1>2. QuietSelects /\ QuietLoadsComplete
  BY DEF Init, QuietSelects, QuietLoadsComplete, Cached, NoQuery
<1> QED
  BY <1>1, <1>2, InitIndex DEF ServeInv

\* What makes a promise: a finished index, or one that reached beyond the window.
LEMMA ExactPromise ==
  ASSUME IndexInv, NEW w \in Windows, Exact(w)
  PROVE  InWindow(w) \subseteq rows
<1>1. w.to \in Nat
  BY UseAssumption
<1>2. CASE status = "READY"
  BY <1>2 DEF IndexInv, ReadyIsComplete, InWindow
<1>3. CASE until > w.to
  <2> SUFFICES ASSUME NEW e \in InWindow(w)
               PROVE  e \in rows
    OBVIOUS
  <2>1. e \in Events /\ Stamp(e) < until
    BY <1>1, <1>3, StampAssumption DEF InWindow, IndexInv, Typed
  <2> QED
    BY <2>1, HeldUntil DEF IndexInv, Prefix
<1> QED
  BY <1>2, <1>3 DEF Exact

\* A cache that only loses entries stays complete.
LEMMA CacheKept ==
  ASSUME QuietLoadsComplete, \A p \in Procs : Cached(p)' \subseteq Cached(p)
  PROVE  QuietLoadsComplete'
  BY DEF QuietLoadsComplete, InWindow

LEMMA AskServes ==
  ASSUME ServeInv, NEW p \in Procs, NEW w \in Windows, NEW through \in BOOLEAN,
         Ask(p, w, through)
  PROVE  Queries' /\ QuietSelects' /\ QuietLoadsComplete'
<1> USE DEF ServeInv
<1>1. CASE Hits(p, w) # {}
  <2>1. PICK i \in DOMAIN cache[p] : cache' = [cache EXCEPT ![p] = Used(p, i)]
    BY <1>1 DEF Ask, Chosen, Hits
  <2>2. UNCHANGED <<status, until, rows, query, faults>>
    BY <1>1 DEF Ask, index
  <2>3. /\ Used(p, i) \in Seq(EntryType) /\ Len(Used(p, i)) = Len(cache[p])
        /\ \A j \in DOMAIN Used(p, i) : Used(p, i)[j] \in Cached(p)
    BY UsedKeeps DEF Queries
  <2>4. Queries'
    BY <2>1, <2>2, <2>3 DEF Queries
  <2>5. \A q \in Procs : Cached(q)' \subseteq Cached(q)
    BY <2>1, <2>3 DEF Queries, Cached
  <2> QED
    BY <2>2, <2>4, <2>5, CacheKept DEF QuietSelects, InWindow
<1>2. CASE Hits(p, w) = {}
  <2> DEFINE new == IF Covered(w) THEN Selecting(w, through, Exact(w))
                    ELSE Scanning(w, through)
  <2>1. /\ query' = [query EXCEPT ![p] = new]
        /\ UNCHANGED <<status, until, rows, cache, faults>>
    BY <1>2 DEF Ask, index
  <2>2. new \in QueryType
    BY DEF QueryType, Selecting, Scanning, Exact
  <2>3. new.phase = "selecting" /\ new.exact => Exact(w) /\ new.window = w
    BY DEF Selecting, Scanning
  <2> HIDE DEF new
  <2>4. Queries'
    BY <2>1, <2>2 DEF Queries
  <2>5. QuietSelects'
    BY <2>1, <2>3, ExactPromise DEF QuietSelects, Queries, InWindow
  <2>6. \A q \in Procs : Cached(q)' \subseteq Cached(q)
    BY <2>1 DEF Cached
  <2> QED
    BY <2>4, <2>5, <2>6, CacheKept
<1> QED
  BY <1>1, <1>2

\* A request that is answered by a new entry, complete if it promises so.
LEMMA LoadServes ==
  ASSUME ServeInv, NEW p \in Procs, NEW entry \in EntryType,
         entry.exact /\ ~entry.disturbed => entry.events = InWindow(entry.window),
         cache' = [cache EXCEPT ![p] = Remember(p, entry)],
         query' = [query EXCEPT ![p] = NoQuery], faults' \in 0 .. MaxFaults,
         UNCHANGED <<status, until, rows>>
  PROVE  Queries' /\ QuietSelects' /\ QuietLoadsComplete'
<1> USE DEF ServeInv
<1>1. /\ Remember(p, entry) \in Seq(EntryType)
      /\ Len(Remember(p, entry)) <= CacheSize
      /\ \A j \in DOMAIN Remember(p, entry) :
           Remember(p, entry)[j] \in Cached(p) \cup {entry}
  BY RememberKeeps DEF Queries
<1>2. Queries'
  BY <1>1 DEF Queries, QueryType
<1>3. QuietSelects'
  BY DEF QuietSelects, Queries, InWindow, NoQuery
<1>4. \A q \in Procs : Cached(q)' \subseteq Cached(q) \cup {entry}
  BY <1>1 DEF Queries, Cached
<1>5. QuietLoadsComplete'
  BY <1>4 DEF QuietLoadsComplete, InWindow
<1> QED
  BY <1>2, <1>3, <1>5

LEMMA SelectServes ==
  ASSUME ServeInv, NEW p \in Procs, Select(p)
  PROVE  Queries' /\ QuietSelects' /\ QuietLoadsComplete'
<1> DEFINE q == query[p]
           entry == Entry(q.window, rows \cap InWindow(q.window), q.exact, q.disturbed)
<1>1. /\ q.window \in Windows /\ q.exact \in BOOLEAN /\ q.disturbed \in BOOLEAN
      /\ q.phase = "selecting"
  BY DEF ServeInv, Queries, QueryType, Select, NoQuery
<1>2. entry \in EntryType
  BY <1>1 DEF Entry, EntryType, ServeInv, Queries
<1>3. entry.exact /\ ~entry.disturbed => entry.events = InWindow(entry.window)
  BY <1>1 DEF Entry, ServeInv, QuietSelects
<1>4. /\ cache' = [cache EXCEPT ![p] = Remember(p, entry)]
      /\ query' = [query EXCEPT ![p] = NoQuery]
      /\ UNCHANGED <<status, until, rows>> /\ faults' \in 0 .. MaxFaults
  BY DEF Select, index, ServeInv, Queries
<1> HIDE DEF entry
<1> QED
  BY <1>2, <1>3, <1>4, LoadServes

LEMMA ScanServes ==
  ASSUME ServeInv, NEW p \in Procs, Scanned(p), faults' \in 0 .. MaxFaults
  PROVE  Queries' /\ QuietSelects' /\ QuietLoadsComplete'
<1> DEFINE w == query[p].window
           entry == Entry(w, InWindow(w), TRUE, FALSE)
<1>1. w \in Windows
  BY DEF ServeInv, Queries, QueryType, Scanned, NoQuery
<1>2. entry \in EntryType
  BY <1>1 DEF Entry, EntryType, InWindow
<1>3. entry.events = InWindow(entry.window)
  BY DEF Entry
<1>4. /\ cache' = [cache EXCEPT ![p] = Remember(p, entry)]
      /\ query' = [query EXCEPT ![p] = NoQuery]
      /\ UNCHANGED <<status, until, rows>>
  BY DEF Scanned, index
<1> HIDE DEF entry
<1> QED
  BY <1>2, <1>3, <1>4, LoadServes

\* A step of a thread that only adds to the index.
LEMMA GrowServes ==
  ASSUME ServeInv, rows \subseteq rows', rows' \subseteq Events,
         status' \in {"ABSENT", "RUNNING", "READY", "ERROR"},
         faults' \in 0 .. MaxFaults, UNCHANGED <<query, cache>>
  PROVE  Queries' /\ QuietSelects' /\ QuietLoadsComplete'
<1>1. Queries'
  BY DEF ServeInv, Queries
<1>2. QuietSelects'
  BY DEF ServeInv, QuietSelects, InWindow
<1>3. QuietLoadsComplete'
  BY CacheKept DEF ServeInv, Cached
<1> QED
  BY <1>1, <1>2, <1>3

\* A rebuild takes rows away and marks every select that is under way.
LEMMA BeginServes ==
  ASSUME ServeInv, NEW p \in Procs, Begin(p)
  PROVE  Queries' /\ QuietSelects' /\ QuietLoadsComplete'
<1>1. query' = [q \in Procs |-> Disturbed(query[q])]
  BY DEF Begin
<1>2. ASSUME NEW q \in Procs
      PROVE  /\ Disturbed(query[q]) \in QueryType
             /\ Disturbed(query[q]).phase = "selecting"
                  => Disturbed(query[q]).disturbed
  <2>1. query[q] \in QueryType
    BY DEF ServeInv, Queries
  <2>2. CASE query[q].phase = "selecting"
    <3> DEFINE S == [phase : {"selecting"}, window : Windows, through : BOOLEAN,
                     exact : BOOLEAN, disturbed : BOOLEAN]
               d == [query[q] EXCEPT !.disturbed = TRUE]
    <3>1. query[q] \in S
      BY <2>1, <2>2 DEF QueryType, NoQuery
    <3>2. d \in S /\ d.disturbed
      BY <3>1
    <3>3. Disturbed(query[q]) = d /\ S \subseteq QueryType
      BY <2>2 DEF Disturbed, QueryType
    <3> QED
      BY <3>2, <3>3
  <2>3. CASE query[q].phase # "selecting"
    BY <2>1, <2>3 DEF Disturbed
  <2> QED
    BY <2>2, <2>3
<1>3. Queries'
  BY <1>1, <1>2 DEF ServeInv, Queries, Begin, Cleared
<1>4. QuietSelects'
  BY <1>1, <1>2 DEF QuietSelects
<1>5. QuietLoadsComplete'
  BY CacheKept DEF ServeInv, Cached, Begin
<1> QED
  BY <1>3, <1>4, <1>5

\* The request of p is dropped or sent to the file, its cache kept or emptied.
LEMMA DropServes ==
  ASSUME ServeInv, NEW p \in Procs, UNCHANGED <<status, rows>>,
         NEW new \in QueryType, new.phase # "selecting",
         query' = [query EXCEPT ![p] = new],
         cache' = cache \/ cache' = [cache EXCEPT ![p] = <<>>],
         faults' \in 0 .. MaxFaults
  PROVE  Queries' /\ QuietSelects' /\ QuietLoadsComplete'
<1>1. Queries'
  <2>1. query' \in [Procs -> QueryType]
    BY DEF ServeInv, Queries
  <2>2. <<>> \in Seq(EntryType) /\ Len(<<>>) = 0
    OBVIOUS
  <2>3. /\ cache' \in [Procs -> Seq(EntryType)]
        /\ \A q \in Procs : Len(cache'[q]) <= CacheSize
    <3>1. CASE cache' = cache
      BY <3>1 DEF ServeInv, Queries
    <3>2. CASE cache' = [cache EXCEPT ![p] = <<>>]
      <4>1. CacheSize \in Nat /\ 0 <= CacheSize
        BY UseAssumption
      <4>2. cache' \in [Procs -> Seq(EntryType)]
        BY <2>2, <3>2 DEF ServeInv, Queries
      <4>3. \A q \in Procs : cache'[q] = IF q = p THEN <<>> ELSE cache[q]
        BY <3>2 DEF ServeInv, Queries
      <4>4. \A q \in Procs : Len(cache'[q]) <= CacheSize
        BY <2>2, <4>1, <4>3 DEF ServeInv, Queries
      <4> QED
        BY <4>2, <4>4
    <3> QED
      BY <3>1, <3>2
  <2> QED
    BY <2>1, <2>3 DEF ServeInv, Queries
<1>2. QuietSelects'
  BY DEF ServeInv, Queries, QuietSelects, InWindow
<1>3. \A q \in Procs : Cached(q)' \subseteq Cached(q)
  BY DEF ServeInv, Queries, Cached
<1> QED
  BY <1>1, <1>2, <1>3, CacheKept DEF ServeInv

LEMMA ServeStep == ServeInv /\ [Next]_vars => ServeInv'
<1> SUFFICES ASSUME ServeInv, [Next]_vars
             PROVE  Queries' /\ QuietSelects' /\ QuietLoadsComplete'
  BY IndexInvStep DEF ServeInv
<1>1. ASSUME NEW p \in Procs, NEW w \in Windows, NEW through \in BOOLEAN,
             Ask(p, w, through)
      PROVE  Queries' /\ QuietSelects' /\ QuietLoadsComplete'
  BY <1>1, AskServes
<1>2. ASSUME NEW p \in Procs, Serve(p)
      PROVE  Queries' /\ QuietSelects' /\ QuietLoadsComplete'
  <2>1. CASE Select(p)
    BY <2>1, SelectServes DEF Select
  <2>2. CASE Scan(p)
    BY <2>2, ScanServes DEF Scan, ServeInv, Queries
  <2> QED
    BY <1>2, <2>1, <2>2 DEF Serve
<1>8. ASSUME NEW p \in Procs, ScanUnread(p)
      PROVE  Queries' /\ QuietSelects' /\ QuietLoadsComplete'
  <2>1. faults' \in 0 .. MaxFaults
    BY <1>8, UseAssumption DEF ScanUnread, ServeInv, Queries
  <2> QED
    BY <1>8, <2>1, ScanServes DEF ScanUnread
<1>3. ASSUME NEW p \in Procs, SelectFails(p)
      PROVE  Queries' /\ QuietSelects' /\ QuietLoadsComplete'
  <2> DEFINE new == Scanning(query[p].window, query[p].through)
  <2>1. new \in QueryType /\ new.phase # "selecting"
    BY <1>3 DEF SelectFails, ServeInv, Queries, QueryType, Scanning, NoQuery
  <2>2. faults' \in 0 .. MaxFaults
    BY <1>3, UseAssumption DEF SelectFails, ServeInv, Queries
  <2> QED
    BY <1>3, <2>1, <2>2, DropServes DEF SelectFails, index
<1>4. ASSUME NEW p \in Procs, Build(p)
      PROVE  Queries' /\ QuietSelects' /\ QuietLoadsComplete'
  <2>1. faults' \in 0 .. MaxFaults
    BY <1>4 DEF Build, Fire, Begin, WriteBatch, Finish, RecordError, ServeInv, Queries
  <2>2. CASE Fire(p)
    BY <2>1, <2>2, GrowServes DEF Fire, index, ServeInv, Queries
  <2>3. CASE Begin(p)
    BY <2>3, BeginServes
  <2>4. CASE WriteBatch(p)
    <3>1. rows \subseteq rows'
      BY <2>4 DEF WriteBatch
    <3>2. rows' \subseteq Events
      <4>1. IndexInv'
        BY <2>4, WriteKeeps DEF ServeInv
      <4> QED
        BY <4>1, FileAssumption DEF IndexInv, Prefix, Holds, UpTo, Events
    <3> QED
      BY <2>1, <2>4, <3>1, <3>2, GrowServes DEF WriteBatch, ServeInv, Queries
  <2>5. CASE Finish(p)
    BY <2>1, <2>5, GrowServes DEF Finish, ServeInv, Queries
  <2>6. CASE RecordError(p)
    BY <2>1, <2>6, GrowServes DEF RecordError, ServeInv, Queries
  <2> QED
    BY <1>4, <2>2, <2>3, <2>4, <2>5, <2>6 DEF Build
<1>5. ASSUME NEW p \in Procs, Fail(p)
      PROVE  Queries' /\ QuietSelects' /\ QuietLoadsComplete'
  <2>1. faults' \in 0 .. MaxFaults
    BY <1>5, UseAssumption DEF Fail, ServeInv, Queries
  <2> QED
    BY <1>5, <2>1, GrowServes DEF Fail, index, ServeInv, Queries
<1>6. ASSUME NEW p \in Procs, Crash(p)
      PROVE  Queries' /\ QuietSelects' /\ QuietLoadsComplete'
  <2>1. NoQuery \in QueryType /\ NoQuery.phase # "selecting"
    BY DEF QueryType, NoQuery
  <2>2. faults' \in 0 .. MaxFaults
    BY <1>6, UseAssumption DEF Crash, ServeInv, Queries
  <2> QED
    BY <1>6, <2>1, <2>2, DropServes DEF Crash, index
<1>7. CASE UNCHANGED vars
  BY <1>7, GrowServes DEF vars, index, ServeInv, Queries
<1> QED
  BY <1>1, <1>2, <1>3, <1>4, <1>5, <1>6, <1>7, <1>8 DEF Next

LEMMA ServeKept == Spec => []ServeInv
  BY InitServe, ServeStep, PTL DEF Spec

\* The index, the threads, the requests and the caches stay well typed, and no
\* cache outgrows its size.
THEOREM TypeCorrect == Spec => []TypeOK
<1>1. ServeInv => TypeOK
  BY DEF ServeInv, IndexInv, Typed, Queries, TypeOK
<1> QED
  BY <1>1, ServeKept, PTL

\* A window that was loaded while no rebuild began, from the file, a finished
\* index or one that reached beyond it, is complete.
THEOREM QuietLoadsAreComplete == Spec => []QuietLoadsComplete
<1>1. ServeInv => QuietLoadsComplete
  BY DEF ServeInv
<1> QED
  BY <1>1, ServeKept, PTL

-----------------------------------------------------------------------------
(* The refill scan.  What it keeps says under which version of the index   *)
(* its rows were read.  A version by itself tells which events are vouched *)
(* for: a version that comes back after a rebuild vouches for the same.    *)

Vouches(v, e) == v[1] = "READY" \/ Stamp(e) < v[2]

Versions == {"ABSENT", "RUNNING", "READY", "ERROR"} \X Nat

RowType == [candle : Candles, events : SUBSET Events, whole : BOOLEAN]

GoodRow(v, r) ==
  r.whole => \A e \in Events : CandleOf(e) = r.candle /\ Vouches(v, e) => e \in r.events

\* An answer with every candle of its window.
GoodRows(v, w, found) ==
  /\ \A r \in found : GoodRow(v, r)
  /\ \A c \in Marked(w) : \E r \in found : r.candle = c

MemoryType == [version : Versions, window : ScanWindows, rows : SUBSET RowType]

MemoryInv ==
  /\ memory \in [Procs -> Seq(MemoryType)]
  /\ \A p \in Procs : \A i \in DOMAIN memory[p] :
       GoodRows(memory[p][i].version, memory[p][i].window, memory[p][i].rows)

\* Every candle of a stored block has a row.
FileInv ==
  /\ kept \subseteq [version : Versions, row : RowType]
  /\ blocks \subseteq [version : Versions, window : ScanWindows]
  /\ \A k \in kept : GoodRow(k.version, k.row)
  /\ \A b \in blocks : \A c \in Marked(b.window) :
       \E k \in kept : k.version = b.version /\ k.row.candle = c

ScanType ==
  [phase : {"keyed", "reading", "read"}, window : ScanWindows, version : Versions,
   read : SUBSET Events, disturbed : BOOLEAN, at : Nat, cursor : 0 .. EventCount]

\* What a scan has to have read by now.
Due(s, e) ==
  /\ Vouches(s.version, e) /\ InReplay(s.window, e)
  /\ CandleOf(e) < s.at \/ e <= s.cursor \/ s.phase = "read"

\* A scan that no rebuild disturbed still finds what its version vouches for.
ScanOK(s) ==
  /\ s \in ScanType
  /\ \A e \in Events : e <= s.cursor => CandleOf(e) <= s.at
  /\ ~s.disturbed => /\ \A e \in Events : Vouches(s.version, e) => e \in rows
                     /\ \A e \in Events : Due(s, e) => e \in s.read

ScansInv ==
  /\ scan \in [Procs -> ScanType \cup {NoScan}]
  /\ \A p \in Procs : scan[p] # NoScan => ScanOK(scan[p])

ScanInv == ServeInv /\ MemoryInv /\ FileInv /\ ScansInv

-----------------------------------------------------------------------------

LEMMA Quotient ==
  ASSUME NEW a \in Nat, NEW k \in Nat \ {0}
  PROVE  a \div k \in Nat /\ (a \div k) * k <= a /\ a < (a \div k) * k + k
  OBVIOUS

LEMMA SpanFacts ==
  ASSUME NEW c \in Nat
  PROVE  /\ Opens(c) \in Nat /\ Closes(c) \in Nat /\ Opens(c + 1) = Closes(c) + 1
         /\ Opens(c) <= Closes(c)
         /\ \A d \in Nat : c <= d => Opens(c) <= Opens(d)
<1>1. CandleSpan \in Nat /\ CandleSpan > 0
  BY ScanAssumption
<1>2. c * CandleSpan \in Nat /\ (c + 1) * CandleSpan = c * CandleSpan + CandleSpan
  BY <1>1
<1>3. ASSUME NEW d \in Nat, c <= d PROVE c * CandleSpan <= d * CandleSpan
  BY <1>1, <1>3
<1> QED
  BY <1>1, <1>2, <1>3 DEF Opens, Closes

\* The candle of an event, and its place among the candles.
LEMMA EventCandle ==
  ASSUME NEW e \in Events
  PROVE  /\ e \in Nat /\ Stamp(e) \in Nat /\ CandleOf(e) \in Nat
         /\ Opens(CandleOf(e)) <= Stamp(e) /\ Stamp(e) <= Closes(CandleOf(e))
<1>1. e \in Nat /\ Stamp(e) \in Nat /\ CandleSpan \in Nat \ {0}
  BY StampAssumption, ScanAssumption DEF Events
<1>2. /\ Stamp(e) \div CandleSpan \in Nat
      /\ (Stamp(e) \div CandleSpan) * CandleSpan <= Stamp(e)
      /\ Stamp(e) < (Stamp(e) \div CandleSpan) * CandleSpan + CandleSpan
  BY <1>1, Quotient
<1>3. (Stamp(e) \div CandleSpan) * CandleSpan \in Nat
  BY <1>1, <1>2
<1> QED
  BY <1>1, <1>2, <1>3 DEF CandleOf, Opens, Closes

\* An event at or after t is of the candle of t or a later one.
LEMMA CandleAfter ==
  ASSUME NEW e \in Events, NEW t \in Nat, t <= Stamp(e)
  PROVE  t \div CandleSpan \in Nat /\ t \div CandleSpan <= CandleOf(e)
<1>1. CandleSpan \in Nat \ {0}
  BY ScanAssumption
<1> DEFINE q == t \div CandleSpan
<1>2. q \in Nat /\ Opens(q) <= t
  BY <1>1, Quotient DEF Opens
<1> HIDE DEF q
<1>3. ASSUME ~(q <= CandleOf(e)) PROVE FALSE
  <2>1. CandleOf(e) \in Nat /\ CandleOf(e) + 1 <= q /\ Stamp(e) \in Nat
        /\ Stamp(e) <= Closes(CandleOf(e))
    BY <1>2, <1>3, EventCandle
  <2>2. Opens(CandleOf(e) + 1) <= Opens(q) /\ Opens(CandleOf(e) + 1) = Closes(CandleOf(e)) + 1
        /\ Closes(CandleOf(e)) \in Nat /\ Opens(q) \in Nat
    BY <1>2, <2>1, SpanFacts
  <2> QED
    BY <1>2, <2>1, <2>2
<1> QED
  BY <1>2, <1>3 DEF q

LEMMA CandleOrder ==
  ASSUME NEW d \in Events, NEW e \in Events, d <= e
  PROVE  CandleOf(d) <= CandleOf(e)
<1>1. Stamp(d) <= Stamp(e) /\ Stamp(d) \in Nat
  BY StampAssumption
<1> QED
  BY <1>1, CandleAfter DEF CandleOf

LEMMA CandlesNat == Candles \in SUBSET Nat
<1>1. EventCount \in Events
  BY FileAssumption DEF Events
<1> QED
  BY <1>1, EventCandle DEF Candles

LEMMA WindowFacts ==
  ASSUME NEW w \in ScanWindows
  PROVE  /\ w.from \in Nat /\ w.to \in Nat /\ w.from < w.to
         /\ ReplayFrom(w) \in Nat /\ ReplayFrom(w) <= w.from
         /\ Marked(w) \in SUBSET Candles
<1>1. w.from \in Nat /\ w.to \in Nat /\ w.from < w.to /\ Warmup \in Nat
  BY ScanAssumption
<1> QED
  BY <1>1 DEF ReplayFrom, Marked

\* What the index vouches for now is stored, and nothing stored is later than
\* the row of the source says.
LEMMA VouchedIsStored ==
  ASSUME ServeInv
  PROVE  /\ \A e \in Events : Vouches(Version, e) => e \in rows
         /\ \A e \in rows : e \in Events /\ Stamp(e) <= until
         /\ Version \in Versions /\ until \in Nat /\ rows \in SUBSET Events
<1>1. PICK b \in 0 .. BatchCount : Holds(b)
  BY DEF ServeInv, IndexInv, Prefix
<1>2. ASSUME NEW e \in Events, Vouches(Version, e) PROVE e \in rows
  <2>1. CASE status = "READY"
    BY <2>1 DEF ServeInv, IndexInv, ReadyIsComplete
  <2>2. CASE Stamp(e) < until
    BY <1>1, <2>2, HeldUntil
  <2> QED
    BY <1>2, <2>1, <2>2 DEF Vouches, Version
<1>3. Version \in Versions /\ until \in Nat /\ rows \in SUBSET Events
  BY DEF ServeInv, Queries, IndexInv, Typed, Version, Versions
<1>4. ASSUME NEW e \in rows PROVE Stamp(e) <= until
  <2>1. b # 0
    BY <1>1, <1>4, NothingStored DEF Holds
  <2>2. EndOf(b) \in Events /\ until = Stamp(EndOf(b)) /\ e \in Events /\ e <= EndOf(b)
    BY <1>1, <1>3, <1>4, <2>1, BatchEnds DEF Holds, UpTo
  <2> QED
    BY <2>2, StampAssumption
<1> QED
  BY <1>2, <1>3, <1>4

-----------------------------------------------------------------------------
(* What is stored.                                                         *)

LEMMA BlockKept ==
  ASSUME FileInv, NEW v \in Versions, NEW w \in ScanWindows, NEW found \in SUBSET RowType,
         GoodRows(v, w, found), KeepBlock(v, w, found)
  PROVE  FileInv'
<1>1. kept' \subseteq [version : Versions, row : RowType]
  BY DEF FileInv, KeepBlock
<1>2. blocks' \subseteq [version : Versions, window : ScanWindows]
  BY DEF FileInv, KeepBlock
<1>3. ASSUME NEW k \in kept' PROVE GoodRow(k.version, k.row)
  <2>1. k \in kept \/ \E r \in found : k = [version |-> v, row |-> r]
    BY DEF KeepBlock
  <2> QED
    BY <2>1 DEF FileInv, GoodRows
<1>4. ASSUME NEW b \in blocks', NEW c \in Marked(b.window)
      PROVE  \E k \in kept' : k.version = b.version /\ k.row.candle = c
  <2>0. b \in blocks \/ b = [version |-> v, window |-> w]
    BY DEF KeepBlock
  <2>1. CASE b.version = v /\ c \in Marked(w)
    <3>1. PICK r \in found : r.candle = c
      BY <2>1 DEF GoodRows
    <3>2. [version |-> v, row |-> r] \in kept'
      BY <3>1 DEF KeepBlock
    <3> QED
      BY <2>1, <3>1, <3>2
  <2>2. CASE ~(b.version = v /\ c \in Marked(w))
    <3>1. b \in blocks
      BY <2>0, <2>2
    <3>2. PICK k \in kept : k.version = b.version /\ k.row.candle = c
      BY <3>1 DEF FileInv
    <3>3. k \in kept'
      BY <2>2, <3>2 DEF KeepBlock
    <3> QED
      BY <3>2, <3>3
  <2> QED
    BY <2>1, <2>2
<1> QED
  BY <1>1, <1>2, <1>3, <1>4 DEF FileInv

\* Blocks that leave no gap answer the window they cover.
LEMMA LoadedGood ==
  ASSUME FileInv, NEW v, NEW w \in ScanWindows, Covers(v, w)
  PROVE  Loaded(v, w) \in SUBSET RowType /\ GoodRows(v, w, Loaded(v, w))
<1>1. Loaded(v, w) \in SUBSET RowType /\ \A r \in Loaded(v, w) : GoodRow(v, r)
  BY DEF Loaded, FileInv
<1>2. ASSUME NEW c \in Marked(w) PROVE \E r \in Loaded(v, w) : r.candle = c
  <2>1. c \in Candles /\ w.from <= Opens(c) /\ Opens(c) < w.to /\ Opens(c) \in Nat
        /\ w.from \in Nat /\ w.to \in Nat
    BY WindowFacts, CandlesNat, SpanFacts DEF Marked
  <2>2. Opens(c) \in w.from .. w.to - 1
    BY <2>1
  <2>3. PICK b \in blocks : /\ b.version = v
                            /\ b.window.from <= Opens(c) /\ Opens(c) < b.window.to
    BY <2>2 DEF Covers, NoGap, BlocksOf
  <2>4. c \in Marked(b.window)
    BY <2>1, <2>3 DEF Marked
  <2>5. PICK k \in kept : k.version = v /\ k.row.candle = c
    BY <2>3, <2>4 DEF FileInv
  <2> QED
    BY <1>2, <2>5 DEF Loaded
<1> QED
  BY <1>1, <1>2 DEF GoodRows

LEMMA MemoryKept ==
  ASSUME MemoryInv, NEW p \in Procs, NEW seq \in Seq(MemoryType),
         memory' = [memory EXCEPT ![p] = seq],
         \A i \in DOMAIN seq : GoodRows(seq[i].version, seq[i].window, seq[i].rows)
  PROVE  MemoryInv'
<1>1. memory' \in [Procs -> Seq(MemoryType)]
  BY DEF MemoryInv
<1>2. ASSUME NEW q \in Procs, NEW i \in DOMAIN memory'[q]
      PROVE  GoodRows(memory'[q][i].version, memory'[q][i].window, memory'[q][i].rows)
  BY DEF MemoryInv
<1> QED
  BY <1>1, <1>2 DEF MemoryInv

LEMMA RefreshKept ==
  ASSUME MemoryInv, NEW p \in Procs, NEW i \in DOMAIN memory[p],
         memory' = [memory EXCEPT ![p] = Refreshed(p, i)]
  PROVE  MemoryInv'
<1>1. memory[p] \in Seq(MemoryType)
  BY DEF MemoryInv
<1>2. /\ Refreshed(p, i) \in Seq(MemoryType) /\ Len(Refreshed(p, i)) = Len(memory[p])
      /\ \A j \in 1 .. Len(memory[p]) : \E k \in DOMAIN memory[p] : Refreshed(p, i)[j] = memory[p][k]
  BY <1>1, MovedToEnd DEF Refreshed
<1>3. DOMAIN Refreshed(p, i) = 1 .. Len(memory[p])
  BY <1>2
<1>4. \A j \in DOMAIN Refreshed(p, i) :
        GoodRows(Refreshed(p, i)[j].version, Refreshed(p, i)[j].window, Refreshed(p, i)[j].rows)
  BY <1>2, <1>3 DEF MemoryInv
<1> QED
  BY <1>2, <1>4, MemoryKept

LEMMA MemoriseKept ==
  ASSUME MemoryInv, NEW p \in Procs, NEW v \in Versions, NEW w \in ScanWindows,
         NEW found \in SUBSET RowType, GoodRows(v, w, found), Memorise(p, v, w, found)
  PROVE  MemoryInv'
<1> DEFINE new == [version |-> v, window |-> w, rows |-> found]
           all == Append(memory[p], new)
<1>1. memory[p] \in Seq(MemoryType) /\ new \in MemoryType
  BY DEF MemoryInv, MemoryType
<1>2. GoodRows(new.version, new.window, new.rows)
  OBVIOUS
<1>3. \A i \in DOMAIN memory[p] :
        GoodRows(memory[p][i].version, memory[p][i].window, memory[p][i].rows)
  BY DEF MemoryInv
<1>4. Memorised(p, v, w, found) = IF Len(all) > ScanCacheSize THEN Tail(all) ELSE all
  BY DEF Memorised
<1> HIDE DEF new
<1>5. /\ all \in Seq(MemoryType) /\ Len(all) = Len(memory[p]) + 1
      /\ \A i \in 1 .. Len(memory[p]) : all[i] = memory[p][i]
      /\ all[Len(memory[p]) + 1] = new
  BY <1>1
<1>6. \A i \in DOMAIN all : GoodRows(all[i].version, all[i].window, all[i].rows)
  <2> SUFFICES ASSUME NEW i \in DOMAIN all
               PROVE  GoodRows(all[i].version, all[i].window, all[i].rows)
    OBVIOUS
  <2>1. i \in 1 .. Len(memory[p]) \/ i = Len(memory[p]) + 1
    BY <1>1, <1>5
  <2> HIDE DEF all
  <2>2. CASE i \in 1 .. Len(memory[p])
    BY <1>1, <1>3, <1>5, <2>2
  <2>3. CASE i = Len(memory[p]) + 1
    BY <1>2, <1>5, <2>3
  <2> QED
    BY <2>1, <2>2, <2>3
<1> HIDE DEF all
<1>7. CASE Len(all) > ScanCacheSize
  <2>1. /\ Tail(all) \in Seq(MemoryType) /\ Len(Tail(all)) = Len(all) - 1
        /\ \A i \in 1 .. Len(all) - 1 : Tail(all)[i] = all[i + 1]
    <3>1. Len(all) > 0 /\ all # <<>>
      BY <1>1, <1>5
    <3> QED
      BY <1>5, <3>1
  <2>2. \A i \in DOMAIN Tail(all) :
          GoodRows(Tail(all)[i].version, Tail(all)[i].window, Tail(all)[i].rows)
    <3> SUFFICES ASSUME NEW i \in DOMAIN Tail(all)
                 PROVE  GoodRows(Tail(all)[i].version, Tail(all)[i].window, Tail(all)[i].rows)
      OBVIOUS
    <3>1. i \in 1 .. Len(all) - 1 /\ i + 1 \in DOMAIN all
      BY <1>5, <2>1
    <3> QED
      BY <1>6, <2>1, <3>1
  <2>3. memory' = [memory EXCEPT ![p] = Tail(all)]
    BY <1>4, <1>7 DEF Memorise
  <2> QED
    BY <2>1, <2>2, <2>3, MemoryKept
<1>8. CASE ~(Len(all) > ScanCacheSize)
  <2>1. memory' = [memory EXCEPT ![p] = all]
    BY <1>4, <1>8 DEF Memorise
  <2> QED
    BY <1>5, <1>6, <2>1, MemoryKept
<1> QED
  BY <1>7, <1>8

-----------------------------------------------------------------------------
(* The steps of a scan.                                                    *)

LEMMA ScanKept ==
  ASSUME ScansInv, rows' = rows, NEW p \in Procs, NEW s, s = NoScan \/ ScanOK(s),
         scan' = [scan EXCEPT ![p] = s]
  PROVE  ScansInv'
<1>1. scan' \in [Procs -> ScanType \cup {NoScan}]
  BY DEF ScansInv, ScanOK
<1>2. ASSUME NEW q \in Procs, scan'[q] # NoScan PROVE ScanOK(scan'[q])
  BY <1>2 DEF ScansInv
<1>3. ASSUME NEW q \in Procs, scan'[q] # NoScan PROVE ScanOK(scan[q])'
  BY <1>2, <1>3 DEF ScanOK, Due
<1> QED
  BY <1>1, <1>3 DEF ScansInv

LEMMA RequestKeeps ==
  ASSUME ScanInv, NEW p \in Procs, NEW w \in ScanWindows, Request(p, w)
  PROVE  MemoryInv' /\ FileInv' /\ ScansInv'
<1>0. Version \in Versions /\ \A e \in Events : Vouches(Version, e) => e \in rows
  BY VouchedIsStored DEF ScanInv
<1>1. CASE AnswerFromMemory(p, w)
  <2>1. PICK i \in InMemory(p, Version, w) :
          /\ KeepBlock(Version, w, memory[p][i].rows)
          /\ memory' = [memory EXCEPT ![p] = Refreshed(p, i)]
    BY <1>1 DEF AnswerFromMemory
  <2>2. /\ i \in DOMAIN memory[p] /\ memory[p][i] \in MemoryType
        /\ memory[p][i].version = Version /\ memory[p][i].window = w
    BY DEF InMemory, ScanInv, MemoryInv
  <2>3. GoodRows(Version, w, memory[p][i].rows) /\ memory[p][i].rows \in SUBSET RowType
    BY <2>2 DEF ScanInv, MemoryInv, MemoryType
  <2>4. FileInv'
    BY <1>0, <2>1, <2>3, BlockKept DEF ScanInv
  <2>5. MemoryInv'
    BY <2>1, <2>2, RefreshKept DEF ScanInv
  <2>6. scan' = scan /\ rows' = rows
    BY <1>1 DEF AnswerFromMemory, Request, vars
  <2>7. ScansInv'
    BY <2>6 DEF ScanInv, ScansInv, ScanOK, Due
  <2> QED
    BY <2>4, <2>5, <2>7
<1>2. CASE AnswerFromFile(p, w)
  <2>1. Loaded(Version, w) \in SUBSET RowType /\ GoodRows(Version, w, Loaded(Version, w))
    BY <1>2, LoadedGood DEF AnswerFromFile, ScanInv
  <2>2. MemoryInv'
    BY <1>0, <1>2, <2>1, MemoriseKept DEF AnswerFromFile, ScanInv
  <2>3. UNCHANGED <<scan, rows, blocks, kept>>
    BY <1>2 DEF AnswerFromFile, Request, vars
  <2>4. ScansInv' /\ FileInv'
    BY <2>3 DEF ScanInv, ScansInv, ScanOK, Due, FileInv
  <2> QED
    BY <2>2, <2>4
<1>3. CASE BeginReplay(p, w)
  <2> DEFINE s == Scan0(w)
  <2>1. ReplayFrom(w) \in Nat
    BY WindowFacts
  <2>2. ReplayFrom(w) \div CandleSpan \in Nat
    BY <2>1, Quotient, ScanAssumption
  <2>3. s \in ScanType /\ s.cursor = 0 /\ s.phase = "keyed" /\ s.version = Version
        /\ s.window = w /\ s.at = ReplayFrom(w) \div CandleSpan
    BY <1>0, <2>2, FileAssumption DEF Scan0, ScanType
  <2> HIDE DEF s
  <2>4. ASSUME NEW e \in Events PROVE ~(e <= s.cursor) /\ ~Due(s, e)
    <3>1. ~(e <= s.cursor) /\ CandleOf(e) \in Nat
      BY <2>3, EventCandle DEF Events
    <3>2. InReplay(w, e) => ~(CandleOf(e) < s.at)
      <4> SUFFICES ASSUME InReplay(w, e) PROVE ~(CandleOf(e) < s.at)
        OBVIOUS
      <4>1. s.at \in Nat /\ s.at <= CandleOf(e)
        BY <2>1, <2>3, CandleAfter DEF InReplay
      <4> QED
        BY <3>1, <4>1
    <3> QED
      BY <2>3, <3>1, <3>2 DEF Due
  <2>5. ScanOK(s)
    BY <1>0, <2>3, <2>4 DEF ScanOK
  <2>6. scan' = [scan EXCEPT ![p] = s] /\ rows' = rows /\ UNCHANGED <<memory, blocks, kept>>
    BY <1>3 DEF BeginReplay, Request, vars, s
  <2>7. ScansInv'
    BY <2>5, <2>6, ScanKept DEF ScanInv
  <2> QED
    BY <2>6, <2>7 DEF ScanInv, MemoryInv, FileInv
<1> QED
  BY <1>1, <1>2, <1>3 DEF Request

LEMMA ActiveScan ==
  ASSUME ScanInv, NEW p \in Procs, scan[p].phase # "none"
  PROVE  ScanOK(scan[p])
  BY DEF ScanInv, ScansInv, NoScan

LEMMA OpenKeeps ==
  ASSUME ScanInv, NEW p \in Procs, OpenSource(p)
  PROVE  ScansInv'
<1> DEFINE s == scan[p]
           phase == IF HasEvents(s.window) THEN "reading" ELSE "read"
           t == [s EXCEPT !.phase = phase]
<1>1. ScanOK(s) /\ s.phase = "keyed"
  BY ActiveScan DEF OpenSource
<1>2. scan' = [scan EXCEPT ![p] = t] /\ rows' = rows
  BY DEF OpenSource, vars, ScanInv, ScansInv
<1>3. /\ t \in ScanType /\ t.phase = phase /\ t.window = s.window /\ t.version = s.version
      /\ t.read = s.read /\ t.disturbed = s.disturbed /\ t.at = s.at /\ t.cursor = s.cursor
  BY <1>1 DEF ScanOK, ScanType
<1>4. s.window \in ScanWindows
  BY <1>1 DEF ScanOK, ScanType
<1> HIDE DEF t, s
<1>5. ASSUME ~HasEvents(s.window), NEW e \in rows PROVE ~InReplay(s.window, e)
  <2>1. e \in Events /\ Stamp(e) <= until /\ until \in Nat /\ Stamp(e) \in Nat \ {0}
    BY VouchedIsStored, StampAssumption DEF ScanInv
  <2>2. 1 \in Events /\ Stamp(1) <= Stamp(e) /\ Stamp(1) \in Nat
    BY <2>1, FileAssumption, StampAssumption DEF Events
  <2>3. s.window.to \in Nat /\ ReplayFrom(s.window) \in Nat
    BY <1>4, WindowFacts
  <2>4. Listed
    BY <2>1 DEF Listed
  <2> QED
    BY <1>5, <2>1, <2>2, <2>3, <2>4 DEF HasEvents, InReplay
<1>6. ASSUME ~s.disturbed, NEW e \in Events, Due(t, e) PROVE e \in t.read
  <2>1. CASE HasEvents(s.window)
    BY <1>1, <1>3, <1>6, <2>1 DEF ScanOK, Due
  <2>2. CASE ~HasEvents(s.window)
    BY <1>1, <1>3, <1>5, <1>6, <2>2 DEF ScanOK, Due
  <2> QED
    BY <2>1, <2>2
<1>7. ScanOK(t)
  BY <1>1, <1>3, <1>6 DEF ScanOK
<1> QED
  BY <1>2, <1>7, ScanKept DEF ScanInv

LEMMA FetchKeeps ==
  ASSUME ScanInv, NEW p \in Procs, Fetch(p)
  PROVE  ScansInv'
<1> DEFINE s == scan[p]
<1>1. ScanOK(s) /\ s.phase = "reading"
  BY ActiveScan DEF Fetch
<1>2. PICK last \in Fetched(s) :
        /\ \A e \in Fetched(s) : e <= last
        /\ scan' = [scan EXCEPT ![p].read = @ \cup Fetched(s), ![p].cursor = last]
  BY DEF Fetch
<1> DEFINE t == [s EXCEPT !.read = s.read \cup Fetched(s), !.cursor = last]
<1>3. scan' = [scan EXCEPT ![p] = t] /\ rows' = rows
  BY <1>2 DEF Fetch, vars, ScanInv, ScansInv
<1>4. rows \in SUBSET Events
  BY VouchedIsStored DEF ScanInv
<1>5. /\ Fetched(s) \in SUBSET Unread(s) /\ Unread(s) \in SUBSET Events
      /\ \A e \in Unread(s) : e > s.cursor /\ CandleOf(e) = s.at
  BY <1>4 DEF Fetched, Unread
<1>6. last \in Events /\ last > s.cursor /\ CandleOf(last) = s.at /\ last \in 0 .. EventCount
  BY <1>5 DEF Events
<1>7. /\ t \in ScanType /\ t.phase = "reading" /\ t.window = s.window /\ t.version = s.version
      /\ t.read = s.read \cup Fetched(s) /\ t.disturbed = s.disturbed /\ t.at = s.at
      /\ t.cursor = last
  BY <1>1, <1>5, <1>6 DEF ScanOK, ScanType
<1>8. s.at \in Nat /\ s.cursor \in Nat
  BY <1>1 DEF ScanOK, ScanType
<1> HIDE DEF t, s
<1>9. ASSUME NEW e \in Events, e <= last PROVE CandleOf(e) <= s.at
  BY <1>6, <1>9, CandleOrder
<1>10. ASSUME NEW e \in Unread(s), e <= last PROVE e \in Fetched(s)
  <2>1. e \in Nat /\ last \in Nat
    BY <1>5, <1>6 DEF Events
  <2>2. {d \in Unread(s) : d < e} \subseteq {d \in Unread(s) : d < last}
    BY <1>5, <1>10, <2>1 DEF Events
  <2>3. IsFiniteSet({d \in Unread(s) : d < last})
    <3>1. IsFiniteSet(Events)
      BY FileAssumption, FS_Interval DEF Events
    <3>2. {d \in Unread(s) : d < last} \in SUBSET Events
      BY <1>5
    <3> QED
      BY <3>1, <3>2, FS_Subset
  <2> DEFINE low == Cardinality({d \in Unread(s) : d < e})
             high == Cardinality({d \in Unread(s) : d < last})
  <2>4. low <= high /\ low \in Nat /\ high \in Nat
    BY <2>2, <2>3, FS_Subset, FS_CardinalityType
  <2>5. high < FetchSize /\ FetchSize \in Nat
    BY ScanAssumption DEF Fetched
  <2>6. low < FetchSize
    <3> HIDE DEF low, high
    <3> QED
      BY <2>4, <2>5
  <2> QED
    BY <2>6 DEF Fetched
<1>11. ASSUME ~s.disturbed, NEW e \in Events, Due(t, e) PROVE e \in t.read
  <2>1. Vouches(s.version, e) /\ InReplay(s.window, e) /\ (CandleOf(e) < s.at \/ e <= last)
    BY <1>7, <1>11 DEF Due
  <2>2. CASE CandleOf(e) < s.at \/ e <= s.cursor
    <3>1. Due(s, e)
      BY <2>1, <2>2 DEF Due
    <3> QED
      BY <1>1, <1>7, <1>11, <3>1 DEF ScanOK
  <2>3. CASE ~(CandleOf(e) < s.at \/ e <= s.cursor)
    <3>1. e <= last /\ CandleOf(e) <= s.at /\ CandleOf(e) \in Nat /\ e \in Nat
      BY <1>9, <2>1, <2>3, EventCandle
    <3>2. e \in rows
      BY <1>1, <1>11, <2>1 DEF ScanOK
    <3>3. e \in Unread(s)
      BY <1>8, <2>1, <2>3, <3>1, <3>2 DEF Unread
    <3> QED
      BY <1>7, <1>10, <3>1, <3>3
  <2> QED
    BY <2>2, <2>3
<1>12. ScanOK(t)
  BY <1>1, <1>7, <1>9, <1>11 DEF ScanOK
<1> QED
  BY <1>3, <1>12, ScanKept DEF ScanInv

LEMMA LeaveKeeps ==
  ASSUME ScanInv, NEW p \in Procs, LeaveCandle(p)
  PROVE  ScansInv'
<1> DEFINE s == scan[p]
           on == Opens(s.at + 1) <= s.window.to
           t == IF on THEN [s EXCEPT !.at = s.at + 1] ELSE [s EXCEPT !.phase = "read"]
<1>1. ScanOK(s) /\ s.phase = "reading" /\ Unread(s) = {}
  BY ActiveScan DEF LeaveCandle
<1>2. scan' = [scan EXCEPT ![p] = t] /\ rows' = rows
  BY DEF LeaveCandle, vars, ScanInv, ScansInv
<1>3. s.at \in Nat /\ s.window \in ScanWindows /\ s.window.to \in Nat /\ s.cursor \in Nat
      /\ s.at + 1 \in Nat
  <2>1. s.at \in Nat /\ s.window \in ScanWindows /\ s.cursor \in Nat
    BY <1>1 DEF ScanOK, ScanType
  <2> HIDE DEF s
  <2> QED
    BY <2>1, WindowFacts
<1>4. /\ t \in ScanType /\ t.window = s.window /\ t.version = s.version /\ t.read = s.read
      /\ t.disturbed = s.disturbed /\ t.cursor = s.cursor
      /\ t.at = (IF on THEN s.at + 1 ELSE s.at)
      /\ t.phase = (IF on THEN "reading" ELSE "read")
  BY <1>1, <1>3 DEF ScanOK, ScanType
<1> HIDE DEF t, s
<1>5. ASSUME NEW e \in Events, e <= t.cursor PROVE CandleOf(e) <= t.at
  BY <1>1, <1>3, <1>4, <1>5, EventCandle DEF ScanOK
<1>6. ASSUME ~s.disturbed, NEW e \in Events, Due(t, e) PROVE e \in t.read
  <2>1. Vouches(s.version, e) /\ InReplay(s.window, e) /\ e \in rows /\ e \in Nat
        /\ CandleOf(e) \in Nat /\ Stamp(e) \in Nat
    BY <1>1, <1>4, <1>6, EventCandle DEF Due, ScanOK
  <2>2. CASE CandleOf(e) < s.at \/ e <= s.cursor
    <3>1. Due(s, e)
      BY <2>1, <2>2 DEF Due
    <3> QED
      BY <1>1, <1>4, <1>6, <3>1 DEF ScanOK
  <2>3. CASE ~(CandleOf(e) < s.at \/ e <= s.cursor)
    <3>1. CandleOf(e) # s.at
      BY <1>1, <1>3, <2>1, <2>3 DEF Unread
    <3>2. s.at + 1 <= CandleOf(e)
      BY <1>3, <2>1, <2>3, <3>1
    <3>3. ~on
      BY <1>3, <1>4, <1>6, <2>1, <2>3, <3>2 DEF Due
    <3>4. Opens(s.at + 1) <= Stamp(e) /\ Opens(s.at + 1) \in Nat
      <4>1. /\ Opens(s.at + 1) <= Opens(CandleOf(e)) /\ Opens(CandleOf(e)) <= Stamp(e)
            /\ Opens(s.at + 1) \in Nat /\ Opens(CandleOf(e)) \in Nat
        BY <1>3, <2>1, <3>2, SpanFacts, EventCandle
      <4> QED
        BY <2>1, <4>1
    <3>5. Stamp(e) <= s.window.to
      BY <2>1 DEF InReplay
    <3> QED
      BY <1>3, <2>1, <3>3, <3>4, <3>5
  <2> QED
    BY <2>2, <2>3
<1>7. ScanOK(t)
  BY <1>1, <1>4, <1>5, <1>6 DEF ScanOK
<1> QED
  BY <1>2, <1>7, ScanKept DEF ScanInv

LEMMA FinishReplayKeeps ==
  ASSUME ScanInv, NEW p \in Procs, FinishReplay(p)
  PROVE  MemoryInv' /\ FileInv' /\ ScansInv'
<1> DEFINE s == scan[p]
<1>1. ScanOK(s) /\ s.phase = "read"
  BY ActiveScan DEF FinishReplay
<1>2. /\ KeepBlock(s.version, s.window, Found(s)) /\ Memorise(p, s.version, s.window, Found(s))
      /\ scan' = [scan EXCEPT ![p] = NoScan] /\ rows' = rows
  BY DEF FinishReplay, vars
<1> HIDE DEF s
<1>3. s.version \in Versions /\ s.window \in ScanWindows /\ s.disturbed \in BOOLEAN
      /\ s.read \in SUBSET Events
  BY <1>1 DEF ScanOK, ScanType
<1>4. Marked(s.window) \in SUBSET Candles /\ Marked(s.window) \in SUBSET Nat
  BY <1>3, WindowFacts, CandlesNat
<1>5. Found(s) \in SUBSET RowType
  <2>1. ASSUME NEW c \in Marked(s.window)
        PROVE  [candle |-> c, events |-> {e \in s.read : CandleOf(e) = c},
                whole |-> ~s.disturbed /\ ~Cut(s.window, c)] \in RowType
    BY <1>3, <1>4 DEF RowType
  <2> QED
    BY <2>1 DEF Found
<1>6. ASSUME NEW c \in Marked(s.window), ~s.disturbed, ~Cut(s.window, c), NEW e \in Events,
             CandleOf(e) = c, Vouches(s.version, e)
      PROVE  e \in s.read
  <2>1. /\ c \in Nat /\ s.window.from <= Opens(c) /\ Closes(c) < s.window.to
        /\ Opens(c) \in Nat /\ Closes(c) \in Nat /\ s.window.to \in Nat /\ s.window.from \in Nat
    <3>1. c \in Nat /\ s.window.from <= Opens(c)
      BY <1>4 DEF Marked
    <3>2. Opens(c) \in Nat /\ Closes(c) \in Nat /\ s.window.to \in Nat /\ s.window.from \in Nat
      BY <1>3, <3>1, WindowFacts, SpanFacts
    <3>3. Closes(c) < s.window.to
      BY <1>6, <3>2 DEF Cut
    <3> QED
      BY <3>1, <3>2, <3>3
  <2>2. Opens(c) <= Stamp(e) /\ Stamp(e) <= Closes(c) /\ Stamp(e) \in Nat
    BY <1>6, EventCandle
  <2>3. ReplayFrom(s.window) <= s.window.from /\ ReplayFrom(s.window) \in Nat
    BY <1>3, WindowFacts
  <2>4. InReplay(s.window, e)
    BY <2>1, <2>2, <2>3 DEF InReplay
  <2> QED
    BY <1>1, <1>6, <2>4 DEF ScanOK, Due
<1>7. GoodRows(s.version, s.window, Found(s))
  <2>1. ASSUME NEW c \in Marked(s.window) PROVE \E r \in Found(s) : r.candle = c
    <3> DEFINE r == [candle |-> c, events |-> {e \in s.read : CandleOf(e) = c},
                     whole |-> ~s.disturbed /\ ~Cut(s.window, c)]
    <3>1. r \in Found(s) /\ r.candle = c
      BY DEF Found
    <3> QED
      BY <3>1
  <2>2. ASSUME NEW r \in Found(s) PROVE GoodRow(s.version, r)
    <3>1. PICK c \in Marked(s.window) :
            r = [candle |-> c, events |-> {e \in s.read : CandleOf(e) = c},
                 whole |-> ~s.disturbed /\ ~Cut(s.window, c)]
      BY DEF Found
    <3> QED
      BY <1>6, <3>1 DEF GoodRow
  <2> QED
    BY <2>1, <2>2 DEF GoodRows
<1> QED
  BY <1>2, <1>3, <1>5, <1>7, BlockKept, MemoriseKept, ScanKept DEF ScanInv

LEMMA NoticedKeeps ==
  ASSUME ScanInv, Noticed
  PROVE  MemoryInv' /\ FileInv' /\ ScansInv'
<1>1. MemoryInv' /\ FileInv'
  BY DEF ScanInv, Noticed, MemoryInv, FileInv
<1>2. ASSUME NEW p \in Procs
      PROVE  /\ scan'[p] \in ScanType \cup {NoScan}
             /\ scan'[p] # NoScan => ScanOK(scan[p])'
  <2>1. CASE scan[p] # NoScan /\ ~(rows \subseteq rows')
    <3> DEFINE s == scan[p]
               t == [s EXCEPT !.disturbed = TRUE]
    <3>1. scan'[p] = t /\ ScanOK(s)
      BY <2>1 DEF Noticed, ScanInv, ScansInv
    <3>2. /\ t \in ScanType /\ t.at = s.at /\ t.cursor = s.cursor /\ t.disturbed
      BY <3>1 DEF ScanOK, ScanType
    <3> HIDE DEF s, t
    <3> QED
      BY <3>1, <3>2 DEF ScanOK
  <2>2. CASE scan[p] # NoScan /\ rows \subseteq rows'
    <3>1. scan'[p] = scan[p] /\ ScanOK(scan[p])
      BY <2>2 DEF Noticed, ScanInv, ScansInv
    <3> QED
      BY <2>2, <3>1 DEF ScanOK, Due
  <2>3. CASE scan[p] = NoScan
    BY <2>3 DEF Noticed
  <2> QED
    BY <2>1, <2>2, <2>3
<1>3. scan' = [p \in Procs |-> scan'[p]]
  BY DEF Noticed
<1>4. ScansInv'
  BY <1>2, <1>3 DEF ScansInv
<1> QED
  BY <1>1, <1>4

LEMMA CrashAllKeeps ==
  ASSUME ScanInv, NEW p \in Procs, CrashAll(p)
  PROVE  MemoryInv' /\ FileInv' /\ ScansInv'
<1>1. scan' = [scan EXCEPT ![p] = NoScan] /\ rows' = rows /\ UNCHANGED <<blocks, kept>>
      /\ memory' = [memory EXCEPT ![p] = <<>>]
  BY DEF CrashAll, Crash, index
<1>2. ScansInv'
  BY <1>1, ScanKept DEF ScanInv
<1>3. MemoryInv'
  BY <1>1 DEF ScanInv, MemoryInv
<1> QED
  BY <1>1, <1>2, <1>3 DEF ScanInv, FileInv

LEMMA InitScan == ScanInit => ScanInv
<1> SUFFICES ASSUME ScanInit PROVE ScanInv
  OBVIOUS
<1>1. ServeInv
  BY InitServe DEF ScanInit
<1>2. MemoryInv /\ FileInv /\ ScansInv
  BY DEF ScanInit, MemoryInv, FileInv, ScansInv
<1> QED
  BY <1>1, <1>2 DEF ScanInv

\* A step of the scans is a step of the index, or leaves it alone.
LEMMA StepOfIndex == [ScanNext]_allVars => [Next]_vars
  BY DEF ScanNext, ScanStep, Request, OpenSource, Fetch, LeaveCandle, FinishReplay,
         ReplayFails, IndexStep, CrashAll, Next, allVars

LEMMA ScanInvStep == ScanInv /\ [ScanNext]_allVars => ScanInv'
<1> SUFFICES ASSUME ScanInv, [ScanNext]_allVars PROVE ScanInv'
  OBVIOUS
<1>1. ServeInv'
  BY StepOfIndex, ServeStep DEF ScanInv
<1>2. ASSUME NEW p \in Procs, ScanStep(p) PROVE MemoryInv' /\ FileInv' /\ ScansInv'
  <2>1. ASSUME NEW w \in ScanWindows, Request(p, w) PROVE MemoryInv' /\ FileInv' /\ ScansInv'
    BY <2>1, RequestKeeps
  <2>2. ASSUME UNCHANGED <<memory, blocks, kept>> PROVE MemoryInv' /\ FileInv'
    BY <2>2 DEF ScanInv, MemoryInv, FileInv
  <2>3. CASE OpenSource(p)
    BY <2>2, <2>3, OpenKeeps DEF OpenSource
  <2>4. CASE Fetch(p)
    BY <2>2, <2>4, FetchKeeps DEF Fetch
  <2>5. CASE LeaveCandle(p)
    BY <2>2, <2>5, LeaveKeeps DEF LeaveCandle
  <2>6. CASE FinishReplay(p)
    BY <2>6, FinishReplayKeeps
  <2>7. CASE ReplayFails(p)
    <3>1. scan' = [scan EXCEPT ![p] = NoScan] /\ rows' = rows
      BY <2>7 DEF ReplayFails, vars
    <3> QED
      BY <2>2, <2>7, <3>1, ScanKept DEF ReplayFails, ScanInv
  <2> QED
    BY <1>2, <2>1, <2>3, <2>4, <2>5, <2>6, <2>7 DEF ScanStep
<1>3. CASE UNCHANGED allVars
  <2>1. MemoryInv' /\ FileInv' /\ ScansInv'
    BY <1>3 DEF allVars, vars, scanVars, ScanInv, MemoryInv, FileInv, ScansInv, ScanOK, Due
  <2> QED
    BY <1>1, <2>1 DEF ScanInv
<1>4. CASE ScanNext
  <2>1. PICK p \in Procs : ScanStep(p) \/ (IndexStep(p) /\ Noticed) \/ CrashAll(p)
    BY <1>4 DEF ScanNext
  <2>2. MemoryInv' /\ FileInv' /\ ScansInv'
    BY <1>2, <2>1, NoticedKeeps, CrashAllKeeps
  <2> QED
    BY <1>1, <2>2 DEF ScanInv
<1> QED
  BY <1>3, <1>4

\* Under the refill scan the index behaves as TimelineIndex says, so that its
\* theorems hold of what a scan replays.
THEOREM ScanLeavesIndex == ScanSpec => Spec
<1>1. ScanInit => Init
  BY DEF ScanInit
<1> QED
  BY <1>1, StepOfIndex, PTL DEF ScanSpec, Spec

\* A scan's answer, from memory or put together from the blocks of others,
\* has every candle of its window, with every event the index vouches for,
\* unless the scan that stored it ended inside the candle or met a rebuild.
THEOREM AnswersAreWhole == ScanSpec => []AnswersMissNothing
<1>1. ScanInv => AnswersMissNothing
  <2> SUFFICES ASSUME ScanInv, NEW w \in ScanWindows, NEW found \in Answers(w),
                      NEW c \in Marked(w)
               PROVE  \E r \in found : r.candle = c /\ (r.whole => Vouched(c) \subseteq r.events)
    BY DEF AnswersMissNothing
  <2>1. GoodRows(Version, w, found)
    <3>1. CASE \E p \in Procs : \E i \in DOMAIN memory[p] :
                 memory[p][i].version = Version /\ memory[p][i].window = w /\ found = memory[p][i].rows
      BY <3>1 DEF ScanInv, MemoryInv
    <3>2. CASE Covers(Version, w) /\ found = Loaded(Version, w)
      BY <3>2, LoadedGood DEF ScanInv
    <3> QED
      BY <3>1, <3>2 DEF Answers, Range
  <2>2. PICK r \in found : r.candle = c /\ GoodRow(Version, r)
    BY <2>1 DEF GoodRows
  <2>3. \A e \in Vouched(c) : e \in Events /\ CandleOf(e) = c /\ Vouches(Version, e)
    BY DEF Vouched, Vouches, Version
  <2> QED
    BY <2>2, <2>3 DEF GoodRow
<1> QED
  BY <1>1, InitScan, ScanInvStep, PTL DEF ScanSpec

-----------------------------------------------------------------------------
(* The loop of _covers, over any number of windows, by induction on the    *)
(* rows it goes through.                                                   *)

LEMMA LeastNat ==
  ASSUME NEW T \in SUBSET Nat, T # {}
  PROVE  \E m \in T : \A k \in T : m <= k
<1> DEFINE Intervals == {1 .. n : n \in T}
<1>1. Intervals \subseteq FiniteSubsetsOf(Nat) /\ Intervals # {}
  <2>1. ASSUME NEW n \in T
        PROVE  1 .. n \in FiniteSubsetsOf(Nat)
    <3>1. 1 .. n \subseteq Nat /\ IsFiniteSet(1 .. n)
      BY FS_Interval
    <3> QED
      BY <3>1 DEF FiniteSubsetsOf
  <2> QED
    BY <2>1
<1>2. PICK x \in Intervals : \A y \in Intervals : <<y, x>> \notin StrictSubsetOrdering(Nat)
  BY <1>1, WFMin, FS_StrictSubsetOrderingWellFounded
<1>3. PICK m \in T : x = 1 .. m
  OBVIOUS
<1>4. ASSUME NEW k \in T, k < m
      PROVE  FALSE
  <2>1. m \in 1 .. m /\ m \notin 1 .. k
    BY <1>4
  <2>2. 1 .. k \subseteq 1 .. m /\ 1 .. k # 1 .. m /\ {1 .. k, 1 .. m} \subseteq SUBSET Nat
    BY <1>4, <2>1
  <2>3. <<1 .. k, 1 .. m>> \in StrictSubsetOrdering(Nat)
    BY <2>2 DEF StrictSubsetOrdering
  <2> QED
    BY <1>2, <1>3, <2>3
<1> QED
  BY <1>4

LEMMA StepByStep ==
  ASSUME NEW T, 0 \in T, \A n \in Nat : n \in T => n + 1 \in T
  PROVE  Nat \subseteq T
<1> SUFFICES ASSUME Nat \ T # {}
             PROVE  FALSE
  OBVIOUS
<1>1. PICK m \in Nat \ T : \A k \in Nat \ T : m <= k
  BY LeastNat
<1>2. m # 0 /\ m - 1 \in Nat /\ m - 1 \in T
  BY <1>1
<1> QED
  BY <1>2

\* f runs through n steps from base.
Runs(f, n, base, step) == f[0] = base /\ \A i \in 1 .. n : f[i] = step[i][f[i - 1]]

\* The run of n steps exists, for any steps that stay in a set.
LEMMA RunExists ==
  ASSUME NEW T, NEW n \in Nat, NEW base \in T, NEW step \in [1 .. n -> [T -> T]]
  PROVE  \E f \in [0 .. n -> T] : Runs(f, n, base, step)
<1> DEFINE Upto(k) == \E f \in [0 .. k -> T] : Runs(f, k, base, step)
           K == {k \in Nat : k <= n => Upto(k)}
<1>1. Upto(0)
  <2> DEFINE f == [i \in 0 .. 0 |-> base]
  <2>1. f \in [0 .. 0 -> T] /\ Runs(f, 0, base, step)
    BY DEF Runs
  <2> QED
    BY <2>1
<1>2. ASSUME NEW k \in Nat, k + 1 <= n, Upto(k)
      PROVE  Upto(k + 1)
  <2>1. PICK f \in [0 .. k -> T] : Runs(f, k, base, step)
    BY <1>2
  <2> DEFINE g == [i \in 0 .. k + 1 |-> IF i = k + 1 THEN step[k + 1][f[k]] ELSE f[i]]
  <2>2. step[k + 1] \in [T -> T] /\ f[k] \in T
    BY <1>2
  <2>3. g \in [0 .. k + 1 -> T]
    BY <2>2
  <2>4. g[0] = base
    BY <2>1 DEF Runs
  <2>5. ASSUME NEW i \in 1 .. k + 1
        PROVE  g[i] = step[i][g[i - 1]]
    <3>1. CASE i = k + 1
      BY <3>1
    <3>2. CASE i # k + 1
      <4>1. i \in 1 .. k /\ g[i] = f[i] /\ g[i - 1] = f[i - 1]
        BY <3>2
      <4> QED
        BY <2>1, <4>1 DEF Runs
    <3> QED
      BY <3>1, <3>2
  <2>6. Runs(g, k + 1, base, step)
    BY <2>4, <2>5 DEF Runs
  <2> HIDE DEF g
  <2> QED
    BY <2>3, <2>6
<1>3. Nat \subseteq K
  <2>1. 0 \in K /\ \A k \in Nat : k \in K => k + 1 \in K
    BY <1>1, <1>2
  <2> HIDE DEF K
  <2> QED
    BY <2>1, StepByStep
<1> QED
  BY <1>3


\* Windows as they are stored, and list that list some of them in order.
Window == [from : Nat, to : Nat]

Lists(list, windows) ==
  /\ list \in Seq(Window)
  /\ windows = {list[i] : i \in 1 .. Len(list)}
  /\ \A i, j \in 1 .. Len(list) : i <= j => list[i].from <= list[j].from

LEMMA ReachingStays ==
  ASSUME NEW r \in Nat, NEW b \in Window
  PROVE  Reaching(r, b) \in Nat /\ Reaching(r, b) >= r
  BY DEF Reaching, Window

LEMMA ReachedSteps ==
  ASSUME NEW list \in Seq(Window), NEW start \in Nat
  PROVE  \E f \in [0 .. Len(list) -> Nat] :
            /\ f[0] = start /\ ReachedBy(list, start) = f[Len(list)]
            /\ \A n \in 1 .. Len(list) : f[n] = Reaching(f[n - 1], list[n])
<1> DEFINE step == [i \in 1 .. Len(list) |-> [r \in Nat |-> Reaching(r, list[i])]]
           Reach(f) == f = [n \in 0 .. Len(list) |->
                             IF n = 0 THEN start ELSE Reaching(f[n - 1], list[n])]
<1>1. step \in [1 .. Len(list) -> [Nat -> Nat]]
  <2>1. \A i \in 1 .. Len(list) : list[i] \in Window
    BY ElementOfSeq
  <2>2. ASSUME NEW i \in 1 .. Len(list)
        PROVE  [r \in Nat |-> Reaching(r, list[i])] \in [Nat -> Nat]
    BY <2>1, ReachingStays
  <2> QED
    BY <2>2
<1>2. PICK f \in [0 .. Len(list) -> Nat] : Runs(f, Len(list), start, step)
  <2>1. Len(list) \in Nat
    BY LenProperties
  <2> HIDE DEF step
  <2> QED
    BY <1>1, <2>1, RunExists
<1>3. ASSUME NEW n \in 1 .. Len(list)
      PROVE  f[n] = Reaching(f[n - 1], list[n])
  <2>1. f[n] = step[n][f[n - 1]]
    BY <1>2 DEF Runs
  <2>2. n - 1 \in 0 .. Len(list)
    OBVIOUS
  <2> QED
    BY <2>1, <2>2
<1>4. f[0] = start
  BY <1>2 DEF Runs
<1>5. Reach(f)
  BY <1>3, <1>4
<1>6. ASSUME NEW g, Reach(g)
      PROVE  g = f
  <2> DEFINE T == {n \in Nat : n <= Len(list) => g[n] = f[n]}
  <2>1. 0 \in T
    BY <1>4, <1>6
  <2>2. ASSUME NEW n \in T, n \in Nat, n + 1 <= Len(list)
        PROVE  g[n + 1] = f[n + 1]
    <3>1. n + 1 \in 1 .. Len(list) /\ (n + 1) - 1 = n /\ g[n] = f[n]
      BY <2>2
    <3>2. g[n + 1] = Reaching(g[n], list[n + 1])
      BY <1>6, <3>1
    <3>3. f[n + 1] = Reaching(f[n], list[n + 1])
      BY <1>3, <3>1
    <3> QED
      BY <3>1, <3>2, <3>3
  <2>3. Nat \subseteq T
    <3>1. \A n \in Nat : n \in T => n + 1 \in T
      BY <2>2
    <3> HIDE DEF T
    <3> QED
      BY <2>1, <3>1, StepByStep
  <2> QED
    BY <1>6, <2>3
<1>7. ReachedBy(list, start) = (CHOOSE g : Reach(g))[Len(list)]
  BY DEF ReachedBy
<1>8. (CHOOSE g : Reach(g)) = f
  <2> HIDE DEF Reach
  <2> QED
    BY <1>5, <1>6
<1> QED
  BY <1>3, <1>4, <1>7, <1>8

\* Covers: going through the windows that overlap w in the order of the SELECT,
\* the loop of _covers passes the end of w just when they leave no gap in w,
\* for any windows and any number of them.
THEOREM LoopFindsEveryGap ==
  ASSUME NEW windows \in SUBSET Window, NEW w \in Window, w.from < w.to,
         NEW list, Lists(list, Overlapping(windows, w))
  PROVE  w.to <= ReachedBy(list, w.from) <=> NoGap(windows, w)
<1> DEFINE N == Len(list)
<1>1. list \in Seq(Window) /\ N \in Nat /\ w.from \in Nat /\ w.to \in Nat
  BY DEF Lists, Window
<1>2. PICK f \in [0 .. N -> Nat] :
         /\ f[0] = w.from /\ ReachedBy(list, w.from) = f[N]
         /\ \A n \in 1 .. N : f[n] = Reaching(f[n - 1], list[n])
  BY <1>1, ReachedSteps
<1>3. \A i \in 1 .. N : list[i] \in Window /\ list[i].from \in Nat /\ list[i].to \in Nat
  <2>1. \A i \in 1 .. N : list[i] \in Window
    BY <1>1, ElementOfSeq
  <2> QED
    BY <2>1 DEF Window
\* Up to where the loop has got the list leave no gap, and none of them that
\* begins before that place passes it.
<1> DEFINE Good(n) ==
             /\ f[n] >= w.from
             /\ \A t \in w.from .. f[n] - 1 : \E i \in 1 .. n : list[i].from <= t /\ t < list[i].to
             /\ \A i \in 1 .. n : list[i].to <= f[n] \/ list[i].from > f[n]
           T == {n \in Nat : n <= N => Good(n)}
<1>4. Good(0)
  BY <1>1, <1>2
<1>5. ASSUME NEW n \in Nat, n + 1 <= N, Good(n)
      PROVE  Good(n + 1)
  <2> DEFINE b == list[n + 1]
  <2>1. /\ n + 1 \in 1 .. N /\ (n + 1) - 1 = n /\ n \in 0 .. N /\ n + 1 \in 0 .. N
        /\ f[n] \in Nat /\ f[n + 1] \in Nat /\ b.from \in Nat /\ b.to \in Nat
    <3>1. n + 1 \in 1 .. N /\ (n + 1) - 1 = n /\ n \in 0 .. N /\ n + 1 \in 0 .. N
      BY <1>1, <1>5
    <3> QED
      BY <1>2, <1>3, <3>1
  <2>2. f[n + 1] = IF b.from <= f[n] /\ b.to > f[n] THEN b.to ELSE f[n]
    <3>1. f[n + 1] = Reaching(f[n], b)
      BY <1>2, <2>1
    <3> QED
      BY <3>1 DEF Reaching
  <2>3. \A i \in 1 .. n : i \in 1 .. N /\ i \in 1 .. n + 1 /\ list[i].from <= b.from
    BY <1>1, <1>5, <2>1 DEF Lists
  <2>4. \A i \in 1 .. n + 1 : i \in 1 .. n \/ i = n + 1
    OBVIOUS
  <2>5. CASE b.from <= f[n] /\ b.to > f[n]
    <3>1. f[n + 1] = b.to
      BY <2>2, <2>5
    <3>2. ASSUME NEW t \in w.from .. f[n + 1] - 1
          PROVE  \E i \in 1 .. n + 1 : list[i].from <= t /\ t < list[i].to
      <4>1. CASE t < f[n]
        <5>1. t \in w.from .. f[n] - 1
          BY <2>1, <4>1
        <5> QED
          BY <1>5, <2>3, <5>1
      <4>2. CASE t >= f[n]
        <5>1. b.from <= t /\ t < b.to /\ n + 1 \in 1 .. n + 1
          BY <2>1, <2>5, <3>1, <4>2
        <5> QED
          BY <5>1
      <4> QED
        BY <1>1, <2>1, <4>1, <4>2
    <3>3. ASSUME NEW i \in 1 .. n + 1
          PROVE  list[i].to <= f[n + 1] \/ list[i].from > f[n + 1]
      <4>1. CASE i = n + 1
        BY <2>1, <3>1, <4>1
      <4>2. CASE i \in 1 .. n
        <5>1. list[i].to <= f[n]
          BY <1>3, <1>5, <2>1, <2>3, <2>5, <4>2
        <5> QED
          BY <1>3, <2>1, <2>3, <2>5, <3>1, <4>2, <5>1
      <4> QED
        BY <2>4, <4>1, <4>2
    <3> QED
      BY <1>1, <1>5, <2>1, <2>5, <3>1, <3>2, <3>3
  <2>6. CASE ~(b.from <= f[n] /\ b.to > f[n])
    <3>1. f[n + 1] = f[n]
      BY <2>2, <2>6
    <3>2. b.to <= f[n] \/ b.from > f[n]
      BY <2>1, <2>6
    <3> QED
      BY <1>5, <2>3, <2>4, <3>1, <3>2
  <2> QED
    BY <2>5, <2>6
<1>6. Good(N)
  <2>1. 0 \in T /\ \A n \in Nat : n \in T => n + 1 \in T
    <3>1. 0 \in T
      BY <1>4
    <3>2. ASSUME NEW n \in Nat, n \in T, n + 1 <= N
          PROVE  Good(n + 1)
      <4>1. Good(n)
        BY <1>1, <3>2
      <4> HIDE DEF Good
      <4> QED
        BY <1>5, <3>2, <4>1
    <3> HIDE DEF Good
    <3> QED
      BY <3>1, <3>2
  <2> HIDE DEF T
  <2>2. N \in T
    BY <1>1, <2>1, StepByStep
  <2> QED
    BY <1>1, <2>2 DEF T
<1>7. f[N] \in Nat
  BY <1>1, <1>2
<1>8. ASSUME w.to <= f[N]
      PROVE  NoGap(windows, w)
  <2> SUFFICES ASSUME NEW t \in w.from .. w.to - 1
               PROVE  \E b \in windows : b.from <= t /\ t < b.to
    BY DEF NoGap
  <2>1. t \in w.from .. f[N] - 1
    BY <1>1, <1>7, <1>8
  <2>2. PICK i \in 1 .. N : list[i].from <= t /\ t < list[i].to
    BY <1>6, <2>1
  <2>3. list[i] \in windows
    BY DEF Lists, Overlapping
  <2> QED
    BY <2>2, <2>3
<1>9. ASSUME NoGap(windows, w), f[N] < w.to
      PROVE  FALSE
  <2>1. f[N] \in w.from .. w.to - 1
    BY <1>1, <1>6, <1>7, <1>9
  <2>2. PICK b \in windows : b.from <= f[N] /\ f[N] < b.to
    BY <1>9, <2>1 DEF NoGap
  <2>3. b.from \in Nat /\ b.to \in Nat
    BY DEF Window
  <2>4. b \in Overlapping(windows, w)
    BY <1>1, <1>7, <1>9, <2>1, <2>2, <2>3 DEF Overlapping
  <2>5. PICK i \in 1 .. N : list[i] = b
    BY <2>4 DEF Lists
  <2> QED
    BY <1>6, <1>7, <2>2, <2>3, <2>5
<1> QED
  BY <1>1, <1>2, <1>7, <1>8, <1>9

=============================================================================
