-------------------------- MODULE ZoneBook_proofs --------------------------
(***************************************************************************)
(* Theorems about ZoneBook and ZoneReplay, for any prices, footprints and  *)
(* number of candles and refills.  Those about the book do not depend on   *)
(* what the scans of the levels find: they hold whatever zones the book is *)
(* offered.  Those about the replay need of a zone found that it is one of *)
(* the present candle.  The last part proves what the scans find.          *)
(***************************************************************************)
EXTENDS ZoneReplay, TriggerEngine_proofs

\* What the theorems need of the types.
Typed == candle \in Nat /\ emitFrom \in Nat

LEMMA TypedInit == ZoneInit => Typed
  BY ZoneAssumption DEF ZoneInit, Typed

LEMMA BookIsActive == Book \subseteq active
  BY DEF Book, Outlived

\* An event without a refill leaves a part of the book, one with a refill
\* adds at most one zone, in place of what the zone replaces.
LEMMA RefillCases ==
  ASSUME NEW side \in Side, NEW p \in Price, Refill(side, p)
  PROVE  \/ active' = Book /\ emitted' = emitted /\ Announce(TerminalPayloads)
         \/ \E z : /\ z \notin emitted
                   /\ active' = (Book \ Replaced(Book, z)) \union {z}
                   /\ emitted' = emitted \union {z}
                   /\ Announce(TerminalPayloads \o <<Payload(Replaced(Book, z), {z})>>)
  BY DEF Refill

\* A step of ZoneNext, as far as the book and its payloads are concerned.
Quiet ==
  /\ active' = Book /\ emitted' = emitted
  /\ Announce(TerminalPayloads)

NewZone(z) ==
  /\ z \notin emitted
  /\ active' = (Book \ Replaced(Book, z)) \union {z}
  /\ emitted' = emitted \union {z}
  /\ Announce(TerminalPayloads \o <<Payload(Replaced(Book, z), {z})>>)

LEMMA StepCases ==
  ASSUME [ZoneNext]_zoneVars
  PROVE  \/ /\ Quiet \/ \E z : NewZone(z)
            /\ checked' = IF active = {} THEN checked ELSE Book
            /\ UNCHANGED <<candle, foot, emitFrom>>
         \/ /\ candle' = candle + 1 /\ checked' = {}
            /\ UNCHANGED <<active, emitted, shown, view, emitFrom>>
         \/ UNCHANGED zoneVars
<1>1. CASE OtherEvent
  BY <1>1 DEF OtherEvent, Quiet
<1>2. ASSUME NEW side \in Side, NEW p \in Price, Refill(side, p)
      PROVE  /\ Quiet \/ \E z : NewZone(z)
             /\ checked' = IF active = {} THEN checked ELSE Book
             /\ UNCHANGED <<candle, foot, emitFrom>>
  <2>1. Quiet \/ \E z : NewZone(z)
    BY <1>2, RefillCases DEF Quiet, NewZone
  <2> QED
    BY <1>2, <2>1 DEF Refill
<1>3. CASE NextCandle
  BY <1>3 DEF NextCandle
<1> QED
  BY <1>1, <1>2, <1>3 DEF ZoneNext

LEMMA TypedStep == Typed /\ [ZoneNext]_zoneVars => Typed'
  BY StepCases DEF Typed, zoneVars

-----------------------------------------------------------------------------
(* The order of the book.                                                  *)

\* At most one zone of either side is active, whatever is refilled.
THEOREM OneZonePerSide == ZoneSpec => []OnePerSide
<1>1. ZoneInit => OnePerSide
  BY DEF ZoneInit, OnePerSide
<1>2. OnePerSide /\ [ZoneNext]_zoneVars => OnePerSide'
  <2> SUFFICES ASSUME OnePerSide, [ZoneNext]_zoneVars
               PROVE  OnePerSide'
    OBVIOUS
  <2>1. CASE Quiet
    BY <2>1, BookIsActive DEF Quiet, OnePerSide
  <2>2. ASSUME NEW z, NewZone(z)
        PROVE  OnePerSide'
    <3>1. \A a \in Book \ Replaced(Book, z) : a.side # z.side
      BY DEF Replaced
    <3> QED
      BY <2>2, <3>1, BookIsActive DEF NewZone, OnePerSide
  <2> QED
    BY <2>1, <2>2, StepCases DEF OnePerSide, zoneVars
<1> QED
  BY <1>1, <1>2, PTL DEF ZoneSpec

\* No active BID zone lies above an active ASK zone.
THEOREM BookIsNotCrossed == ZoneSpec => []NoInversion
<1>1. ZoneInit => NoInversion
  BY DEF ZoneInit, NoInversion
<1>2. NoInversion /\ [ZoneNext]_zoneVars => NoInversion'
  <2> SUFFICES ASSUME NoInversion, [ZoneNext]_zoneVars
               PROVE  NoInversion'
    OBVIOUS
  <2>1. CASE Quiet
    BY <2>1, BookIsActive DEF Quiet, NoInversion, Above
  <2>2. ASSUME NEW z, NewZone(z)
        PROVE  NoInversion'
    <3> SUFFICES ASSUME NEW a \in active', NEW b \in active', a.side = "BID", b.side = "ASK"
                 PROVE  ~Above(a, b)
      BY DEF NoInversion, Above
    <3>1. CASE a \in active /\ b \in active
      BY <3>1 DEF NoInversion
    <3>2. CASE a = z /\ b \in Book \ Replaced(Book, z)
      BY <3>2 DEF Replaced
    <3>3. CASE b = z /\ a \in Book \ Replaced(Book, z)
      BY <3>3 DEF Replaced, Above, Below
    <3> QED
      BY <2>2, <3>1, <3>2, <3>3, BookIsActive DEF NewZone
  <2> QED
    BY <2>1, <2>2, StepCases DEF NoInversion, zoneVars, Above
<1> QED
  BY <1>1, <1>2, PTL DEF ZoneSpec

\* The terminals of a candle need not be looked at again: what the last look
\* left has none of them beyond it.
CheckedOutlive == \A a \in checked : ~Passed(a, foot)

\* No zone lives through an event of a candle that has a terminal beyond it.
THEOREM PassedZonesAreCancelled == ZoneSpec => PassedAreCancelled
<1> DEFINE Stays == candle' = candle => \A a \in active \intersect active' : ~Passed(a, foot)
           Inv == Typed /\ CheckedOutlive /\ active \subseteq emitted
<1>1. ZoneInit => Inv
  BY TypedInit DEF ZoneInit, CheckedOutlive
<1>2. Inv /\ [ZoneNext]_zoneVars => Inv'
  <2> SUFFICES ASSUME Inv, [ZoneNext]_zoneVars
               PROVE  Inv'
    OBVIOUS
  <2>1. Typed'
    BY TypedStep
  <2>2. \A a \in Book : ~Passed(a, foot)
    BY DEF Book, Outlived, CheckedOutlive
  <2>3. CheckedOutlive'
    BY <2>2, StepCases DEF CheckedOutlive, zoneVars, Passed
  <2>4. (active \subseteq emitted)'
    BY StepCases, BookIsActive DEF Quiet, NewZone, zoneVars
  <2> QED
    BY <2>1, <2>3, <2>4
<1>3. Inv /\ [ZoneNext]_zoneVars => [Stays]_zoneVars
  <2> SUFFICES ASSUME Inv, [ZoneNext]_zoneVars, candle' = candle, zoneVars' # zoneVars,
                      NEW a \in active \intersect active'
               PROVE  ~Passed(a, foot)
    OBVIOUS
  <2>1. candle' # candle + 1
    BY DEF Typed
  <2>2. a \in Book
    BY <2>1, StepCases DEF Quiet, NewZone
  <2> QED
    BY <2>2 DEF Book, Outlived, CheckedOutlive
<1> QED
  BY <1>1, <1>2, <1>3, PTL DEF ZoneSpec, PassedAreCancelled

-----------------------------------------------------------------------------
(* The payloads.  Only the emit window decides whether payloads are        *)
(* published, so a zone is either known to the consumer with everything    *)
(* that happens to it, or not at all.                                      *)

\* The zones shown and cancelled by the payloads of one event.
ZonesIn(payloads) == UNION {payloads[i].zones : i \in DOMAIN payloads}
CancelsIn(payloads) == UNION {payloads[i].cancels : i \in DOMAIN payloads}

LEMMA Announced ==
  ASSUME NEW payloads, Announce(payloads)
  PROVE  IF candle >= emitFrom
         THEN /\ shown' = shown \union ZonesIn(payloads)
              /\ view' = (view \ CancelsIn(payloads)) \union ZonesIn(payloads)
         ELSE UNCHANGED <<shown, view>>
<1>1. CASE candle >= emitFrom
  BY <1>1 DEF Announce, ZonesIn, CancelsIn
<1>2. CASE ~(candle >= emitFrom)
  <2>1. DOMAIN <<>> = {}
    OBVIOUS
  <2>2. ZonesIn(<<>>) = {} /\ CancelsIn(<<>>) = {}
    BY <2>1 DEF ZonesIn, CancelsIn
  <2>3. /\ shown' = shown \union ZonesIn(<<>>)
        /\ view' = (view \ CancelsIn(<<>>)) \union ZonesIn(<<>>)
    BY <1>2 DEF Announce, ZonesIn, CancelsIn
  <2> QED
    BY <1>2, <2>2, <2>3
<1> QED
  BY <1>1, <1>2

\* Together the payloads name every zone that leaves the book.
LEMMA QuietPayloads ==
  ZonesIn(TerminalPayloads) = {} /\ CancelsIn(TerminalPayloads) = active \ Book
<1>1. CASE Book = active
  <2>1. TerminalPayloads = <<>> /\ DOMAIN <<>> = {}
    BY <1>1 DEF TerminalPayloads
  <2> QED
    BY <1>1, <2>1 DEF ZonesIn, CancelsIn
<1>2. CASE Book # active
  <2>1. TerminalPayloads = <<Payload(active \ Book, {})>>
    BY <1>2 DEF TerminalPayloads
  <2>2. DOMAIN TerminalPayloads = {1} /\ TerminalPayloads[1] = Payload(active \ Book, {})
    BY <2>1
  <2> QED
    BY <2>2 DEF ZonesIn, CancelsIn, Payload
<1> QED
  BY <1>1, <1>2

LEMMA PairOf ==
  ASSUME NEW first, NEW second
  PROVE  LET pair == <<first>> \o <<second>>
         IN DOMAIN pair = {1, 2} /\ pair[1] = first /\ pair[2] = second
<1> DEFINE one == <<first>>
           other == <<second>>
           pair == one \o other
<1>1. /\ one \in Seq({first, second}) /\ Len(one) = 1 /\ one[1] = first
      /\ other \in Seq({first, second}) /\ Len(other) = 1 /\ other[1] = second
  OBVIOUS
<1> HIDE DEF one, other
<1>2. /\ pair \in Seq({first, second}) /\ Len(pair) = Len(one) + Len(other)
      /\ \A i \in 1 .. Len(one) + Len(other) :
           pair[i] = IF i <= Len(one) THEN one[i] ELSE other[i - Len(one)]
  BY <1>1, ConcatProperties, ZenonT(40)
<1>3. pair[1] = first /\ pair[2] = second
  <2>1. Len(one) + Len(other) = 2 /\ 1 \in 1 .. 2 /\ 2 \in 1 .. 2 /\ ~(2 <= 1) /\ 2 - 1 = 1
    BY <1>1
  <2>2. /\ pair[1] = IF 1 <= Len(one) THEN one[1] ELSE other[1 - Len(one)]
        /\ pair[2] = IF 2 <= Len(one) THEN one[2] ELSE other[2 - Len(one)]
    BY <1>2, <2>1
  <2> QED
    BY <1>1, <2>1, <2>2
<1>4. DOMAIN pair = {1, 2}
  BY <1>1, <1>2
<1> QED
  BY <1>3, <1>4 DEF one, other

LEMMA AloneOf ==
  ASSUME NEW only
  PROVE  LET alone == <<>> \o <<only>>
         IN DOMAIN alone = {1} /\ alone[1] = only
OBVIOUS

LEMMA NewZonePayloads ==
  ASSUME NEW z,
         NEW payloads,
         payloads = TerminalPayloads \o <<Payload(Replaced(Book, z), {z})>>
  PROVE  /\ ZonesIn(payloads) = {z}
         /\ CancelsIn(payloads) = (active \ Book) \union Replaced(Book, z)
<1> DEFINE new == Payload(Replaced(Book, z), {z})
           old == Payload(active \ Book, {})
<1>1. /\ new.cancels = Replaced(Book, z) /\ new.zones = {z}
      /\ old.cancels = active \ Book /\ old.zones = {}
  BY DEF Payload
<1>0. payloads = TerminalPayloads \o <<new>>
  BY DEF new
<1> HIDE DEF new, old
<1>2. CASE Book = active
  <2>1. TerminalPayloads = <<>>
    BY <1>2 DEF TerminalPayloads
  <2>2. payloads = <<>> \o <<new>>
    BY <1>0, <2>1, Zenon
  <2>3. DOMAIN payloads = {1} /\ payloads[1] = new
    BY <2>2, AloneOf, Zenon
  <2> QED
    BY <1>1, <1>2, <2>3 DEF ZonesIn, CancelsIn
<1>3. CASE Book # active
  <2>1. TerminalPayloads = <<old>>
    BY <1>3 DEF TerminalPayloads, old
  <2>2. payloads = <<old>> \o <<new>>
    BY <1>0, <2>1, Zenon
  <2>3. /\ DOMAIN (<<old>> \o <<new>>) = {1, 2}
        /\ (<<old>> \o <<new>>)[1] = old /\ (<<old>> \o <<new>>)[2] = new
    BY PairOf
  <2>4. DOMAIN payloads = {1, 2} /\ payloads[1] = old /\ payloads[2] = new
    BY <2>2, <2>3, Zenon
  <2> QED
    BY <1>1, <2>4 DEF ZonesIn, CancelsIn
<1> QED
  BY <1>2, <1>3

\* The invariant behind the theorems about the payloads.
Published ==
  /\ Typed
  /\ active \subseteq emitted /\ shown \subseteq emitted
  /\ candle < emitFrom => shown = {}
  /\ StreamMatchesBook

LEMMA PublishedInit == ZoneInit => Published
  BY TypedInit DEF ZoneInit, Published, StreamMatchesBook

LEMMA QuietStep ==
  ASSUME Published, Quiet
  PROVE  IF candle >= emitFrom
         THEN view' = view \ (active \ Book) /\ shown' = shown
         ELSE UNCHANGED <<shown, view>>
  BY Announced, QuietPayloads DEF Quiet

LEMMA NewZoneStep ==
  ASSUME Published, NEW z, NewZone(z)
  PROVE  IF candle >= emitFrom
         THEN /\ view' = (view \ ((active \ Book) \union Replaced(Book, z))) \union {z}
              /\ shown' = shown \union {z}
         ELSE UNCHANGED <<shown, view>>
  BY Announced, NewZonePayloads DEF NewZone

LEMMA PublishedStep == Published /\ [ZoneNext]_zoneVars => Published'
<1> SUFFICES ASSUME Published, [ZoneNext]_zoneVars
             PROVE  Published'
  OBVIOUS
<1>1. Typed'
  BY TypedStep DEF Published
<1>2. CASE Quiet /\ UNCHANGED <<candle, emitFrom>>
  <2>1. CASE candle >= emitFrom
    BY <1>1, <1>2, <2>1, QuietStep, BookIsActive DEF Published, Typed, Quiet, StreamMatchesBook
  <2>2. CASE ~(candle >= emitFrom)
    BY <1>1, <1>2, <2>2, QuietStep, BookIsActive DEF Published, Typed, Quiet, StreamMatchesBook
  <2> QED
    BY <2>1, <2>2
<1>3. ASSUME NEW z, NewZone(z), UNCHANGED <<candle, emitFrom>>
      PROVE  Published'
  <2>1. z \notin active /\ z \notin shown /\ active' \subseteq emitted'
    BY <1>3, BookIsActive DEF NewZone, Published
  <2>2. CASE candle >= emitFrom
    <3>1. shown' = shown \union {z} /\ emitted' = emitted \union {z}
      BY <1>3, <2>2, NewZoneStep DEF NewZone
    <3>2. view' = (view \ ((active \ Book) \union Replaced(Book, z))) \union {z}
      BY <1>3, <2>2, NewZoneStep
    <3>3. view = active \intersect shown
      BY DEF Published, StreamMatchesBook
    <3>4. view' = active' \intersect shown'
      BY <1>3, <3>1, <3>2, <3>3, BookIsActive DEF NewZone
    <3> QED
      BY <1>1, <1>3, <2>1, <2>2, <3>1, <3>4 DEF Published, Typed, StreamMatchesBook
  <2>3. CASE ~(candle >= emitFrom)
    <3>1. UNCHANGED <<shown, view>> /\ shown = {} /\ view = {}
      BY <1>3, <2>3, NewZoneStep DEF Published, Typed, StreamMatchesBook
    <3> QED
      BY <1>1, <1>3, <2>1, <3>1 DEF Published, StreamMatchesBook
  <2> QED
    BY <2>2, <2>3
<1>4. CASE candle' = candle + 1 /\ UNCHANGED <<active, emitted, shown, view, emitFrom>>
  BY <1>1, <1>4 DEF Published, Typed, StreamMatchesBook
<1>5. CASE UNCHANGED zoneVars
  BY <1>5 DEF Published, Typed, StreamMatchesBook, zoneVars
<1> QED
  BY <1>2, <1>3, <1>4, <1>5, StepCases

\* A consumer that obeys the payloads knows exactly the active zones that
\* were published.
THEOREM StreamAgreesWithBook == ZoneSpec => []StreamMatchesBook
<1>1. Published => StreamMatchesBook
  BY DEF Published
<1> QED
  BY <1>1, PublishedInit, PublishedStep, PTL DEF ZoneSpec

\* The zone book implements ZoneStream: every published zone is new, lives
\* until a payload cancels it, and is alone on its side.
THEOREM BookKeepsPromise == ZoneSpec => KeepsPromise
<1>1. ZoneInit => Stream!Init
  BY DEF ZoneInit, Stream!Init
<1>2. Published /\ [ZoneNext]_zoneVars => [Stream!Next]_(Stream!vars)
  <2> SUFFICES ASSUME Published, [ZoneNext]_zoneVars
               PROVE  [Stream!Next]_(Stream!vars)
    OBVIOUS
  <2>1. CASE UNCHANGED <<shown, view>>
    BY <2>1 DEF Stream!vars
  <2>2. CASE Quiet /\ candle >= emitFrom
    <3>1. view' \in SUBSET view /\ shown' = shown
      BY <2>2, QuietStep
    <3> QED
      BY <3>1 DEF Stream!Next, Stream!Cancel
  <2>3. ASSUME NEW z, NewZone(z), candle >= emitFrom
        PROVE  Stream!Show
    <3> DEFINE rest == view \ ((active \ Book) \union Replaced(Book, z))
    <3>1. shown' = shown \union {z} /\ view' = rest \union {z}
      BY <2>3, NewZoneStep
    <3>2. z \in shown' \ shown
      BY <2>3, <3>1 DEF NewZone, Published
    <3>3. ASSUME NEW other \in rest
          PROVE  other.side # z.side
      <4>1. other \in Book /\ other \notin Replaced(Book, z)
        BY <3>3 DEF Published, StreamMatchesBook
      <4> QED
        BY <4>1 DEF Replaced
    <3> QED
      BY <3>1, <3>2, <3>3 DEF Stream!Show
  <2>4. CASE Quiet
    BY <2>1, <2>2, <2>4, QuietStep
  <2>5. ASSUME NEW z, NewZone(z)
        PROVE  [Stream!Next]_(Stream!vars)
    BY <2>1, <2>3, <2>5, NewZoneStep DEF Stream!Next
  <2> QED
    BY <2>1, <2>4, <2>5, StepCases DEF zoneVars
<1> QED
  BY <1>1, <1>2, PublishedInit, PublishedStep, PTL DEF ZoneSpec, KeepsPromise, Stream!Spec

-----------------------------------------------------------------------------
(* The zones that are found are of the candle.                             *)

Of(found, c) == \A z \in found : z.candle = c

LEMMA ZoneOfIs == \A side, run, counts, bins, c : Of(ZoneOf(side, run, counts, bins, c), c)
  BY DEF ZoneOf, Of

\* What a scan has collected: a run and zones of the candle.
Scanned(acc, c) == acc = [run |-> acc.run, found |-> acc.found] /\ Of(acc.found, c)

LEMMA LevelStepOf ==
  ASSUME NEW side, NEW run, NEW found, NEW p, NEW counts, NEW bins, NEW c, Of(found, c)
  PROVE  Scanned(LevelStep(side, [run |-> run, found |-> found], p, counts, bins, c), c)
<1> DEFINE acc == [run |-> run, found |-> found]
           new == LevelStep(side, acc, p, counts, bins, c)
<1>1. \E r, more : new = [run |-> r, found |-> found \union more] /\ Of(more, c)
  <2>1. \A r, k : [acc EXCEPT !.run = r] = [run |-> r, found |-> found \union {}] /\ Of({}, k)
    BY DEF Of
  <2> QED
    BY <2>1, ZoneOfIs DEF LevelStep
<1>2. PICK r, more : new = [run |-> r, found |-> found \union more] /\ Of(more, c)
  BY <1>1
<1> HIDE DEF new
<1>3. Scanned(new, c)
  BY <1>2 DEF Scanned, Of
<1> QED
  BY <1>3 DEF new

LEMMA StepScanned ==
  ASSUME NEW acc, NEW c, Scanned(acc, c), NEW side, NEW p, NEW counts, NEW bins
  PROVE  Scanned(LevelStep(side, acc, p, counts, bins, c), c) /\ Scanned(Break(acc), c)
<1>1. Scanned(LevelStep(side, acc, p, counts, bins, c), c)
  <2>1. PICK r, f : acc = [run |-> r, found |-> f] /\ Of(f, c)
    BY DEF Scanned
  <2>2. Scanned(LevelStep(side, [run |-> r, found |-> f], p, counts, bins, c), c)
    BY <2>1, LevelStepOf
  <2> QED
    BY <2>1, <2>2
<1>2. Scanned(Break(acc), c)
  <2>1. Break(acc) = [run |-> <<>>, found |-> acc.found]
    <3>1. Break([run |-> acc.run, found |-> acc.found]) = [run |-> <<>>, found |-> acc.found]
      BY DEF Break
    <3> QED
      BY <3>1 DEF Scanned
  <2> QED
    BY <2>1 DEF Scanned
<1> QED
  BY <1>1, <1>2

\* One level of either scan.
BidLevel(acc, n, counts, bins, c) ==
  LET p == TopPrice + 1 - n
      after == IF counts["ASK"][p] > 0 THEN Break(acc) ELSE acc
  IN IF counts["BID"][p] > 0 THEN LevelStep("BID", after, p, counts["BID"], bins, c) ELSE after

AskLevel(acc, p, counts, bins, c) ==
  LET after == IF counts["ASK"][p] > 0
               THEN LevelStep("ASK", acc, p, counts["ASK"], bins, c) ELSE acc
  IN IF counts["BID"][p] > 0 THEN Break(after) ELSE after

LEMMA LevelScanned ==
  ASSUME NEW acc, NEW c, Scanned(acc, c), NEW n, NEW counts, NEW bins
  PROVE  /\ Scanned(BidLevel(acc, n, counts, bins, c), c)
         /\ Scanned(AskLevel(acc, n, counts, bins, c), c)
<1>1. Scanned(BidLevel(acc, n, counts, bins, c), c)
  BY StepScanned DEF BidLevel
<1>2. Scanned(AskLevel(acc, n, counts, bins, c), c)
  BY StepScanned DEF AskLevel
<1> QED
  BY <1>1, <1>2

NoScan == [run |-> <<>>, found |-> {}]

\* The recursions the two scans are defined by.
IsBidScan(f, counts, bins, c) ==
  f = [n \in 0 .. TopPrice |->
         IF n = 0 THEN NoScan ELSE BidLevel(f[n - 1], n, counts, bins, c)]

IsAskScan(f, counts, bins, c) ==
  f = [n \in 0 .. TopPrice |->
         IF n = 0 THEN NoScan ELSE AskLevel(f[n - 1], n, counts, bins, c)]

LEMMA BidScanExists ==
  ASSUME NEW counts, NEW bins, NEW c
  PROVE  \E f : IsBidScan(f, counts, bins, c)
<1> DEFINE next(x, i) == BidLevel(x, i, counts, bins, c)
           Upto(k, f) == /\ f = [i \in 0 .. k |-> f[i]] /\ f[0] = NoScan
                         /\ \A i \in 1 .. k : f[i] = next(f[i - 1], i)
           K == {k \in Nat : \E f : Upto(k, f)}
<1> HIDE DEF next
<1>1. 0 \in K
  <2> DEFINE f == [i \in 0 .. 0 |-> NoScan]
  <2>1. Upto(0, f)
    OBVIOUS
  <2> QED
    BY <2>1
<1>2. ASSUME NEW k \in Nat, k \in K
      PROVE  k + 1 \in K
  <2>1. PICK f : Upto(k, f)
    BY <1>2
  <2> DEFINE g == [i \in 0 .. k + 1 |-> IF i = k + 1 THEN next(f[k], k + 1) ELSE f[i]]
  <2>2. g = [i \in 0 .. k + 1 |-> g[i]]
    OBVIOUS
  <2>3. g[0] = NoScan
    BY <2>1
  <2>4. ASSUME NEW i \in 1 .. k + 1
        PROVE  g[i] = next(g[i - 1], i)
    <3>1. CASE i = k + 1
      <4>1. g[i] = next(f[k], k + 1) /\ g[i - 1] = f[k]
        BY <3>1
      <4> QED
        BY <3>1, <4>1
    <3>2. CASE i # k + 1
      <4>1. i \in 1 .. k /\ g[i] = f[i] /\ g[i - 1] = f[i - 1]
        BY <3>2
      <4> QED
        BY <2>1, <4>1
    <3> QED
      BY <3>1, <3>2
  <2> HIDE DEF g
  <2>5. Upto(k + 1, g)
    BY <2>2, <2>3, <2>4
  <2> HIDE DEF Upto
  <2> QED
    BY <2>5
<1>3. TopPrice \in K
  <2>1. TopPrice \in Nat
    BY ZoneAssumption
  <2> HIDE DEF K
  <2> QED
    BY <1>1, <1>2, <2>1, StepByStep
<1>4. PICK f : Upto(TopPrice, f)
  BY <1>3
<1> DEFINE body(i) == IF i = 0 THEN NoScan ELSE next(f[i - 1], i)
<1>5. ASSUME NEW i \in 0 .. TopPrice
      PROVE  f[i] = body(i)
  <2>1. i = 0 \/ (i # 0 /\ i \in 1 .. TopPrice)
    OBVIOUS
  <2> QED
    BY <1>4, <2>1
<1>6. f = [i \in 0 .. TopPrice |-> body(i)]
  <2>1. f = [i \in 0 .. TopPrice |-> f[i]]
    BY <1>4
  <2> HIDE DEF body
  <2> QED
    BY <1>5, <2>1
<1> QED
  BY <1>6 DEF IsBidScan, next

LEMMA BidZonesOf ==
  ASSUME NEW counts, NEW bins, NEW c
  PROVE  Of(BidZones(counts, bins, c), c)
<1> DEFINE f == CHOOSE g : IsBidScan(g, counts, bins, c)
           body(n) == IF n = 0 THEN NoScan ELSE BidLevel(f[n - 1], n, counts, bins, c)
           T == {n \in Nat : n <= TopPrice => Scanned(f[n], c)}
<1>1. IsBidScan(f, counts, bins, c)
  BY BidScanExists
<1>2. BidZones(counts, bins, c) = f[TopPrice].found
  BY DEF BidZones, IsBidScan, BidLevel, NoScan
<1> HIDE DEF f
<1>3. ASSUME NEW n \in 0 .. TopPrice
      PROVE  f[n] = body(n)
  <2>1. f = [j \in 0 .. TopPrice |-> body(j)]
    BY <1>1 DEF IsBidScan
  <2> HIDE DEF body
  <2> QED
    BY <2>1
<1>4. 0 \in T
  <2>1. Scanned(NoScan, c)
    BY DEF Scanned, NoScan, Of
  <2> QED
    BY <1>3, <2>1, ZoneAssumption
<1>5. ASSUME NEW n \in Nat, n \in T
      PROVE  n + 1 \in T
  <2> SUFFICES ASSUME n + 1 <= TopPrice
               PROVE  Scanned(f[n + 1], c)
    OBVIOUS
  <2>1. n + 1 \in 0 .. TopPrice /\ n + 1 # 0 /\ (n + 1) - 1 = n /\ Scanned(f[n], c)
    BY <1>5, ZoneAssumption
  <2> QED
    BY <1>3, <2>1, LevelScanned
<1>6. TopPrice \in T
  <2>1. TopPrice \in Nat
    BY ZoneAssumption
  <2> HIDE DEF T
  <2> QED
    BY <1>4, <1>5, <2>1, StepByStep
<1> QED
  BY <1>2, <1>6, ZoneAssumption DEF Scanned

LEMMA AskScanExists ==
  ASSUME NEW counts, NEW bins, NEW c
  PROVE  \E f : IsAskScan(f, counts, bins, c)
<1> DEFINE next(x, i) == AskLevel(x, i, counts, bins, c)
           Upto(k, f) == /\ f = [i \in 0 .. k |-> f[i]] /\ f[0] = NoScan
                         /\ \A i \in 1 .. k : f[i] = next(f[i - 1], i)
           K == {k \in Nat : \E f : Upto(k, f)}
<1> HIDE DEF next
<1>1. 0 \in K
  <2> DEFINE f == [i \in 0 .. 0 |-> NoScan]
  <2>1. Upto(0, f)
    OBVIOUS
  <2> QED
    BY <2>1
<1>2. ASSUME NEW k \in Nat, k \in K
      PROVE  k + 1 \in K
  <2>1. PICK f : Upto(k, f)
    BY <1>2
  <2> DEFINE g == [i \in 0 .. k + 1 |-> IF i = k + 1 THEN next(f[k], k + 1) ELSE f[i]]
  <2>2. g = [i \in 0 .. k + 1 |-> g[i]]
    OBVIOUS
  <2>3. g[0] = NoScan
    BY <2>1
  <2>4. ASSUME NEW i \in 1 .. k + 1
        PROVE  g[i] = next(g[i - 1], i)
    <3>1. CASE i = k + 1
      <4>1. g[i] = next(f[k], k + 1) /\ g[i - 1] = f[k]
        BY <3>1
      <4> QED
        BY <3>1, <4>1
    <3>2. CASE i # k + 1
      <4>1. i \in 1 .. k /\ g[i] = f[i] /\ g[i - 1] = f[i - 1]
        BY <3>2
      <4> QED
        BY <2>1, <4>1
    <3> QED
      BY <3>1, <3>2
  <2> HIDE DEF g
  <2>5. Upto(k + 1, g)
    BY <2>2, <2>3, <2>4
  <2> HIDE DEF Upto
  <2> QED
    BY <2>5
<1>3. TopPrice \in K
  <2>1. TopPrice \in Nat
    BY ZoneAssumption
  <2> HIDE DEF K
  <2> QED
    BY <1>1, <1>2, <2>1, StepByStep
<1>4. PICK f : Upto(TopPrice, f)
  BY <1>3
<1> DEFINE body(i) == IF i = 0 THEN NoScan ELSE next(f[i - 1], i)
<1>5. ASSUME NEW i \in 0 .. TopPrice
      PROVE  f[i] = body(i)
  <2>1. i = 0 \/ (i # 0 /\ i \in 1 .. TopPrice)
    OBVIOUS
  <2> QED
    BY <1>4, <2>1
<1>6. f = [i \in 0 .. TopPrice |-> body(i)]
  <2>1. f = [i \in 0 .. TopPrice |-> f[i]]
    BY <1>4
  <2> HIDE DEF body
  <2> QED
    BY <1>5, <2>1
<1> QED
  BY <1>6 DEF IsAskScan, next

LEMMA AskZonesOf ==
  ASSUME NEW counts, NEW bins, NEW c
  PROVE  Of(AskZones(counts, bins, c), c)
<1> DEFINE f == CHOOSE g : IsAskScan(g, counts, bins, c)
           body(n) == IF n = 0 THEN NoScan ELSE AskLevel(f[n - 1], n, counts, bins, c)
           T == {n \in Nat : n <= TopPrice => Scanned(f[n], c)}
<1>1. IsAskScan(f, counts, bins, c)
  BY AskScanExists
<1>2. AskZones(counts, bins, c) = f[TopPrice].found
  BY DEF AskZones, IsAskScan, AskLevel, NoScan
<1> HIDE DEF f
<1>3. ASSUME NEW n \in 0 .. TopPrice
      PROVE  f[n] = body(n)
  <2>1. f = [j \in 0 .. TopPrice |-> body(j)]
    BY <1>1 DEF IsAskScan
  <2> HIDE DEF body
  <2> QED
    BY <2>1
<1>4. 0 \in T
  <2>1. Scanned(NoScan, c)
    BY DEF Scanned, NoScan, Of
  <2> QED
    BY <1>3, <2>1, ZoneAssumption
<1>5. ASSUME NEW n \in Nat, n \in T
      PROVE  n + 1 \in T
  <2> SUFFICES ASSUME n + 1 <= TopPrice
               PROVE  Scanned(f[n + 1], c)
    OBVIOUS
  <2>1. n + 1 \in 0 .. TopPrice /\ n + 1 # 0 /\ (n + 1) - 1 = n /\ Scanned(f[n], c)
    BY <1>5, ZoneAssumption
  <2> QED
    BY <1>3, <2>1, LevelScanned
<1>6. TopPrice \in T
  <2>1. TopPrice \in Nat
    BY ZoneAssumption
  <2> HIDE DEF T
  <2> QED
    BY <1>4, <1>5, <2>1, StepByStep
<1> QED
  BY <1>2, <1>6, ZoneAssumption DEF Scanned

LEMMA CandidatesOf ==
  \A counts, bins, c : \A z \in Candidates(counts, bins, c) : z.candle = c
  BY BidZonesOf, AskZonesOf DEF Candidates, Of

-----------------------------------------------------------------------------
(* Payloads on their way to the trigger engine.                            *)

\* A store for fewer zones is one for more.
LEMMA StoreForMore ==
  ASSUME NEW st0, NEW t, NEW R, NEW W, NEW Z, StoreOK(st0, t, R, W, Z),
         NEW R2, NEW W2, NEW Z2, R \subseteq R2, W \subseteq W2, Z \subseteq Z2
  PROVE  StoreOK(st0, t, R2, W2, Z2)
<1>1. SetupSet(W) \subseteq SetupSet(W2)
  BY DEF SetupSet
<1>2. SignalSet(Z) \subseteq SignalSet(Z2) /\ PositionSet(Z) \subseteq PositionSet(Z2)
  BY DEF SignalSet, PositionSet
<1>3. st0.records \in Seq(R2)
  BY DEF StoreOK
<1>4. SetupsOK(st0.setups, t, W2)
  <2>1. st0.setups \in Seq(SetupSet(W2))
    <3> DEFINE A == SetupSet(W)
               B == SetupSet(W2)
    <3>1. st0.setups \in Seq(A) /\ A \subseteq B
      BY <1>1 DEF StoreOK, SetupsOK
    <3> HIDE DEF A, B
    <3>2. st0.setups \in Seq(B)
      BY <3>1
    <3> QED
      BY <3>2 DEF B
  <2> QED
    BY <2>1 DEF StoreOK, SetupsOK
<1>5. LogOK(st0.log, t, Z2)
  <2>1. st0.log \in Seq(SignalSet(Z2))
    <3> DEFINE A == SignalSet(Z)
               B == SignalSet(Z2)
    <3>1. st0.log \in Seq(A) /\ A \subseteq B
      BY <1>2 DEF StoreOK, LogOK
    <3> HIDE DEF A, B
    <3>2. st0.log \in Seq(B)
      BY <3>1
    <3> QED
      BY <3>2 DEF B
  <2> QED
    BY <2>1 DEF StoreOK, LogOK
<1>6. PositionOK(st0, Z2)
  BY <1>2 DEF StoreOK, PositionOK
<1> QED
  BY <1>3, <1>4, <1>5, <1>6 DEF StoreOK

\* One payload: what it cancels leaves the setups, and the memory if the
\* payload shows a zone.
LEMMA PublishOK ==
  ASSUME NEW s, NEW t, NEW R, NEW W, NEW Z, StoreOK(s, t, R, W, Z), NEW payload
  PROVE  /\ payload.zones = {} =>
              StoreOK(Publish(s, payload), t, R, W \ payload.cancels, Z)
         /\ \A z : payload.zones = {z} =>
              StoreOK(Publish(s, payload), t, (R \ payload.cancels) \union {z},
                      W \ payload.cancels, Z)
<1> DEFINE cancels == payload.cancels
           records == IF payload.zones = {} THEN s.records
                      ELSE StoreRecords(s.records, cancels, payload.zones)
           dropped == {x \in ToSet(s.setups) : x.zone \notin cancels}
           setups == Among(s.setups, dropped)
           new == [s EXCEPT !.records = records, !.setups = setups]
<1>1. /\ IsStore(s) /\ SetupsOK(s.setups, t, W) /\ OneSetup(s.setups)
      /\ LogOK(s.log, t, Z) /\ Apart(s.log, s.setups) /\ PositionOK(s, Z)
      /\ s.records \in Seq(R) /\ Distinct(s.records) /\ s.setups \in Seq(SetupSet(W))
  BY DEF StoreOK, SetupsOK
<1>2. Publish(s, payload) = new
  BY DEF Publish, DropSetups
<1>3. DOMAIN s = {"records", "tracked", "setups", "position", "log"}
  <2> DEFINE r == [records |-> s.records, tracked |-> s.tracked, setups |-> s.setups,
                   position |-> s.position, log |-> s.log]
  <2>1. DOMAIN r = {"records", "tracked", "setups", "position", "log"} /\ s = r
    BY <1>1 DEF IsStore
  <2> HIDE DEF r
  <2> QED
    BY <2>1
<1>4. /\ setups \in Seq(SetupSet(W)) /\ Len(setups) \in Nat /\ Thins(setups, s.setups)
      /\ \A i \in 1 .. Len(setups) :
           setups[i] \in dropped /\ \E k \in 1 .. Len(s.setups) : setups[i] = s.setups[k]
  <2> HIDE DEF dropped
  <2> QED
    BY <1>1, AmongEntries, AmongThins
<1>5. \A i \in 1 .. Len(setups) : setups[i].zone \notin cancels
  BY <1>4
<1> HIDE DEF setups, dropped
<1>6. SetupsOK(setups, t, W \ cancels)
  <2>1. ASSUME NEW i \in 1 .. Len(setups)
        PROVE  setups[i] \in SetupSet(W \ cancels) /\ Fits(setups[i], t)
    <3>1. setups[i] \in SetupSet(W) /\ setups[i].zone \notin cancels
      BY <1>4, <1>5, EntryOf
    <3>2. Fits(setups[i], t)
      BY <1>1, <1>4 DEF SetupsOK
    <3> QED
      BY <3>1, <3>2 DEF SetupSet
  <2>2. setups \in Seq(SetupSet(W \ cancels))
    <3> DEFINE A == SetupSet(W \ cancels)
    <3>1. Len(setups) \in Nat /\ setups = [i \in 1 .. Len(setups) |-> setups[i]]
      BY <1>4
    <3>2. \A i \in 1 .. Len(setups) : setups[i] \in A
      BY <2>1
    <3> HIDE DEF A
    <3>3. setups \in Seq(A)
      BY <3>1, <3>2
    <3> QED
      BY <3>3 DEF A
  <2> QED
    BY <2>1, <2>2 DEF SetupsOK
<1>7. OneSetup(setups) /\ Apart(s.log, setups)
  BY <1>1, <1>4, ThinsKeeps
<1>8. \A i \in 1 .. Len(setups) : \E k \in 1 .. Len(s.setups) : setups[i] = s.setups[k]
  BY <1>4
<1>9. new = [x \in DOMAIN new |-> new[x]] /\ DOMAIN new = DOMAIN s
  OBVIOUS
<1>10. /\ new.records = records /\ new.setups = setups /\ new.log = s.log
       /\ new.position = s.position /\ new.tracked = s.tracked
  BY <1>3
<1> HIDE DEF new
<1>11. IsStore(new)
  BY <1>3, <1>9 DEF IsStore
<1>12. InPosition(new) <=> InPosition(s)
  BY <1>10 DEF InPosition
<1>13. WaitsOpposite(new)
  BY <1>1, <1>8, <1>10, <1>12 DEF PositionOK, WaitsOpposite
<1>14. PositionOK(new, Z)
  BY <1>1, <1>10, <1>12, <1>13 DEF PositionOK
<1>15. ASSUME payload.zones = {}
       PROVE  StoreOK(new, t, R, W \ cancels, Z)
  <2>1. records = s.records
    BY <1>15
  <2> QED
    BY <1>1, <1>6, <1>7, <1>10, <1>11, <1>14, <2>1 DEF StoreOK
<1>16. ASSUME NEW z, payload.zones = {z}
       PROVE  StoreOK(new, t, (R \ cancels) \union {z}, W \ cancels, Z)
  <2>1. records = StoreRecords(s.records, cancels, {z})
    BY <1>16
  <2> HIDE DEF records, cancels
  <2>2. records \in Seq((R \ cancels) \union {z}) /\ Distinct(records)
    BY <1>1, <2>1, StoredRecords, StoredDistinct
  <2> QED
    BY <1>1, <1>6, <1>7, <1>10, <1>11, <1>14, <2>2 DEF StoreOK
<1> QED
  BY <1>2, <1>15, <1>16

\* The recursion PublishAll is defined by.
IsPublication(f, s, payloads) ==
  f = [i \in 0 .. Len(payloads) |-> IF i = 0 THEN s ELSE Publish(f[i - 1], payloads[i])]

LEMMA PublicationExists ==
  ASSUME NEW s, NEW payloads, Len(payloads) \in Nat
  PROVE  \E f : IsPublication(f, s, payloads)
<1> DEFINE next(x, i) == Publish(x, payloads[i])
           Upto(k, f) == /\ f = [i \in 0 .. k |-> f[i]] /\ f[0] = s
                         /\ \A i \in 1 .. k : f[i] = next(f[i - 1], i)
           K == {k \in Nat : \E f : Upto(k, f)}
<1> HIDE DEF next
<1>1. 0 \in K
  <2> DEFINE f == [i \in 0 .. 0 |-> s]
  <2>1. Upto(0, f)
    OBVIOUS
  <2> QED
    BY <2>1
<1>2. ASSUME NEW k \in Nat, k \in K
      PROVE  k + 1 \in K
  <2>1. PICK f : Upto(k, f)
    BY <1>2
  <2> DEFINE g == [i \in 0 .. k + 1 |-> IF i = k + 1 THEN next(f[k], k + 1) ELSE f[i]]
  <2>2. g = [i \in 0 .. k + 1 |-> g[i]]
    OBVIOUS
  <2>3. g[0] = s
    BY <2>1
  <2>4. ASSUME NEW i \in 1 .. k + 1
        PROVE  g[i] = next(g[i - 1], i)
    <3>1. CASE i = k + 1
      <4>1. g[i] = next(f[k], k + 1) /\ g[i - 1] = f[k]
        BY <3>1
      <4> QED
        BY <3>1, <4>1
    <3>2. CASE i # k + 1
      <4>1. i \in 1 .. k /\ g[i] = f[i] /\ g[i - 1] = f[i - 1]
        BY <3>2
      <4> QED
        BY <2>1, <4>1
    <3> QED
      BY <3>1, <3>2
  <2> HIDE DEF g
  <2>5. Upto(k + 1, g)
    BY <2>2, <2>3, <2>4
  <2> HIDE DEF Upto
  <2> QED
    BY <2>5
<1>3. Len(payloads) \in K
  <2> HIDE DEF K
  <2> QED
    BY <1>1, <1>2, StepByStep
<1>4. PICK f : Upto(Len(payloads), f)
  BY <1>3
<1> DEFINE body(i) == IF i = 0 THEN s ELSE next(f[i - 1], i)
<1>5. ASSUME NEW i \in 0 .. Len(payloads)
      PROVE  f[i] = body(i)
  <2>1. i = 0 \/ (i # 0 /\ i \in 1 .. Len(payloads))
    OBVIOUS
  <2> QED
    BY <1>4, <2>1
<1>6. f = [i \in 0 .. Len(payloads) |-> body(i)]
  <2>1. f = [i \in 0 .. Len(payloads) |-> f[i]]
    BY <1>4
  <2> HIDE DEF body
  <2> QED
    BY <1>5, <2>1
<1> QED
  BY <1>6 DEF IsPublication, next

\* A list of payloads of zones of E in which no zone is shown after, or with,
\* its cancellation by another zone.
PayloadSet(E) == [cancels : SUBSET E, zones : {{}} \union {{z} : z \in E}]

ShownFirst(payloads) ==
  \A i, j \in 1 .. Len(payloads) :
    i <= j /\ payloads[i].zones # {} => payloads[j].zones \intersect payloads[i].cancels = {}

\* What may still be in the memory after the first n payloads.
Spared(E, payloads, n) ==
  {x \in E : \A k \in 1 .. n : payloads[k].zones # {} => x \notin payloads[k].cancels}

\* What may still be a setup.
Unnamed(W, payloads, n) == {x \in W : \A k \in 1 .. n : x \notin payloads[k].cancels}

LEMMA PublishAllOK ==
  ASSUME NEW s, NEW t, NEW W, NEW E, StoreOK(s, t, E, W, E),
         NEW payloads \in Seq(PayloadSet(E)), ShownFirst(payloads)
  PROVE  StoreOK(PublishAll(s, payloads), t, Spared(E, payloads, Len(payloads)),
                 Unnamed(W, payloads, Len(payloads)), E)
<1> DEFINE f == CHOOSE g : IsPublication(g, s, payloads)
           n == Len(payloads)
           body(i) == IF i = 0 THEN s ELSE Publish(f[i - 1], payloads[i])
           T == {i \in Nat : i <= n => StoreOK(f[i], t, Spared(E, payloads, i),
                                               Unnamed(W, payloads, i), E)}
<1>1. n \in Nat
  OBVIOUS
<1>2. IsPublication(f, s, payloads)
  BY <1>1, PublicationExists
<1>3. PublishAll(s, payloads) = f[n]
  BY DEF PublishAll, IsPublication
<1> HIDE DEF f
<1>4. ASSUME NEW i \in 0 .. n
      PROVE  f[i] = body(i)
  <2>1. f = [j \in 0 .. n |-> body(j)]
    BY <1>2 DEF IsPublication
  <2> HIDE DEF body
  <2> QED
    BY <2>1
<1>5. 0 \in T
  <2>1. f[0] = s
    BY <1>1, <1>4
  <2>2. Spared(E, payloads, 0) = E /\ Unnamed(W, payloads, 0) = W
    BY DEF Spared, Unnamed
  <2> QED
    BY <2>1, <2>2
<1>6. ASSUME NEW i \in Nat, i \in T
      PROVE  i + 1 \in T
  <2> SUFFICES ASSUME i + 1 <= n
               PROVE  StoreOK(f[i + 1], t, Spared(E, payloads, i + 1),
                              Unnamed(W, payloads, i + 1), E)
    OBVIOUS
  <2> DEFINE p == payloads[i + 1]
             R0 == Spared(E, payloads, i)
             W0 == Unnamed(W, payloads, i)
  <2>1. i + 1 \in 0 .. n /\ i + 1 # 0 /\ (i + 1) - 1 = i /\ i + 1 \in 1 .. n
    BY <1>1
  <2>2. f[i + 1] = Publish(f[i], p)
    BY <1>4, <2>1
  <2>3. StoreOK(f[i], t, R0, W0, E)
    BY <1>1, <1>6, <2>1
  <2>4. p \in PayloadSet(E)
    BY <2>1, EntryOf
  <2>5. \A k \in 1 .. i + 1 : k = i + 1 \/ k \in 1 .. i
    OBVIOUS
  <2>6. W0 \ p.cancels \subseteq Unnamed(W, payloads, i + 1)
    BY <2>5 DEF Unnamed
  <2>7. CASE p.zones = {}
    <3>1. StoreOK(Publish(f[i], p), t, R0, W0 \ p.cancels, E)
      BY <2>3, <2>7, PublishOK
    <3>2. R0 \subseteq Spared(E, payloads, i + 1)
      BY <2>5, <2>7 DEF Spared
    <3> HIDE DEF p, R0, W0
    <3> QED
      BY <2>2, <2>6, <3>1, <3>2, StoreForMore
  <2>8. CASE p.zones # {}
    <3>1. PICK z \in E : p.zones = {z}
      BY <2>4, <2>8 DEF PayloadSet
    <3>2. StoreOK(Publish(f[i], p), t, (R0 \ p.cancels) \union {z}, W0 \ p.cancels, E)
      BY <2>3, <3>1, PublishOK
    <3>3. \A k \in 1 .. i + 1 : payloads[k].zones # {} => z \notin payloads[k].cancels
      BY <1>1, <2>1, <3>1 DEF ShownFirst
    <3>4. z \in Spared(E, payloads, i + 1)
      BY <3>3 DEF Spared
    <3>5. R0 \ p.cancels \subseteq Spared(E, payloads, i + 1)
      BY <2>5 DEF Spared
    <3>6. (R0 \ p.cancels) \union {z} \subseteq Spared(E, payloads, i + 1)
      BY <3>4, <3>5
    <3> HIDE DEF p, R0, W0
    <3> QED
      BY <2>2, <2>6, <3>2, <3>6, StoreForMore
  <2> QED
    BY <2>7, <2>8
<1>7. n \in T
  <2> HIDE DEF T
  <2> QED
    BY <1>1, <1>5, <1>6, StepByStep
<1> QED
  BY <1>1, <1>3, <1>7

\* The payloads in the order in which they are published: the same ones, those
\* that show a zone first, in their order.
LEMMA AvailabilityOK ==
  ASSUME NEW E, NEW payloads \in Seq(PayloadSet(E)), ShownFirst(payloads)
  PROVE  LET order == ByAvailability(payloads)
         IN /\ order \in Seq(PayloadSet(E)) /\ ShownFirst(order)
            /\ \A k \in 1 .. Len(payloads) : \E i \in 1 .. Len(order) : order[i] = payloads[k]
            /\ \A i \in 1 .. Len(order) : \E k \in 1 .. Len(payloads) : order[i] = payloads[k]
<1> DEFINE shows == {m \in ToSet(payloads) : m.zones # {}}
           others == ToSet(payloads) \ shows
           a == Among(payloads, shows)
           b == Among(payloads, others)
           order == a \o b
<1>1. ByAvailability(payloads) = order
  BY DEF ByAvailability
<1>2. /\ \A k \in 1 .. Len(payloads) : payloads[k] \in ToSet(payloads)
      /\ \A m \in others : m.zones = {}
      /\ \A m \in ToSet(payloads) : m \in shows \/ m \in others
  BY ToSetIs
<1>3. \A m \in shows : m.zones # {}
  OBVIOUS
<1> HIDE DEF shows, others
<1>4. /\ a \in Seq(PayloadSet(E)) /\ Len(a) \in Nat
      /\ \A i \in 1 .. Len(a) : a[i].zones # {} /\ \E k \in 1 .. Len(payloads) : a[i] = payloads[k]
      /\ \A k \in 1 .. Len(payloads) : payloads[k] \in shows => \E i \in 1 .. Len(a) : a[i] = payloads[k]
  <2>1. /\ a \in Seq(PayloadSet(E)) /\ Len(a) \in Nat
        /\ \A i \in 1 .. Len(a) : a[i] \in shows /\ \E k \in 1 .. Len(payloads) : a[i] = payloads[k]
    BY AmongEntries
  <2>2. \A k \in 1 .. Len(payloads) : payloads[k] \in shows => \E i \in 1 .. Len(a) : a[i] = payloads[k]
    BY AmongFacts
  <2> QED
    BY <1>3, <2>1, <2>2
<1>5. /\ b \in Seq(PayloadSet(E)) /\ Len(b) \in Nat
      /\ \A i \in 1 .. Len(b) : b[i].zones = {} /\ \E k \in 1 .. Len(payloads) : b[i] = payloads[k]
      /\ \A k \in 1 .. Len(payloads) : payloads[k] \in others => \E i \in 1 .. Len(b) : b[i] = payloads[k]
  BY <1>2, AmongEntries, AmongFacts
<1>6. PICK h : Embeds(h, a, payloads)
  BY AmongFacts
<1> HIDE DEF a, b
<1>7. order \in Seq(PayloadSet(E)) /\ Len(order) = Len(a) + Len(b)
  BY <1>4, <1>5, ConcatProperties
<1>8. \A i \in 1 .. Len(a) : i \in 1 .. Len(order) /\ order[i] = a[i]
  BY <1>4, <1>5, <1>7
<1>9. \A i \in 1 .. Len(b) : Len(a) + i \in 1 .. Len(order) /\ order[Len(a) + i] = b[i]
  <2> TAKE i \in 1 .. Len(b)
  <2>1. /\ Len(a) + i \in 1 .. Len(a) + Len(b) /\ Len(a) + i > Len(a)
        /\ (Len(a) + i) - Len(a) = i
    BY <1>4, <1>5
  <2> QED
    BY <1>4, <1>5, <1>7, <2>1
<1>10. \A i \in 1 .. Len(order) : i \in 1 .. Len(a) \/ \E j \in 1 .. Len(b) : i = Len(a) + j
  <2> TAKE i \in 1 .. Len(order)
  <2>1. CASE i <= Len(a)
    BY <1>4, <2>1
  <2>2. CASE i > Len(a)
    <3>1. i - Len(a) \in 1 .. Len(b) /\ i = Len(a) + (i - Len(a))
      BY <1>4, <1>5, <1>7, <2>2
    <3> QED
      BY <3>1
  <2> QED
    BY <1>4, <2>1, <2>2
<1> HIDE DEF order
<1>11. ASSUME NEW k \in 1 .. Len(payloads)
       PROVE  \E i \in 1 .. Len(order) : order[i] = payloads[k]
  <2>1. CASE payloads[k] \in shows
    BY <1>4, <1>8, <2>1
  <2>2. CASE payloads[k] \in others
    BY <1>5, <1>9, <2>2
  <2> QED
    BY <1>2, <2>1, <2>2
<1>12. ASSUME NEW i \in 1 .. Len(order)
       PROVE  \E k \in 1 .. Len(payloads) : order[i] = payloads[k]
  <2>1. CASE i \in 1 .. Len(a)
    BY <1>4, <1>8, <2>1
  <2>2. CASE \E j \in 1 .. Len(b) : i = Len(a) + j
    BY <1>5, <1>9, <2>2
  <2> QED
    BY <1>10, <2>1, <2>2
<1>13. ASSUME NEW i \in 1 .. Len(order), NEW j \in 1 .. Len(order), i <= j, order[i].zones # {}
       PROVE  order[j].zones \intersect order[i].cancels = {}
  <2>1. i \in 1 .. Len(a)
    <3> SUFFICES ASSUME NEW k \in 1 .. Len(b), i = Len(a) + k
                 PROVE  FALSE
      BY <1>10
    <3>1. order[i] = b[k] /\ b[k].zones = {}
      BY <1>5, <1>9
    <3> QED
      BY <1>13, <3>1
  <2>2. CASE j \in 1 .. Len(a)
    <3>1. /\ h[i] \in 1 .. Len(payloads) /\ h[j] \in 1 .. Len(payloads)
          /\ order[i] = payloads[h[i]] /\ order[j] = payloads[h[j]]
      BY <1>6, <1>8, <2>1, <2>2 DEF Embeds
    <3>2. h[i] <= h[j]
      <4>1. CASE i = j
        BY <3>1, <4>1
      <4>2. CASE i < j
        <5>1. h[i] < h[j]
          BY <1>6, <2>1, <2>2, <4>2 DEF Embeds
        <5> QED
          BY <3>1, <5>1
      <4> QED
        BY <1>13, <4>1, <4>2
    <3> QED
      BY <1>13, <3>1, <3>2 DEF ShownFirst
  <2>3. CASE \E k \in 1 .. Len(b) : j = Len(a) + k
    BY <1>5, <1>9, <2>3
  <2> QED
    BY <1>10, <2>2, <2>3
<1> QED
  BY <1>1, <1>7, <1>11, <1>12, <1>13 DEF ShownFirst

\* One payload more, of a zone that was not shown before.
LEMMA AppendPayload ==
  ASSUME NEW E, NEW E2, E \subseteq E2, NEW payloads \in Seq(PayloadSet(E)), ShownFirst(payloads),
         NEW p \in PayloadSet(E2), p.zones \intersect E = {}, p.zones \intersect p.cancels = {}
  PROVE  Append(payloads, p) \in Seq(PayloadSet(E2)) /\ ShownFirst(Append(payloads, p))
<1> DEFINE more == Append(payloads, p)
           n == Len(payloads)
<1>1. PayloadSet(E) \subseteq PayloadSet(E2)
  BY DEF PayloadSet
<1>2. payloads \in Seq(PayloadSet(E2)) /\ n \in Nat
  <2> DEFINE A == PayloadSet(E)
             B == PayloadSet(E2)
  <2>1. payloads \in Seq(A) /\ A \subseteq B
    BY <1>1
  <2> HIDE DEF A, B
  <2>2. payloads \in Seq(B) /\ n \in Nat
    BY <2>1
  <2> QED
    BY <2>2 DEF B
<1>3. /\ more \in Seq(PayloadSet(E2)) /\ Len(more) = n + 1 /\ more[n + 1] = p
      /\ \A i \in 1 .. n : more[i] = payloads[i]
      /\ \A i \in 1 .. n + 1 : i = n + 1 \/ i \in 1 .. n
  BY <1>2
<1> HIDE DEF more
<1>4. ASSUME NEW i \in 1 .. n
      PROVE  payloads[i].cancels \subseteq E
  <2>1. payloads[i] \in PayloadSet(E)
    BY EntryOf
  <2> QED
    BY <2>1 DEF PayloadSet
<1> HIDE DEF n
<1>5. ASSUME NEW i \in 1 .. Len(more), NEW j \in 1 .. Len(more), i <= j, more[i].zones # {}
      PROVE  more[j].zones \intersect more[i].cancels = {}
  <2>1. CASE j = n + 1 /\ i = n + 1
    BY <1>3, <2>1
  <2>2. CASE j = n + 1 /\ i \in 1 .. n
    BY <1>3, <1>4, <2>2
  <2>3. CASE j \in 1 .. n
    <3>1. i \in 1 .. n
      BY <1>2, <1>3, <1>5, <2>3
    <3> QED
      BY <1>3, <1>5, <2>3, <3>1 DEF ShownFirst, n
  <2> QED
    BY <1>3, <2>1, <2>2, <2>3
<1> QED
  BY <1>3, <1>5 DEF ShownFirst, more

-----------------------------------------------------------------------------
(* The replay.                                                             *)

\* The replay leaves the zone book as it is.
THEOREM ReplayLeavesBook == ReplaySpec => ZoneSpec
<1>1. ReplayInit => ZoneInit
  BY DEF ReplayInit
<1>2. [ReplayNext]_replayVars => [ZoneNext]_zoneVars
  BY DEF ReplayNext, ReplayEvent, CloseCandle, ZoneNext, replayVars
<1> QED
  BY <1>1, <1>2, PTL DEF ReplaySpec, ZoneSpec

\* The candles are numbered in order, and payloads and engine know published
\* zones only; the engine has evaluated the candles before the present one and
\* has no setup of a barred zone.
ReplayInv ==
  /\ candle \in Nat /\ candle >= 1
  /\ active \subseteq emitted
  /\ \A z \in emitted : z.candle \in Nat /\ z.candle <= candle
  /\ inbox \in Seq(PayloadSet(emitted)) /\ ShownFirst(inbox)
  /\ barred \subseteq emitted /\ \A z \in barred : z.candle < candle
  /\ StoreOK(st, candle - 1, emitted, emitted \ barred, emitted)

LEMMA ReplayInvInit == ReplayInit => ReplayInv
<1> SUFFICES ASSUME ReplayInit
             PROVE  ReplayInv
  OBVIOUS
<1>1. StoreOK(st, 0, {}, {}, {})
  <2>1. <<>> \in Seq({}) /\ Distinct(<<>>)
    BY DEF Distinct
  <2> QED
    BY <2>1, FreshStore DEF ReplayInit
<1>2. ShownFirst(<<>>) /\ <<>> \in Seq(PayloadSet({}))
  BY DEF ShownFirst
<1>3. candle = 1 /\ candle - 1 = 0 /\ active = {} /\ emitted = {} /\ inbox = <<>> /\ barred = {}
  BY DEF ReplayInit, ZoneInit
<1>4. {} \ barred = {}
  OBVIOUS
<1> QED
  BY <1>1, <1>2, <1>3, <1>4 DEF ReplayInv

\* An event, with what it does to the book and to the candle's payloads.
LEMMA EventCases ==
  ASSUME ReplayEvent
  PROVE  /\ UNCHANGED <<candle, st, barred>>
         /\ inbox' = inbox \o out'
         /\ \/ Quiet /\ out' \in {<<>>, TerminalPayloads}
            \/ \E z : /\ NewZone(z) /\ z.candle = candle
                      /\ out' \in {<<>>, TerminalPayloads \o <<Payload(Replaced(Book, z), {z})>>}
<1>1. \A payloads : Announce(payloads) => out' \in {<<>>, payloads}
  BY DEF Announce
<1>2. CASE OtherEvent
  BY <1>1, <1>2 DEF ReplayEvent, OtherEvent, Quiet
<1>3. ASSUME NEW side \in Side, NEW p \in Price, Refill(side, p)
      PROVE  /\ UNCHANGED candle
             /\ \/ Quiet /\ out' \in {<<>>, TerminalPayloads}
                \/ \E z : /\ NewZone(z) /\ z.candle = candle
                          /\ out' \in {<<>>, TerminalPayloads \o <<Payload(Replaced(Book, z), {z})>>}
  <2> DEFINE counts == [refills EXCEPT ![side][p] = @ + 1]
             zones == {z \in Candidates(counts, foot, candle) :
                  /\ z.side = side /\ z.low <= p /\ p < z.high
                  /\ z \notin emitted
                  /\ ~Refused(Book, z)}
  <2>1. \A z \in zones : z.candle = candle /\ z \notin emitted
    BY CandidatesOf
  <2>2. \/ active' = Book /\ Announce(TerminalPayloads) /\ UNCHANGED emitted
        \/ \E z \in zones :
             /\ active' = (Book \ Replaced(Book, z)) \union {z}
             /\ emitted' = emitted \union {z}
             /\ Announce(TerminalPayloads \o <<Payload(Replaced(Book, z), {z})>>)
    BY <1>3 DEF Refill
  <2> HIDE DEF zones
  <2>3. UNCHANGED candle
    BY <1>3 DEF Refill
  <2>4. CASE active' = Book /\ Announce(TerminalPayloads) /\ UNCHANGED emitted
    BY <1>1, <2>3, <2>4 DEF Quiet
  <2>5. ASSUME NEW z \in zones,
               active' = (Book \ Replaced(Book, z)) \union {z},
               emitted' = emitted \union {z},
               Announce(TerminalPayloads \o <<Payload(Replaced(Book, z), {z})>>)
        PROVE  /\ NewZone(z) /\ z.candle = candle
               /\ out' \in {<<>>, TerminalPayloads \o <<Payload(Replaced(Book, z), {z})>>}
    BY <1>1, <2>1, <2>5 DEF NewZone
  <2> QED
    BY <2>2, <2>3, <2>4, <2>5
<1> QED
  BY <1>2, <1>3 DEF ReplayEvent, OtherEvent

\* What the payloads of an event add to the inbox.
LEMMA InboxGrows ==
  ASSUME ReplayInv
  PROVE  /\ inbox \o <<>> = inbox
         /\ inbox \o TerminalPayloads \in Seq(PayloadSet(emitted))
         /\ ShownFirst(inbox \o TerminalPayloads)
         /\ \A z : z \notin emitted =>
              LET more == inbox \o (TerminalPayloads \o <<Payload(Replaced(Book, z), {z})>>)
              IN more \in Seq(PayloadSet(emitted \union {z})) /\ ShownFirst(more)
<1>1. /\ inbox \in Seq(PayloadSet(emitted)) /\ ShownFirst(inbox) /\ active \subseteq emitted
      /\ Book \subseteq active
  BY BookIsActive DEF ReplayInv
<1>2. inbox \o <<>> = inbox
  BY <1>1, ConcatEmptySeq
<1> DEFINE old == Payload(active \ Book, {})
<1>3. old \in PayloadSet(emitted) /\ old.zones = {}
  BY <1>1 DEF PayloadSet, Payload
<1>4. TerminalPayloads \in {<<>>, <<old>>}
  BY DEF TerminalPayloads
<1>5. TerminalPayloads \in Seq(PayloadSet(emitted))
  <2> HIDE DEF old
  <2>1. <<old>> \in Seq(PayloadSet(emitted))
    BY <1>3
  <2>2. <<>> \in Seq(PayloadSet(emitted))
    OBVIOUS
  <2> QED
    BY <1>4, <2>1, <2>2
<1>6. inbox \o <<old>> = Append(inbox, old)
  <2> HIDE DEF old
  <2> QED
    BY <1>1, <1>3, AppendIsConcat
<1>7. /\ inbox \o TerminalPayloads \in Seq(PayloadSet(emitted))
      /\ ShownFirst(inbox \o TerminalPayloads)
  <2> HIDE DEF old
  <2>1. Append(inbox, old) \in Seq(PayloadSet(emitted)) /\ ShownFirst(Append(inbox, old))
    BY <1>1, <1>3, AppendPayload
  <2>2. CASE TerminalPayloads = <<>>
    BY <1>1, <1>2, <2>2
  <2>3. CASE TerminalPayloads = <<old>>
    BY <1>6, <2>1, <2>3
  <2> QED
    BY <1>4, <2>2, <2>3
<1>8. ASSUME NEW z, z \notin emitted
      PROVE  LET more == inbox \o (TerminalPayloads \o <<Payload(Replaced(Book, z), {z})>>)
             IN more \in Seq(PayloadSet(emitted \union {z})) /\ ShownFirst(more)
  <2> DEFINE new == Payload(Replaced(Book, z), {z})
             before == inbox \o TerminalPayloads
             E == emitted \union {z}
  <2>1. Replaced(Book, z) \subseteq emitted
    BY <1>1 DEF Replaced
  <2>2. /\ new \in PayloadSet(E) /\ new.zones \intersect emitted = {}
        /\ new.zones \intersect new.cancels = {}
    BY <1>8, <2>1 DEF PayloadSet, Payload
  <2> HIDE DEF new
  <2>3. before \in Seq(PayloadSet(emitted)) /\ ShownFirst(before) /\ emitted \subseteq E
    BY <1>7
  <2> HIDE DEF E
  <2>4. Append(before, new) \in Seq(PayloadSet(E)) /\ ShownFirst(Append(before, new))
    <3> HIDE DEF before
    <3> QED
      BY <2>2, <2>3, AppendPayload
  <2> DEFINE A == PayloadSet(emitted) \union {new}
  <2>5. inbox \in Seq(A) /\ TerminalPayloads \in Seq(A) /\ <<new>> \in Seq(A) /\ before \in Seq(A) /\ new \in A
    <3>1. PayloadSet(emitted) \subseteq A /\ new \in A
      OBVIOUS
    <3> HIDE DEF A, before
    <3> QED
      BY <1>1, <1>5, <2>3, <3>1
  <2> HIDE DEF A
  <2>6. Append(before, new) = before \o <<new>>
    <3> HIDE DEF before
    <3> QED
      BY <2>5, AppendIsConcat
  <2>7. before \o <<new>> = inbox \o (TerminalPayloads \o <<new>>)
    BY <2>5, ConcatAssociative
  <2> QED
    BY <2>4, <2>6, <2>7 DEF new, E
<1> QED
  BY <1>2, <1>7, <1>8

LEMMA EventKeepsInv ==
  ASSUME ReplayInv, ReplayEvent
  PROVE  ReplayInv'
<1>1. /\ UNCHANGED <<candle, st, barred>> /\ inbox' = inbox \o out'
  BY EventCases
<1>2. /\ candle \in Nat /\ candle >= 1 /\ active \subseteq emitted
      /\ \A z \in emitted : z.candle \in Nat /\ z.candle <= candle
      /\ inbox \in Seq(PayloadSet(emitted)) /\ ShownFirst(inbox)
      /\ barred \subseteq emitted /\ \A z \in barred : z.candle < candle
      /\ StoreOK(st, candle - 1, emitted, emitted \ barred, emitted)
  BY DEF ReplayInv
<1>3. CASE Quiet /\ out' \in {<<>>, TerminalPayloads}
  <2>1. active' = Book /\ emitted' = emitted /\ Book \subseteq active
    BY <1>3, BookIsActive DEF Quiet
  <2>2. inbox' \in Seq(PayloadSet(emitted)) /\ ShownFirst(inbox')
    BY <1>1, <1>2, <1>3, InboxGrows
  <2>3. ShownFirst(inbox)'
    BY <2>2 DEF ShownFirst
  <2>4. StoreOK(st, candle - 1, emitted, emitted \ barred, emitted)'
    BY <1>1, <1>2, <2>1
  <2> QED
    BY <1>1, <1>2, <2>1, <2>2, <2>3, <2>4 DEF ReplayInv
<1>4. ASSUME NEW z, NewZone(z), z.candle = candle,
             out' \in {<<>>, TerminalPayloads \o <<Payload(Replaced(Book, z), {z})>>}
      PROVE  ReplayInv'
  <2>1. /\ active' \subseteq Book \union {z} /\ emitted' = emitted \union {z} /\ Book \subseteq active
        /\ z \notin emitted
    BY <1>4, BookIsActive DEF NewZone
  <2>2. inbox' \in Seq(PayloadSet(emitted')) /\ ShownFirst(inbox')
    <3>1. inbox \in Seq(PayloadSet(emitted'))
      <4> DEFINE A == PayloadSet(emitted)
                 B == PayloadSet(emitted')
      <4>1. inbox \in Seq(A) /\ A \subseteq B
        BY <1>2, <2>1 DEF PayloadSet
      <4> HIDE DEF A, B
      <4>2. inbox \in Seq(B)
        BY <4>1
      <4> QED
        BY <4>2 DEF B
    <3>2. CASE out' = <<>>
      BY <1>1, <1>2, <3>1, <3>2, InboxGrows
    <3>3. CASE out' = TerminalPayloads \o <<Payload(Replaced(Book, z), {z})>>
      BY <1>1, <2>1, <3>3, InboxGrows
    <3> QED
      BY <1>4, <3>2, <3>3
  <2>3. ShownFirst(inbox)'
    BY <2>2 DEF ShownFirst
  <2>4. \A x \in emitted' : x.candle \in Nat /\ x.candle <= candle
    BY <1>2, <1>4, <2>1
  <2>5. StoreOK(st, candle - 1, emitted', emitted' \ barred, emitted')
    <3>1. emitted \subseteq emitted' /\ emitted \ barred \subseteq emitted' \ barred
      BY <2>1
    <3> QED
      BY <1>2, <3>1, StoreForMore
  <2>6. StoreOK(st, candle - 1, emitted, emitted \ barred, emitted)'
    BY <1>1, <2>5
  <2> QED
    BY <1>1, <1>2, <2>1, <2>2, <2>3, <2>4, <2>6 DEF ReplayInv
<1> QED
  BY <1>3, <1>4, EventCases

\* The candle closes.
LEMMA CandleKeepsInv ==
  ASSUME ReplayInv, CloseCandle
  PROVE  ReplayInv'
<1> DEFINE live == IF done' THEN {Shape(candle + 1, foot')} ELSE {}
           order == ByAvailability(inbox)
           n == Len(order)
           c == Shape(candle, foot)
           W == emitted \ barred
           R == Spared(emitted, order, n)
           late == {z \in Named(inbox) :
                      \/ z.candle < candle
                      \/ \E i \in DOMAIN inbox : inbox[i].zones # {} /\ z \in inbox[i].cancels}
<1>1. /\ candle \in Nat /\ candle >= 1 /\ active \subseteq emitted
      /\ \A z \in emitted : z.candle \in Nat /\ z.candle <= candle
      /\ inbox \in Seq(PayloadSet(emitted)) /\ ShownFirst(inbox)
      /\ barred \subseteq emitted /\ \A z \in barred : z.candle < candle
      /\ StoreOK(st, candle - 1, emitted, W, emitted)
  BY DEF ReplayInv
<1>2. /\ candle' = candle + 1 /\ UNCHANGED <<active, emitted>> /\ inbox' = <<>>
      /\ st' = Evaluate(PublishAll(st, order), c, live)
      /\ barred' = barred \union late
  BY DEF CloseCandle, NextCandle
<1>3. c.at = candle /\ \A l \in live : l.at \in Nat
  BY <1>1 DEF Shape
<1>4. /\ order \in Seq(PayloadSet(emitted)) /\ ShownFirst(order)
      /\ \A k \in 1 .. Len(inbox) : \E i \in 1 .. n : order[i] = inbox[k]
      /\ \A i \in 1 .. n : \E k \in 1 .. Len(inbox) : order[i] = inbox[k]
  BY <1>1, AvailabilityOK
<1> HIDE DEF order, c, live
<1>5. StoreOK(PublishAll(st, order), candle - 1, R, Unnamed(W, order, n), emitted)
  BY <1>1, <1>4, PublishAllOK
<1>6. DOMAIN inbox = 1 .. Len(inbox)
  BY <1>1
<1>7. \A z \in Named(inbox) : z \in emitted /\ \E i \in 1 .. n : z \in order[i].cancels
  <2> SUFFICES ASSUME NEW z, NEW k \in 1 .. Len(inbox), z \in inbox[k].cancels
               PROVE  z \in emitted /\ \E i \in 1 .. n : z \in order[i].cancels
    BY <1>6 DEF Named
  <2>1. inbox[k] \in PayloadSet(emitted)
    BY <1>1, EntryOf
  <2> QED
    BY <1>4, <2>1 DEF PayloadSet
<1>8. barred' \subseteq emitted /\ \A z \in barred' : z.candle < candle + 1
  <2>1. ASSUME NEW z \in barred'
        PROVE  z \in emitted /\ z.candle \in Nat /\ z.candle <= candle
    BY <1>1, <1>2, <1>7
  <2>2. ASSUME NEW z \in barred'
        PROVE  z \in emitted /\ z.candle < candle + 1
    BY <1>1, <2>1
  <2> QED
    BY <2>2
<1>9. Unnamed(W, order, n) \subseteq emitted \ barred'
  <2> SUFFICES ASSUME NEW x \in Unnamed(W, order, n)
               PROVE  x \in emitted \ barred'
    OBVIOUS
  <2>1. x \in emitted /\ x \notin barred /\ \A k \in 1 .. n : x \notin order[k].cancels
    BY DEF Unnamed
  <2>2. x \notin Named(inbox)
    BY <1>7, <2>1
  <2> QED
    BY <1>2, <2>1, <2>2
<1>10. \A z \in R : z.candle = candle => z \in emitted \ barred'
  <2> SUFFICES ASSUME NEW z \in R, z.candle = candle, z \in barred'
               PROVE  FALSE
    BY DEF Spared
  <2>1. z \notin barred
    BY <1>1
  <2>2. PICK k \in 1 .. Len(inbox) : inbox[k].zones # {} /\ z \in inbox[k].cancels
    BY <1>1, <1>2, <1>6, <2>1
  <2>3. PICK i \in 1 .. n : order[i] = inbox[k]
    BY <1>4
  <2> QED
    BY <2>2, <2>3 DEF Spared
<1>11. NextInput(R, emitted \ barred', emitted, candle - 1, c)
  <2>1. R \subseteq emitted /\ emitted \ barred' \subseteq emitted
    BY DEF Spared
  <2> QED
    BY <1>1, <1>3, <1>10, <2>1 DEF NextInput, Dated
<1> HIDE DEF R, late
<1>12. StoreOK(PublishAll(st, order), candle - 1, R, emitted \ barred', emitted)
  BY <1>5, <1>9, StoreForMore
<1>13. StoreOK(Evaluate(PublishAll(st, order), c, live), c.at, R, emitted \ barred', emitted)
  BY <1>3, <1>11, <1>12, EvaluateOK
<1>14. R \subseteq emitted
  BY DEF R, Spared
<1>15. StoreOK(st', candle, emitted, emitted \ barred', emitted)
  BY <1>2, <1>3, <1>13, <1>14, StoreForMore
<1>16. StoreOK(st, candle - 1, emitted, emitted \ barred, emitted)'
  <2>1. candle' - 1 = candle /\ emitted' = emitted
    BY <1>1, <1>2
  <2> QED
    BY <1>15, <2>1
<1>17. ShownFirst(inbox)' /\ inbox' \in Seq(PayloadSet(emitted'))
  BY <1>2 DEF ShownFirst
<1>18. /\ candle' \in Nat /\ candle' >= 1
       /\ \A z \in emitted' : z.candle \in Nat /\ z.candle <= candle'
  BY <1>1, <1>2
<1> QED
  BY <1>1, <1>2, <1>8, <1>16, <1>17, <1>18 DEF ReplayInv

LEMMA ReplayInvAlways == ReplaySpec => []ReplayInv
<1>1. ReplayInv /\ [ReplayNext]_replayVars => ReplayInv'
  <2> SUFFICES ASSUME ReplayInv, [ReplayNext]_replayVars
               PROVE  ReplayInv'
    OBVIOUS
  <2>1. CASE UNCHANGED replayVars
    BY <2>1 DEF replayVars, zoneVars, ReplayInv, ShownFirst
  <2> QED
    BY <2>1, EventKeepsInv, CandleKeepsInv DEF ReplayNext
<1> QED
  BY <1>1, ReplayInvInit, PTL DEF ReplaySpec

\* EnteredOnce: no zone of a replay gives two setups or two entries, however
\* payloads, candles and timeouts fall.
THEOREM ZonesEnterOnce == ReplaySpec => []EnteredOnce
<1>1. ReplayInv => EnteredOnce
  BY StoreGives DEF ReplayInv, EnteredOnce
<1> QED
  BY <1>1, ReplayInvAlways, PTL

\* CancelledDropped: a zone that a later zone, or a terminal of a later candle,
\* has cancelled waits for no entry.
THEOREM CancelledIsDropped == ReplaySpec => []CancelledDropped
<1>1. ReplayInv => CancelledDropped
  <2> SUFFICES ASSUME ReplayInv, NEW i \in 1 .. Len(st.setups)
               PROVE  st.setups[i].zone \notin barred
    BY DEF CancelledDropped
  <2>1. st.setups[i] \in SetupSet(emitted \ barred)
    BY EntryOf DEF ReplayInv, StoreOK, SetupsOK
  <2> QED
    BY <2>1 DEF SetupSet
<1> QED
  BY <1>1, ReplayInvAlways, PTL

(***************************************************************************)
(* What the scans of the levels find.  A scan visits the levels of its     *)
(* side one after the other; the n-th it visits is at Place(side, n).      *)
(* After n levels its state is the run of the levels that are still alive, *)
(* those that no reset or restart has dropped, and the zones it has found  *)
(* are those of the runs that ended at a terminal among the n.             *)
(***************************************************************************)

-----------------------------------------------------------------------------
(* What the scans find.  A scan looks at the prices one after the other:   *)
(* from the highest down for BID zones, from the lowest up for ASK zones.  *)

\* The n-th price of a scan, and the place of a price in it.
Place(side, n) == IF side = "BID" THEN TopPrice + 1 - n ELSE n

\* The places that hold levels of the side, those that break a run before
\* their own level is looked at, and those that break it afterwards.
Filled(side, counts) == {i \in 1 .. TopPrice : counts[side][Place(side, i)] > 0}
BreakFirst(side, counts) ==
  {i \in 1 .. TopPrice : side = "BID" /\ counts["ASK"][Place(side, i)] > 0}
BreakLast(side, counts) ==
  {i \in 1 .. TopPrice : side = "ASK" /\ counts["BID"][Place(side, i)] > 0}

AgainstAt(side) == [i \in 1 .. TopPrice |-> Against(foot[Place(side, i)], side)]
HitsAt(side) == [i \in 1 .. TopPrice |-> Hits(foot[Place(side, i)], side)]

\* The places whose levels are in the run after n places: no break since, and
\* opposing contracts that are outnumbered and shrink.
Alive(own, first, last, a, h, n) ==
  {i \in 1 .. n :
     /\ i \in own
     /\ \A r \in i + 1 .. n : r \notin first
     /\ \A r \in i .. n : r \notin last
     /\ \A r \in i .. n : r \in own => 0 < a[r] /\ a[r] < h[r]
     /\ \A r, u \in i .. n : r \in own /\ u \in own /\ r < u => a[r] >= a[u]}

LatestOf(K, m) == m \in K /\ \A k \in K : k <= m

\* The run from place to place.
LEMMA AliveEmpty ==
  ASSUME NEW own, NEW first, NEW last, NEW a, NEW h
  PROVE  Alive(own, first, last, a, h, 0) = {}
  BY DEF Alive

LEMMA AliveSkip ==
  ASSUME NEW n \in Nat, NEW own, NEW first, NEW last, NEW a, NEW h, n + 1 \notin own
  PROVE  Alive(own, first, last, a, h, n + 1) =
           IF n + 1 \in first \/ n + 1 \in last THEN {} ELSE Alive(own, first, last, a, h, n)
<1> DEFINE A == Alive(own, first, last, a, h, n)
           B == Alive(own, first, last, a, h, n + 1)
<1>1. ASSUME NEW i \in B
      PROVE  i \in A /\ n + 1 \notin first /\ n + 1 \notin last
  <2>1. i \in 1 .. n + 1 /\ i \in own
    BY DEF Alive
  <2>2. i \in 1 .. n
    BY <2>1
  <2>3. i + 1 .. n \subseteq i + 1 .. n + 1 /\ i .. n \subseteq i .. n + 1
        /\ n + 1 \in i + 1 .. n + 1 /\ n + 1 \in i .. n + 1
    BY <2>2
  <2> QED
    BY <2>1, <2>2, <2>3 DEF Alive
<1>2. ASSUME NEW i \in A, n + 1 \notin first, n + 1 \notin last
      PROVE  i \in B
  <2>1. i \in 1 .. n /\ i \in own
    BY DEF Alive
  <2>2. i \in 1 .. n + 1 /\ i + 1 .. n + 1 = (i + 1 .. n) \union {n + 1}
        /\ i .. n + 1 = (i .. n) \union {n + 1}
    BY <2>1
  <2> QED
    BY <1>2, <2>1, <2>2 DEF Alive
<1> QED
  BY <1>1, <1>2

LEMMA AliveLost ==
  ASSUME NEW n \in Nat, NEW own, NEW first, NEW last, NEW a, NEW h, n + 1 \in own,
         ~(0 < a[n + 1] /\ a[n + 1] < h[n + 1])
  PROVE  Alive(own, first, last, a, h, n + 1) = {}
<1> SUFFICES ASSUME NEW i \in Alive(own, first, last, a, h, n + 1)
             PROVE  FALSE
  OBVIOUS
<1>1. i \in 1 .. n + 1
  BY DEF Alive
<1>2. n + 1 \in i .. n + 1
  BY <1>1
<1> QED
  BY <1>2 DEF Alive

LEMMA AliveRestart ==
  ASSUME NEW n \in Nat, NEW own, NEW first, NEW last, NEW a, NEW h,
         n + 1 \in own, 0 < a[n + 1], a[n + 1] < h[n + 1]
  PROVE  /\ Alive(own, first, last, a, h, n + 1) \subseteq
              Alive(own, first, last, a, h, n) \union {n + 1}
         /\ n + 1 \in last => Alive(own, first, last, a, h, n + 1) = {}
         /\ n + 1 \notin last => n + 1 \in Alive(own, first, last, a, h, n + 1)
<1> DEFINE A == Alive(own, first, last, a, h, n)
           B == Alive(own, first, last, a, h, n + 1)
<1>1. ASSUME NEW i \in B, i # n + 1
      PROVE  i \in A
  <2>1. i \in 1 .. n + 1 /\ i \in own
    BY DEF Alive
  <2>2. i \in 1 .. n
    BY <1>1, <2>1
  <2>3. i + 1 .. n \subseteq i + 1 .. n + 1 /\ i .. n \subseteq i .. n + 1
    BY <2>2
  <2> QED
    BY <2>1, <2>2, <2>3 DEF Alive
<1>2. ASSUME NEW i \in B
      PROVE  n + 1 \notin last
  <2>1. i \in 1 .. n + 1
    BY DEF Alive
  <2>2. n + 1 \in i .. n + 1
    BY <2>1
  <2> QED
    BY <2>2 DEF Alive
<1>3. ASSUME n + 1 \notin last
      PROVE  n + 1 \in B
  <2>1. (n + 1) + 1 .. n + 1 = {} /\ n + 1 .. n + 1 = {n + 1} /\ n + 1 \in 1 .. n + 1
    OBVIOUS
  <2>2. \A r, u \in n + 1 .. n + 1 : ~(r < u)
    OBVIOUS
  <2> QED
    BY <1>3, <2>1, <2>2 DEF Alive
<1> QED
  BY <1>1, <1>2, <1>3

\* Of a run the last level decides whether the next one goes on with it.
LEMMA AliveGrows ==
  ASSUME NEW n \in Nat, NEW own, NEW first, NEW last, NEW a, NEW h,
         \A i \in 1 .. n + 1 : a[i] \in Nat,
         n + 1 \in own, 0 < a[n + 1], a[n + 1] < h[n + 1], n + 1 \notin last,
         NEW m, LatestOf(Alive(own, first, last, a, h, n), m), n + 1 \notin first
  PROVE  Alive(own, first, last, a, h, n + 1) =
           IF a[n + 1] > a[m] THEN {n + 1} ELSE Alive(own, first, last, a, h, n) \union {n + 1}
<1> DEFINE A == Alive(own, first, last, a, h, n)
           B == Alive(own, first, last, a, h, n + 1)
<1>1. B \subseteq A \union {n + 1} /\ n + 1 \in B
  BY AliveRestart
<1>2. m \in 1 .. n /\ m \in own /\ \A k \in A : k <= m
  BY DEF LatestOf, Alive
<1>3. ASSUME NEW i \in B, i # n + 1
      PROVE  ~(a[n + 1] > a[m])
  <2>1. i \in A
    BY <1>1, <1>3
  <2>2. i \in 1 .. n /\ i <= m
    BY <1>2, <2>1 DEF Alive
  <2>3. m \in i .. n + 1 /\ n + 1 \in i .. n + 1 /\ m < n + 1
    BY <1>2, <2>2
  <2>4. a[m] >= a[n + 1]
    BY <1>2, <2>3 DEF Alive
  <2>5. a[m] \in Nat /\ a[n + 1] \in Nat
    BY <1>2
  <2> QED
    BY <2>4, <2>5
<1>4. ASSUME NEW i \in A, ~(a[n + 1] > a[m])
      PROVE  i \in B
  <2>1. i \in 1 .. n /\ i \in own /\ i <= m
    BY <1>2 DEF Alive
  <2>2. i \in 1 .. n + 1 /\ i + 1 .. n + 1 = (i + 1 .. n) \union {n + 1}
        /\ i .. n + 1 = (i .. n) \union {n + 1}
    BY <2>1
  <2>3. ASSUME NEW r \in i .. n, r \in own
        PROVE  a[r] >= a[n + 1]
    <3>1. r \in A
      <4>1. r \in 1 .. n /\ r + 1 .. n \subseteq i + 1 .. n /\ r .. n \subseteq i .. n
        BY <2>1
      <4> QED
        BY <2>3, <4>1 DEF Alive
    <3>2. r <= m
      BY <1>2, <3>1
    <3>3. r = m \/ r < m
      BY <1>2, <2>1, <3>2
    <3>4. r = m \/ a[r] >= a[m]
      BY <1>2, <2>1, <2>3, <3>3 DEF Alive
    <3>5. a[r] \in Nat /\ a[m] \in Nat /\ a[n + 1] \in Nat
      BY <1>2, <2>1
    <3> QED
      BY <1>4, <3>4, <3>5
  <2>4. \A r, u \in i .. n + 1 : r \in own /\ u \in own /\ r < u => a[r] >= a[u]
    <3>1. SUFFICES ASSUME NEW r \in i .. n + 1, NEW u \in i .. n + 1, r \in own, u \in own, r < u
                   PROVE  a[r] >= a[u]
      OBVIOUS
    <3>2. r \in i .. n
      BY <2>1, <3>1
    <3>3. CASE u = n + 1
      BY <2>3, <3>1, <3>2, <3>3
    <3>4. CASE u # n + 1
      <4>1. u \in i .. n
        BY <2>1, <3>4
      <4> QED
        BY <3>1, <3>2, <4>1 DEF Alive
    <3> QED
      BY <3>3, <3>4
  <2> QED
    BY <2>1, <2>2, <2>4 DEF Alive
<1> QED
  BY <1>1, <1>3, <1>4

\* Places and prices are the same up to the direction of the scan.
LEMMA PlaceFacts ==
  ASSUME NEW side \in Side
  PROVE  /\ TopPrice \in Nat
         /\ \A n \in 1 .. TopPrice : Place(side, n) \in Price /\ Place(side, Place(side, n)) = n
         /\ \A q \in Price : Place(side, q) \in 1 .. TopPrice /\ Place(side, Place(side, q)) = q
         /\ \A q, r \in Price :
              Place(side, q) < Place(side, r) <=> IF side = "BID" THEN q > r ELSE q < r
<1>1. TopPrice \in Nat
  BY ZoneAssumption
<1>2. CASE side = "BID"
  BY <1>1, <1>2 DEF Place, Price
<1>3. CASE side # "BID"
  BY <1>1, <1>3 DEF Place, Price
<1> QED
  BY <1>1, <1>2, <1>3

Refills == [Side -> [Price -> Nat]]

\* What is known of the levels of a candle.
LEMMA LevelFacts ==
  ASSUME foot \in Footprints, NEW side \in Side, NEW counts \in Refills, NEW n \in 1 .. TopPrice
  PROVE  /\ AgainstAt(side)[n] = Against(foot[Place(side, n)], side)
         /\ HitsAt(side)[n] = Hits(foot[Place(side, n)], side)
         /\ AgainstAt(side)[n] \in Nat /\ HitsAt(side)[n] \in Nat
         /\ n \in Filled(side, counts) <=> counts[side][Place(side, n)] > 0
         /\ n \in BreakFirst(side, counts) <=> side = "BID" /\ counts["ASK"][Place(side, n)] > 0
         /\ n \in BreakLast(side, counts) <=> side = "ASK" /\ counts["BID"][Place(side, n)] > 0
<1>1. foot \in [Price -> Bin]
  BY ZoneAssumption
<1>2. Place(side, n) \in Price
  BY PlaceFacts
<1>3. foot[Place(side, n)] \in Bin
  BY <1>1, <1>2
<1>4. Against(foot[Place(side, n)], side) \in Nat /\ Hits(foot[Place(side, n)], side) \in Nat
  BY <1>3 DEF Against, Hits, Bin
<1> QED
  BY <1>4 DEF AgainstAt, HitsAt, Filled, BreakFirst, BreakLast

Run(side, counts, n) ==
  Alive(Filled(side, counts), BreakFirst(side, counts), BreakLast(side, counts),
        AgainstAt(side), HitsAt(side), n)

\* The prices of a run ending at p, by their places.
Joins(side, counts, p, q) ==
  LET i == Place(side, q)  t == Place(side, p)
      own(k) == k \in Filled(side, counts)
      a == AgainstAt(side)  h == HitsAt(side)
  IN /\ i < t /\ own(i)
     /\ \A k \in i + 1 .. t : k \notin BreakFirst(side, counts)
     /\ \A k \in i .. t - 1 : k \notin BreakLast(side, counts)
     /\ \A k \in i .. t : own(k) => a[k] < h[k]
     /\ \A k \in i .. t - 1 : own(k) => a[k] # 0
     /\ \A k, l \in i .. t : own(k) /\ own(l) /\ k < l => a[k] >= a[l]

Before(side, q, r) == IF side = "BID" THEN q > r ELSE q < r
Span(q, t) == IF q <= t THEN q .. t ELSE t .. q
Edge(q, t) == IF q <= t THEN q .. t - 1 ELSE t .. q - 1
OtherSide(side) == IF side = "BID" THEN "ASK" ELSE "BID"

LEMMA RunToBy ==
  ASSUME NEW side \in Side, NEW counts, NEW t
  PROVE  RunTo(counts, side, t) = {t} \union
           {q \in Price :
              /\ Before(side, q, t) /\ counts[side][q] > 0
              /\ \A r \in Edge(q, t) : counts[OtherSide(side)][r] = 0
              /\ \A r \in Span(q, t) : counts[side][r] > 0 =>
                   Against(foot[r], side) < Hits(foot[r], side)
              /\ \A r \in Span(q, t) \ {t} : counts[side][r] > 0 => Against(foot[r], side) # 0
              /\ \A r, u \in Span(q, t) :
                   counts[side][r] > 0 /\ counts[side][u] > 0 /\ Before(side, r, u)
                     => Against(foot[r], side) >= Against(foot[u], side)}
<1>1. (CHOOSE s \in Side : s # side) = OtherSide(side)
  <2>1. OtherSide(side) \in Side /\ \A s \in Side : s # side <=> s = OtherSide(side)
    BY DEF Side, OtherSide
  <2> QED
    BY <2>1
<1> HIDE DEF Side
<1> DEFINE N == {q \in Price :
              /\ Before(side, q, t) /\ counts[side][q] > 0
              /\ \A r \in Edge(q, t) : counts[OtherSide(side)][r] = 0
              /\ \A r \in {x \in Span(q, t) : counts[side][x] > 0} :
                   Against(foot[r], side) < Hits(foot[r], side)
              /\ \A r \in {x \in Span(q, t) : counts[side][x] > 0} \ {t} :
                   Against(foot[r], side) # 0
              /\ \A r, u \in {x \in Span(q, t) : counts[side][x] > 0} :
                   Before(side, r, u) => Against(foot[r], side) >= Against(foot[u], side)}
<1>2. RunTo(counts, side, t) = {t} \union N
  BY <1>1 DEF RunTo, Before, Span, Edge
<1> QED
  BY <1>2

\* Prices between two prices, by their places.
LEMMA SpanPlaces ==
  ASSUME NEW side \in Side, NEW q \in Price, NEW t \in Price, Place(side, q) < Place(side, t)
  PROVE  /\ \A r : r \in Span(q, t) <=>
                     r \in Price /\ Place(side, r) \in Place(side, q) .. Place(side, t)
         /\ \A r : r \in Edge(q, t) <=>
                     r \in Price /\
                     Place(side, r) \in IF side = "BID"
                                        THEN Place(side, q) + 1 .. Place(side, t)
                                        ELSE Place(side, q) .. Place(side, t) - 1
<1>1. TopPrice \in Nat /\ q \in 1 .. TopPrice /\ t \in 1 .. TopPrice
  BY PlaceFacts DEF Price
<1>2. CASE side = "BID"
  <2>1. t < q /\ Place(side, q) = TopPrice + 1 - q /\ Place(side, t) = TopPrice + 1 - t
    BY <1>1, <1>2 DEF Place
  <2>2. \A r : r \in Span(q, t) <=> r \in t .. q
    BY <1>1, <2>1 DEF Span
  <2>3. \A r : r \in Edge(q, t) <=> r \in t .. q - 1
    BY <1>1, <2>1 DEF Edge
  <2>4. ASSUME NEW r
        PROVE  /\ r \in t .. q <=> r \in Price /\ TopPrice + 1 - r \in TopPrice + 1 - q .. TopPrice + 1 - t
               /\ r \in t .. q - 1 <=>
                    r \in Price /\ TopPrice + 1 - r \in TopPrice + 1 - q + 1 .. TopPrice + 1 - t
    BY <1>1, <2>1 DEF Price
  <2> QED
    BY <1>2, <2>1, <2>2, <2>3, <2>4 DEF Place
<1>3. CASE side # "BID"
  <2>1. q < t /\ \A r : Place(side, r) = r
    BY <1>1, <1>3 DEF Place
  <2>2. \A r : r \in Span(q, t) <=> r \in q .. t
    BY <1>1, <2>1 DEF Span
  <2>3. \A r : r \in Edge(q, t) <=> r \in q .. t - 1
    BY <1>1, <2>1 DEF Edge
  <2>4. ASSUME NEW r
        PROVE  /\ r \in q .. t <=> r \in Price /\ r \in q .. t
               /\ r \in q .. t - 1 <=> r \in Price /\ r \in q .. t - 1
    BY <1>1, <2>1 DEF Price
  <2> QED
    BY <1>3, <2>1, <2>2, <2>3, <2>4
<1> QED
  BY <1>2, <1>3

\* The run that ends at a price, by places.
LEMMA RunToJoins ==
  ASSUME foot \in Footprints, NEW side \in Side, NEW counts \in Refills, NEW p \in Price
  PROVE  RunTo(counts, side, p) = {p} \union {q \in Price : Joins(side, counts, p, q)}
<1> DEFINE P(q) == Place(side, q)
           own == Filled(side, counts)
           first == BreakFirst(side, counts)
           last == BreakLast(side, counts)
           a == AgainstAt(side)
           h == HitsAt(side)
           Level(r) == counts[side][r] > 0
           Con(r) == Against(foot[r], side)
           Pro(r) == Hits(foot[r], side)
           Linked(q) ==
              /\ Before(side, q, p) /\ Level(q)
              /\ \A r \in Edge(q, p) : counts[OtherSide(side)][r] = 0
              /\ \A r \in Span(q, p) : Level(r) => Con(r) < Pro(r)
              /\ \A r \in Span(q, p) \ {p} : Level(r) => Con(r) # 0
              /\ \A r, u \in Span(q, p) :
                   Level(r) /\ Level(u) /\ Before(side, r, u) => Con(r) >= Con(u)
<1>1. RunTo(counts, side, p) = {p} \union {q \in Price : Linked(q)}
  BY RunToBy
<1>2. SUFFICES ASSUME NEW q \in Price
               PROVE  Linked(q) <=> Joins(side, counts, p, q)
  <2> HIDE DEF Linked
  <2> QED
    BY <1>1, <1>2
<1>3. /\ P(p) \in 1 .. TopPrice /\ P(q) \in 1 .. TopPrice /\ TopPrice \in Nat
      /\ \A r \in Price : P(r) \in 1 .. TopPrice /\ P(P(r)) = r
      /\ \A n \in 1 .. TopPrice : P(n) \in Price /\ P(P(n)) = n
      /\ \A r, u \in Price : Before(side, r, u) <=> P(r) < P(u)
  BY PlaceFacts DEF Before
<1>4. ASSUME NEW n \in 1 .. TopPrice
      PROVE  /\ n \in own <=> Level(P(n))
             /\ a[n] = Con(P(n)) /\ h[n] = Pro(P(n))
             /\ n \in first <=> side = "BID" /\ counts["ASK"][P(n)] > 0
             /\ n \in last <=> side = "ASK" /\ counts["BID"][P(n)] > 0
  BY LevelFacts
<1>5. CASE ~(P(q) < P(p))
  BY <1>3, <1>5 DEF Joins
<1>6. CASE P(q) < P(p)
  <2> DEFINE i == P(q)
             t == P(p)
  <2>1. i .. t \subseteq 1 .. TopPrice /\ i + 1 .. t \subseteq i .. t /\ i .. t - 1 \subseteq i .. t
        /\ i \in Nat /\ t \in Nat
    BY <1>3, <1>6
  <2>2. \A r : r \in Span(q, p) <=> r \in Price /\ P(r) \in i .. t
    BY <1>6, SpanPlaces
  <2>3. \A r : r \in Edge(q, p) <=>
                 r \in Price /\ P(r) \in IF side = "BID" THEN i + 1 .. t ELSE i .. t - 1
    BY <1>6, SpanPlaces
  <2>4. \A r : r \in Span(q, p) \ {p} <=> r \in Price /\ P(r) \in i .. t - 1
    <3>1. ASSUME NEW r \in Price, P(r) \in i .. t
          PROVE  r # p <=> P(r) \in i .. t - 1
      <4>1. r # p <=> P(r) # t
        BY <1>3
      <4>2. P(r) \in Nat
        BY <1>3
      <4> HIDE DEF P
      <4> QED
        BY <2>1, <3>1, <4>1, <4>2
    <3>2. \A r : P(r) \in i .. t - 1 => P(r) \in i .. t
      BY <2>1
    <3> HIDE DEF P, i, t
    <3> QED
      BY <2>2, <3>1, <3>2
  <2> HIDE DEF P, own, first, last, a, h, Con, Pro, Level
  <2>5. (\A r \in Edge(q, p) : counts[OtherSide(side)][r] = 0)
          <=> (\A k \in i + 1 .. t : k \notin first) /\ (\A k \in i .. t - 1 : k \notin last)
    <3>1. \A r \in Price : counts[OtherSide(side)][r] = 0 <=> ~(counts[OtherSide(side)][r] > 0)
      <4>1. OtherSide(side) \in Side
        BY DEF OtherSide, Side
      <4>2. counts[OtherSide(side)] \in [Price -> Nat]
        BY <4>1 DEF Refills
      <4> HIDE DEF Price, OtherSide
      <4>3. \A r \in Price : counts[OtherSide(side)][r] \in Nat
        BY <4>2
      <4> QED
        BY <4>3
    <3>2. CASE side = "BID"
      <4>1. \A k \in i + 1 .. t : k \in first <=> counts["ASK"][P(k)] > 0
        BY <1>4, <2>1, <3>2
      <4>2. \A k \in i .. t - 1 : k \notin last
        BY <1>4, <2>1, <3>2
      <4>3. \A r \in Edge(q, p) : r \in Price /\ P(r) \in i + 1 .. t /\ P(P(r)) = r
        BY <1>3, <2>3, <3>2
      <4>4. \A k \in i + 1 .. t : P(k) \in Edge(q, p) /\ P(k) \in Price
        BY <1>3, <2>1, <2>3, <3>2
      <4>5. OtherSide(side) = "ASK"
        BY <3>2 DEF OtherSide
      <4> QED
        BY <3>1, <4>1, <4>2, <4>3, <4>4, <4>5
    <3>3. CASE side # "BID"
      <4>0. side = "ASK"
        BY <3>3 DEF Side
      <4>1. \A k \in i .. t - 1 : k \in last <=> counts["BID"][P(k)] > 0
        BY <1>4, <2>1, <4>0
      <4>2. \A k \in i + 1 .. t : k \notin first
        BY <1>4, <2>1, <3>3
      <4>3. \A r \in Edge(q, p) : r \in Price /\ P(r) \in i .. t - 1 /\ P(P(r)) = r
        BY <1>3, <2>3, <3>3
      <4>4. \A k \in i .. t - 1 : P(k) \in Edge(q, p) /\ P(k) \in Price
        BY <1>3, <2>1, <2>3, <3>3
      <4>5. OtherSide(side) = "BID"
        BY <3>3 DEF OtherSide
      <4> QED
        BY <3>1, <4>1, <4>2, <4>3, <4>4, <4>5
    <3> QED
      BY <3>2, <3>3
  <2>6. Before(side, q, p) /\ (Level(q) <=> i \in own)
    <3>1. i \in 1 .. TopPrice /\ P(i) = q
      BY <1>3
    <3> QED
      BY <1>3, <1>4, <1>6, <3>1
  <2>7. /\ \A r \in Span(q, p) : r \in Price /\ P(r) \in i .. t /\ P(P(r)) = r
        /\ \A k \in i .. t : P(k) \in Span(q, p) /\ P(P(k)) = k
        /\ \A r \in Span(q, p) \ {p} : P(r) \in i .. t - 1 /\ P(P(r)) = r
        /\ \A k \in i .. t - 1 : P(k) \in Span(q, p) \ {p} /\ P(P(k)) = k
    <3> HIDE DEF i, t
    <3>1. \A r \in Span(q, p) : r \in Price /\ P(r) \in i .. t /\ P(P(r)) = r
      BY <1>3, <2>2
    <3>2. \A k \in i .. t : P(k) \in Span(q, p) /\ P(P(k)) = k
      BY <1>3, <2>1, <2>2
    <3>3. \A r \in Span(q, p) \ {p} : P(r) \in i .. t - 1 /\ P(P(r)) = r
      BY <1>3, <2>4
    <3>4. \A k \in i .. t - 1 : P(k) \in Span(q, p) \ {p} /\ P(P(k)) = k
      BY <1>3, <2>1, <2>4
    <3> QED
      BY <3>1, <3>2, <3>3, <3>4
  <2>8. \A k \in i .. t : (k \in own <=> Level(P(k))) /\ a[k] = Con(P(k)) /\ h[k] = Pro(P(k))
    BY <1>4, <2>1
  <2> HIDE DEF i, t
  <2>9. (\A r \in Span(q, p) : Level(r) => Con(r) < Pro(r))
          <=> (\A k \in i .. t : k \in own => a[k] < h[k])
    BY <2>7, <2>8
  <2>10. (\A r \in Span(q, p) \ {p} : Level(r) => Con(r) # 0)
           <=> (\A k \in i .. t - 1 : k \in own => a[k] # 0)
    BY <2>1, <2>7, <2>8
  <2>11. (\A r, u \in Span(q, p) : Level(r) /\ Level(u) /\ Before(side, r, u) => Con(r) >= Con(u))
           <=> (\A k, l \in i .. t : k \in own /\ l \in own /\ k < l => a[k] >= a[l])
    <3>1. ASSUME \A k, l \in i .. t : k \in own /\ l \in own /\ k < l => a[k] >= a[l],
                 NEW r \in Span(q, p), NEW u \in Span(q, p), Level(r), Level(u), Before(side, r, u)
          PROVE  Con(r) >= Con(u)
      <4>1. /\ P(r) \in i .. t /\ P(P(r)) = r /\ P(u) \in i .. t /\ P(P(u)) = u
            /\ r \in Price /\ u \in Price
        BY <2>7
      <4>2. P(r) < P(u)
        BY <1>3, <3>1, <4>1
      <4>3. P(r) \in own /\ P(u) \in own /\ a[P(r)] = Con(r) /\ a[P(u)] = Con(u)
        BY <2>8, <3>1, <4>1
      <4>4. a[P(r)] >= a[P(u)]
        BY <3>1, <4>1, <4>2, <4>3
      <4> QED
        BY <4>3, <4>4
    <3>2. ASSUME \A r, u \in Span(q, p) :
                   Level(r) /\ Level(u) /\ Before(side, r, u) => Con(r) >= Con(u),
                 NEW k \in i .. t, NEW l \in i .. t, k \in own, l \in own, k < l
          PROVE  a[k] >= a[l]
      <4>1. /\ P(k) \in Span(q, p) /\ P(P(k)) = k /\ P(l) \in Span(q, p) /\ P(P(l)) = l
            /\ P(k) \in Price /\ P(l) \in Price
        BY <2>7
      <4>2. Before(side, P(k), P(l))
        BY <1>3, <3>2, <4>1
      <4>3. Level(P(k)) /\ Level(P(l)) /\ a[k] = Con(P(k)) /\ a[l] = Con(P(l))
        BY <2>8, <3>2
      <4>4. Con(P(k)) >= Con(P(l))
        BY <3>2, <4>1, <4>2, <4>3
      <4> QED
        BY <4>3, <4>4
    <3> QED
      BY <3>1, <3>2
  <2>12. Joins(side, counts, p, q) <=>
           /\ i < t /\ i \in own
           /\ (\A k \in i + 1 .. t : k \notin first) /\ (\A k \in i .. t - 1 : k \notin last)
           /\ (\A k \in i .. t : k \in own => a[k] < h[k])
           /\ (\A k \in i .. t - 1 : k \in own => a[k] # 0)
           /\ (\A k, l \in i .. t : k \in own /\ l \in own /\ k < l => a[k] >= a[l])
    BY DEF Joins, i, t, P, own, first, last, a, h
  <2> QED
    BY <1>6, <2>5, <2>6, <2>9, <2>10, <2>11, <2>12 DEF i, t
<1> QED
  BY <1>5, <1>6

\* The run before the level of a place is looked at.
Remaining(side, counts, n) ==
  IF n \in BreakFirst(side, counts) THEN {} ELSE Run(side, counts, n - 1)

\* At a level without opposing contracts the run ends, and is what the scan
\* has kept.
LEMMA RunEnds ==
  ASSUME foot \in Footprints, NEW side \in Side, NEW counts \in Refills, NEW t \in 1 .. TopPrice,
         t \in Filled(side, counts), AgainstAt(side)[t] = 0, HitsAt(side)[t] > 0
  PROVE  RunTo(counts, side, Place(side, t)) =
           {Place(side, i) : i \in Remaining(side, counts, t) \union {t}}
<1> DEFINE p == Place(side, t)
           own == Filled(side, counts)
           first == BreakFirst(side, counts)
           last == BreakLast(side, counts)
           a == AgainstAt(side)
           h == HitsAt(side)
<1>1. p \in Price /\ Place(side, p) = t /\ TopPrice \in Nat
  BY PlaceFacts
<1>2. \A n \in 1 .. TopPrice : a[n] \in Nat /\ h[n] \in Nat
  BY LevelFacts
<1>3. Remaining(side, counts, t) \subseteq 1 .. t - 1
  BY DEF Remaining, Run, Alive
<1>4. ASSUME NEW q \in Price
      PROVE  Joins(side, counts, p, q) <=> Place(side, q) \in Remaining(side, counts, t)
  <2> DEFINE i == Place(side, q)
  <2>1. i \in 1 .. TopPrice
    BY PlaceFacts
  <2>2. Joins(side, counts, p, q) <=>
           /\ i < t /\ i \in own
           /\ (\A k \in i + 1 .. t : k \notin first) /\ (\A k \in i .. t - 1 : k \notin last)
           /\ (\A k \in i .. t : k \in own => a[k] < h[k])
           /\ (\A k \in i .. t - 1 : k \in own => a[k] # 0)
           /\ (\A k, l \in i .. t : k \in own /\ l \in own /\ k < l => a[k] >= a[l])
    BY <1>1 DEF Joins
  <2>3. i \in Remaining(side, counts, t) <=>
           /\ t \notin first /\ i \in 1 .. t - 1 /\ i \in own
           /\ (\A k \in i + 1 .. t - 1 : k \notin first) /\ (\A k \in i .. t - 1 : k \notin last)
           /\ (\A k \in i .. t - 1 : k \in own => 0 < a[k] /\ a[k] < h[k])
           /\ (\A k, l \in i .. t - 1 : k \in own /\ l \in own /\ k < l => a[k] >= a[l])
    BY DEF Remaining, Run, Alive
  <2> HIDE DEF i, p, own, first, last, a, h
  <2>4. CASE i < t
    <3>1. /\ i + 1 .. t = (i + 1 .. t - 1) \union {t} /\ i .. t = (i .. t - 1) \union {t}
          /\ i \in 1 .. t - 1 /\ i .. t - 1 \subseteq 1 .. TopPrice
      BY <2>1, <2>4, <1>1
    <3>2. (\A k \in i + 1 .. t : k \notin first)
            <=> t \notin first /\ \A k \in i + 1 .. t - 1 : k \notin first
      BY <3>1
    <3>3. \A k \in i .. t - 1 : (0 < a[k] <=> a[k] # 0)
      BY <1>2, <3>1
    <3>4. (\A k \in i .. t : k \in own => a[k] < h[k])
            <=> \A k \in i .. t - 1 : k \in own => a[k] < h[k]
      <4>1. a[t] < h[t]
        BY <1>2 DEF a, h
      <4> QED
        BY <3>1, <4>1
    <3>5. (\A k, l \in i .. t : k \in own /\ l \in own /\ k < l => a[k] >= a[l])
            <=> \A k, l \in i .. t - 1 : k \in own /\ l \in own /\ k < l => a[k] >= a[l]
      <4>1. \A k \in i .. t - 1 : a[k] >= a[t] /\ ~(t < k)
        <5>1. a[t] = 0
          BY DEF a
        <5> QED
          BY <1>2, <3>1, <5>1
      <4>2. ASSUME \A k, l \in i .. t - 1 : k \in own /\ l \in own /\ k < l => a[k] >= a[l],
                   NEW k \in i .. t, NEW l \in i .. t, k \in own, l \in own, k < l
            PROVE  a[k] >= a[l]
        <5>1. k \in i .. t - 1
          BY <2>1, <4>2
        <5> QED
          BY <3>1, <4>1, <4>2, <5>1
      <4> QED
        BY <3>1, <4>2
    <3>6. Joins(side, counts, p, q) <=> i \in Remaining(side, counts, t)
      BY <2>2, <2>3, <2>4, <3>1, <3>2, <3>3, <3>4, <3>5
    <3> QED
      BY <3>6 DEF i
  <2>5. CASE ~(i < t)
    <3>1. i \notin 1 .. t - 1
      BY <2>1, <2>5
    <3>2. ~Joins(side, counts, p, q)
      BY <2>2, <2>5
    <3>3. i \notin Remaining(side, counts, t)
      BY <2>3, <3>1
    <3> QED
      BY <3>2, <3>3 DEF i
  <2> QED
    BY <2>4, <2>5 DEF i
<1>5. RunTo(counts, side, p) = {p} \union {q \in Price : Place(side, q) \in Remaining(side, counts, t)}
  <2>1. RunTo(counts, side, p) = {p} \union {q \in Price : Joins(side, counts, p, q)}
    BY <1>1, RunToJoins
  <2> QED
    BY <1>4, <2>1
<1>6. {q \in Price : Place(side, q) \in Remaining(side, counts, t)} =
        {Place(side, i) : i \in Remaining(side, counts, t)}
  <2>1. \A q \in Price : Place(side, Place(side, q)) = q
    BY PlaceFacts
  <2>2. \A i \in Remaining(side, counts, t) : Place(side, i) \in Price /\ Place(side, Place(side, i)) = i
    BY <1>1, <1>3, PlaceFacts
  <2> QED
    BY <2>1, <2>2
<1> QED
  BY <1>5, <1>6

\* The list of the scan holds the levels of the run, the last one last.
Lists(run, side, K) ==
  /\ run \in Seq(Price)
  /\ {run[j] : j \in 1 .. Len(run)} = {Place(side, i) : i \in K}
  /\ run = <<>> <=> K = {}
  /\ run # <<>> => \E m : LatestOf(K, m) /\ run[Len(run)] = Place(side, m)

LEMMA ListsNothing ==
  ASSUME NEW side
  PROVE  Lists(<<>>, side, {})
<1>1. <<>> \in Seq(Price) /\ 1 .. Len(<<>>) = {}
  OBVIOUS
<1> QED
  BY <1>1 DEF Lists

LEMMA ListsMore ==
  ASSUME NEW side \in Side, NEW n \in 1 .. TopPrice, NEW K \in SUBSET (1 .. n - 1), NEW run,
         Lists(run, side, K)
  PROVE  LET more == Append(run, Place(side, n))
         IN  /\ Lists(more, side, K \union {n})
             /\ Len(more) \in Nat /\ Len(more) > 0 /\ more[Len(more)] = Place(side, n)
<1> DEFINE p == Place(side, n)
           more == Append(run, p)
<1>1. run \in Seq(Price) /\ p \in Price /\ TopPrice \in Nat /\ Len(run) \in Nat
  BY PlaceFacts DEF Lists
<1> HIDE DEF p
<1>2. /\ more \in Seq(Price) /\ Len(more) = Len(run) + 1 /\ more[Len(more)] = p
      /\ \A j \in 1 .. Len(run) : more[j] = run[j]
  <2> HIDE DEF Price
  <2> QED
    BY <1>1, AppendProperties
<1> HIDE DEF more
<1>3. 1 .. Len(more) = (1 .. Len(run)) \union {Len(more)}
  BY <1>1, <1>2
<1>4. {more[j] : j \in 1 .. Len(more)} = {run[j] : j \in 1 .. Len(run)} \union {p}
  BY <1>2, <1>3
<1>5. {more[j] : j \in 1 .. Len(more)} = {Place(side, i) : i \in K \union {n}}
  BY <1>4 DEF Lists, p
<1>6. more # <<>> /\ K \union {n} # {}
  BY <1>1, <1>2
<1>7. LatestOf(K \union {n}, n)
  BY DEF LatestOf
<1>8. Lists(more, side, K \union {n})
  BY <1>2, <1>5, <1>6, <1>7 DEF Lists, p
<1> QED
  BY <1>1, <1>2, <1>8 DEF more, p

\* A set of prices has a lowest and a highest one.
LEMMA LowAndHigh ==
  ASSUME NEW R \in SUBSET Price, R # {}
  PROVE  /\ \E q \in R : \A r \in R : q <= r
         /\ \E q \in R : \A r \in R : q >= r
<1>1. TopPrice \in Nat /\ \A q \in R : q \in Nat /\ q <= TopPrice
  BY PlaceFacts, ZoneAssumption DEF Price
<1>2. PICK q \in R : \A r \in R : q <= r
  <2>1. R \in SUBSET Nat
    BY <1>1
  <2> QED
    BY <2>1, LeastNat
<1> DEFINE T == {TopPrice - r : r \in R}
<1>3. PICK x \in T : \A y \in T : x <= y
  <2>1. T \in SUBSET Nat /\ T # {}
    BY <1>1
  <2> HIDE DEF T
  <2> QED
    BY <2>1, LeastNat
<1>4. PICK u \in R : x = TopPrice - u
  BY <1>3
<1>5. ASSUME NEW r \in R
      PROVE  u >= r
  <2>1. TopPrice - u <= TopPrice - r
    BY <1>3, <1>4
  <2>2. u \in Nat /\ r \in Nat
    BY <1>1
  <2> QED
    BY <1>1, <2>1, <2>2
<1> QED
  BY <1>2, <1>5

\* The zone of a set of levels that ends at p, as the property states it.
ZoneAt(side, p, cs, R, c) ==
  IF Terminal(foot[p], side) /\ SumOver(cs, R) >= CountMin
  THEN {[candle |-> c, side |-> side, low |-> lo, high |-> hi + 1, count |-> SumOver(cs, R),
         levels |-> Cardinality(R)] :
          lo \in {q \in R : \A r \in R : q <= r}, hi \in {q \in R : \A r \in R : q >= r}}
  ELSE {}

LEMMA ZoneOfRun ==
  ASSUME NEW side, NEW run \in Seq(Price), Len(run) > 0, NEW cs, NEW c
  PROVE  ZoneOf(side, run, cs, foot, c) =
           ZoneAt(side, run[Len(run)], cs, {run[i] : i \in 1 .. Len(run)}, c)
<1> DEFINE R == {run[i] : i \in 1 .. Len(run)}
           lo == CHOOSE q \in R : \A r \in R : q <= r
           hi == CHOOSE q \in R : \A r \in R : q >= r
           n == SumOver(cs, R)
           p == run[Len(run)]
           S == {q \in R : \A r \in R : q <= r}
           T == {q \in R : \A r \in R : q >= r}
           zone(x, y) == [candle |-> c, side |-> side, low |-> x, high |-> y + 1, count |-> n,
                          levels |-> Cardinality(R)]
<1>1. R \in SUBSET Price /\ R # {}
  <2>1. Len(run) \in Nat /\ \A i \in 1 .. Len(run) : run[i] \in Price
    OBVIOUS
  <2> QED
    BY <2>1
<1> DEFINE wanted == Terminal(foot[p], side) /\ n >= CountMin
           all == {zone(x, y) : x \in S, y \in T}
<1>2. ZoneOf(side, run, cs, foot, c) = IF wanted THEN {zone(lo, hi)} ELSE {}
  BY DEF ZoneOf
<1>3. ZoneAt(side, p, cs, R, c) = IF wanted THEN all ELSE {}
  BY DEF ZoneAt
<1> HIDE DEF wanted
<1> HIDE DEF R, n, p
<1>4. R \subseteq Nat
  BY <1>1, ZoneAssumption DEF Price
<1>5. S = {lo}
  <2>1. lo \in R /\ \A r \in R : lo <= r
    BY <1>1, LowAndHigh
  <2> HIDE DEF lo
  <2>2. ASSUME NEW q \in R, \A r \in R : q <= r
        PROVE  q = lo
    <3>1. q <= lo /\ lo <= q /\ q \in Nat /\ lo \in Nat
      BY <1>4, <2>1, <2>2
    <3> QED
      BY <3>1
  <2> QED
    BY <2>1, <2>2
<1>6. T = {hi}
  <2>1. hi \in R /\ \A r \in R : hi >= r
    BY <1>1, LowAndHigh
  <2> HIDE DEF hi
  <2>2. ASSUME NEW q \in R, \A r \in R : q >= r
        PROVE  q = hi
    <3>1. q >= hi /\ hi >= q /\ q \in Nat /\ hi \in Nat
      BY <1>4, <2>1, <2>2
    <3> QED
      BY <3>1
  <2> QED
    BY <2>1, <2>2
<1> HIDE DEF lo, hi
<1> HIDE DEF S, T, zone
<1>7. all = {zone(lo, hi)}
  BY <1>5, <1>6
<1> HIDE DEF all
<1>8. ZoneOf(side, run, cs, foot, c) = ZoneAt(side, p, cs, R, c)
  BY <1>2, <1>3, <1>7
<1> QED
  BY <1>8 DEF R, p

\* The zone that ends at a place, if one does.
EndsAt(side, counts, c, i) ==
  IF i \in Filled(side, counts)
  THEN ZoneAt(side, Place(side, i), counts[side], RunTo(counts, side, Place(side, i)), c)
  ELSE {}

Ends(side, counts, c, n) == UNION {EndsAt(side, counts, c, i) : i \in 1 .. n}

\* One place of a scan, of either side.
ScanStep(side, acc, n, counts, c) ==
  LET x == IF n \in BreakFirst(side, counts) THEN Break(acc) ELSE acc
      y == IF n \in Filled(side, counts)
           THEN LevelStep(side, x, Place(side, n), counts[side], foot, c) ELSE x
  IN IF n \in BreakLast(side, counts) THEN Break(y) ELSE y

\* What a scan has after n places.
Finds(acc, side, counts, c, n) ==
  /\ acc = [run |-> acc.run, found |-> acc.found]
  /\ Lists(acc.run, side, Run(side, counts, n))
  /\ acc.found = Ends(side, counts, c, n)

LEMMA BreakIs ==
  \A r, f : Break([run |-> r, found |-> f]) = [run |-> <<>>, found |-> f]
  BY DEF Break

LEMMA EndsMore ==
  ASSUME NEW n \in Nat, NEW side, NEW counts, NEW c
  PROVE  Ends(side, counts, c, n + 1) = Ends(side, counts, c, n) \union EndsAt(side, counts, c, n + 1)
<1>1. 1 .. n + 1 = (1 .. n) \union {n + 1}
  OBVIOUS
<1>2. {EndsAt(side, counts, c, i) : i \in 1 .. n + 1} =
        {EndsAt(side, counts, c, i) : i \in 1 .. n} \union {EndsAt(side, counts, c, n + 1)}
  BY <1>1
<1> QED
  BY <1>2 DEF Ends

\* A level that is not a terminal ends no zone.
LEMMA NoEnd ==
  ASSUME foot \in Footprints, NEW side \in Side, NEW counts \in Refills, NEW c, NEW n \in 1 .. TopPrice,
         n \notin Filled(side, counts) \/ AgainstAt(side)[n] # 0 \/ HitsAt(side)[n] = 0
  PROVE  EndsAt(side, counts, c, n) = {}
<1>1. /\ AgainstAt(side)[n] = Against(foot[Place(side, n)], side)
      /\ HitsAt(side)[n] = Hits(foot[Place(side, n)], side)
  BY LevelFacts
<1>2. n \notin Filled(side, counts) \/ ~Terminal(foot[Place(side, n)], side)
  BY <1>1 DEF Terminal
<1> QED
  BY <1>2 DEF EndsAt, ZoneAt

LEMMA StepFinds ==
  ASSUME foot \in Footprints, NEW side \in Side, NEW counts \in Refills, NEW c, NEW n \in Nat,
         n + 1 \in 1 .. TopPrice, NEW acc, Finds(acc, side, counts, c, n)
  PROVE  Finds(ScanStep(side, acc, n + 1, counts, c), side, counts, c, n + 1)
<1> DEFINE N == n + 1
           p == Place(side, N)
           own == Filled(side, counts)
           first == BreakFirst(side, counts)
           last == BreakLast(side, counts)
           a == AgainstAt(side)
           h == HitsAt(side)
           K == Remaining(side, counts, N)
           f == acc.found
           xr == IF N \in first THEN <<>> ELSE acc.run
           x == IF N \in first THEN Break(acc) ELSE acc
           y == IF N \in own THEN LevelStep(side, x, p, counts[side], foot, c) ELSE x
           goal == Run(side, counts, N)
           ends == EndsAt(side, counts, c, N)
<1>1. p \in Price /\ TopPrice \in Nat /\ N \in 1 .. TopPrice /\ N - 1 = n
  BY PlaceFacts
<1>2. acc = [run |-> acc.run, found |-> f] /\ Lists(acc.run, side, Run(side, counts, n))
      /\ f = Ends(side, counts, c, n)
  BY DEF Finds
<1>3. x = [run |-> xr, found |-> f]
  <2>1. CASE N \in first
    BY <1>2, <2>1, BreakIs
  <2>2. CASE N \notin first
    BY <1>2, <2>2
  <2> QED
    BY <2>1, <2>2
<1>4. Lists(xr, side, K) /\ K \in SUBSET (1 .. N - 1)
  <2>1. CASE N \in first
    BY <2>1, ListsNothing DEF Remaining
  <2>2. CASE N \notin first
    <3>1. K = Run(side, counts, n) /\ xr = acc.run
      BY <1>1, <2>2 DEF Remaining
    <3>2. Run(side, counts, n) \subseteq 1 .. n
      BY DEF Run, Alive
    <3> QED
      BY <1>1, <1>2, <3>1, <3>2
  <2> QED
    BY <2>1, <2>2
<1>5. \A i \in 1 .. TopPrice :
        /\ a[i] = Against(foot[Place(side, i)], side) /\ h[i] = Hits(foot[Place(side, i)], side)
        /\ a[i] \in Nat /\ h[i] \in Nat
  BY LevelFacts
<1>6. Ends(side, counts, c, N) = f \union ends
  BY <1>2, EndsMore
<1>7. goal = Alive(own, first, last, a, h, N)
      /\ K = IF N \in first THEN {} ELSE Alive(own, first, last, a, h, n)
  BY <1>1 DEF Run, Remaining
<1> HIDE DEF p, own, first, last, a, h, K, f, xr, x, goal, ends
\* It is enough to know the list and the zones before a break that follows.
<1>8. ASSUME NEW r, NEW g, y = [run |-> r, found |-> g], g = f \union ends,
             N \in last => goal = {}, N \notin last => Lists(r, side, goal)
      PROVE  Finds(ScanStep(side, acc, N, counts, c), side, counts, c, N)
  <2> DEFINE z == ScanStep(side, acc, N, counts, c)
  <2>1. z = IF N \in last THEN Break(y) ELSE y
    BY DEF ScanStep, p, own, first, last, x
  <2> HIDE DEF z, y
  <2>2. CASE N \in last
    <3>1. z = [run |-> <<>>, found |-> g]
      BY <1>8, <2>1, <2>2, BreakIs
    <3>2. Lists(<<>>, side, goal)
      BY <1>8, <2>2, ListsNothing
    <3>3. Finds(z, side, counts, c, N)
      BY <1>6, <1>8, <3>1, <3>2 DEF Finds, goal
    <3> QED
      BY <3>3 DEF z
  <2>3. CASE N \notin last
    <3>1. z = [run |-> r, found |-> g] /\ Lists(r, side, goal)
      BY <1>8, <2>1, <2>3
    <3>2. Finds(z, side, counts, c, N)
      BY <1>6, <1>8, <3>1 DEF Finds, goal
    <3> QED
      BY <3>2 DEF z
  <2> QED
    BY <2>2, <2>3
<1>9. CASE N \notin own
  <2>1. goal = IF N \in first \/ N \in last THEN {} ELSE Alive(own, first, last, a, h, n)
    BY <1>7, <1>9, AliveSkip
  <2>2. N \notin last => goal = K
    BY <1>7, <2>1
  <2>3. ends = {}
    BY <1>1, <1>9, NoEnd DEF ends, own
  <2>4. y = [run |-> xr, found |-> f]
    BY <1>3, <1>9
  <2>5. Finds(ScanStep(side, acc, N, counts, c), side, counts, c, N)
    <3> HIDE DEF y, N
    <3> QED
      BY <1>4, <1>8, <2>1, <2>2, <2>3, <2>4
  <2> QED
    BY <2>5
<1>10. CASE N \in own
  <2> DEFINE newer == xr # <<>> /\ a[N] > Against(foot[xr[Len(xr)]], side)
             more == IF newer THEN <<p>> ELSE Append(xr, p)
  <2>1. /\ a[N] >= h[N] => y = [run |-> <<>>, found |-> f]
        /\ ~(a[N] >= h[N]) /\ a[N] # 0 => y = [run |-> more, found |-> f]
        /\ ~(a[N] >= h[N]) /\ a[N] = 0 =>
             y = [run |-> <<>>, found |-> f \union ZoneOf(side, more, counts[side], foot, c)]
    <3>1. a[N] = Against(foot[p], side) /\ h[N] = Hits(foot[p], side)
      BY <1>1, <1>5 DEF p
    <3>2. y = LevelStep(side, [run |-> xr, found |-> f], p, counts[side], foot, c)
      BY <1>3, <1>10
    <3> HIDE DEF y, N
    <3> QED
      BY <3>1, <3>2 DEF LevelStep
  <2>2. a[N] \in Nat /\ h[N] \in Nat
    BY <1>1, <1>5
  <2> HIDE DEF y
  <2>3. CASE a[N] >= h[N]
    <3>1. goal = {}
      BY <1>7, <1>10, <2>2, <2>3, AliveLost
    <3>2. ends = {}
      BY <1>1, <2>2, <2>3, NoEnd DEF ends, a, h
    <3> QED
      BY <1>8, <2>1, <2>3, <3>1, <3>2, ListsNothing
  <2>4. xr # <<>> => \E m : LatestOf(K, m) /\ Against(foot[xr[Len(xr)]], side) = a[m] /\ m \in 1 .. TopPrice
    <3>1. SUFFICES ASSUME xr # <<>>
                   PROVE  \E m : /\ LatestOf(K, m) /\ Against(foot[xr[Len(xr)]], side) = a[m]
                                 /\ m \in 1 .. TopPrice
      OBVIOUS
    <3>2. PICK m : LatestOf(K, m) /\ xr[Len(xr)] = Place(side, m)
      BY <1>4, <3>1 DEF Lists
    <3>3. m \in 1 .. TopPrice
      BY <1>1, <1>4, <3>2 DEF LatestOf
    <3> QED
      BY <1>5, <3>2, <3>3
  <2>5. Lists(Append(xr, p), side, K \union {N})
        /\ Len(Append(xr, p)) \in Nat /\ Len(Append(xr, p)) > 0
        /\ Append(xr, p)[Len(Append(xr, p))] = p
    BY <1>1, <1>4, ListsMore DEF p
  <2>6. CASE ~(a[N] >= h[N]) /\ a[N] # 0
    <3>1. ends = {}
      BY <1>1, <2>6, NoEnd DEF ends, a
    <3>2. 0 < a[N] /\ a[N] < h[N]
      BY <2>2, <2>6
    <3>3. /\ goal \subseteq Alive(own, first, last, a, h, n) \union {N}
          /\ N \in last => goal = {}
          /\ N \notin last => N \in goal
      BY <1>7, <1>10, <3>2, AliveRestart
    <3>4. ASSUME N \notin last
          PROVE  Lists(more, side, goal)
      <4>1. Lists(<<p>>, side, {N})
        <5>1. {} \in SUBSET (1 .. N - 1) /\ Append(<<>>, p) = <<p>> /\ {} \union {N} = {N}
          OBVIOUS
        <5>2. Lists(Append(<<>>, p), side, {} \union {N})
          BY <1>1, <5>1, ListsNothing, ListsMore DEF p
        <5> HIDE DEF N
        <5> QED
          BY <5>1, <5>2
      <4>2. CASE xr = <<>>
        <5>1. K = {} /\ more = Append(xr, p)
          BY <1>4, <4>2 DEF Lists
        <5>2. goal = K \union {N}
          <6>1. CASE N \in first
            <7>1. \A i \in goal : i = N
              <8>1. SUFFICES ASSUME NEW i \in goal, i # N
                             PROVE  FALSE
                OBVIOUS
              <8>2. i \in 1 .. n
                <9>1. i \in Alive(own, first, last, a, h, n)
                  BY <3>3, <8>1
                <9> QED
                  BY <9>1 DEF Alive
              <8>3. N \in i + 1 .. N
                BY <8>2
              <8> QED
                BY <1>7, <6>1, <8>1, <8>3 DEF Alive
            <7> QED
              BY <3>3, <3>4, <5>1, <7>1
          <6>2. CASE N \notin first
            BY <1>7, <3>3, <3>4, <5>1, <6>2
          <6> QED
            BY <6>1, <6>2
        <5> QED
          BY <2>5, <5>1, <5>2
      <4>3. CASE xr # <<>>
        <5>1. PICK m : LatestOf(K, m) /\ Against(foot[xr[Len(xr)]], side) = a[m] /\ m \in 1 .. TopPrice
          BY <2>4, <4>3
        <5>2. N \notin first /\ K = Alive(own, first, last, a, h, n)
          BY <1>7, <5>1 DEF LatestOf
        <5>3. \A i \in 1 .. N : a[i] \in Nat
          BY <1>1, <1>5
        <5>4. goal = IF a[N] > a[m] THEN {N} ELSE K \union {N}
          <6>1. LatestOf(Alive(own, first, last, a, h, n), m)
            BY <5>1, <5>2
          <6>2. Alive(own, first, last, a, h, N) =
                  IF a[N] > a[m] THEN {N} ELSE Alive(own, first, last, a, h, n) \union {N}
            BY <1>10, <3>2, <3>4, <5>2, <5>3, <6>1, AliveGrows
          <6> QED
            BY <1>7, <5>2, <6>2
        <5> QED
          BY <2>5, <4>1, <4>3, <5>1, <5>4
      <4> QED
        BY <4>2, <4>3
    <3> HIDE DEF more
    <3> QED
      BY <1>8, <2>1, <2>6, <3>1, <3>3, <3>4
  <2>7. CASE ~(a[N] >= h[N]) /\ a[N] = 0
    <3>1. goal = {} /\ h[N] > 0
      BY <1>7, <1>10, <2>2, <2>7, AliveLost
    <3>2. ~newer
      <4>1. SUFFICES ASSUME newer
                     PROVE  FALSE
        OBVIOUS
      <4>2. PICK m : Against(foot[xr[Len(xr)]], side) = a[m] /\ m \in 1 .. TopPrice
        BY <2>4, <4>1
      <4>3. a[m] \in Nat
        BY <1>5, <4>2
      <4> QED
        BY <2>7, <4>1, <4>2, <4>3
    <3>3. more = Append(xr, p)
      BY <3>2
    <3> HIDE DEF newer, more
    <3>4. RunTo(counts, side, p) = {Place(side, i) : i \in K \union {N}}
      BY <1>1, <1>10, <2>7, <3>1, RunEnds DEF p, K, own, a, h
    <3>5. /\ more \in Seq(Price) /\ Len(more) > 0 /\ more[Len(more)] = p
          /\ {more[i] : i \in 1 .. Len(more)} = {Place(side, i) : i \in K \union {N}}
      BY <2>5, <3>3 DEF Lists
    <3>6. ZoneOf(side, more, counts[side], foot, c) =
            ZoneAt(side, p, counts[side], RunTo(counts, side, p), c)
      <4>1. ZoneOf(side, more, counts[side], foot, c) =
              ZoneAt(side, more[Len(more)], counts[side], {more[i] : i \in 1 .. Len(more)}, c)
        BY <3>5, ZoneOfRun
      <4> QED
        BY <3>4, <3>5, <4>1
    <3>7. ends = ZoneAt(side, p, counts[side], RunTo(counts, side, p), c)
      BY <1>10 DEF ends, EndsAt, own, p
    <3> QED
      BY <1>8, <2>1, <2>7, <3>1, <3>6, <3>7, ListsNothing
  <2> QED
    BY <2>3, <2>6, <2>7
<1> QED
  BY <1>9, <1>10

LEMMA NothingFound ==
  ASSUME NEW side \in Side, NEW counts, NEW c
  PROVE  Finds(NoScan, side, counts, c, 0)
<1>1. Run(side, counts, 0) = {}
  BY AliveEmpty DEF Run
<1>2. Ends(side, counts, c, 0) = {}
  <2>1. 1 .. 0 = {}
    OBVIOUS
  <2> QED
    BY <2>1 DEF Ends
<1> QED
  BY <1>1, <1>2, ListsNothing DEF Finds, NoScan

\* Both scans are scans of their side.
LEMMA LevelIsStep ==
  ASSUME foot \in Footprints, NEW counts \in Refills, NEW c, NEW n \in 1 .. TopPrice, NEW acc
  PROVE  /\ BidLevel(acc, n, counts, foot, c) = ScanStep("BID", acc, n, counts, c)
         /\ AskLevel(acc, n, counts, foot, c) = ScanStep("ASK", acc, n, counts, c)
<1>1. "BID" \in Side /\ "ASK" \in Side
  BY DEF Side
<1>2. /\ n \in Filled("BID", counts) <=> counts["BID"][Place("BID", n)] > 0
      /\ n \in BreakFirst("BID", counts) <=> counts["ASK"][Place("BID", n)] > 0
      /\ n \notin BreakLast("BID", counts)
  BY <1>1, LevelFacts
<1>3. /\ n \in Filled("ASK", counts) <=> counts["ASK"][Place("ASK", n)] > 0
      /\ n \notin BreakFirst("ASK", counts)
      /\ n \in BreakLast("ASK", counts) <=> counts["BID"][Place("ASK", n)] > 0
  BY <1>1, LevelFacts
<1>4. Place("BID", n) = TopPrice + 1 - n /\ Place("ASK", n) = n
  BY DEF Place
<1>5. BidLevel(acc, n, counts, foot, c) = ScanStep("BID", acc, n, counts, c)
  BY <1>2, <1>4 DEF BidLevel, ScanStep
<1>6. AskLevel(acc, n, counts, foot, c) = ScanStep("ASK", acc, n, counts, c)
  BY <1>3, <1>4 DEF AskLevel, ScanStep
<1> QED
  BY <1>5, <1>6

LEMMA BidZonesFind ==
  ASSUME foot \in Footprints, NEW counts \in Refills, NEW c
  PROVE  BidZones(counts, foot, c) = Ends("BID", counts, c, TopPrice)
<1> DEFINE f == CHOOSE g : IsBidScan(g, counts, foot, c)
           body(n) == IF n = 0 THEN NoScan ELSE BidLevel(f[n - 1], n, counts, foot, c)
           T == {n \in Nat : n <= TopPrice => Finds(f[n], "BID", counts, c, n)}
<1>1. IsBidScan(f, counts, foot, c)
  BY BidScanExists
<1>2. BidZones(counts, foot, c) = f[TopPrice].found
  BY DEF BidZones, IsBidScan, BidLevel, NoScan
<1> HIDE DEF f
<1>3. ASSUME NEW n \in 0 .. TopPrice
      PROVE  f[n] = body(n)
  <2>1. f = [j \in 0 .. TopPrice |-> body(j)]
    BY <1>1 DEF IsBidScan
  <2> HIDE DEF body
  <2> QED
    BY <2>1
<1>4. 0 \in T
  <2>1. Finds(NoScan, "BID", counts, c, 0)
    BY NothingFound DEF Side
  <2> QED
    BY <1>3, <2>1, ZoneAssumption
<1>5. ASSUME NEW n \in Nat, n \in T
      PROVE  n + 1 \in T
  <2> SUFFICES ASSUME n + 1 <= TopPrice
               PROVE  Finds(f[n + 1], "BID", counts, c, n + 1)
    OBVIOUS
  <2>1. /\ n + 1 \in 1 .. TopPrice /\ n + 1 \in 0 .. TopPrice /\ n + 1 # 0 /\ (n + 1) - 1 = n
        /\ Finds(f[n], "BID", counts, c, n)
    BY <1>5, ZoneAssumption
  <2>2. f[n + 1] = BidLevel(f[n], n + 1, counts, foot, c)
    BY <1>3, <2>1
  <2>3. f[n + 1] = ScanStep("BID", f[n], n + 1, counts, c)
    BY <2>1, <2>2, LevelIsStep
  <2>4. Finds(ScanStep("BID", f[n], n + 1, counts, c), "BID", counts, c, n + 1)
    BY <2>1, StepFinds DEF Side
  <2> QED
    BY <2>3, <2>4
<1>6. TopPrice \in T
  <2>1. TopPrice \in Nat
    BY ZoneAssumption
  <2> HIDE DEF T
  <2> QED
    BY <1>4, <1>5, <2>1, StepByStep
<1> QED
  BY <1>2, <1>6, ZoneAssumption DEF Finds

LEMMA AskZonesFind ==
  ASSUME foot \in Footprints, NEW counts \in Refills, NEW c
  PROVE  AskZones(counts, foot, c) = Ends("ASK", counts, c, TopPrice)
<1> DEFINE f == CHOOSE g : IsAskScan(g, counts, foot, c)
           body(n) == IF n = 0 THEN NoScan ELSE AskLevel(f[n - 1], n, counts, foot, c)
           T == {n \in Nat : n <= TopPrice => Finds(f[n], "ASK", counts, c, n)}
<1>1. IsAskScan(f, counts, foot, c)
  BY AskScanExists
<1>2. AskZones(counts, foot, c) = f[TopPrice].found
  BY DEF AskZones, IsAskScan, AskLevel, NoScan
<1> HIDE DEF f
<1>3. ASSUME NEW n \in 0 .. TopPrice
      PROVE  f[n] = body(n)
  <2>1. f = [j \in 0 .. TopPrice |-> body(j)]
    BY <1>1 DEF IsAskScan
  <2> HIDE DEF body
  <2> QED
    BY <2>1
<1>4. 0 \in T
  <2>1. Finds(NoScan, "ASK", counts, c, 0)
    BY NothingFound DEF Side
  <2> QED
    BY <1>3, <2>1, ZoneAssumption
<1>5. ASSUME NEW n \in Nat, n \in T
      PROVE  n + 1 \in T
  <2> SUFFICES ASSUME n + 1 <= TopPrice
               PROVE  Finds(f[n + 1], "ASK", counts, c, n + 1)
    OBVIOUS
  <2>1. /\ n + 1 \in 1 .. TopPrice /\ n + 1 \in 0 .. TopPrice /\ n + 1 # 0 /\ (n + 1) - 1 = n
        /\ Finds(f[n], "ASK", counts, c, n)
    BY <1>5, ZoneAssumption
  <2>2. f[n + 1] = AskLevel(f[n], n + 1, counts, foot, c)
    BY <1>3, <2>1
  <2>3. f[n + 1] = ScanStep("ASK", f[n], n + 1, counts, c)
    BY <2>1, <2>2, LevelIsStep
  <2>4. Finds(ScanStep("ASK", f[n], n + 1, counts, c), "ASK", counts, c, n + 1)
    BY <2>1, StepFinds DEF Side
  <2> QED
    BY <2>3, <2>4
<1>6. TopPrice \in T
  <2>1. TopPrice \in Nat
    BY ZoneAssumption
  <2> HIDE DEF T
  <2> QED
    BY <1>4, <1>5, <2>1, StepByStep
<1> QED
  BY <1>2, <1>6, ZoneAssumption DEF Finds

\* For any refills that a candle may have, the scans find the runs that end at
\* a terminal, each as a zone with all the refills of its run, and no others.
LEMMA CandidatesAreRuns ==
  ASSUME foot \in Footprints, NEW counts \in Refills, NEW c
  PROVE  Candidates(counts, foot, c) =
           UNION {RunZones(counts, c, s) : s \in {s \in Side \X Price : EndsRun(counts, s)}}
<1> DEFINE zones(s) == RunZones(counts, c, s)
           wanted(s) == EndsRun(counts, s)
<1>1. ASSUME NEW side \in Side, NEW i \in 1 .. TopPrice
      PROVE  EndsAt(side, counts, c, i) =
               IF wanted(<<side, Place(side, i)>>) THEN zones(<<side, Place(side, i)>>) ELSE {}
  <2> DEFINE s == <<side, Place(side, i)>>
  <2>1. s[1] = side /\ s[2] = Place(side, i)
    OBVIOUS
  <2>2. i \in Filled(side, counts) <=> counts[side][Place(side, i)] > 0
    BY LevelFacts
  <2> HIDE DEF s
  <2>3. EndsAt(side, counts, c, i) = IF wanted(s) THEN zones(s) ELSE {}
    BY <2>1, <2>2 DEF EndsAt, ZoneAt, RunZones, EndsRun
  <2> QED
    BY <2>3 DEF s
<1> HIDE DEF wanted, zones
<1>2. Candidates(counts, foot, c) =
        Ends("BID", counts, c, TopPrice) \union Ends("ASK", counts, c, TopPrice)
  BY BidZonesFind, AskZonesFind DEF Candidates
<1>3. ASSUME NEW z, NEW s \in Side \X Price, wanted(s), z \in zones(s)
      PROVE  z \in Candidates(counts, foot, c)
  <2>1. PICK side \in Side, p \in Price : s = <<side, p>>
    OBVIOUS
  <2>2. Place(side, p) \in 1 .. TopPrice /\ Place(side, Place(side, p)) = p
    BY PlaceFacts
  <2>3. z \in EndsAt(side, counts, c, Place(side, p))
    BY <1>1, <1>3, <2>1, <2>2
  <2>4. z \in Ends(side, counts, c, TopPrice)
    BY <2>2, <2>3 DEF Ends
  <2> QED
    BY <1>2, <2>4 DEF Side
<1>4. ASSUME NEW z, NEW side \in Side, z \in Ends(side, counts, c, TopPrice)
      PROVE  \E s \in Side \X Price : wanted(s) /\ z \in zones(s)
  <2>1. PICK i \in 1 .. TopPrice : z \in EndsAt(side, counts, c, i)
    BY <1>4 DEF Ends
  <2>2. Place(side, i) \in Price
    BY PlaceFacts
  <2>3. wanted(<<side, Place(side, i)>>) /\ z \in zones(<<side, Place(side, i)>>)
    BY <1>1, <2>1
  <2> QED
    BY <2>2, <2>3
<1>5. Candidates(counts, foot, c) = UNION {zones(s) : s \in {s \in Side \X Price : wanted(s)}}
  <2>1. \A z \in Candidates(counts, foot, c) : \E s \in Side \X Price : wanted(s) /\ z \in zones(s)
    BY <1>2, <1>4 DEF Side
  <2> QED
    BY <1>3, <2>1
<1> QED
  BY <1>5 DEF wanted, zones

\* ZonesAreRuns: the two scans, with their resets and restarts, find exactly
\* the runs that end at a terminal, for any number of prices and any footprint.
THEOREM ScansFindRuns == ZoneSpec => []ZonesAreRuns
<1> DEFINE Footed == foot \in Footprints
<1>1. ZoneInit => Footed
  BY DEF ZoneInit
<1>2. Footed /\ [ZoneNext]_zoneVars => Footed'
  BY DEF ZoneNext, OtherEvent, Refill, NextCandle, zoneVars
<1>3. Footed => ZonesAreRuns
  <2> SUFFICES ASSUME foot \in Footprints, NEW counts \in [Side -> [Price -> 0 .. 2]]
               PROVE  Candidates(counts, foot, candle) =
                 UNION {RunZones(counts, candle, s) :
                          s \in {s \in Side \X Price : EndsRun(counts, s)}}
    BY DEF ZonesAreRuns
  <2>1. counts \in Refills
    <3>1. 0 .. 2 \subseteq Nat
      OBVIOUS
    <3>2. \A s \in Side : counts[s] \in [Price -> 0 .. 2]
      OBVIOUS
    <3>3. \A s \in Side : counts[s] \in [Price -> Nat]
      <4> HIDE DEF Price
      <4> QED
        BY <3>1, <3>2
    <3> HIDE DEF Price, Side
    <3>4. counts = [s \in Side |-> counts[s]]
      OBVIOUS
    <3> QED
      BY <3>3, <3>4 DEF Refills
  <2> QED
    BY <2>1, CandidatesAreRuns
<1> HIDE DEF Footed
<1> QED
  BY <1>1, <1>2, <1>3, PTL DEF ZoneSpec
=============================================================================
