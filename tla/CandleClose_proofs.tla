------------------------- MODULE CandleClose_proofs -------------------------
(***************************************************************************)
(* What is proved of the closing of candles for every number of candles,   *)
(* trades and removals: no closed candle is lost between the stream, the   *)
(* queue and a healing request; candles are evaluated in order, once, with *)
(* all their trades; the event of a candle evaluates it.  And, for the     *)
(* candles themselves: the time of a bin is the time the price was in it,  *)
(* and the entry rules follow the candles that absorbed.                   *)
(***************************************************************************)
EXTENDS CandleClose, FiniteSetTheorems, SequenceTheorems, TLAPS

-----------------------------------------------------------------------------
(* Induction over natural numbers.                                         *)

(* A set of natural numbers that is not empty has a least element: the     *)
(* intervals 1 .. n are well-founded by strict inclusion.                  *)
LEMMA LeastElement ==
  ASSUME NEW T \in SUBSET Nat, T # {}
  PROVE  \E m \in T : \A k \in T : m <= k
<1> DEFINE Intervals == {1 .. n : n \in T}
<1>1. Intervals \subseteq FiniteSubsetsOf(Nat) /\ Intervals # {}
  <2>1. ASSUME NEW n \in T PROVE 1 .. n \in FiniteSubsetsOf(Nat)
    <3>1. 1 .. n \subseteq Nat /\ IsFiniteSet(1 .. n)
      BY FS_Interval
    <3>2. QED
      BY <3>1 DEF FiniteSubsetsOf
  <2>2. QED
    BY <2>1
<1>2. PICK x \in Intervals : \A y \in Intervals : <<y, x>> \notin StrictSubsetOrdering(Nat)
  BY <1>1, WFMin, FS_StrictSubsetOrderingWellFounded
<1>3. PICK m \in T : x = 1 .. m
  OBVIOUS
<1>4. ASSUME NEW k \in T, k < m PROVE FALSE
  <2>1. 1 .. k \subseteq 1 .. m /\ 1 .. k # 1 .. m /\ {1 .. k, 1 .. m} \subseteq SUBSET Nat
    <3>1. m \in 1 .. m /\ m \notin 1 .. k
      BY <1>4
    <3>2. QED
      BY <1>4, <3>1
  <2>2. <<1 .. k, 1 .. m>> \in StrictSubsetOrdering(Nat)
    BY <2>1 DEF StrictSubsetOrdering
  <2>3. QED
    BY <1>2, <1>3, <2>2
<1>5. QED
  BY <1>4

LEMMA NatSetInduction ==
  ASSUME NEW T, 0 \in T, \A n \in Nat : n \in T => n + 1 \in T
  PROVE  Nat \subseteq T
<1> SUFFICES ASSUME Nat \ T # {} PROVE FALSE
  OBVIOUS
<1>1. PICK m \in Nat \ T : \A k \in Nat \ T : m <= k
  BY LeastElement
<1>2. m # 0 /\ m - 1 \in Nat /\ m - 1 \in T
  BY <1>1
<1>3. QED
  BY <1>2

-----------------------------------------------------------------------------
(* No closed candle is lost.                                               *)

(* What was known when the candles were asked for stays known, and only    *)
(* candles that are closed were asked for.                                 *)
QueueInv ==
  /\ now \in 1 .. Candles + 1 /\ known \subseteq Candle
  /\ queue \in [Candle -> Nat]
  /\ update.upto \in 0 .. Candles
  /\ update.at = "ask" => update.existing \subseteq known
  /\ KnownIsQueuedOrSeen

LEMMA ConstantsNat == Candles \in Nat /\ Window \in Nat /\ Window > 0
  BY CloseAssumption

LEMMA EnqueueOK ==
  ASSUME queue \in [Candle -> Nat], NEW cs \in SUBSET Candle, Enqueue(cs)
  PROVE  /\ queue' \in [Candle -> Nat]
         /\ \A c \in Candle : queue[c] > 0 => queue'[c] > 0
         /\ on => \A c \in cs : queue'[c] > 0
  BY DEF Enqueue

LEMMA QueueInit == Init => QueueInv
  BY ConstantsNat DEF Init, QueueInv, NoTrades, Idle, KnownIsQueuedOrSeen

LEMMA QueueStep == QueueInv /\ [Next]_vars => QueueInv'
<1> SUFFICES ASSUME QueueInv, [Next]_vars PROVE QueueInv'
  OBVIOUS
<1> USE ConstantsNat
<1>1. CASE TimePasses
  BY <1>1 DEF TimePasses, QueueInv, KnownIsQueuedOrSeen
<1>2. ASSUME NEW c \in Candle, TradeArrives(c) PROVE QueueInv'
  BY <1>2 DEF TradeArrives, QueueInv, KnownIsQueuedOrSeen
<1>3. ASSUME NEW c \in Candle, KlineArrives(c) PROVE QueueInv'
  <2>1. /\ queue' \in [Candle -> Nat]
        /\ \A d \in Candle : queue[d] > 0 => queue'[d] > 0
    BY <1>3, EnqueueOK DEF KlineArrives, QueueInv
  <2>2. QED
    BY <1>3, <2>1 DEF KlineArrives, QueueInv, KnownIsQueuedOrSeen
<1>4. CASE Supervise
  BY <1>4 DEF Supervise, QueueInv, KnownIsQueuedOrSeen
<1>5. CASE WorkerTakes
  <2>1. PICK c \in Candle :
          /\ queue[c] > 0 /\ queue' = [queue EXCEPT ![c] = @ - 1]
          /\ known' = known \union {c} /\ klines' = klines \union {c}
    BY <1>5 DEF WorkerTakes
  <2>2. UNCHANGED <<now, update, excused>>
    BY <1>5 DEF WorkerTakes
  <2>3. queue' \in [Candle -> Nat] /\ \A d \in Candle \ {c} : queue'[d] = queue[d]
    BY <2>1 DEF QueueInv
  <2>4. QED
    BY <2>1, <2>2, <2>3 DEF QueueInv, KnownIsQueuedOrSeen
<1>6. CASE BootAnswered
  <2>1. 1 .. update.upto \subseteq Candle
    BY <1>6 DEF QueueInv, Candle
  <2>2. /\ known' = known \union 1 .. update.upto
        /\ excused' = excused \union (1 .. update.upto \ known)
        /\ update'.upto = 0 /\ update'.at = "check"
        /\ UNCHANGED <<now, queue, klines>>
    BY <1>6 DEF BootAnswered, Idle
  <2>3. KnownIsQueuedOrSeen'
    <3>1. known' \ excused' \subseteq known \ excused
      BY <2>2
    <3>2. QED
      BY <2>2, <3>1 DEF QueueInv, KnownIsQueuedOrSeen
  <2>4. known' \subseteq Candle
    BY <2>1, <2>2 DEF QueueInv
  <2>5. now' \in 1 .. Candles + 1 /\ queue' \in [Candle -> Nat]
    BY <2>2 DEF QueueInv
  <2>6. update'.upto \in 0 .. Candles /\ update'.at # "ask"
    BY <2>2
  <2>7. QED
    BY <2>3, <2>4, <2>5, <2>6 DEF QueueInv
<1>7. CASE UpdateSession \/ BootAsks \/ BootFails \/ EndRound \/ HealStarts \/ HealFails
  <2>1. UNCHANGED <<now, queue, known, klines, excused>>
    BY <1>7 DEF UpdateSession, BootAsks, BootFails, EndRound, HealStarts, HealFails
  <2>2. now - 1 \in 0 .. Candles
    BY DEF QueueInv
  <2>3. update'.upto \in 0 .. Candles /\ update'.at # "ask"
    <3>1. CASE UpdateSession \/ BootFails
      BY <3>1 DEF UpdateSession, BootFails, Idle
    <3>2. CASE BootAsks
      BY <2>2, <3>2 DEF BootAsks, Idle
    <3>3. CASE HealStarts
      BY <2>2, <3>3 DEF HealStarts, Idle
    <3>4. CASE EndRound
      BY <3>4 DEF EndRound, Idle
    <3>5. CASE HealFails
      BY <3>5 DEF HealFails, Idle
    <3> QED
      BY <1>7, <3>1, <3>2, <3>3, <3>4, <3>5
  <2>4. QED
    BY <2>1, <2>3 DEF QueueInv, KnownIsQueuedOrSeen
<1>8. CASE HealAsks
  BY <1>8 DEF HealAsks, QueueInv, KnownIsQueuedOrSeen, Idle
<1>9. CASE RemoveSession
  BY <1>9 DEF RemoveSession, QueueInv, KnownIsQueuedOrSeen, NoTrades
<1>10. CASE AddSession
  BY <1>10 DEF AddSession, QueueInv, KnownIsQueuedOrSeen
<1>11. CASE HealAnswered
  <2>1. PICK answer \in Answers :
          /\ known' = known \union answer
          /\ Enqueue(answer \ update.existing)
          /\ excused' = IF on THEN excused ELSE excused \union (answer \ known)
    BY <1>11 DEF HealAnswered
  <2>2. answer \subseteq Candle
    BY <1>11 DEF Answers, QueueInv, Candle
  <2>3. /\ queue' \in [Candle -> Nat]
        /\ \A d \in Candle : queue[d] > 0 => queue'[d] > 0
        /\ on => \A d \in answer \ update.existing : queue'[d] > 0
    BY <2>1, <2>2, EnqueueOK DEF QueueInv
  <2>4. /\ update' = Idle /\ UNCHANGED <<now, on, klines>>
        /\ update.existing \subseteq known
    BY <1>11 DEF HealAnswered, QueueInv
  <2>5. QED
    BY <2>1, <2>2, <2>3, <2>4 DEF QueueInv, KnownIsQueuedOrSeen, Idle
<1>12. CASE UNCHANGED vars
  BY <1>12 DEF vars, QueueInv, KnownIsQueuedOrSeen
<1>13. QED
  BY <1>1, <1>2, <1>3, <1>4, <1>5, <1>6, <1>7, <1>8, <1>9, <1>10, <1>11, <1>12
  DEF Next, WorkerLoop, UpdateLoop

(* A closed candle the session knows of is queued or was handed to the     *)
(* runtime, whatever events the stream misses, and whatever happens while  *)
(* a healing request is under way.                                         *)
THEOREM NoCandleLost == Spec => []KnownIsQueuedOrSeen
<1>1. Init => QueueInv
  BY QueueInit
<1>2. QueueInv /\ [Next]_vars => QueueInv'
  BY QueueStep
<1>3. QueueInv => KnownIsQueuedOrSeen
  BY DEF QueueInv
<1>4. QED
  BY <1>1, <1>2, <1>3, PTL DEF Spec

-----------------------------------------------------------------------------
(* The order in which a set of candles is evaluated.                       *)

LEMMA GreatestElement ==
  ASSUME NEW S \in SUBSET Nat, S # {}, NEW n \in Nat, \A c \in S : c <= n
  PROVE  \E m \in S : \A c \in S : c <= m
<1> DEFINE T == {d \in Nat : n - d \in S}
<1>1. T \in SUBSET Nat /\ T # {}
  <2>1. PICK c \in S : TRUE
    OBVIOUS
  <2>2. n - c \in Nat /\ n - (n - c) = c
    OBVIOUS
  <2>3. QED
    BY <2>2
<1>2. PICK d \in T : \A e \in T : d <= e
  <2> HIDE DEF T
  <2>1. QED
    BY <1>1, LeastElement
<1>3. ASSUME NEW c \in S PROVE c <= n - d
  <2>1. n - c \in Nat /\ n - (n - c) = c
    OBVIOUS
  <2>2. QED
    BY <1>2, <2>1
<1>4. QED
  BY <1>3

LEMMA CandleSets ==
  ASSUME NEW S \in SUBSET Candle
  PROVE  /\ S \in SUBSET (0 .. Candles) /\ IsFiniteSet(S)
         /\ \A c \in S : c \in Nat /\ c <= Candles
<1>1. Candle \subseteq 0 .. Candles /\ \A c \in Candle : c \in Nat /\ c <= Candles
  BY ConstantsNat DEF Candle
<1>2. IsFiniteSet(Candle)
  BY ConstantsNat, FS_Interval DEF Candle
<1>3. IsFiniteSet(S)
  BY <1>2, FS_Subset
<1>4. QED
  BY <1>1, <1>3

(* In a finite set of numbers every rank is taken.                         *)
LEMMA RankTaken ==
  ASSUME NEW b \in Nat, NEW S \in SUBSET (0 .. b), NEW i \in 1 .. Cardinality(S)
  PROVE  \E c \in S : Cardinality({d \in S : d < c}) = i - 1
<1> DEFINE Ranked(U) == \A j \in 1 .. Cardinality(U) :
                          \E c \in U : Cardinality({d \in U : d < c}) = j - 1
           T == {n \in Nat : \A U \in SUBSET (0 .. b) : Cardinality(U) = n => Ranked(U)}
<1>0. ASSUME NEW U \in SUBSET (0 .. b)
      PROVE  IsFiniteSet(U) /\ Cardinality(U) \in Nat
  <2>1. IsFiniteSet(0 .. b)
    BY FS_Interval
  <2>2. IsFiniteSet(U)
    BY <2>1, FS_Subset
  <2>3. QED
    BY <2>2, FS_CardinalityType
<1>1. 0 \in T
  OBVIOUS
<1>2. ASSUME NEW n \in Nat, n \in T, NEW U \in SUBSET (0 .. b), Cardinality(U) = n + 1,
             NEW j \in 1 .. n + 1
      PROVE  \E c \in U : Cardinality({d \in U : d < c}) = j - 1
  <2>1. U # {}
    BY <1>2, FS_EmptySet
  <2>0. IsFiniteSet(U)
    BY <1>0
  <2>2. PICK m \in U : \A c \in U : c <= m
    <3>1. U \in SUBSET Nat /\ \A c \in U : c <= b
      OBVIOUS
    <3>2. QED
      BY <2>1, <3>1, GreatestElement
  <2> DEFINE V == U \ {m}
  <2>3. IsFiniteSet(V) /\ Cardinality(V) = n /\ V \in SUBSET (0 .. b)
    BY <1>2, <2>0, FS_RemoveElement
  <2>4. CASE j = n + 1
    <3>1. {d \in U : d < m} = V
      <4>1. \A c \in U : c \in Nat /\ c <= m
        BY <2>2
      <4>2. \A c \in U : c < m <=> c # m
        BY <4>1
      <4>3. QED
        BY <4>2
    <3>2. Cardinality({d \in U : d < m}) = j - 1
      BY <2>3, <2>4, <3>1
    <3>3. QED
      BY <3>2
  <2>5. CASE j <= n
    <3>0. j \in 1 .. Cardinality(V)
      BY <2>3, <2>5
    <3>1. PICK c \in V : Cardinality({d \in V : d < c}) = j - 1
      BY <1>2, <2>3, <3>0
    <3>2. {d \in V : d < c} = {d \in U : d < c}
      BY <2>2
    <3>3. QED
      BY <3>1, <3>2
  <2>6. QED
    BY <2>4, <2>5
<1>3. ASSUME NEW n \in Nat, n \in T PROVE n + 1 \in T
  <2>1. ASSUME NEW U \in SUBSET (0 .. b), Cardinality(U) = n + 1 PROVE Ranked(U)
    BY <1>2, <1>3, <2>1
  <2> HIDE DEF Ranked
  <2>2. QED
    BY <2>1
<1>4. Nat \subseteq T
  <2> HIDE DEF T
  <2>1. QED
    BY <1>1, <1>3, NatSetInduction
<1>5. Ranked(S)
  <2>1. Cardinality(S) \in Nat
    BY <1>0
  <2> HIDE DEF Ranked
  <2>2. Cardinality(S) \in T
    BY <1>4, <2>1
  <2>3. QED
    BY <2>2
<1>6. QED
  BY <1>5

LEMMA InOrderSorted ==
  ASSUME NEW S \in SUBSET Candle
  PROVE  /\ InOrder(S) \in Seq(S)
         /\ \A i, j \in 1 .. Len(InOrder(S)) : i < j => InOrder(S)[i] < InOrder(S)[j]
<1> DEFINE rank(c) == Cardinality({d \in S : d < c})
           n == Cardinality(S)
           s == InOrder(S)
<1>1. S \in SUBSET (0 .. Candles) /\ IsFiniteSet(S) /\ n \in Nat
  BY CandleSets, FS_CardinalityType
<1>2. \A i \in 1 .. n : \E c \in S : rank(c) = i - 1
  BY <1>1, ConstantsNat, RankTaken
<1>3. s = [i \in 1 .. n |-> CHOOSE c \in S : rank(c) = i - 1]
  BY DEF InOrder
<1>4. \A i \in 1 .. n : s[i] \in S /\ rank(s[i]) = i - 1
  <2> HIDE DEF rank, s
  <2>1. QED
    BY <1>2, <1>3
<1>5. s \in Seq(S) /\ Len(s) = n
  <2>1. \A i \in 1 .. n : s[i] \in S
    BY <1>4
  <2>2. s = [i \in 1 .. n |-> s[i]]
    BY <1>3
  <2> HIDE DEF s, n
  <2>3. QED
    BY <1>1, <2>1, <2>2, IsASeq
<1>6. ASSUME NEW i \in 1 .. n, NEW j \in 1 .. n, i < j, ~(s[i] < s[j])
      PROVE  FALSE
  <2> HIDE DEF s
  <2>0. \A c \in S : c \in Nat
    BY CandleSets
  <2>1. s[i] \in Nat /\ s[j] \in Nat /\ s[j] <= s[i]
    <3>1. s[i] \in S /\ s[j] \in S
      BY <1>4
    <3>2. s[i] \in Nat /\ s[j] \in Nat
      BY <2>0, <3>1
    <3>3. QED
      BY <1>6, <3>2
  <2>2. {d \in S : d < s[j]} \subseteq {d \in S : d < s[i]}
    BY <2>0, <2>1
  <2>3. IsFiniteSet({d \in S : d < s[i]})
    <3>1. {d \in S : d < s[i]} \in SUBSET S
      OBVIOUS
    <3>2. QED
      BY <1>1, <3>1, FS_Subset
  <2>4. rank(s[j]) <= rank(s[i])
    BY <2>2, <2>3, FS_Subset
  <2>5. QED
    BY <1>4, <1>6, <2>4
<1>7. QED
  BY <1>5, <1>6

-----------------------------------------------------------------------------
(* The builder.                                                            *)

Record == [candle : Candle, trades : Nat]
Entry == [candle : Candle, trades : Nat, due : Nat]

BuilderOK(b) ==
  b \in [exists : BOOLEAN, active : 0 .. Candles, trades : Nat, closed : Seq(Record),
         done : 0 .. Candles]

LEMMA BuilderFields ==
  ASSUME NEW b, BuilderOK(b)
  PROVE  /\ b.active \in Nat /\ b.trades \in Nat /\ b.done \in Nat /\ b.done \in 0 .. Candles
         /\ b.closed \in Seq(Record) /\ Len(b.closed) \in Nat
         /\ \A i \in DOMAIN b.closed : b.closed[i].candle \in Candle /\ b.closed[i].trades \in Nat
<1>1. /\ b.active \in 0 .. Candles /\ b.trades \in Nat /\ b.done \in 0 .. Candles
      /\ b.closed \in Seq(Record)
  BY DEF BuilderOK
<1>2. ASSUME NEW i \in DOMAIN b.closed PROVE b.closed[i] \in Record
  BY <1>1
<1>3. QED
  BY <1>1, <1>2, ConstantsNat DEF Record

(* What was done already stays done, and the builder stays.                *)
Stays(b, d) == BuilderOK(d) /\ d.done = b.done /\ d.exists = b.exists

LEMMA RecentOK ==
  ASSUME NEW seq \in Seq(Record)
  PROVE  Recent(seq) \in Seq(Record)
<1>1. CASE Len(seq) <= Window
  BY <1>1 DEF Recent
<1>2. CASE ~(Len(seq) <= Window)
  <2>1. Len(seq) - Window + 1 \in 1 .. Len(seq) + 1 /\ Len(seq) \in Nat
    BY <1>2, ConstantsNat
  <2>2. SubSeq(seq, Len(seq) - Window + 1, Len(seq)) \in Seq(Record)
    BY <2>1, SubSeqProperties
  <2>3. QED
    BY <1>2, <2>2 DEF Recent
<1>3. QED
  BY <1>1, <1>2

LEMMA FreezeOK ==
  ASSUME NEW b, BuilderOK(b)
  PROVE  Stays(b, Freeze(b)) /\ Freeze(b).active = 0
<1>1. CASE b.active = 0
  BY <1>1 DEF Freeze, Stays
<1>2. CASE b.active # 0
  <2> DEFINE r == [candle |-> b.active, trades |-> b.trades]
             more == Recent(Append(b.closed, r))
  <2>1. b.active \in Candle /\ b.trades \in Nat /\ b.closed \in Seq(Record)
    BY <1>2, ConstantsNat DEF BuilderOK, Candle
  <2>2. r \in Record
    BY <2>1 DEF Record
  <2>3. Append(b.closed, r) \in Seq(Record)
    BY <2>1, <2>2
  <2>4. more \in Seq(Record)
    BY <2>3, RecentOK
  <2>5. Freeze(b) = [b EXCEPT !.closed = more, !.active = 0, !.trades = 0]
    BY <1>2 DEF Freeze
  <2> HIDE DEF more
  <2>6. 0 \in 0 .. Candles /\ 0 \in Nat
    BY ConstantsNat
  <2>7. BuilderOK(Freeze(b))
    BY <2>4, <2>5, <2>6 DEF BuilderOK
  <2>8. /\ Freeze(b).active = 0 /\ Freeze(b).done = b.done /\ Freeze(b).exists = b.exists
    BY <2>5 DEF BuilderOK
  <2>9. QED
    BY <2>7, <2>8 DEF Stays
<1>3. QED
  BY <1>1, <1>2

LEMMA OnTradeOK ==
  ASSUME NEW b, BuilderOK(b), NEW c \in Candle
  PROVE  Stays(b, OnTrade(b, c))
<1>1. c \in 0 .. Candles
  BY ConstantsNat DEF Candle
<1>2. Stays(b, Freeze(b))
  BY FreezeOK
<1>3. CASE c < b.active
  BY <1>3 DEF OnTrade, Stays
<1>4. CASE ~(c < b.active) /\ c = b.active
  <2>1. b.trades + 1 \in Nat
    BY BuilderFields
  <2>2. OnTrade(b, c) = [b EXCEPT !.trades = b.trades + 1]
    BY <1>4 DEF OnTrade
  <2>3. BuilderOK(OnTrade(b, c))
    BY <2>1, <2>2 DEF BuilderOK
  <2>4. OnTrade(b, c).done = b.done /\ OnTrade(b, c).exists = b.exists
    BY <2>2 DEF BuilderOK
  <2>5. QED
    BY <2>3, <2>4 DEF Stays
<1>5. CASE ~(c < b.active) /\ c # b.active
  <2>1. OnTrade(b, c) = [Freeze(b) EXCEPT !.active = c, !.trades = 1]
    BY <1>5 DEF OnTrade
  <2>2. BuilderOK(OnTrade(b, c))
    <3> DEFINE f == Freeze(b)
    <3>1. BuilderOK(f)
      BY <1>2 DEF Stays
    <3> HIDE DEF f
    <3>2. BuilderOK([f EXCEPT !.active = c, !.trades = 1])
      BY <1>1, <3>1 DEF BuilderOK
    <3>3. QED
      BY <2>1, <3>2 DEF f
  <2>3. OnTrade(b, c).done = b.done /\ OnTrade(b, c).exists = b.exists
    BY <1>2, <2>1 DEF Stays, BuilderOK
  <2>4. QED
    BY <2>2, <2>3 DEF Stays
<1>6. QED
  BY <1>3, <1>4, <1>5

LEMMA AppendEmptyOK ==
  ASSUME NEW b, BuilderOK(b), NEW c \in Candle, b.active # c
  PROVE  Stays(b, AppendEmpty(b, c)) /\ AppendEmpty(b, c).active # c
<1>1. c \in 0 .. Candles /\ c # 0
  BY ConstantsNat DEF Candle
<1>2. Stays(b, Freeze(b))
  BY FreezeOK
<1> DEFINE d == [Freeze(b) EXCEPT !.active = c]
<1>3. BuilderOK(d) /\ Stays(b, d)
  BY <1>1, <1>2 DEF Stays, BuilderOK
<1>4. Stays(d, Freeze(d)) /\ Freeze(d).active = 0
  BY <1>3, FreezeOK
<1>5. AppendEmpty(b, c) \in {b, Freeze(d)}
  BY DEF AppendEmpty
<1> HIDE DEF d
<1>6. QED
  BY <1>1, <1>3, <1>4, <1>5 DEF Stays

LEMMA CloseOK ==
  ASSUME NEW b, BuilderOK(b), NEW c \in Candle
  PROVE  Stays(b, CloseForKline(b, c)) /\ CloseForKline(b, c).active # c
<1>1. c # 0
  BY DEF Candle
<1>2. QED
  BY <1>1, FreezeOK, AppendEmptyOK DEF CloseForKline

LEMMA ReadyFacts ==
  ASSUME NEW b, BuilderOK(b), NEW seen
  PROVE  /\ Unevaluated(b) \in SUBSET Candle /\ Ready(b, seen) \in SUBSET Unevaluated(b)
         /\ \A c \in Unevaluated(b) : c > b.done
  BY BuilderFields DEF Unevaluated, Ready

LEMMA HighestFacts ==
  ASSUME NEW S \in SUBSET Candle, NEW floor \in 0 .. Candles
  PROVE  /\ HighestOf(S, floor) \in S \union {floor} /\ HighestOf(S, floor) \in 0 .. Candles
         /\ \A c \in S \union {floor} : c <= HighestOf(S, floor)
<1> DEFINE U == S \union {floor}
<1>1. U \in SUBSET (0 .. Candles) /\ U # {}
  BY CandleSets
<1>2. \E m \in U : \A c \in U : c <= m
  <2> HIDE DEF U
  <2>1. U \in SUBSET Nat /\ \A c \in U : c <= Candles
    BY <1>1, ConstantsNat
  <2>2. QED
    BY <1>1, <2>1, ConstantsNat, GreatestElement
<1>3. HighestOf(S, floor) = CHOOSE m \in U : \A c \in U : c <= m
  BY DEF HighestOf
<1> HIDE DEF U
<1>4. HighestOf(S, floor) \in U /\ \A c \in U : c <= HighestOf(S, floor)
  BY <1>2, <1>3
<1>5. QED
  BY <1>1, <1>4 DEF U

LEMMA EvaluateOK ==
  ASSUME NEW b, BuilderOK(b), NEW seen
  PROVE  /\ BuilderOK(Evaluate(b, seen))
         /\ Evaluate(b, seen).done = HighestOf(Ready(b, seen), b.done)
         /\ Evaluate(b, seen).closed = b.closed
         /\ Evaluate(b, seen).active = b.active
         /\ Evaluate(b, seen).trades = b.trades
         /\ Evaluate(b, seen).exists = b.exists
         /\ \A c \in Ready(b, seen) : c <= Evaluate(b, seen).done
         /\ b.done <= Evaluate(b, seen).done
<1>1. Ready(b, seen) \in SUBSET Candle /\ b.done \in 0 .. Candles
  BY ReadyFacts, BuilderFields
<1> DEFINE high == HighestOf(Ready(b, seen), b.done)
<1>2. high \in 0 .. Candles /\ \A c \in Ready(b, seen) \union {b.done} : c <= high
  BY <1>1, HighestFacts
<1>3. Evaluate(b, seen) = [b EXCEPT !.done = high]
  BY DEF Evaluate
<1> HIDE DEF high
<1>4. BuilderOK(Evaluate(b, seen)) /\ Evaluate(b, seen).done = high
      /\ Evaluate(b, seen).closed = b.closed /\ Evaluate(b, seen).active = b.active
      /\ Evaluate(b, seen).exists = b.exists /\ Evaluate(b, seen).trades = b.trades
  BY <1>2, <1>3 DEF BuilderOK
<1>5. QED
  BY <1>2, <1>4 DEF high

LEMMA RecordOfOK ==
  ASSUME NEW b, BuilderOK(b), NEW c \in Unevaluated(b)
  PROVE  /\ RecordOf(b, c) \in Record /\ RecordOf(b, c).candle = c
         /\ \E i \in DOMAIN b.closed : RecordOf(b, c) = b.closed[i]
<1> DEFINE I == {i \in DOMAIN b.closed : b.closed[i].candle = c}
           first == CHOOSE i \in DOMAIN b.closed :
                      /\ b.closed[i].candle = c
                      /\ \A j \in DOMAIN b.closed : b.closed[j].candle = c => i <= j
<1>1. b.closed \in Seq(Record)
  BY BuilderFields
<1>2. I \in SUBSET Nat /\ I # {}
  BY <1>1 DEF Unevaluated
<1>3. PICK i \in I : \A j \in I : i <= j
  <2> HIDE DEF I
  <2>1. QED
    BY <1>2, LeastElement
<1>4. first \in DOMAIN b.closed /\ b.closed[first].candle = c
  BY <1>3
<1>5. RecordOf(b, c) = b.closed[first]
  BY DEF RecordOf
<1> HIDE DEF first
<1>6. QED
  BY <1>1, <1>4, <1>5
-----------------------------------------------------------------------------
(* Candles are evaluated in order.                                         *)

(* What is evaluated is not after what the builder calls done.  Without a  *)
(* builder nothing is evaluated: both go when the session is removed.      *)
OrderInv ==
  /\ BuilderOK(builder) /\ due \in [Candle -> Nat] /\ evaluated \in Seq(Entry)
  /\ \A i \in DOMAIN evaluated : evaluated[i].candle <= builder.done
  /\ ~builder.exists => builder = NoBuilder /\ evaluated = <<>>
  /\ EvaluatedInOrder

LEMMA NewBuilders ==
  /\ BuilderOK(NoBuilder) /\ ~NoBuilder.exists /\ NoBuilder.done = 0
  /\ BuilderOK(NewBuilder) /\ NewBuilder.exists /\ NewBuilder.done = 0
<1>1. 0 \in 0 .. Candles /\ 0 \in Nat /\ <<>> \in Seq(Record)
  BY ConstantsNat
<1>2. BuilderOK(NoBuilder) /\ ~NoBuilder.exists /\ NoBuilder.done = 0
  BY <1>1 DEF BuilderOK, NoBuilder
<1>3. NewBuilder.exists /\ NewBuilder.done = 0 /\ BuilderOK(NewBuilder)
  BY <1>1 DEF BuilderOK, NewBuilder, NoBuilder
<1>4. QED
  BY <1>2, <1>3

LEMMA OrderInit == Init => OrderInv
  BY NewBuilders DEF Init, OrderInv, EvaluatedInOrder, NoTrades

(* What the worker does with the event of a candle.                        *)
Base == IF builder.exists THEN builder ELSE NewBuilder

EntryOf(b, c) == [candle |-> c, trades |-> RecordOf(b, c).trades, due |-> due[c]]

LEMMA WorkerFacts ==
  ASSUME WorkerTakes
  PROVE  \E c \in Candle :
           /\ queue[c] > 0 /\ queue' = [queue EXCEPT ![c] = @ - 1] /\ klines' = klines \union {c}
           /\ builder' = Evaluate(CloseForKline(Base, c), klines')
           /\ evaluated' = evaluated \o
                [i \in 1 .. Len(InOrder(Ready(CloseForKline(Base, c), klines'))) |->
                   EntryOf(CloseForKline(Base, c),
                           InOrder(Ready(CloseForKline(Base, c), klines'))[i])]
<1>1. PICK c \in Candle :
        /\ queue[c] > 0 /\ queue' = [queue EXCEPT ![c] = @ - 1] /\ klines' = klines \union {c}
        /\ \E b \in {CloseForKline(Base, c)} :
             \E ready \in {InOrder(Ready(b, klines'))} :
               /\ builder' = Evaluate(b, klines')
               /\ evaluated' = evaluated \o [i \in 1 .. Len(ready) |-> EntryOf(b, ready[i])]
  BY DEF WorkerTakes, Base, EntryOf
<1> DEFINE b == CloseForKline(Base, c)
           ready == InOrder(Ready(b, klines'))
<1>2. /\ builder' = Evaluate(b, klines')
      /\ evaluated' = evaluated \o [i \in 1 .. Len(ready) |-> EntryOf(b, ready[i])]
  BY <1>1
<1>3. QED
  BY <1>1, <1>2

LEMMA BaseOK ==
  ASSUME OrderInv
  PROVE  /\ BuilderOK(Base) /\ Base.exists
         /\ \A i \in DOMAIN evaluated : evaluated[i].candle <= Base.done
<1>1. CASE builder.exists
  BY <1>1 DEF OrderInv, Base
<1>2. CASE ~builder.exists
  BY <1>2, NewBuilders DEF OrderInv, Base
<1>3. QED
  BY <1>1, <1>2

LEMMA WorkerOrdered ==
  ASSUME OrderInv, WorkerTakes
  PROVE  OrderInv'
<1>1. PICK c \in Candle :
        /\ builder' = Evaluate(CloseForKline(Base, c), klines')
        /\ evaluated' = evaluated \o
             [i \in 1 .. Len(InOrder(Ready(CloseForKline(Base, c), klines'))) |->
                EntryOf(CloseForKline(Base, c),
                        InOrder(Ready(CloseForKline(Base, c), klines'))[i])]
  BY WorkerFacts
<1> DEFINE b == CloseForKline(Base, c)
           s == InOrder(Ready(b, klines'))
           new == [i \in 1 .. Len(s) |-> EntryOf(b, s[i])]
<1>2. BuilderOK(b) /\ b.done = Base.done /\ b.exists /\ b.done \in Nat
  BY BaseOK, CloseOK, BuilderFields DEF Stays
<1>3. /\ Ready(b, klines') \in SUBSET Candle /\ Ready(b, klines') \in SUBSET Unevaluated(b)
      /\ \A d \in Ready(b, klines') : d > b.done
  BY <1>2, ReadyFacts
<1>4. /\ s \in Seq(Ready(b, klines')) /\ Len(s) \in Nat
      /\ \A i, j \in 1 .. Len(s) : i < j => s[i] < s[j]
  BY <1>3, InOrderSorted
<1>5. /\ BuilderOK(builder') /\ builder'.exists /\ builder'.done \in Nat /\ b.done <= builder'.done
      /\ \A d \in Ready(b, klines') : d <= builder'.done
  BY <1>1, <1>2, EvaluateOK, BuilderFields
<1>6. due \in [Candle -> Nat] /\ due' = due
  BY DEF OrderInv, WorkerTakes
<1> HIDE DEF b, s
<1>7. ASSUME NEW i \in 1 .. Len(s)
      PROVE  /\ s[i] \in Ready(b, klines') /\ new[i].candle = s[i] /\ new[i] \in Entry
  <2>1. s[i] \in Ready(b, klines')
    BY <1>4
  <2>2. s[i] \in Candle /\ due[s[i]] \in Nat /\ RecordOf(b, s[i]) \in Record
    BY <1>2, <1>3, <1>6, <2>1, RecordOfOK
  <2>3. QED
    BY <2>1, <2>2 DEF EntryOf, Record, Entry
<1>8. new \in Seq(Entry) /\ Len(new) = Len(s)
  BY <1>4, <1>7, IsASeq
<1>9. evaluated' = evaluated \o new /\ evaluated \in Seq(Entry)
  BY <1>1 DEF OrderInv, b, s
<1> HIDE DEF new
<1>10. /\ evaluated' \in Seq(Entry) /\ Len(evaluated') = Len(evaluated) + Len(s)
       /\ \A i \in 1 .. Len(evaluated) : evaluated'[i] = evaluated[i]
       /\ \A i \in Len(evaluated) + 1 .. Len(evaluated) + Len(s) :
            evaluated'[i] = new[i - Len(evaluated)]
  <2>1. /\ evaluated' \in Seq(Entry) /\ Len(evaluated') = Len(evaluated) + Len(new)
        /\ \A i \in 1 .. Len(evaluated) + Len(new) :
             evaluated'[i] = IF i <= Len(evaluated) THEN evaluated[i] ELSE new[i - Len(evaluated)]
    BY <1>8, <1>9, ConcatProperties
  <2>2. Len(evaluated) \in Nat /\ Len(s) \in Nat /\ Len(new) = Len(s)
    BY <1>4, <1>8, <1>9
  <2>3. QED
    BY <2>1, <2>2
<1>11. ASSUME NEW i \in 1 .. Len(evaluated)
       PROVE  evaluated[i].candle \in Nat /\ evaluated[i].candle <= b.done
  <2>1. evaluated[i] \in Entry /\ i \in DOMAIN evaluated
    BY <1>9
  <2>2. evaluated[i].candle \in Nat
    BY <2>1, CandleSets DEF Entry
  <2>3. QED
    BY <1>2, <2>1, <2>2, BaseOK
<1>12. \A i \in Len(evaluated) + 1 .. Len(evaluated) + Len(s) :
         /\ i - Len(evaluated) \in 1 .. Len(s) /\ evaluated'[i].candle = s[i - Len(evaluated)]
         /\ s[i - Len(evaluated)] \in Ready(b, klines')
  BY <1>4, <1>7, <1>9, <1>10
<1>13. \A i \in DOMAIN evaluated' : evaluated'[i].candle <= builder'.done
  BY <1>2, <1>4, <1>5, <1>9, <1>10, <1>11, <1>12
<1>14. ASSUME NEW i \in DOMAIN evaluated', NEW j \in DOMAIN evaluated', i < j
       PROVE  evaluated'[i].candle < evaluated'[j].candle
  <2>0. Len(evaluated) \in Nat /\ DOMAIN evaluated' = 1 .. Len(evaluated) + Len(s)
        /\ DOMAIN evaluated = 1 .. Len(evaluated)
    BY <1>4, <1>9, <1>10
  <2>1. CASE j <= Len(evaluated)
    <3>1. i \in DOMAIN evaluated /\ j \in DOMAIN evaluated
      BY <1>14, <2>0, <2>1
    <3>2. evaluated[i].candle < evaluated[j].candle
      BY <1>14, <3>1 DEF OrderInv, EvaluatedInOrder
    <3>3. QED
      BY <1>10, <2>0, <3>1, <3>2
  <2>2. CASE i <= Len(evaluated) /\ j > Len(evaluated)
    <3>1. i \in 1 .. Len(evaluated) /\ j \in Len(evaluated) + 1 .. Len(evaluated) + Len(s)
      BY <2>0, <2>2
    <3>2. evaluated'[i].candle \in Nat /\ evaluated'[i].candle <= b.done
      BY <1>10, <1>11, <3>1
    <3>3. evaluated'[j].candle \in Nat /\ evaluated'[j].candle > b.done
      BY <1>3, <1>12, <3>1, CandleSets
    <3>4. QED
      BY <1>2, <3>2, <3>3
  <2>3. CASE i > Len(evaluated)
    <3>1. /\ i \in Len(evaluated) + 1 .. Len(evaluated) + Len(s)
          /\ j \in Len(evaluated) + 1 .. Len(evaluated) + Len(s)
          /\ i - Len(evaluated) < j - Len(evaluated)
      BY <1>14, <2>0, <2>3
    <3>2. QED
      BY <1>4, <1>12, <3>1
  <2>4. QED
    BY <2>0, <2>1, <2>2, <2>3
<1>15. EvaluatedInOrder'
  BY <1>14 DEF EvaluatedInOrder
<1>16. QED
  BY <1>5, <1>6, <1>10, <1>13, <1>15 DEF OrderInv

LEMMA OrderStep == OrderInv /\ [Next]_vars => OrderInv'
<1> SUFFICES ASSUME OrderInv, [Next]_vars PROVE OrderInv'
  OBVIOUS
<1>1. ASSUME UNCHANGED <<builder, due, evaluated>> PROVE OrderInv'
  BY <1>1 DEF OrderInv, EvaluatedInOrder
<1>2. ASSUME NEW c \in Candle, TradeArrives(c) PROVE OrderInv'
  <2>1. CASE on /\ builder.exists
    <3>1. builder' = OnTrade(builder, c) /\ Stays(builder, OnTrade(builder, c))
      BY <1>2, <2>1, OnTradeOK DEF TradeArrives, OrderInv
    <3>2. due' \in [Candle -> Nat]
      BY <1>2, <2>1 DEF TradeArrives, OrderInv
    <3>3. evaluated' = evaluated
      BY <1>2 DEF TradeArrives
    <3>4. QED
      BY <2>1, <3>1, <3>2, <3>3 DEF OrderInv, EvaluatedInOrder, Stays
  <2>2. CASE ~(on /\ builder.exists)
    BY <1>1, <1>2, <2>2 DEF TradeArrives
  <2>3. QED
    BY <2>1, <2>2
<1>3. CASE WorkerTakes
  BY <1>3, WorkerOrdered
<1>4. CASE RemoveSession
  <2>1. builder' = NoBuilder /\ due' = NoTrades /\ evaluated' = <<>>
    BY <1>4 DEF RemoveSession
  <2>2. QED
    BY <2>1, NewBuilders DEF OrderInv, EvaluatedInOrder, NoTrades
<1>5. CASE UpdateSession \/ BootAnswered \/ BootFails
  <2>1. /\ builder' = builder \/ (builder' = NewBuilder /\ ~builder.exists)
        /\ UNCHANGED <<due, evaluated>>
    BY <1>5 DEF UpdateSession, BootAnswered, BootFails, EnsureBuilder
  <2>2. QED
    BY <1>1, <2>1, NewBuilders DEF OrderInv, EvaluatedInOrder
<1>6. CASE TimePasses \/ Supervise \/ AddSession \/ BootAsks \/ EndRound \/ HealStarts
           \/ HealAsks \/ HealFails \/ HealAnswered \/ UNCHANGED vars
  BY <1>1, <1>6
  DEF TimePasses, Supervise, AddSession, BootAsks, EndRound, HealStarts, HealAsks, HealFails,
      HealAnswered, vars
<1>7. ASSUME NEW c \in Candle, KlineArrives(c) PROVE OrderInv'
  BY <1>1, <1>7 DEF KlineArrives
<1>8. QED
  BY <1>2, <1>3, <1>4, <1>5, <1>6, <1>7 DEF Next, WorkerLoop, UpdateLoop

(* Whatever the order in which trades, events and healed events reach a    *)
(* session, its builder's candles are evaluated in their order, once each. *)
THEOREM CandlesInOrder == Spec => []EvaluatedInOrder
<1>1. OrderInv => EvaluatedInOrder
  BY DEF OrderInv
<1>2. QED
  BY <1>1, OrderInit, OrderStep, PTL DEF Spec
-----------------------------------------------------------------------------
(* The event of a candle evaluates it.                                     *)

LEMMA EventEvaluates ==
  ASSUME NEW b, BuilderOK(b), NEW c \in Candle, b.active # c, NEW seen, c \in seen
  PROVE  LET e == Evaluate(b, seen)
         IN  \/ c <= e.done
             \/ e.active # c /\ c \notin Unevaluated(e)
             \/ \E d \in Unevaluated(e) : d < c /\ Deferred(e, seen, d)
<1> DEFINE e == Evaluate(b, seen)
           ready == Ready(b, seen)
<1> SUFFICES ASSUME ~(c <= e.done), c \in Unevaluated(e)
             PROVE  \E d \in Unevaluated(e) : d < c /\ Deferred(e, seen, d)
  BY EvaluateOK
<1>1. /\ e.closed = b.closed /\ e.done = HighestOf(ready, b.done) /\ e.done \in Nat
      /\ b.done \in Nat /\ b.done <= e.done /\ \A d \in ready : d <= e.done
  BY EvaluateOK, BuilderFields
<1>2. e.done \in ready \union {b.done}
  <2>1. ready \in SUBSET Candle /\ b.done \in 0 .. Candles
    BY ReadyFacts, BuilderFields
  <2>2. QED
    BY <1>1, <2>1, HighestFacts
<1>3. c \in Unevaluated(b) /\ c \in Nat
  BY <1>1, CandleSets DEF Unevaluated
<1>4. PICK d \in Unevaluated(b) : d <= c /\ Deferred(b, seen, d)
  <2>1. c \notin ready
    BY <1>1
  <2>2. QED
    BY <1>3, <2>1 DEF Ready
<1>5. d # c /\ d \in Nat /\ d > b.done
  BY <1>4, ReadyFacts, CandleSets DEF Deferred
<1>6. d > e.done
  <2>1. CASE e.done = b.done
    BY <1>5, <2>1
  <2>2. CASE e.done \in ready
    <3>1. ~(d <= e.done)
      BY <1>4, <2>2 DEF Ready
    <3>2. QED
      BY <1>1, <1>5, <3>1
  <2>3. QED
    BY <1>2, <2>1, <2>2
<1>7. d \in Unevaluated(e)
  BY <1>1, <1>4, <1>6 DEF Unevaluated
<1>8. Deferred(e, seen, d)
  BY <1>1, <1>4 DEF Deferred, RecordOf
<1>9. QED
  BY <1>3, <1>4, <1>5, <1>7, <1>8

Evaluates(c) ==
  \/ c <= builder'.done
  \/ builder'.active # c /\ c \notin Unevaluated(builder')
  \/ \E d \in Unevaluated(builder') : d < c /\ Deferred(builder', klines', d)

LEMMA TakenIsEvaluated ==
  ASSUME QueueInv, OrderInv, [Next]_vars,
         NEW c \in Candle, queue'[c] < queue[c], builder'.exists
  PROVE  Evaluates(c)
<1>0. queue \in [Candle -> Nat] /\ queue[c] \in Nat
  BY DEF QueueInv
<1>1. CASE WorkerTakes
  <2>1. PICK x \in Candle :
          /\ queue' = [queue EXCEPT ![x] = @ - 1] /\ klines' = klines \union {x}
          /\ builder' = Evaluate(CloseForKline(Base, x), klines')
    BY <1>1, WorkerFacts
  <2>2. x = c
    BY <1>0, <2>1
  <2>3. BuilderOK(CloseForKline(Base, x)) /\ CloseForKline(Base, x).active # x
    BY BaseOK, CloseOK DEF Stays
  <2> DEFINE b == CloseForKline(Base, x)
  <2>4. builder' = Evaluate(b, klines') /\ BuilderOK(b) /\ b.active # c /\ c \in klines'
    BY <2>1, <2>2, <2>3
  <2> HIDE DEF b
  <2>5. QED
    BY <2>4, EventEvaluates DEF Evaluates
<1>2. CASE RemoveSession
  BY <1>2 DEF RemoveSession, NoBuilder
<1>3. ASSUME NEW cs, Enqueue(cs) PROVE FALSE
  BY <1>0, <1>3 DEF Enqueue
<1>4. ASSUME queue' = queue PROVE FALSE
  BY <1>0, <1>4
<1>5. ASSUME NEW d \in Candle, TradeArrives(d) \/ KlineArrives(d) PROVE FALSE
  BY <1>3, <1>4, <1>5 DEF TradeArrives, KlineArrives
<1>6. CASE TimePasses \/ Supervise \/ AddSession \/ UNCHANGED vars
  BY <1>4, <1>6 DEF TimePasses, Supervise, AddSession, vars
<1>7. CASE UpdateLoop
  <2>1. ASSUME HealAnswered PROVE FALSE
    BY <1>3, <2>1 DEF HealAnswered
  <2>2. QED
    BY <1>4, <1>7, <2>1
    DEF UpdateLoop, UpdateSession, BootAsks, BootAnswered, BootFails, EndRound, HealStarts,
        HealAsks, HealFails
<1>8. QED
  BY <1>1, <1>2, <1>5, <1>6, <1>7 DEF Next, WorkerLoop

(* A closed candle's event evaluates it at once, unless it has no record   *)
(* or an earlier candle still waits for its own event.                     *)
THEOREM EventEvaluatesCandle == Spec => KlineEvaluatesCandle
<1>1. QueueInv /\ OrderInv /\ [Next]_vars =>
        [\A c \in Candle :
           queue'[c] < queue[c] /\ builder'.exists =>
             \/ c <= builder'.done
             \/ builder'.active # c /\ c \notin Unevaluated(builder')
             \/ \E d \in Unevaluated(builder') : d < c /\ Deferred(builder', klines', d)]_vars
  BY TakenIsEvaluated DEF Evaluates
<1>2. QED
  BY <1>1, QueueInit, QueueStep, OrderInit, OrderStep, PTL DEF Spec, KlineEvaluatesCandle
-----------------------------------------------------------------------------
(* The trades of a candle are counted.                                     *)

Records(b) == {b.closed[i] : i \in DOMAIN b.closed}

Recorded(b, c) == \E r \in Records(b) : r.candle = c

ActiveRecord(b) == [candle |-> b.active, trades |-> b.trades]

(* The trades of a candle that is not evaluated yet, as the builder holds  *)
(* them: in its first record, or in progress.                              *)
Held(b, c) == IF Recorded(b, c) THEN RecordOf(b, c).trades
              ELSE IF c = b.active THEN b.trades ELSE 0

(* What the builder still has to evaluate it does not push out.            *)
Keeps(b, e) ==
  \A c \in Candle : c > b.done =>
    /\ Recorded(b, c) => Recorded(e, c) /\ RecordOf(e, c) = RecordOf(b, c)
    /\ c = b.active => c = e.active \/ Recorded(e, c)

(* No record is pushed out of the window of closed candles before its      *)
(* event has come.                                                         *)
KeepsUnevaluated == builder.exists /\ builder'.exists => Keeps(builder, builder')

Counted(b) == \A c \in Candle : c > b.done => due[c] = Held(b, c)

TradesInv ==
  /\ TradesCounted
  /\ lastTrade \in Nat /\ builder.active <= lastTrade
  /\ builder.active = 0 => builder.trades = 0
  /\ Counted(builder)

LEMMA RecentRecords ==
  ASSUME NEW seq \in Seq(Record), NEW i \in DOMAIN Recent(seq)
  PROVE  \E j \in DOMAIN seq : Recent(seq)[i] = seq[j]
<1>1. CASE Len(seq) <= Window
  BY <1>1 DEF Recent
<1>2. CASE ~(Len(seq) <= Window)
  <2>1. Len(seq) - Window + 1 \in 1 .. Len(seq) /\ Len(seq) \in Nat
    BY <1>2, ConstantsNat
  <2>2. /\ Len(Recent(seq)) = Len(seq) - (Len(seq) - Window + 1) + 1
        /\ Recent(seq) \in Seq(Record)
        /\ \A k \in 1 .. Len(seq) - (Len(seq) - Window + 1) + 1 :
             Recent(seq)[k] = seq[Len(seq) - Window + 1 + k - 1]
    BY <1>2, <2>1, SubSeqProperties DEF Recent
  <2>3. i \in 1 .. Len(seq) - (Len(seq) - Window + 1) + 1
    BY <2>2
  <2>4. Len(seq) - Window + 1 + i - 1 \in 1 .. Len(seq)
    BY <2>1, <2>3, ConstantsNat
  <2>5. QED
    BY <2>2, <2>3, <2>4
<1>3. QED
  BY <1>1, <1>2

LEMMA FreezeRecords ==
  ASSUME NEW b, BuilderOK(b), NEW r \in Records(Freeze(b))
  PROVE  r \in Records(b) \/ (b.active # 0 /\ r = ActiveRecord(b))
<1>1. CASE b.active = 0
  BY <1>1 DEF Freeze
<1>2. CASE b.active # 0
  <2> DEFINE seq == Append(b.closed, ActiveRecord(b))
  <2>1. b.active \in Candle /\ b.trades \in Nat /\ b.closed \in Seq(Record)
    BY <1>2, ConstantsNat DEF BuilderOK, Candle
  <2>2. seq \in Seq(Record) /\ \A j \in DOMAIN seq : seq[j] \in Records(b) \union {ActiveRecord(b)}
    BY <2>1 DEF Record, Records, ActiveRecord
  <2>3. Freeze(b).closed = Recent(seq)
    BY <1>2 DEF Freeze, ActiveRecord, BuilderOK
  <2> HIDE DEF seq
  <2>4. PICK i \in DOMAIN Recent(seq) : r = Recent(seq)[i]
    BY <2>3 DEF Records
  <2>5. QED
    BY <1>2, <2>2, <2>4, RecentRecords
<1>3. QED
  BY <1>1, <1>2

LEMMA OnTradeRecords ==
  ASSUME NEW b, BuilderOK(b), NEW d \in Candle, b.active <= d
  PROVE  /\ \A r \in Records(OnTrade(b, d)) :
               r \in Records(b) \/ (b.active # d /\ b.active # 0 /\ r = ActiveRecord(b))
         /\ OnTrade(b, d).active = d
         /\ OnTrade(b, d).trades = IF b.active = d THEN b.trades + 1 ELSE 1
<1>0. d \in Nat /\ b.active \in Nat /\ ~(d < b.active)
  <2>1. d \in Nat /\ b.active \in Nat
    BY ConstantsNat, BuilderFields DEF Candle
  <2>2. QED
    BY <2>1
<1>1. CASE d = b.active
  <2>1. OnTrade(b, d) = [b EXCEPT !.trades = b.trades + 1]
    BY <1>0, <1>1 DEF OnTrade
  <2>2. QED
    BY <1>1, <2>1 DEF BuilderOK, Records
<1>2. CASE d # b.active
  <2> DEFINE f == Freeze(b)
  <2>1. OnTrade(b, d) = [f EXCEPT !.active = d, !.trades = 1] /\ BuilderOK(f)
    BY <1>0, <1>2, FreezeOK DEF OnTrade, Stays
  <2>2. \A r \in Records(f) : r \in Records(b) \/ (b.active # 0 /\ r = ActiveRecord(b))
    BY FreezeRecords
  <2> HIDE DEF f
  <2>3. /\ OnTrade(b, d).active = d /\ OnTrade(b, d).trades = 1
        /\ OnTrade(b, d).closed = f.closed
    BY <2>1 DEF BuilderOK
  <2>4. QED
    BY <1>2, <2>2, <2>3 DEF Records
<1>3. QED
  BY <1>1, <1>2

LEMMA CloseRecords ==
  ASSUME NEW b, BuilderOK(b), b.active = 0 => b.trades = 0, NEW x \in Candle
  PROVE  LET e == CloseForKline(b, x)
         IN  /\ \A r \in Records(e) :
                  \/ r \in Records(b)
                  \/ r = ActiveRecord(b)
                  \/ b.active # x /\ r = [candle |-> x, trades |-> 0]
             /\ e = b \/ (e.active = 0 /\ e.trades = 0)
<1> DEFINE f == Freeze(b)
           g == [f EXCEPT !.active = x]
<1>1. /\ BuilderOK(f) /\ f.active = 0 /\ f.trades = 0
      /\ \A r \in Records(f) : r \in Records(b) \union {ActiveRecord(b)}
  <2>1. f.trades = 0
    BY DEF Freeze, BuilderOK
  <2>2. QED
    BY <2>1, FreezeOK, FreezeRecords DEF Stays
<1>2. CASE b.active = x
  BY <1>1, <1>2 DEF CloseForKline
<1>3. CASE b.active # x
  <2>1. CloseForKline(b, x) \in {b, Freeze(g)}
    BY <1>3 DEF CloseForKline, AppendEmpty
  <2>2. CASE CloseForKline(b, x) = Freeze(g)
    <3>1. x \in 0 .. Candles /\ x # 0
      BY ConstantsNat DEF Candle
    <3> HIDE DEF f
    <3>2. BuilderOK(g) /\ g.active = x /\ g.trades = 0 /\ Records(g) = Records(f)
      BY <1>1, <3>1 DEF BuilderOK, Records
    <3> HIDE DEF g
    <3>3. Freeze(g).active = 0 /\ Freeze(g).trades = 0
      BY <3>1, <3>2 DEF Freeze, BuilderOK
    <3>4. \A r \in Records(Freeze(g)) : r \in Records(f) \/ r = [candle |-> x, trades |-> 0]
      BY <3>2, FreezeRecords DEF ActiveRecord
    <3>5. QED
      BY <1>1, <1>3, <2>2, <3>3, <3>4
  <2>3. CASE CloseForKline(b, x) = b
    BY <2>3
  <2>4. QED
    BY <2>1, <2>2, <2>3
<1>4. QED
  BY <1>2, <1>3
LEMMA RecordedFacts ==
  ASSUME NEW b, BuilderOK(b), NEW c \in Candle, c > b.done, Recorded(b, c)
  PROVE  /\ c \in Unevaluated(b) /\ RecordOf(b, c) \in Records(b)
         /\ RecordOf(b, c).candle = c
<1>1. c \in Unevaluated(b)
  BY DEF Recorded, Records, Unevaluated
<1>2. QED
  BY <1>1, RecordOfOK DEF Records

(* Closing a candle moves its trades into its record.                      *)
LEMMA CloseCounted ==
  ASSUME NEW b, BuilderOK(b), b.active = 0 => b.trades = 0, Counted(b), NEW x \in Candle,
         Keeps(b, CloseForKline(b, x))
  PROVE  Counted(CloseForKline(b, x))
<1> DEFINE e == CloseForKline(b, x)
<1>1. BuilderOK(e) /\ e.done = b.done
  BY CloseOK DEF Stays
<1>2. /\ \A r \in Records(e) :
           \/ r \in Records(b)
           \/ r = ActiveRecord(b)
           \/ b.active # x /\ r = [candle |-> x, trades |-> 0]
      /\ e = b \/ (e.active = 0 /\ e.trades = 0)
  BY CloseRecords
<1>3. Keeps(b, e)
  OBVIOUS
<1> HIDE DEF e
<1>4. ASSUME NEW c \in Candle, c > b.done PROVE Held(e, c) = Held(b, c)
  <2>1. CASE Recorded(b, c)
    BY <1>3, <1>4, <2>1 DEF Keeps, Held
  <2>2. CASE ~Recorded(b, c) /\ Recorded(e, c)
    <3>1. RecordOf(e, c) \in Records(e) /\ RecordOf(e, c).candle = c
      BY <1>1, <1>4, <2>2, RecordedFacts
    <3>2. RecordOf(e, c) \notin Records(b)
      BY <2>2, <3>1 DEF Recorded
    <3>3. \/ RecordOf(e, c) = ActiveRecord(b)
          \/ b.active # x /\ RecordOf(e, c) = [candle |-> x, trades |-> 0]
      BY <1>2, <3>1, <3>2
    <3>4. QED
      BY <2>2, <3>1, <3>3 DEF Held, ActiveRecord
  <2>3. CASE ~Recorded(b, c) /\ ~Recorded(e, c)
    <3>1. c # 0
      BY DEF Candle
    <3>2. c = b.active => c = e.active
      BY <1>3, <1>4, <2>3 DEF Keeps
    <3>3. QED
      BY <1>2, <2>3, <3>1, <3>2 DEF Held
  <2>4. QED
    BY <2>1, <2>2, <2>3
<1>5. QED
  BY <1>1, <1>4 DEF Counted, e

(* A trade is counted for its candle, unless that has a record already.    *)
LEMMA TradeCounted ==
  ASSUME NEW b, BuilderOK(b), NEW d \in Candle, b.active <= d,
         Keeps(b, OnTrade(b, d)), NEW c \in Candle, c > b.done
  PROVE  Held(OnTrade(b, d), c) =
           IF c = d /\ ~Recorded(b, c) THEN Held(b, c) + 1 ELSE Held(b, c)
<1> DEFINE e == OnTrade(b, d)
<1>1. BuilderOK(e) /\ e.done = b.done /\ Keeps(b, e) /\ b.trades \in Nat
  BY OnTradeOK, BuilderFields DEF Stays
<1>2. /\ \A r \in Records(e) :
           r \in Records(b) \/ (b.active # d /\ b.active # 0 /\ r = ActiveRecord(b))
      /\ e.active = d /\ e.trades = IF b.active = d THEN b.trades + 1 ELSE 1
  BY OnTradeRecords
<1> HIDE DEF e
<1>3. CASE Recorded(b, c)
  BY <1>1, <1>3 DEF Keeps, Held, e
<1>4. CASE ~Recorded(b, c) /\ Recorded(e, c)
  <2>1. RecordOf(e, c) \in Records(e) /\ RecordOf(e, c).candle = c
    BY <1>1, <1>4, RecordedFacts
  <2>2. RecordOf(e, c) \notin Records(b)
    BY <1>4, <2>1 DEF Recorded
  <2>3. RecordOf(e, c) = ActiveRecord(b) /\ b.active # d
    BY <1>2, <2>1, <2>2
  <2>4. QED
    BY <1>4, <2>1, <2>3 DEF Held, ActiveRecord, e
<1>5. CASE ~Recorded(b, c) /\ ~Recorded(e, c)
  <2>1. c = b.active => c = e.active
    BY <1>1, <1>5 DEF Keeps
  <2>2. QED
    BY <1>1, <1>2, <1>5, <2>1 DEF Held, e
<1>6. QED
  BY <1>3, <1>4, <1>5

LEMMA TradesInit == Init => TradesInv
<1> SUFFICES ASSUME Init PROVE TradesInv
  OBVIOUS
<1>1. /\ builder = NoBuilder /\ due = NoTrades /\ evaluated = <<>> /\ lastTrade = 1
  BY DEF Init
<1>2. Records(NoBuilder) = {}
  BY DEF Records, NoBuilder
<1>3. Counted(builder)
  BY <1>1, <1>2 DEF Counted, Held, Recorded, NoTrades, NoBuilder
<1>4. QED
  BY <1>1, <1>3 DEF TradesInv, TradesCounted, NoBuilder

LEMMA FreshCounted ==
  ASSUME OrderInv, TradesInv, ~builder.exists
  PROVE  Counted(NewBuilder) /\ Counted(NoBuilder)
<1>1. builder = NoBuilder
  BY DEF OrderInv
<1>2. Records(NoBuilder) = {} /\ Records(NewBuilder) = {}
  BY DEF Records, NoBuilder, NewBuilder
<1>3. Counted(NoBuilder)
  BY <1>1 DEF TradesInv
<1>4. QED
  BY <1>2, <1>3 DEF Counted, Held, Recorded, NoBuilder, NewBuilder

LEMMA TradeStep ==
  ASSUME OrderInv, TradesInv, KeepsUnevaluated, NEW d \in Candle, TradeArrives(d)
  PROVE  TradesInv'
<1>1. d \in Nat /\ lastTrade' = d /\ lastTrade <= d /\ evaluated' = evaluated /\ lastTrade \in Nat
  BY CandleSets DEF TradeArrives, TradesInv
<1>2. TradesCounted'
  BY <1>1 DEF TradesInv, TradesCounted
<1>3. CASE on /\ builder.exists
  <2>1. /\ BuilderOK(builder) /\ builder.active \in Nat /\ builder.active <= d
        /\ due \in [Candle -> Nat]
    BY <1>1, BuilderFields DEF OrderInv, TradesInv
  <2>2. /\ builder' = OnTrade(builder, d)
        /\ due' = IF d <= builder.done \/ Recorded(builder, d) THEN due ELSE [due EXCEPT ![d] = @ + 1]
    BY <1>3 DEF TradeArrives, Recorded, Records
  <2>3. builder'.exists /\ builder'.done = builder.done /\ builder'.active = d
    BY <1>3, <2>1, <2>2, OnTradeOK, OnTradeRecords DEF Stays
  <2>4. Keeps(builder, OnTrade(builder, d))
    BY <1>3, <2>2, <2>3 DEF KeepsUnevaluated
  <2>5. ASSUME NEW c \in Candle, c > builder.done PROVE due'[c] = Held(builder', c)
    <3>1. due[c] = Held(builder, c)
      BY <2>5 DEF TradesInv, Counted
    <3>2. Held(builder', c) =
            IF c = d /\ ~Recorded(builder, c) THEN Held(builder, c) + 1 ELSE Held(builder, c)
      BY <2>1, <2>2, <2>4, <2>5, TradeCounted
    <3>3. c \in Nat /\ builder.done \in Nat
      BY <2>1, BuilderFields, CandleSets
    <3>4. QED
      BY <2>1, <2>2, <2>5, <3>1, <3>2, <3>3
  <2>6. Counted(builder)'
    BY <2>3, <2>5 DEF Counted
  <2>7. d # 0
    BY DEF Candle
  <2>8. QED
    BY <1>1, <1>2, <2>3, <2>6, <2>7 DEF TradesInv
<1>4. CASE ~(on /\ builder.exists)
  <2>1. builder' = builder /\ due' = due
    BY <1>4 DEF TradeArrives
  <2>2. builder.active \in Nat
    BY BuilderFields DEF OrderInv
  <2>3. QED
    BY <1>1, <1>2, <2>1, <2>2 DEF TradesInv, Counted
<1>5. QED
  BY <1>3, <1>4
LEMMA WorkerCounts ==
  ASSUME OrderInv, TradesInv, KeepsUnevaluated, WorkerTakes
  PROVE  TradesInv'
<1>1. PICK c \in Candle :
        /\ builder' = Evaluate(CloseForKline(Base, c), klines')
        /\ evaluated' = evaluated \o
             [i \in 1 .. Len(InOrder(Ready(CloseForKline(Base, c), klines'))) |->
                EntryOf(CloseForKline(Base, c),
                        InOrder(Ready(CloseForKline(Base, c), klines'))[i])]
  BY WorkerFacts
<1> DEFINE b == CloseForKline(Base, c)
           s == InOrder(Ready(b, klines'))
           new == [i \in 1 .. Len(s) |-> EntryOf(b, s[i])]
<1>2. /\ BuilderOK(Base) /\ Base.exists /\ Base.active \in Nat /\ Counted(Base)
      /\ Base.active <= lastTrade /\ (Base.active = 0 => Base.trades = 0)
      /\ (builder.exists => Base = builder)
  <2>1. CASE builder.exists
    BY <2>1, BaseOK, BuilderFields DEF Base, TradesInv
  <2>2. CASE ~builder.exists
    BY <2>2, BaseOK, FreshCounted DEF Base, NewBuilder, NoBuilder, TradesInv
  <2>3. QED
    BY <2>1, <2>2
<1>3. /\ BuilderOK(b) /\ b.done = Base.done /\ b.done \in Nat /\ b.exists
      /\ b = Base \/ (b.active = 0 /\ b.trades = 0)
  BY <1>2, CloseOK, CloseRecords, BuilderFields DEF Stays
<1>4. /\ builder'.closed = b.closed /\ builder'.active = b.active /\ builder'.trades = b.trades
      /\ builder'.exists /\ builder'.done \in Nat /\ b.done <= builder'.done
  BY <1>1, <1>3, EvaluateOK, BuilderFields
<1>5. Keeps(Base, b)
  <2>1. CASE builder.exists
    <3>1. Keeps(builder, builder')
      BY <1>4, <2>1 DEF KeepsUnevaluated
    <3> HIDE DEF b
    <3>2. ASSUME NEW d
          PROVE  (Recorded(builder', d) <=> Recorded(b, d)) /\ RecordOf(builder', d) = RecordOf(b, d)
      BY <1>4 DEF Recorded, Records, RecordOf
    <3>3. Base = builder
      BY <1>2, <2>1
    <3>4. QED
      BY <1>4, <3>1, <3>2, <3>3 DEF Keeps
  <2>2. CASE ~builder.exists
    <3>1. Base = NewBuilder
      BY <2>2 DEF Base
    <3>2. Records(NewBuilder) = {} /\ NewBuilder.active = 0 /\ 0 \notin Candle
      BY DEF Records, NewBuilder, NoBuilder, Candle
    <3> HIDE DEF b
    <3>3. QED
      BY <3>1, <3>2 DEF Keeps, Recorded
  <2>3. QED
    BY <2>1, <2>2
<1>6. Counted(b)
  BY <1>2, <1>5, CloseCounted
<1>7. lastTrade' = lastTrade /\ due' = due /\ due \in [Candle -> Nat] /\ lastTrade \in Nat
  BY DEF WorkerTakes, OrderInv, TradesInv
<1>8. /\ Ready(b, klines') \in SUBSET Candle /\ Ready(b, klines') \in SUBSET Unevaluated(b)
      /\ \A d \in Ready(b, klines') : d > b.done
  BY <1>3, ReadyFacts
<1>9. s \in Seq(Ready(b, klines')) /\ Len(s) \in Nat
  BY <1>8, InOrderSorted
<1>10. evaluated' = evaluated \o new /\ evaluated \in Seq(Entry)
  BY <1>1 DEF OrderInv
<1> HIDE DEF b, s
<1>11. ASSUME NEW i \in 1 .. Len(s) PROVE new[i] \in Entry /\ new[i].trades = new[i].due
  <2>1. s[i] \in Ready(b, klines') /\ s[i] \in Candle /\ s[i] \in Unevaluated(b) /\ s[i] > b.done
    BY <1>8, <1>9
  <2>2. Recorded(b, s[i])
    BY <2>1 DEF Unevaluated, Recorded, Records
  <2>3. RecordOf(b, s[i]).trades = due[s[i]]
    BY <1>6, <2>1, <2>2 DEF Counted, Held
  <2>4. due[s[i]] \in Nat
    BY <1>7, <2>1
  <2>5. QED
    BY <2>1, <2>3, <2>4 DEF EntryOf, Entry
<1>12. new \in Seq(Entry) /\ Len(new) = Len(s)
  BY <1>9, <1>11, IsASeq
<1>13. TradesCounted'
  <2> HIDE DEF new
  <2>1. /\ evaluated' \in Seq(Entry) /\ Len(evaluated') = Len(evaluated) + Len(new)
        /\ \A i \in 1 .. Len(evaluated) + Len(new) :
             evaluated'[i] = IF i <= Len(evaluated) THEN evaluated[i] ELSE new[i - Len(evaluated)]
    BY <1>10, <1>12, ConcatProperties
  <2>2. Len(evaluated) \in Nat /\ Len(new) \in Nat
    BY <1>9, <1>10, <1>12
  <2>3. \A i \in 1 .. Len(evaluated) : evaluated[i].trades = evaluated[i].due
    BY <1>10 DEF TradesInv, TradesCounted
  <2>4. ASSUME NEW i \in 1 .. Len(evaluated) + Len(new), ~(i <= Len(evaluated))
        PROVE  evaluated'[i].trades = evaluated'[i].due
    <3>1. i - Len(evaluated) \in 1 .. Len(s)
      BY <1>12, <2>2, <2>4
    <3>2. QED
      BY <1>11, <2>1, <2>4, <3>1 DEF new
  <2>5. QED
    BY <2>1, <2>2, <2>3, <2>4 DEF TradesCounted
<1>14. Counted(builder)'
  <2>1. ASSUME NEW d \in Candle, d > builder'.done PROVE due'[d] = Held(builder', d)
    <3>1. d \in Nat
      BY CandleSets
    <3>2. d > b.done
      BY <1>3, <1>4, <2>1, <3>1
    <3>3. due[d] = Held(b, d)
      BY <1>6, <3>2 DEF Counted
    <3>4. Held(builder', d) = Held(b, d)
      BY <1>4 DEF Held, Recorded, Records, RecordOf
    <3>5. QED
      BY <1>7, <3>3, <3>4
  <2>2. QED
    BY <2>1 DEF Counted
<1>15. builder'.active <= lastTrade' /\ (builder'.active = 0 => builder'.trades = 0)
  BY <1>2, <1>3, <1>4, <1>7
<1>16. QED
  BY <1>7, <1>13, <1>14, <1>15 DEF TradesInv

LEMMA TradesStep == OrderInv /\ TradesInv /\ [Next]_vars /\ [KeepsUnevaluated]_vars => TradesInv'
<1> SUFFICES ASSUME OrderInv, TradesInv, [Next]_vars, [KeepsUnevaluated]_vars PROVE TradesInv'
  OBVIOUS
<1>1. ASSUME UNCHANGED <<builder, due, evaluated, lastTrade>> PROVE TradesInv'
  BY <1>1 DEF TradesInv, TradesCounted, Counted
<1>2. ASSUME UNCHANGED vars PROVE TradesInv'
  BY <1>1, <1>2 DEF vars
<1>3. CASE KeepsUnevaluated
  <2>1. ASSUME NEW c \in Candle, TradeArrives(c) PROVE TradesInv'
    BY <1>3, <2>1, TradeStep
  <2>2. CASE WorkerTakes
    BY <1>3, <2>2, WorkerCounts
  <2>3. CASE RemoveSession
    <3>1. /\ builder' = NoBuilder /\ due' = NoTrades /\ evaluated' = <<>> /\ lastTrade' = lastTrade
      BY <2>3 DEF RemoveSession
    <3>2. Records(NoBuilder) = {}
      BY DEF Records, NoBuilder
    <3>3. QED
      BY <3>1, <3>2
      DEF TradesInv, TradesCounted, Counted, Held, Recorded, NoTrades, NoBuilder
  <2>4. CASE UpdateSession \/ BootAnswered \/ BootFails
    <3>1. /\ builder' = builder \/ (builder' = NewBuilder /\ ~builder.exists)
          /\ UNCHANGED <<due, evaluated, lastTrade>>
      BY <2>4 DEF UpdateSession, BootAnswered, BootFails, EnsureBuilder
    <3>2. CASE builder' = builder
      BY <1>1, <3>1, <3>2
    <3>3. CASE builder' = NewBuilder /\ ~builder.exists
      <4>1. Counted(NewBuilder)
        BY <3>3, FreshCounted
      <4>2. QED
        BY <3>1, <3>3, <4>1 DEF TradesInv, TradesCounted, Counted, NewBuilder, NoBuilder
    <3>4. QED
      BY <3>1, <3>2, <3>3
  <2>5. CASE TimePasses \/ Supervise \/ AddSession \/ BootAsks \/ EndRound \/ HealStarts
             \/ HealAsks \/ HealFails \/ HealAnswered
    BY <1>1, <2>5
    DEF TimePasses, Supervise, AddSession, BootAsks, EndRound, HealStarts, HealAsks, HealFails,
        HealAnswered
  <2>6. ASSUME NEW c \in Candle, KlineArrives(c) PROVE TradesInv'
    BY <1>1, <2>6 DEF KlineArrives
  <2>7. QED
    BY <1>2, <2>1, <2>2, <2>3, <2>4, <2>5, <2>6 DEF Next, WorkerLoop, UpdateLoop
<1>4. QED
  BY <1>2, <1>3

(* As long as no record is pushed out of the builder's window before the   *)
(* event of its candle has come, a candle is evaluated with every trade    *)
(* that arrived while it was open: a trade that comes after its candle's   *)
(* event opens a second record, and that is never the one evaluated.       *)
THEOREM CandlesComplete == Spec /\ [][KeepsUnevaluated]_vars => []TradesCounted
<1>1. TradesInv => TradesCounted
  BY DEF TradesInv
<1>2. QED
  BY <1>1, OrderInit, OrderStep, TradesInit, TradesStep, PTL DEF Spec

-----------------------------------------------------------------------------
(* The entry states of the older rules, over any number of candles.        *)

CONSTANTS BinSize, One, Left

Rules == INSTANCE EntryStates

IsLeast(x, S) == x \in S /\ \A y \in S : x <= y

LEMMA MinIsLeast ==
  ASSUME NEW S \in SUBSET Int, NEW x, IsLeast(x, S)
  PROVE  Rules!Min(S) = x
<1>1. \A y \in S : IsLeast(y, S) => y = x
  BY DEF IsLeast
<1> DEFINE least == CHOOSE y \in S : \A z \in S : y <= z
<1>2. least \in S /\ \A z \in S : least <= z
  BY DEF IsLeast
<1>3. Rules!Min(S) = least
  BY DEF Rules!Min
<1> HIDE DEF least
<1> QED
  BY <1>1, <1>2, <1>3 DEF IsLeast

LEMMA MinOfTwo ==
  ASSUME NEW x \in Int, NEW y \in Int
  PROVE  Rules!Min({x, y}) = IF x <= y THEN x ELSE y
<1>1. CASE x <= y
  <2>1. IsLeast(x, {x, y})
    BY <1>1 DEF IsLeast
  <2> QED
    BY <1>1, <2>1, MinIsLeast
<1>2. CASE ~(x <= y)
  <2>1. IsLeast(y, {x, y})
    BY <1>2 DEF IsLeast
  <2> QED
    BY <1>2, <2>1, MinIsLeast
<1> QED
  BY <1>1, <1>2

\* After n candles the state is what the candle k absorbed: it has not run out,
\* no entry has used it, and its stop is the furthest end since.
Awaits(r, s, side, k, n) ==
  /\ k \in 1 .. n /\ Rules!Seeds(r[k], side)
  /\ \A m \in k + 1 .. n : Rules!EvaluatedSide(s[m - 1], r[m], side, m).stops = {}
  /\ \E stop : /\ s[n] = <<[expires |-> k + Rules!Timeout, stop |-> stop, since |-> k]>>
               /\ IsLeast(stop, {Rules!Edge(r[j], side) : j \in k .. n})

LEMMA OneMore ==
  ASSUME NEW k \in Nat, NEW n \in Nat
  PROVE  \A j \in k .. n + 1 : j \in k .. n \/ j = n + 1
  OBVIOUS

LEMMA StateSteps ==
  ASSUME NEW r, \A n \in Nat \ {0} : r[n].low \in Int /\ r[n].high \in Int,
         NEW side \in {"BUY", "SELL"}, NEW s, NEW n \in Nat,
         s[n + 1] = Rules!EvaluatedSide(s[n], r[n + 1], side, n + 1).state,
         s[n] = <<>> \/ \E k \in 1 .. n : Awaits(r, s, side, k, n)
  PROVE  s[n + 1] = <<>> \/ \E k \in 1 .. n + 1 : Awaits(r, s, side, k, n + 1)
<1> DEFINE end(i) == Rules!Edge(r[i], side)
           c == Rules!Confirms(r[n + 1], side)
           ends(k, m) == {end(j) : j \in k .. m}
<1>1. \A i \in 1 .. n + 1 : end(i) \in Int
  BY DEF Rules!Edge, Rules!Toward, Rules!EndPrice
<1>2. s[n + 1] = Rules!After(s[n], Rules!Seeds(r[n + 1], side), c, end(n + 1), n + 1)
  BY DEF Rules!EvaluatedSide
<1>3. CASE Rules!TimedOut(s[n], n + 1)
  BY <1>2, <1>3 DEF Rules!After
<1>4. CASE ~Rules!TimedOut(s[n], n + 1) /\ Rules!Seeds(r[n + 1], side)
  <2>1. s[n + 1] = <<[expires |-> (n + 1) + Rules!Timeout, stop |-> end(n + 1), since |-> n + 1]>>
    BY <1>2, <1>4 DEF Rules!After
  <2>2. IsLeast(end(n + 1), ends(n + 1, n + 1))
    <3>1. \A j \in n + 1 .. n + 1 : j = n + 1
      OBVIOUS
    <3>2. n + 1 \in n + 1 .. n + 1 /\ end(n + 1) <= end(n + 1)
      BY <1>1
    <3> QED
      BY <3>1, <3>2 DEF IsLeast
  <2>3. n + 1 \in 1 .. n + 1 /\ \A m \in (n + 1) + 1 .. n + 1 : FALSE
    OBVIOUS
  <2>4. Awaits(r, s, side, n + 1, n + 1)
    BY <1>4, <2>1, <2>2, <2>3 DEF Awaits
  <2> QED
    BY <2>3, <2>4
<1>5. CASE ~Rules!TimedOut(s[n], n + 1) /\ ~Rules!Seeds(r[n + 1], side)
  <2>1. CASE Rules!Enters(s[n], c, n + 1)
    BY <1>2, <1>5, <2>1 DEF Rules!After
  <2>2. CASE ~Rules!Enters(s[n], c, n + 1) /\ s[n] = <<>>
    BY <1>2, <1>5, <2>2 DEF Rules!After, Rules!Tracked
  <2>3. CASE ~Rules!Enters(s[n], c, n + 1) /\ s[n] # <<>>
    <3>1. PICK k \in 1 .. n : Awaits(r, s, side, k, n)
      BY <2>3
    <3>2. PICK stop : /\ s[n] = <<[expires |-> k + Rules!Timeout, stop |-> stop, since |-> k]>>
                      /\ IsLeast(stop, ends(k, n))
      BY <3>1 DEF Awaits
    <3> DEFINE new == Rules!Min({stop, end(n + 1)})
    <3>3. s[n + 1] = Rules!Tracked(s[n], end(n + 1))
      BY <1>2, <1>5, <2>3 DEF Rules!After
    <3>4. s[n + 1] = <<[expires |-> k + Rules!Timeout, stop |-> new, since |-> k]>>
      <4>1. s[n + 1] = <<[s[n][1] EXCEPT !.stop = Rules!Min({@, end(n + 1)})]>>
        BY <2>3, <3>3 DEF Rules!Tracked
      <4>2. s[n][1] = [expires |-> k + Rules!Timeout, stop |-> stop, since |-> k]
        BY <3>2
      <4> HIDE DEF end
      <4> QED
        BY <4>1, <4>2
    <3>5. IsLeast(new, ends(k, n + 1))
      <4>1. stop \in Int
        BY <1>1, <3>2 DEF IsLeast
      <4>2. new = IF stop <= end(n + 1) THEN stop ELSE end(n + 1)
        <5>1. end(n + 1) \in Int
          BY <1>1
        <5> HIDE DEF end
        <5> QED
          BY <4>1, <5>1, MinOfTwo
      <4>3. \A j \in k .. n + 1 : j \in k .. n \/ j = n + 1
        <5>1. k \in Nat
          OBVIOUS
        <5> QED
          BY <5>1, OneMore
      <4>4. n + 1 \in k .. n + 1 /\ \A j \in k .. n : j \in k .. n + 1 /\ j \in 1 .. n + 1
        OBVIOUS
      <4>5. \A j \in k .. n : stop <= end(j)
        BY <3>2 DEF IsLeast
      <4>6. PICK i \in k .. n : stop = end(i)
        BY <3>2 DEF IsLeast
      <4> HIDE DEF new, end
      <4>7. new \in ends(k, n + 1)
        BY <4>2, <4>4, <4>6
      <4>8. ASSUME NEW j \in k .. n + 1
            PROVE  new <= end(j)
        <5>1. end(n + 1) \in Int /\ end(j) \in Int
          BY <1>1, <4>3, <4>4
        <5>2. CASE j = n + 1
          BY <4>1, <4>2, <5>1, <5>2
        <5>3. CASE j \in k .. n
          <6>1. stop <= end(j)
            BY <4>5, <5>3
          <6> QED
            BY <4>1, <4>2, <5>1, <6>1
        <5> QED
          BY <4>3, <5>2, <5>3
      <4> QED
        BY <4>7, <4>8 DEF IsLeast
    <3>6. Rules!EvaluatedSide(s[n], r[n + 1], side, n + 1).stops = {}
      BY <2>3 DEF Rules!EvaluatedSide
    <3>7. ASSUME NEW m \in k + 1 .. n + 1
          PROVE  Rules!EvaluatedSide(s[m - 1], r[m], side, m).stops = {}
      <4>1. CASE m = n + 1
        <5>1. m - 1 = n
          BY <4>1
        <5> QED
          BY <3>6, <4>1, <5>1
      <4>2. CASE m \in k + 1 .. n
        <5>1. \A i \in k + 1 .. n : Rules!EvaluatedSide(s[i - 1], r[i], side, i).stops = {}
          BY <3>1 DEF Awaits
        <5> QED
          BY <4>2, <5>1
      <4>3. m = n + 1 \/ m \in k + 1 .. n
        OBVIOUS
      <4> QED
        BY <4>1, <4>2, <4>3, Zenon
    <3>8. k \in 1 .. n + 1 /\ Rules!Seeds(r[k], side)
      BY <3>1 DEF Awaits
    <3> HIDE DEF new
    <3>9. Awaits(r, s, side, k, n + 1)
      BY <3>4, <3>5, <3>7, <3>8 DEF Awaits
    <3> QED
      BY <3>8, <3>9
  <2> QED
    BY <2>1, <2>2, <2>3
<1> QED
  BY <1>3, <1>4, <1>5

\* _evaluate_entry_state_machine: an entry follows a candle that absorbed by
\* fewer than Timeout candles, each absorption gives at most one entry, and the
\* stop is the furthest end of the candles since.
THEOREM EntriesFollowAbsorption ==
  ASSUME NEW r, \A n \in Nat \ {0} : r[n].low \in Int /\ r[n].high \in Int,
         NEW side \in {"BUY", "SELL"},
         NEW s, s[0] = <<>>,
         \A n \in Nat \ {0} : s[n] = Rules!EvaluatedSide(s[n - 1], r[n], side, n).state,
         NEW n \in Nat \ {0},
         NEW price \in Rules!EvaluatedSide(s[n - 1], r[n], side, n).stops
  PROVE  /\ Rules!Confirms(r[n], side)
         /\ \E k \in 1 .. n - 1 :
              /\ Rules!Seeds(r[k], side) /\ n - k < Rules!Timeout
              /\ \A m \in k + 1 .. n - 1 :
                   Rules!EvaluatedSide(s[m - 1], r[m], side, m).stops = {}
              /\ IsLeast(Rules!Toward(side, price), {Rules!Edge(r[j], side) : j \in k .. n})
<1> DEFINE Good(m) == s[m] = <<>> \/ \E k \in 1 .. m : Awaits(r, s, side, k, m)
           T == {m \in Nat : Good(m)}
<1>1. ASSUME NEW m \in Nat, Good(m)
      PROVE  Good(m + 1)
  <2>1. m + 1 \in Nat \ {0} /\ (m + 1) - 1 = m
    OBVIOUS
  <2>2. s[m + 1] = Rules!EvaluatedSide(s[m], r[m + 1], side, m + 1).state
    BY <2>1
  <2> QED
    BY <1>1, <2>2, StateSteps
<1>2. Nat \subseteq T
  <2>1. 0 \in T /\ \A m \in Nat : m \in T => m + 1 \in T
    BY <1>1
  <2> HIDE DEF T
  <2> QED
    BY <2>1, NatSetInduction
<1> DEFINE m == n - 1
           end(i) == Rules!Edge(r[i], side)
<1>3. m \in Nat /\ Good(m) /\ n = m + 1
  BY <1>2
<1>4. /\ Rules!Enters(s[m], Rules!Confirms(r[n], side), n)
      /\ price = Rules!Toward(side, Rules!StopOf(s[m], end(n)))
  BY DEF Rules!EvaluatedSide
<1>5. s[m] # <<>> /\ ~Rules!TimedOut(s[m], n) /\ Rules!Confirms(r[n], side)
  BY <1>4 DEF Rules!Enters
<1> HIDE DEF m
<1>6. PICK k \in 1 .. m : Awaits(r, s, side, k, m)
  BY <1>3, <1>5
<1>7. PICK stop : /\ s[m] = <<[expires |-> k + Rules!Timeout, stop |-> stop, since |-> k]>>
                  /\ IsLeast(stop, {end(j) : j \in k .. m})
  BY <1>6 DEF Awaits
<1>8. \A i \in 1 .. n : end(i) \in Int
  BY DEF Rules!Edge, Rules!Toward, Rules!EndPrice
<1>9. n - k < Rules!Timeout
  BY <1>3, <1>5, <1>7 DEF Rules!TimedOut, Rules!Timeout
<1>10. stop \in Int
  BY <1>3, <1>7, <1>8 DEF IsLeast
<1>11. Rules!StopOf(s[m], end(n)) = IF stop <= end(n) THEN stop ELSE end(n)
  <2>1. Rules!StopOf(s[m], end(n)) = Rules!Min({stop, end(n)})
    <3>1. s[m][1] = [expires |-> k + Rules!Timeout, stop |-> stop, since |-> k]
      BY <1>7
    <3>2. Rules!Tracked(s[m], end(n))[1] = [s[m][1] EXCEPT !.stop = Rules!Min({@, end(n)})]
      BY <1>5 DEF Rules!Tracked
    <3> HIDE DEF end
    <3> QED
      BY <3>1, <3>2 DEF Rules!StopOf
  <2>2. end(n) \in Int
    BY <1>3, <1>8
  <2> HIDE DEF end
  <2> QED
    BY <1>10, <2>1, <2>2, MinOfTwo
<1>12. Rules!Toward(side, price) = Rules!StopOf(s[m], end(n))
  BY <1>4, <1>8, <1>10, <1>11 DEF Rules!Toward
<1>13. IsLeast(Rules!Toward(side, price), {end(j) : j \in k .. n})
  <2>1. \A j \in k .. n : j \in k .. m \/ j = n
    BY <1>3
  <2>2. n \in k .. n /\ \A j \in k .. m : j \in k .. n /\ j \in 1 .. n
    BY <1>3
  <2>3. \A j \in k .. m : stop <= end(j)
    BY <1>7 DEF IsLeast
  <2>4. PICK i \in k .. m : stop = end(i)
    BY <1>7 DEF IsLeast
  <2> DEFINE new == Rules!Toward(side, price)
  <2>5. new = IF stop <= end(n) THEN stop ELSE end(n)
    BY <1>11, <1>12
  <2> HIDE DEF new, end
  <2>6. new \in {end(j) : j \in k .. n}
    BY <2>2, <2>4, <2>5
  <2>7. ASSUME NEW j \in k .. n
        PROVE  new <= end(j)
    BY <1>8, <1>10, <2>1, <2>2, <2>3, <2>5
  <2> QED
    BY <2>6, <2>7 DEF IsLeast, new
<1>14. \A i \in k + 1 .. m : Rules!EvaluatedSide(s[i - 1], r[i], side, i).stops = {}
  BY <1>6 DEF Awaits
<1>15. Rules!Seeds(r[k], side)
  BY <1>6 DEF Awaits
<1> QED
  BY <1>3, <1>5, <1>9, <1>13, <1>14, <1>15 DEF m

\* _evaluate_reference_candle_rule_triggers: the rules look at no more than
\* the last Left + 2 records, so what the window pushes out decides nothing.
THEOREM LastRecordsDecide ==
  ASSUME Left \in Nat \ {0}, NEW S, NEW older \in Seq(S), NEW records \in Seq(S),
         Len(records) >= Left + 2, NEW side \in {"BUY", "SELL"}, NEW record
  PROVE  /\ Rules!EntryStop(older \o records, record, side) = Rules!EntryStop(records, record, side)
         /\ Rules!Exits(older \o records, record, side) <=> Rules!Exits(records, record, side)
<1> DEFINE all == older \o records
           n == Len(records)
           d == Len(older)
<1>1. /\ n \in Nat /\ d \in Nat /\ n >= 3 /\ n - 1 \in 1 .. n /\ n - 2 \in 1 .. n
      /\ all \in Seq(S) /\ Len(all) = d + n
      /\ \A i \in 1 .. n : all[d + i] = records[i]
  <2>1. n \in Nat /\ d \in Nat /\ all \in Seq(S) /\ Len(all) = d + n
    BY ConcatProperties, LenProperties
  <2>2. \A i \in 1 .. n : d + i \in 1 .. d + n /\ d + i > d /\ (d + i) - d = i
    BY <2>1
  <2>3. \A i \in 1 .. n : all[d + i] = records[i]
    BY <2>1, <2>2, ConcatProperties
  <2> QED
    BY <2>1, <2>3
<1>2. /\ all[Len(all)] = records[n] /\ all[Len(all) - 1] = records[n - 1]
      /\ all[Len(all) - 2] = records[n - 2]
  <2>1. Len(all) = d + n /\ Len(all) - 1 = d + (n - 1) /\ Len(all) - 2 = d + (n - 2) /\ n \in 1 .. n
    BY <1>1
  <2> HIDE DEF all, n, d
  <2> QED
    BY <1>1, <2>1
<1>3. Rules!Last(all) = Rules!Last(records)
  BY <1>1, <1>2 DEF Rules!Last
<1> DEFINE i == Rules!Selected(records, side)
           j == Rules!Selected(all, side)
<1>4. i \in {n - 1, n} /\ j = d + i
  <2> DEFINE later == Rules!Edge(records[n - 1], side) <= Rules!Edge(records[n], side)
  <2>1. i = IF later THEN n - 1 ELSE n
    BY DEF Rules!Selected
  <2>2. j = IF later THEN Len(all) - 1 ELSE Len(all)
    BY <1>2 DEF Rules!Selected
  <2> HIDE DEF later, all, i, j
  <2> QED
    BY <1>1, <2>1, <2>2
<1>5. i \in 1 .. n /\ i > Left /\ j > Left /\ all[j] = records[i]
  <2> HIDE DEF all, i, j
  <2> QED
    BY <1>1, <1>4
<1>6. Rules!BreaksLeft(all, side) <=> Rules!BreaksLeft(records, side)
  <2> DEFINE edge(x) == Rules!Edge(x, side)
  <2>1. Rules!BreaksLeft(records, side) <=> \A k \in i - Left .. i - 1 : edge(records[i]) < edge(records[k])
    BY <1>5 DEF Rules!BreaksLeft
  <2>2. Rules!BreaksLeft(all, side) <=> \A k \in j - Left .. j - 1 : edge(all[j]) < edge(all[k])
    BY <1>5 DEF Rules!BreaksLeft
  <2> HIDE DEF edge, all, i, j
  <2>3. ASSUME NEW k \in i - Left .. i - 1
        PROVE  k \in 1 .. n /\ d + k \in j - Left .. j - 1 /\ all[d + k] = records[k]
    <3>1. k \in 1 .. n /\ d + k \in j - Left .. j - 1
      BY <1>1, <1>4, <1>5
    <3> QED
      BY <1>1, <3>1
  <2>4. ASSUME NEW k \in j - Left .. j - 1
        PROVE  k - d \in i - Left .. i - 1 /\ k = d + (k - d)
    BY <1>1, <1>4, <1>5
  <2>5. ASSUME NEW k \in j - Left .. j - 1
        PROVE  \E m \in i - Left .. i - 1 : all[k] = records[m]
    BY <2>3, <2>4
  <2> QED
    BY <1>5, <2>1, <2>2, <2>3, <2>5
<1>7. Rules!HasStop(all, side) <=> Rules!HasStop(records, side)
  <2> HIDE DEF all
  <2> QED
    BY <1>2, <1>6 DEF Rules!HasStop
<1>8. Rules!Turns(all, record, side) <=> Rules!Turns(records, record, side)
  <2> HIDE DEF all
  <2> QED
    BY <1>3 DEF Rules!Turns
<1>9. Rules!Turns(all, record, Rules!Opposite(side)) <=> Rules!Turns(records, record, Rules!Opposite(side))
  <2> HIDE DEF all
  <2> QED
    BY <1>3 DEF Rules!Turns
<1>10. Rules!ExitPrevious(all, side) <=> Rules!ExitPrevious(records, side)
  <2>1. Len(all) >= 3
    BY <1>1
  <2> HIDE DEF all
  <2> QED
    BY <1>1, <1>2, <2>1 DEF Rules!ExitPrevious
<1>11. Rules!EntryStop(all, record, side) = Rules!EntryStop(records, record, side)
  <2> HIDE DEF all
  <2> QED
    BY <1>5, <1>7, <1>8 DEF Rules!EntryStop, i, j
<1>12. Rules!Exits(all, record, side) <=> Rules!Exits(records, record, side)
  <2> HIDE DEF all
  <2> QED
    BY <1>9, <1>10 DEF Rules!Exits
<1> QED
  BY <1>11, <1>12

-----------------------------------------------------------------------------
(* The trades t[1], t[2], ... of a candle, whose states c[n] are those     *)
(* after n trades, for any trades and any number of them.                  *)

IsCandle(c) ==
  c = [open |-> c.open, high |-> c.high, low |-> c.low, close |-> c.close,
       bins |-> c.bins, spent |-> c.spent, at |-> c.at, since |-> c.since]

Takes(c, t) ==
  c[0] = Rules!NewCandle /\ \A n \in Nat : c[n + 1] = Rules!ApplyTrade(c[n], t[n + 1])

\* What a trade t makes of the candle c.
Applied(c, t, d) ==
  /\ IsCandle(d) /\ d.bins = Rules!WithTrade(c.bins, t)
  /\ d.open = (IF Rules!Untouched(c) THEN t.price ELSE c.open) /\ d.close = t.price
  /\ d.high = (IF Rules!Untouched(c) THEN t.price ELSE Rules!Max({c.high, t.price}))
  /\ d.low = (IF Rules!Untouched(c) THEN t.price ELSE Rules!Min({c.low, t.price}))
  /\ IF Rules!Untouched(c)
     THEN d.spent = c.spent /\ d.at = Rules!Index(t.price) /\ d.since = t.at
     ELSE IF t.at < c.since \/ Rules!Index(t.price) = c.at
     THEN d.spent = c.spent /\ d.at = c.at /\ d.since = c.since
     ELSE d.spent = Rules!Stayed(c, t.at) /\ d.at = Rules!Index(t.price) /\ d.since = t.at

LEMMA ApplyFields ==
  ASSUME NEW c, IsCandle(c), NEW t
  PROVE  Applied(c, t, Rules!ApplyTrade(c, t))
<1> DEFINE p == Rules!WithPrice(c, t.price)
           w == Rules!Dwell(p, t)
           d == Rules!ApplyTrade(c, t)
<1>1. /\ IsCandle(p) /\ p.bins = c.bins /\ p.spent = c.spent /\ p.at = c.at /\ p.since = c.since
      /\ p.open = (IF Rules!Untouched(c) THEN t.price ELSE c.open) /\ p.close = t.price
      /\ p.high = (IF Rules!Untouched(c) THEN t.price ELSE Rules!Max({c.high, t.price}))
      /\ p.low = (IF Rules!Untouched(c) THEN t.price ELSE Rules!Min({c.low, t.price}))
  BY DEF Rules!WithPrice, IsCandle
<1>2. Rules!Untouched(p) <=> Rules!Untouched(c)
  BY <1>1 DEF Rules!Untouched
<1>3. Rules!Stayed(p, t.at) = Rules!Stayed(c, t.at)
  BY <1>1 DEF Rules!Stayed
<1> HIDE DEF p
<1>4. /\ IsCandle(w) /\ w.bins = p.bins
      /\ w.open = p.open /\ w.close = p.close /\ w.high = p.high /\ w.low = p.low
      /\ Rules!Untouched(c) =>
           w.spent = c.spent /\ w.at = Rules!Index(t.price) /\ w.since = t.at
      /\ ~Rules!Untouched(c) /\ (t.at < c.since \/ Rules!Index(t.price) = c.at) =>
           w.spent = c.spent /\ w.at = c.at /\ w.since = c.since
      /\ ~Rules!Untouched(c) /\ ~(t.at < c.since \/ Rules!Index(t.price) = c.at) =>
           w.spent = Rules!Stayed(c, t.at) /\ w.at = Rules!Index(t.price) /\ w.since = t.at
  BY <1>1, <1>2, <1>3 DEF Rules!Dwell, IsCandle
<1> HIDE DEF w
<1>5. /\ IsCandle(d) /\ d.bins = Rules!WithTrade(w.bins, t)
      /\ d.open = w.open /\ d.close = w.close /\ d.high = w.high /\ d.low = w.low
      /\ d.spent = w.spent /\ d.at = w.at /\ d.since = w.since
  <2>1. d = [w EXCEPT !.bins = Rules!WithTrade(@, t)]
    BY DEF Rules!ApplyTrade, w, p
  <2> HIDE DEF d
  <2> QED
    BY <1>4, <2>1 DEF IsCandle
<1> HIDE DEF d
<1>6. Applied(c, t, d)
  BY <1>1, <1>4, <1>5 DEF Applied
<1> QED
  BY <1>6 DEF d

LEMMA NewIsCandle ==
  /\ IsCandle(Rules!NewCandle) /\ Rules!Untouched(Rules!NewCandle)
  /\ Rules!NewCandle.bins = <<>> /\ Rules!NewCandle.spent = <<>>
  BY DEF Rules!NewCandle, Rules!Untouched, IsCandle

LEMMA TradeTouches ==
  ASSUME NEW bins, NEW t
  PROVE  /\ DOMAIN Rules!WithTrade(bins, t) = DOMAIN bins \union {Rules!Index(t.price)}
         /\ \A i \in DOMAIN bins : i # Rules!Index(t.price) => Rules!WithTrade(bins, t)[i] = bins[i]
  BY DEF Rules!WithTrade, Rules!With

-----------------------------------------------------------------------------
(* The time the price stayed in a bin.                                     *)

Spent(spent, i) == IF i \in DOMAIN spent THEN spent[i] ELSE 0

\* m is the newest of the first n trades at the instant x.
Newest(t, n, x, m) ==
  m \in 1 .. n /\ t[m].at <= x /\ \A k \in m + 1 .. n : t[k].at > x

\* The instants before until, from the first trade on, at which the newest of
\* the first n trades is in bin i.
TimesIn(t, n, i, until) ==
  {x \in t[1].at .. until - 1 : \E m : Newest(t, n, x, m) /\ Rules!Index(t[m].price) = i}

InOrderOfTime(t) ==
  /\ \A n \in Nat \ {0} : t[n].at \in Int
  /\ \A j, k \in Nat \ {0} : j <= k => t[j].at <= t[k].at

\* The state of the tracker: what it has given to the bins are the instants
\* before since, and from then on the price is in the bin at.
Tracks(c, t, n) ==
  /\ IsCandle(c) /\ ~Rules!Untouched(c)
  /\ c.since \in Int /\ t[1].at <= c.since /\ c.since <= t[n].at
  /\ \A x \in Int : x >= c.since => \E m : Newest(t, n, x, m) /\ Rules!Index(t[m].price) = c.at
  /\ \A i : Spent(c.spent, i) = Cardinality(TimesIn(t, n, i, c.since))

LEMMA OneNewest ==
  ASSUME NEW t, InOrderOfTime(t), NEW n \in Nat, NEW x \in Int, NEW m, NEW k,
         Newest(t, n, x, m), Newest(t, n, x, k)
  PROVE  m = k
<1>1. m \in 1 .. n /\ k \in 1 .. n /\ t[m].at \in Int /\ t[k].at \in Int
  BY DEF Newest, InOrderOfTime
<1>2. CASE m < k
  <2>1. k \in m + 1 .. n
    BY <1>1, <1>2
  <2> QED
    BY <1>1, <2>1 DEF Newest
<1>3. CASE k < m
  <2>1. m \in k + 1 .. n
    BY <1>1, <1>3
  <2> QED
    BY <1>1, <2>1 DEF Newest
<1> QED
  BY <1>1, <1>2, <1>3

LEMMA StayedGives ==
  ASSUME NEW t, InOrderOfTime(t), NEW n \in Nat \ {0}, NEW c, Tracks(c, t, n),
         NEW until \in Int, until >= c.since, NEW i
  PROVE  Spent(Rules!Stayed(c, until), i) = Cardinality(TimesIn(t, n, i, until))
<1> DEFINE old == TimesIn(t, n, i, c.since)
           new == TimesIn(t, n, i, until)
           stay == c.since .. until - 1
<1>1. c.since \in Int /\ t[1].at \in Int /\ t[1].at <= c.since
  BY DEF Tracks, InOrderOfTime
<1>2. \A x \in stay : (\E m : Newest(t, n, x, m) /\ Rules!Index(t[m].price) = i) <=> c.at = i
  <2> SUFFICES ASSUME NEW x \in stay
               PROVE  (\E m : Newest(t, n, x, m) /\ Rules!Index(t[m].price) = i) <=> c.at = i
    OBVIOUS
  <2>1. x \in Int /\ x >= c.since
    BY <1>1
  <2>2. PICK m : Newest(t, n, x, m) /\ Rules!Index(t[m].price) = c.at
    BY <2>1 DEF Tracks
  <2>3. \A k : Newest(t, n, x, k) => k = m
    BY <2>1, <2>2, OneNewest
  <2> QED
    BY <2>2, <2>3
<1>3. \A x \in Int : x \in t[1].at .. until - 1 <=> x \in t[1].at .. c.since - 1 \/ x \in stay
  BY <1>1
<1>4. new = IF c.at = i THEN old \union stay ELSE old
  <2>1. CASE c.at = i
    BY <1>1, <1>2, <1>3, <2>1 DEF TimesIn
  <2>2. CASE c.at # i
    BY <1>1, <1>2, <1>3, <2>2 DEF TimesIn
  <2> QED
    BY <2>1, <2>2
<1>5. /\ IsFiniteSet(old) /\ IsFiniteSet(stay) /\ Cardinality(old) \in Nat
      /\ Cardinality(stay) = until - c.since /\ old \intersect stay = {}
  <2>0. c.since - 1 \in Int /\ until - 1 \in Int
    BY <1>1
  <2>1. IsFiniteSet(t[1].at .. c.since - 1) /\ old \subseteq t[1].at .. c.since - 1
    BY <1>1, <2>0, FS_Interval DEF TimesIn
  <2>2. IsFiniteSet(old) /\ Cardinality(old) \in Nat
    BY <2>1, FS_Subset, FS_CardinalityType
  <2>3. IsFiniteSet(stay) /\ Cardinality(stay) = until - c.since
    <3>1. /\ IsFiniteSet(stay)
          /\ Cardinality(stay) = IF c.since > until - 1 THEN 0 ELSE (until - 1) - c.since + 1
      BY <1>1, <2>0, FS_Interval
    <3> HIDE DEF stay
    <3> QED
      BY <1>1, <3>1
  <2>4. \A x \in t[1].at .. c.since - 1 : x \notin stay
    BY <1>1
  <2> HIDE DEF old, stay
  <2> QED
    BY <2>1, <2>2, <2>3, <2>4
<1>6. Spent(c.spent, i) = Cardinality(old)
  BY DEF Tracks
<1>7. Cardinality(new) = IF c.at = i THEN Cardinality(old) + (until - c.since) ELSE Cardinality(old)
  <2> HIDE DEF old, new, stay
  <2>1. Cardinality(old \union stay) = Cardinality(old) + Cardinality(stay) - Cardinality(old \intersect stay)
    BY <1>5, FS_Union
  <2>2. Cardinality({}) = 0
    BY FS_EmptySet
  <2> QED
    BY <1>1, <1>4, <1>5, <2>1, <2>2
<1>8. Spent(Rules!Stayed(c, until), i) =
        IF c.at = i THEN Spent(c.spent, i) + (until - c.since) ELSE Spent(c.spent, i)
  <2>1. CASE until <= c.since
    <3>1. until - c.since = 0
      BY <1>1, <2>1
    <3>2. Rules!Stayed(c, until) = c.spent
      BY <2>1 DEF Rules!Stayed
    <3> QED
      BY <1>5, <1>6, <3>1, <3>2
  <2>2. CASE ~(until <= c.since)
    <3>1. Rules!Stayed(c, until) =
            [y \in DOMAIN c.spent \union {c.at} |->
               IF y = c.at THEN Spent(c.spent, c.at) + until - c.since ELSE c.spent[y]]
      BY <2>2 DEF Rules!Stayed, Rules!With, Spent
    <3>2. CASE c.at = i
      BY <1>1, <1>5, <1>6, <3>1, <3>2 DEF Spent
    <3>3. CASE c.at # i
      BY <3>1, <3>3 DEF Spent
    <3> QED
      BY <3>2, <3>3
  <2> QED
    BY <2>1, <2>2
<1> HIDE DEF old, new
<1> QED
  BY <1>6, <1>7, <1>8 DEF new

LEMMA NewestGrows ==
  ASSUME NEW t, InOrderOfTime(t), NEW n \in Nat \ {0}, NEW x \in Int
  PROVE  /\ x < t[n + 1].at => \A m : Newest(t, n + 1, x, m) <=> Newest(t, n, x, m)
         /\ x >= t[n + 1].at => Newest(t, n + 1, x, n + 1)
<1>1. t[n + 1].at \in Int /\ n + 1 \in Nat \ {0}
  BY DEF InOrderOfTime
<1>2. ASSUME x < t[n + 1].at, NEW m, Newest(t, n, x, m)
      PROVE  Newest(t, n + 1, x, m)
  <2>1. m \in 1 .. n + 1 /\ \A k \in m + 1 .. n + 1 : k \in m + 1 .. n \/ k = n + 1
    BY <1>2 DEF Newest
  <2> QED
    BY <1>1, <1>2, <2>1 DEF Newest
<1>3. ASSUME x < t[n + 1].at, NEW m, Newest(t, n + 1, x, m)
      PROVE  Newest(t, n, x, m)
  <2>1. m \in 1 .. n + 1 /\ m # n + 1
    BY <1>1, <1>3 DEF Newest
  <2>2. m \in 1 .. n /\ \A k \in m + 1 .. n : k \in m + 1 .. n + 1
    BY <2>1
  <2> QED
    BY <1>3, <2>2 DEF Newest
<1>4. ASSUME x >= t[n + 1].at
      PROVE  Newest(t, n + 1, x, n + 1)
  <2>1. n + 1 \in 1 .. n + 1 /\ \A k \in (n + 1) + 1 .. n + 1 : FALSE
    OBVIOUS
  <2> QED
    BY <1>1, <1>4, <2>1 DEF Newest
<1> QED
  BY <1>2, <1>3, <1>4

LEMMA FirstTracks ==
  ASSUME NEW t, InOrderOfTime(t), NEW c, c = Rules!ApplyTrade(Rules!NewCandle, t[1])
  PROVE  Tracks(c, t, 1)
<1>1. /\ IsCandle(c) /\ c.bins = Rules!WithTrade(<<>>, t[1])
      /\ c.spent = <<>> /\ c.at = Rules!Index(t[1].price) /\ c.since = t[1].at
  <2>1. Applied(Rules!NewCandle, t[1], c)
    BY ApplyFields, NewIsCandle
  <2> QED
    BY <2>1, NewIsCandle DEF Applied
<1>2. t[1].at \in Int
  BY DEF InOrderOfTime
<1>3. ~Rules!Untouched(c)
  <2>1. \A b, i : i = Rules!Index(t[1].price) => i \in DOMAIN Rules!WithTrade(b, t[1])
    BY DEF Rules!WithTrade, Rules!With
  <2>2. Rules!Index(t[1].price) \in DOMAIN c.bins
    BY <1>1, <2>1
  <2> QED
    BY <2>2 DEF Rules!Untouched
<1>4. ASSUME NEW x \in Int, x >= c.since
      PROVE  Newest(t, 1, x, 1)
  <2>1. 1 \in 1 .. 1 /\ \A k \in 1 + 1 .. 1 : FALSE
    OBVIOUS
  <2> QED
    BY <1>1, <1>4, <2>1 DEF Newest
<1>5. \A i : Spent(c.spent, i) = Cardinality(TimesIn(t, 1, i, c.since))
  <2> TAKE i
  <2>1. t[1].at .. c.since - 1 = {}
    BY <1>1, <1>2
  <2>2. TimesIn(t, 1, i, c.since) = {}
    BY <2>1 DEF TimesIn
  <2>3. Spent(c.spent, i) = 0
    BY <1>1 DEF Spent
  <2> QED
    BY <2>2, <2>3, FS_EmptySet
<1> QED
  BY <1>1, <1>2, <1>3, <1>4, <1>5 DEF Tracks

LEMMA NextTracks ==
  ASSUME NEW t, InOrderOfTime(t), NEW n \in Nat \ {0}, NEW c, Tracks(c, t, n),
         NEW d, d = Rules!ApplyTrade(c, t[n + 1])
  PROVE  Tracks(d, t, n + 1)
<1> DEFINE u == t[n + 1].at
           bin == Rules!Index(t[n + 1].price)
<1>1. /\ u \in Int /\ c.since \in Int /\ t[1].at \in Int /\ t[1].at <= c.since /\ c.since <= u
      /\ n + 1 \in Nat \ {0}
  <2>1. n + 1 \in Nat \ {0} /\ n <= n + 1
    OBVIOUS
  <2>2. t[n].at \in Int /\ t[n].at <= t[n + 1].at /\ t[n + 1].at \in Int /\ t[1].at \in Int
    BY <2>1 DEF InOrderOfTime
  <2> QED
    BY <2>1, <2>2 DEF Tracks
<1>2. IsCandle(c) /\ ~Rules!Untouched(c)
  BY DEF Tracks
<1>3. Applied(c, t[n + 1], d)
  BY <1>2, ApplyFields
<1>4. ~Rules!Untouched(d)
  <2>1. bin \in DOMAIN Rules!WithTrade(c.bins, t[n + 1])
    BY TradeTouches
  <2>2. bin \in DOMAIN d.bins
    BY <1>3, <2>1 DEF Applied
  <2> QED
    BY <2>2 DEF Rules!Untouched
<1>5. \A x \in Int : x < u => \A m : Newest(t, n + 1, x, m) <=> Newest(t, n, x, m)
  BY NewestGrows
<1>6. \A x \in Int : x >= u => Newest(t, n + 1, x, n + 1)
  BY NewestGrows
<1>7. \A i : \A v \in Int : v <= u => TimesIn(t, n + 1, i, v) = TimesIn(t, n, i, v)
  <2> TAKE i
  <2> TAKE v \in Int
  <2> HAVE v <= u
  <2>1. \A x \in t[1].at .. v - 1 : x \in Int /\ x < u
    BY <1>1
  <2> HIDE DEF u
  <2> QED
    BY <1>5, <2>1 DEF TimesIn
<1>8. CASE bin = c.at
  <2>1. d.spent = c.spent /\ d.at = c.at /\ d.since = c.since
    BY <1>2, <1>3, <1>8 DEF Applied
  <2>2. ASSUME NEW x \in Int, x >= d.since
        PROVE  \E m : Newest(t, n + 1, x, m) /\ Rules!Index(t[m].price) = d.at
    <3>1. CASE x < u
      <4>1. PICK m : Newest(t, n, x, m) /\ Rules!Index(t[m].price) = c.at
        BY <2>1, <2>2 DEF Tracks
      <4> QED
        BY <1>5, <2>1, <3>1, <4>1
    <3>2. CASE x >= u
      BY <1>6, <1>8, <2>1, <3>2
    <3> QED
      BY <1>1, <3>1, <3>2
  <2>3. \A i : Spent(d.spent, i) = Cardinality(TimesIn(t, n + 1, i, d.since))
    BY <1>1, <1>7, <2>1 DEF Tracks
  <2> QED
    BY <1>1, <1>3, <1>4, <2>1, <2>2, <2>3 DEF Tracks, Applied
<1>9. CASE bin # c.at
  <2>1. d.spent = Rules!Stayed(c, u) /\ d.at = bin /\ d.since = u
    BY <1>1, <1>2, <1>3, <1>9 DEF Applied
  <2>2. \A i : Spent(d.spent, i) = Cardinality(TimesIn(t, n, i, u))
    BY <1>1, <2>1, StayedGives
  <2>3. \A i : Spent(d.spent, i) = Cardinality(TimesIn(t, n + 1, i, d.since))
    BY <1>1, <1>7, <2>1, <2>2
  <2>4. \A x \in Int : x >= d.since => \E m : Newest(t, n + 1, x, m) /\ Rules!Index(t[m].price) = d.at
    BY <1>6, <2>1
  <2> QED
    BY <1>1, <1>3, <1>4, <2>1, <2>3, <2>4 DEF Tracks, Applied
<1> QED
  BY <1>8, <1>9

\* PriceDwellTracker: when the trades of a candle come in the order of their
\* times, a bin is given each instant, from the first trade to the close, at
\* which the last price was in it, and nothing else.
THEOREM TimeFollowsPrice ==
  ASSUME NEW t, InOrderOfTime(t), NEW c, Takes(c, t),
         NEW n \in Nat \ {0}, NEW until \in Int, until >= t[n].at, NEW i
  PROVE  Rules!Frozen(c[n].bins, Rules!Stayed(c[n], until), i).spent =
           Cardinality(TimesIn(t, n, i, until))
<1> DEFINE T == {k \in Nat : Tracks(c[k + 1], t, k + 1)}
<1>1. 0 \in T
  <2>1. 0 \in Nat /\ 0 + 1 = 1
    OBVIOUS
  <2>2. c[1] = Rules!ApplyTrade(Rules!NewCandle, t[1])
    BY <2>1 DEF Takes
  <2> QED
    BY <2>1, <2>2, FirstTracks
<1>2. ASSUME NEW k \in Nat, k \in T
      PROVE  k + 1 \in T
  <2>1. k + 1 \in Nat \ {0} /\ k + 1 \in Nat
    OBVIOUS
  <2>2. c[(k + 1) + 1] = Rules!ApplyTrade(c[k + 1], t[(k + 1) + 1])
    BY <2>1 DEF Takes
  <2>3. Tracks(c[k + 1], t, k + 1)
    BY <1>2
  <2>4. Tracks(c[(k + 1) + 1], t, (k + 1) + 1)
    BY <2>1, <2>2, <2>3, NextTracks
  <2> QED
    BY <2>1, <2>4
<1>3. Tracks(c[n], t, n)
  <2>1. n - 1 \in Nat /\ (n - 1) + 1 = n
    OBVIOUS
  <2> HIDE DEF T
  <2>2. n - 1 \in T
    BY <1>1, <1>2, <2>1, NatSetInduction
  <2>3. Tracks(c[(n - 1) + 1], t, (n - 1) + 1)
    BY <2>2 DEF T
  <2> QED
    BY <2>1, <2>3
<1>4. until >= c[n].since
  BY <1>3 DEF Tracks, InOrderOfTime
<1>5. Spent(Rules!Stayed(c[n], until), i) = Cardinality(TimesIn(t, n, i, until))
  BY <1>3, <1>4, StayedGives
<1> QED
  BY <1>5 DEF Rules!Frozen, Spent
=============================================================================
