------------------------- MODULE ActorProxy_proofs -------------------------
(***************************************************************************)
(* What is proved of the actor proxy for every payload, window and number  *)
(* of events: its invariants, and that it keeps the promise of ActorWatch. *)
(* The sums and filters of the model are defined by recursion; what the    *)
(* proofs need of them follows by induction, which the first lemma gives:  *)
(* every set of naturals has a least element.                              *)
(***************************************************************************)
EXTENDS ActorProxy, FiniteSetTheorems, SequenceTheorems, TLAPS

-----------------------------------------------------------------------------
(* Induction.                                                              *)

(* A set of natural numbers that is not empty has a least element: the     *)
(* intervals 1 .. n are well-founded by strict inclusion.                  *)
LEMMA LeastElement ==
  ASSUME NEW T \in SUBSET Nat, T # {}
  PROVE  \E m \in T : \A k \in T : m <= k
<1> DEFINE Intervals == {1 .. n : n \in T}
<1>1. Intervals \subseteq FiniteSubsetsOf(Nat) /\ Intervals # {}
  <2>1. ASSUME NEW n \in T PROVE 1 .. n \in FiniteSubsetsOf(Nat)
    <3>1. 1 .. n \subseteq Nat /\ IsFiniteSet(1 .. n)
      BY FS_Interval
    <3>2. QED
      BY <3>1 DEF FiniteSubsetsOf
  <2>2. QED
    BY <2>1
<1>2. PICK x \in Intervals : \A y \in Intervals : <<y, x>> \notin StrictSubsetOrdering(Nat)
  BY <1>1, WFMin, FS_StrictSubsetOrderingWellFounded
<1>3. PICK m \in T : x = 1 .. m
  OBVIOUS
<1>4. ASSUME NEW k \in T, k < m PROVE FALSE
  <2>1. 1 .. k \subseteq 1 .. m /\ 1 .. k # 1 .. m /\ {1 .. k, 1 .. m} \subseteq SUBSET Nat
    <3>1. m \in 1 .. m /\ m \notin 1 .. k
      BY <1>4
    <3>2. QED
      BY <1>4, <3>1
  <2>2. <<1 .. k, 1 .. m>> \in StrictSubsetOrdering(Nat)
    BY <2>1 DEF StrictSubsetOrdering
  <2>3. QED
    BY <1>2, <1>3, <2>2
<1>5. QED
  BY <1>4

LEMMA NatSetInduction ==
  ASSUME NEW T, 0 \in T, \A n \in Nat : n \in T => n + 1 \in T
  PROVE  Nat \subseteq T
<1> SUFFICES ASSUME Nat \ T # {} PROVE FALSE
  OBVIOUS
<1>1. PICK m \in Nat \ T : \A k \in Nat \ T : m <= k
  BY LeastElement
<1>2. m # 0 /\ m - 1 \in Nat /\ m - 1 \in T
  BY <1>1
<1>3. QED
  BY <1>2

-----------------------------------------------------------------------------
(* Sums.                                                                   *)

(* The partial sums of a sequence of naturals exist, ...                   *)
LEMMA PartialSums ==
  ASSUME NEW f \in Seq(Nat)
  PROVE  \E g \in [0 .. Len(f) -> Nat] :
           g[0] = 0 /\ \A i \in 1 .. Len(f) : g[i] = g[i - 1] + f[i]
<1> DEFINE Sums(n) == \E g \in [0 .. n -> Nat] :
                        g[0] = 0 /\ \A i \in 1 .. n : g[i] = g[i - 1] + f[i]
           T == {n \in Nat : n <= Len(f) => Sums(n)}
<1>1. Sums(0)
  <2> DEFINE h == [i \in 0 .. 0 |-> 0]
  <2>1. h \in [0 .. 0 -> Nat] /\ h[0] = 0 /\ \A i \in 1 .. 0 : h[i] = h[i - 1] + f[i]
    OBVIOUS
  <2>2. QED
    BY <2>1
<1>2. ASSUME NEW n \in Nat, Sums(n), n + 1 <= Len(f) PROVE Sums(n + 1)
  <2>1. PICK g \in [0 .. n -> Nat] : g[0] = 0 /\ \A i \in 1 .. n : g[i] = g[i - 1] + f[i]
    BY <1>2
  <2> DEFINE h == [i \in 0 .. n + 1 |-> IF i <= n THEN g[i] ELSE g[n] + f[n + 1]]
  <2>2. f[n + 1] \in Nat /\ g[n] \in Nat
    BY <1>2
  <2>3. h \in [0 .. n + 1 -> Nat]
    BY <2>2
  <2>4. h[0] = 0
    BY <2>1
  <2>5. ASSUME NEW i \in 1 .. n + 1 PROVE h[i] = h[i - 1] + f[i]
    <3>1. CASE i <= n
      BY <2>1, <3>1
    <3>2. CASE i = n + 1
      BY <2>1, <3>2
    <3>3. QED
      BY <3>1, <3>2
  <2>6. QED
    BY <2>3, <2>4, <2>5
<1>3. Nat \subseteq T
  <2> HIDE DEF Sums
  <2>1. \A n \in Nat : n \in T => n + 1 \in T
    BY <1>2
  <2>2. 0 \in T
    BY <1>1
  <2> HIDE DEF T
  <2>3. QED
    BY <2>1, <2>2, NatSetInduction
<1>4. Sums(Len(f))
  <2> HIDE DEF Sums
  <2>1. QED
    BY <1>3
<1>5. QED
  BY <1>4

(* ... and the last of them is the Total: it is at least every summand.    *)
LEMMA TotalBounds ==
  ASSUME NEW f \in Seq(Nat)
  PROVE  Total(f) \in Nat /\ \A i \in 1 .. Len(f) : f[i] <= Total(f)
<1> DEFINE IsSum(h) == h = [i \in 0 .. Len(f) |-> IF i = 0 THEN 0 ELSE h[i - 1] + f[i]]
           sum == CHOOSE h : IsSum(h)
<1>1. PICK g \in [0 .. Len(f) -> Nat] :
        g[0] = 0 /\ \A i \in 1 .. Len(f) : g[i] = g[i - 1] + f[i]
  BY PartialSums
<1>2. IsSum(g)
  BY <1>1
<1>3. Total(f) = sum[Len(f)]
  BY DEF Total
<1>4. IsSum(sum)
  BY <1>2
<1> HIDE DEF sum
<1>5. sum[0] = 0 /\ \A i \in 1 .. Len(f) : sum[i] = sum[i - 1] + f[i]
  <2>1. \A i \in 0 .. Len(f) : sum[i] = IF i = 0 THEN 0 ELSE sum[i - 1] + f[i]
    BY <1>4
  <2>2. 0 \in 0 .. Len(f) /\ 1 .. Len(f) \subseteq 0 .. Len(f)
    OBVIOUS
  <2>3. QED
    BY <2>1, <2>2
<1> DEFINE T == {n \in Nat : n <= Len(f) => sum[n] \in Nat /\ \A i \in 1 .. n : f[i] <= sum[n]}
<1>6. 0 \in T
  BY <1>5
<1>7. ASSUME NEW n \in Nat, n \in T, n + 1 <= Len(f)
      PROVE  sum[n + 1] \in Nat /\ \A i \in 1 .. n + 1 : f[i] <= sum[n + 1]
  <2>1. sum[n + 1] = sum[n] + f[n + 1] /\ f[n + 1] \in Nat /\ sum[n] \in Nat
    BY <1>5, <1>7
  <2>2. ASSUME NEW i \in 1 .. n + 1 PROVE f[i] <= sum[n + 1]
    <3>1. CASE i <= n
      <4>1. f[i] <= sum[n] /\ f[i] \in Nat
        BY <1>7, <3>1
      <4>2. QED
        BY <2>1, <4>1
    <3>2. CASE i = n + 1
      BY <2>1, <3>2
    <3>3. QED
      BY <3>1, <3>2
  <2>3. QED
    BY <2>1, <2>2
<1>8. Nat \subseteq T
  <2>1. \A n \in Nat : n \in T => n + 1 \in T
    BY <1>7
  <2> HIDE DEF T
  <2>2. QED
    BY <1>6, <2>1, NatSetInduction
<1>9. Len(f) \in T
  BY <1>8
<1>10. QED
  BY <1>3, <1>9
-----------------------------------------------------------------------------
(* Folds.  FoldLeft recurses over sets of positions; its recursion has a    *)
(* solution for every step function F.                                     *)

LEMMA MaxOfPositions ==
  ASSUME NEW n \in Nat, NEW s \in SUBSET (1 .. n), s # {}
  PROVE  Max(s) \in s /\ \A i \in s : i <= Max(s)
<1>1. \E m \in s : \A i \in s : m >= i
  <2> DEFINE T == {d \in Nat : n - d \in s}
  <2>1. T \in SUBSET Nat /\ T # {}
    <3>1. PICK i \in s : TRUE
      OBVIOUS
    <3>2. n - i \in Nat /\ n - (n - i) = i
      OBVIOUS
    <3>3. QED
      BY <3>2
  <2>2. PICK d \in T : \A e \in T : d <= e
    <3> HIDE DEF T
    <3>1. QED
      BY <2>1, LeastElement
  <2>3. ASSUME NEW i \in s PROVE n - d >= i
    <3>1. n - i \in Nat /\ n - (n - i) = i
      OBVIOUS
    <3>2. QED
      BY <2>2, <3>1
  <2>4. QED
    BY <2>3
<1>2. QED
  BY <1>1 DEF Max

LEMMA MaxOfPrefix ==
  ASSUME NEW n \in Nat
  PROVE  Max(1 .. n + 1) = n + 1 /\ (1 .. n + 1) \ {n + 1} = 1 .. n
<1>1. n + 1 \in Nat /\ 1 .. n + 1 \in SUBSET (1 .. n + 1) /\ 1 .. n + 1 # {}
  OBVIOUS
<1>2. Max(1 .. n + 1) \in 1 .. n + 1 /\ \A i \in 1 .. n + 1 : i <= Max(1 .. n + 1)
  BY <1>1, MaxOfPositions
<1>3. Max(1 .. n + 1) = n + 1
  BY <1>2
<1>4. QED
  BY <1>3

IsFold(g, base, seq, F) ==
  \A s \in SUBSET (1 .. Len(seq)) :
    g[s] = IF s = {} THEN base ELSE F[<<g[s \ {Max(s)}], seq[Max(s)]>>]

LEMMA FoldSolution ==
  ASSUME NEW A, NEW B, NEW base \in A, NEW seq \in Seq(B), NEW F \in [A \X B -> A]
  PROVE  \E g \in [SUBSET (1 .. Len(seq)) -> A] : IsFold(g, base, seq, F)
<1> USE DEF IsFold
<1> DEFINE Folds(g, n) == \A s \in SUBSET (1 .. n) :
             g[s] = IF s = {} THEN base ELSE F[<<g[s \ {Max(s)}], seq[Max(s)]>>]
           Solved(n) == \E g \in [SUBSET (1 .. n) -> A] : Folds(g, n)
           T == {n \in Nat : n <= Len(seq) => Solved(n)}
<1>1. Solved(0)
  <2> DEFINE h == [s \in SUBSET (1 .. 0) |-> base]
  <2>1. h \in [SUBSET (1 .. 0) -> A] /\ Folds(h, 0)
    OBVIOUS
  <2>2. QED
    BY <2>1
<1>2. ASSUME NEW n \in Nat, Solved(n), n + 1 <= Len(seq) PROVE Solved(n + 1)
  <2>1. PICK g \in [SUBSET (1 .. n) -> A] : Folds(g, n)
    BY <1>2
  <2> DEFINE h == [s \in SUBSET (1 .. n + 1) |->
                     IF n + 1 \in s THEN F[<<g[s \ {n + 1}], seq[n + 1]>>] ELSE g[s]]
  <2>2. seq[n + 1] \in B
    BY <1>2
  <2>3. ASSUME NEW s \in SUBSET (1 .. n + 1)
        PROVE  /\ s \ {n + 1} \in SUBSET (1 .. n)
               /\ n + 1 \notin s => s \in SUBSET (1 .. n)
               /\ n + 1 \in s => Max(s) = n + 1
               /\ h[s] \in A
    <3>1. s \ {n + 1} \in SUBSET (1 .. n) /\ (n + 1 \notin s => s \in SUBSET (1 .. n))
      OBVIOUS
    <3>2. ASSUME n + 1 \in s PROVE Max(s) = n + 1
      <4>1. n + 1 \in Nat /\ s # {}
        BY <3>2
      <4>2. Max(s) \in s /\ \A i \in s : i <= Max(s)
        BY <4>1, MaxOfPositions
      <4>3. Max(s) \in 1 .. n + 1 /\ n + 1 <= Max(s)
        BY <3>2, <4>2
      <4>4. QED
        BY <4>3
    <3>3. h[s] \in A
      BY <2>2, <3>1
    <3>4. QED
      BY <3>1, <3>2, <3>3
  <2>4. ASSUME NEW s \in SUBSET (1 .. n + 1), s # {}
        PROVE  h[s] = F[<<h[s \ {Max(s)}], seq[Max(s)]>>]
    <3>1. CASE n + 1 \in s
      <4>1. h[s \ {n + 1}] = g[s \ {n + 1}]
        BY <2>3
      <4>2. QED
        BY <2>3, <3>1, <4>1
    <3>2. CASE n + 1 \notin s
      <4>1. s \in SUBSET (1 .. n) /\ s \ {Max(s)} \in SUBSET (1 .. n + 1)
        BY <2>3, <3>2
      <4>2. h[s] = g[s] /\ h[s \ {Max(s)}] = g[s \ {Max(s)}]
        BY <3>2, <4>1
      <4>3. g[s] = F[<<g[s \ {Max(s)}], seq[Max(s)]>>]
        BY <2>1, <2>4, <4>1
      <4>4. QED
        BY <4>2, <4>3
    <3>3. QED
      BY <3>1, <3>2
  <2>5. h[{}] = base
    BY <2>1
  <2>6. h \in [SUBSET (1 .. n + 1) -> A]
    BY <2>3
  <2>7. Folds(h, n + 1)
    BY <2>4, <2>5
  <2>8. QED
    BY <2>6, <2>7
<1>3. Solved(Len(seq))
  <2> HIDE DEF Solved
  <2>1. 0 \in T /\ \A n \in Nat : n \in T => n + 1 \in T
    BY <1>1, <1>2
  <2>2. Nat \subseteq T
    <3> HIDE DEF T
    <3>1. QED
      BY <2>1, NatSetInduction
  <2>3. QED
    BY <2>2
<1>4. QED
  BY <1>3

(* What is left of a sequence has elements of the same set.                *)
LEMMA NotBeforeType ==
  ASSUME NEW S, NEW seq \in Seq(S), NEW cutoff
  PROVE  NotBefore(seq, cutoff) \in Seq(S)
<1> DEFINE D == 1 .. Len(seq)
           F == [p \in Seq(S) \X S |->
                   IF p[2].t >= cutoff THEN Append(p[1], p[2]) ELSE p[1]]
           IsIter(h) == h = [s \in SUBSET DOMAIN seq |->
             IF s = {} THEN <<>>
             ELSE IF seq[Max(s)].t >= cutoff THEN Append(h[s \ {Max(s)}], seq[Max(s)])
             ELSE h[s \ {Max(s)}]]
           iter == CHOOSE h : IsIter(h)
<1>1. F \in [Seq(S) \X S -> Seq(S)]
  OBVIOUS
<1>2. PICK g \in [SUBSET D -> Seq(S)] : IsFold(g, <<>>, seq, F)
  <2>1. <<>> \in Seq(S)
    OBVIOUS
  <2> HIDE DEF F
  <2>2. QED
    BY <1>1, <2>1, FoldSolution
<1>3. DOMAIN seq = D
  OBVIOUS
<1>4. ASSUME NEW s \in SUBSET D, s # {}
      PROVE  /\ g[s] = F[<<g[s \ {Max(s)}], seq[Max(s)]>>]
             /\ g[s \ {Max(s)}] \in Seq(S) /\ seq[Max(s)] \in S
  <2>1. Len(seq) \in Nat /\ s \in SUBSET (1 .. Len(seq))
    OBVIOUS
  <2>2. Max(s) \in s
    BY <1>4, <2>1, MaxOfPositions
  <2>3. Max(s) \in 1 .. Len(seq)
    BY <2>2
  <2>4. s \ {Max(s)} \in SUBSET D /\ seq[Max(s)] \in S
    <3>1. seq[Max(s)] \in S
      BY <2>3
    <3>2. QED
      BY <3>1
  <2> HIDE DEF F
  <2>5. QED
    BY <1>2, <1>4, <2>4 DEF IsFold
<1>5. IsIter(g)
  BY <1>2, <1>3, <1>4 DEF IsFold
<1>6. IsIter(iter)
  BY <1>5
<1>7. NotBefore(seq, cutoff) = iter[DOMAIN seq]
  BY DEF NotBefore, FoldLeft, MapThenFoldSet
<1> DEFINE T == {n \in Nat : n <= Len(seq) => iter[1 .. n] \in Seq(S)}
<1> HIDE DEF iter
<1>8. \A s \in SUBSET D :
        iter[s] = IF s = {} THEN <<>>
                  ELSE IF seq[Max(s)].t >= cutoff THEN Append(iter[s \ {Max(s)}], seq[Max(s)])
                  ELSE iter[s \ {Max(s)}]
  BY <1>3, <1>6
<1>9. 0 \in T
  <2>1. 1 .. 0 = {} /\ <<>> \in Seq(S)
    OBVIOUS
  <2>2. QED
    BY <1>8, <2>1
<1>10. ASSUME NEW n \in Nat, n \in T PROVE n + 1 \in T
  <2> SUFFICES ASSUME n + 1 <= Len(seq) PROVE iter[1 .. n + 1] \in Seq(S)
    OBVIOUS
  <2>1. iter[1 .. n] \in Seq(S) /\ seq[n + 1] \in S
    BY <1>10
  <2>2. 1 .. n + 1 \in SUBSET D /\ 1 .. n + 1 # {}
    OBVIOUS
  <2>3. Max(1 .. n + 1) = n + 1 /\ (1 .. n + 1) \ {n + 1} = 1 .. n
    BY MaxOfPrefix
  <2>4. iter[1 .. n + 1] = IF seq[n + 1].t >= cutoff THEN Append(iter[1 .. n], seq[n + 1])
                           ELSE iter[1 .. n]
    BY <1>8, <2>2, <2>3
  <2>5. Append(iter[1 .. n], seq[n + 1]) \in Seq(S)
    BY <2>1
  <2>6. QED
    BY <2>1, <2>4, <2>5
<1>11. Nat \subseteq T
  <2> HIDE DEF T
  <2>1. QED
    BY <1>9, <1>10, NatSetInduction
<1>12. QED
  BY <1>3, <1>7, <1>11

-----------------------------------------------------------------------------
(* The invariant.  A candidate is active exactly while it has contracts,   *)
(* and one without contracts has the time of its loss.  A signal of the    *)
(* cluster is the one in the store.                                        *)

CandidateRecord ==
  [id : Orders, initial : Nat, size : Nat, status : ActiveStatus \union GoneStatus,
   lost : Nat, replaced : Nat]

CandidateOK(c) ==
  /\ c \in CandidateRecord
  /\ c.size > 0 <=> c.status \in ActiveStatus
  /\ c.size = 0 => c.lost > 0

AddEvent == [t : Time, action : {"ADD"}, order : Orders, size : Sizes]

ClusterRecord ==
  [tracked : BOOLEAN, cands : [Candidates -> CandidateRecord],
   refills : Seq([t : Nat, n : Nat]), taken : Nat, from : Nat, until : Nat,
   since : 0 .. MaxTime, exit : 0 .. MaxTime]

ClusterOK(k) ==
  /\ k \in ClusterRecord /\ k.tracked
  /\ \A i \in Candidates : CandidateOK(k.cands[i])

ProxyInv ==
  /\ record \in 0 .. MaxTime /\ adds \in Seq(AddEvent)
  /\ IF cluster.tracked THEN ClusterOK(cluster) ELSE cluster = NoCluster
  /\ cluster.exit > 0 => record = cluster.exit

(* An event leaves the weakness and the signal of the cluster to Assess.   *)
Handled(k, l) == ClusterOK(l) /\ l.since = k.since /\ l.exit = k.exit

-----------------------------------------------------------------------------
(* Lemmas about the operators of the model.                                *)

LEMMA ConstantsNat ==
  /\ Time \subseteq Nat /\ Sizes \subseteq Nat /\ Candidates \subseteq Nat
  /\ \A t \in Time : t > 0 /\ t \in 0 .. MaxTime
  /\ \A n \in Sizes : n > 0
  /\ {Confirm, Gap, Recent, MaxTime, Baseline} \subseteq Nat
  BY ProxyAssumption DEF Time, Candidates

LEMMA InitialBounds ==
  Initial \in Nat /\ \A i \in Candidates : Payload[i].initial \in Nat \ {0} /\ Payload[i].initial <= Initial
<1> DEFINE f == [i \in Candidates |-> Payload[i].initial]
<1>1. \A i \in Candidates : Payload[i].initial \in Nat \ {0}
  <2> DEFINE Order == [id : Orders, initial : Nat \ {0}]
  <2>1. Payload \in Seq(Order)
    BY ProxyAssumption
  <2>2. \A i \in 1 .. Len(Payload) : Payload[i] \in Order
    <3> HIDE DEF Order
    <3>1. QED
      BY <2>1
  <2>3. QED
    BY <2>2 DEF Candidates
<1>2. Len(Payload) \in Nat
  BY ProxyAssumption
<1>3. f \in Seq(Nat) /\ Len(f) = Len(Payload)
  BY <1>1, <1>2, IsASeq DEF Candidates
<1> HIDE DEF f
<1>4. Total(f) \in Nat /\ \A i \in 1 .. Len(f) : f[i] <= Total(f)
  BY <1>3, TotalBounds
<1>5. QED
  BY <1>1, <1>3, <1>4 DEF f, Initial, Candidates

LEMMA AdoptOK ==
  ASSUME NEW c \in CandidateRecord, NEW add \in AddEvent
  PROVE  CandidateOK(Adopt(c, add))
<1>1. add.order \in Orders /\ add.size \in Nat /\ add.size > 0 /\ add.t \in Nat
  BY ConstantsNat DEF AddEvent
<1>2. QED
  BY <1>1 DEF CandidateOK, CandidateRecord, Adopt, ActiveStatus, GoneStatus

(* Of the adds that fit, one is nearest in time and, of these, the first.  *)
LEMMA NearestExists ==
  ASSUME NEW recent \in Seq(AddEvent), NEW t \in Time,
         NEW fits \in SUBSET DOMAIN recent, fits # {}
  PROVE  \E i \in fits : \A j \in fits :
           \/ Distance(recent[i].t, t) < Distance(recent[j].t, t)
           \/ Distance(recent[i].t, t) = Distance(recent[j].t, t) /\ i <= j
<1> DEFINE d(i) == Distance(recent[i].t, t)
           D == {n \in Nat : \E i \in fits : n = d(i)}
<1>1. \A i \in fits : i \in Nat /\ recent[i].t \in Nat
  <2>1. \A i \in DOMAIN recent : i \in Nat /\ recent[i] \in AddEvent
    OBVIOUS
  <2>2. QED
    BY <2>1, ConstantsNat DEF AddEvent
<1>2. \A i \in fits : d(i) \in Nat
  BY <1>1, ConstantsNat DEF Distance
<1> HIDE DEF d
<1>3. D \in SUBSET Nat /\ D # {}
  BY <1>2
<1>4. PICK n \in D : \A m \in D : n <= m
  <2> HIDE DEF D
  <2>1. QED
    BY <1>3, LeastElement
<1> DEFINE N == {i \in fits : d(i) = n}
<1>5. N \in SUBSET Nat /\ N # {}
  BY <1>1, <1>4
<1>6. PICK i \in N : \A j \in N : i <= j
  <2> HIDE DEF N
  <2>1. QED
    BY <1>5, LeastElement
<1>7. ASSUME NEW j \in fits PROVE d(i) < d(j) \/ (d(i) = d(j) /\ i <= j)
  <2>1. d(i) = n /\ d(j) \in D
    BY <1>2
  <2>2. n <= d(j) /\ n \in Nat /\ d(j) \in Nat
    BY <1>2, <1>4, <2>1
  <2>3. CASE d(j) = n
    BY <1>6, <2>1, <2>3
  <2>4. CASE d(j) # n
    BY <2>1, <2>2, <2>4
  <2>5. QED
    BY <2>3, <2>4
<1>8. QED
  BY <1>7 DEF d

LEMMA LoseOK ==
  ASSUME NEW c \in CandidateRecord, NEW t \in Time, NEW status \in GoneStatus,
         NEW recent \in Seq(AddEvent)
  PROVE  CandidateOK(Lose(c, t, status, recent))
<1> DEFINE gone == [c EXCEPT !.status = status, !.size = 0, !.lost = t]
           fits == {i \in DOMAIN recent : Matches(gone, recent[i], t)}
           nearest(i) == \A j \in fits :
             \/ Distance(recent[i].t, t) < Distance(recent[j].t, t)
             \/ Distance(recent[i].t, t) = Distance(recent[j].t, t) /\ i <= j
<1>1. gone \in CandidateRecord /\ CandidateOK(gone)
  <2>1. t \in Nat /\ t > 0
    BY ConstantsNat
  <2>2. gone \in CandidateRecord
    BY <2>1 DEF CandidateRecord
  <2>3. gone.size = 0 /\ gone.lost = t /\ gone.status = status
    BY DEF CandidateRecord
  <2>4. QED
    BY <2>1, <2>2, <2>3 DEF CandidateOK, ActiveStatus, GoneStatus
<1> HIDE DEF gone
<1>2. CASE fits = {}
  BY <1>1, <1>2 DEF Lose, gone
<1>3. CASE fits # {}
  <2> DEFINE best == CHOOSE i \in fits : nearest(i)
  <2>1. \E i \in fits : nearest(i)
    <3> HIDE DEF fits
    <3>1. fits \in SUBSET DOMAIN recent
      BY DEF fits
    <3>2. QED
      BY <1>3, <3>1, NearestExists
  <2>2. best \in fits
    <3> HIDE DEF fits, nearest
    <3>1. QED
      BY <2>1
  <2>3. recent[best] \in AddEvent
    BY <2>2
  <2>4. Lose(c, t, status, recent) = Adopt(gone, recent[best])
    BY <1>3 DEF Lose, gone
  <2> HIDE DEF best
  <2>5. QED
    BY <1>1, <2>3, <2>4, AdoptOK
<1>4. QED
  BY <1>2, <1>3

LEMMA CandidateForOK ==
  ASSUME NEW k, NEW order, CandidateFor(k, order) # 0
  PROVE  CandidateFor(k, order) \in Candidates
<1> DEFINE found == {i \in Candidates : k.cands[i].id = order}
<1>1. found # {} /\ found \in SUBSET Nat
  BY ConstantsNat DEF CandidateFor
<1>2. \E i \in found : \A j \in found : i <= j
  <2> HIDE DEF found
  <2>1. QED
    BY <1>1, LeastElement
<1>3. QED
  BY <1>1, <1>2 DEF CandidateFor

-----------------------------------------------------------------------------
(* Every handler keeps a cluster well-formed.                              *)

(* One candidate is replaced by another one that is well-formed.           *)
LEMMA ReplaceOne ==
  ASSUME NEW k, ClusterOK(k), NEW i \in Candidates, NEW c, CandidateOK(c)
  PROVE  Handled(k, [k EXCEPT !.cands[i] = c])
<1> DEFINE l == [k EXCEPT !.cands[i] = c]
<1>1. c \in CandidateRecord
  BY DEF CandidateOK
<1>2. l \in ClusterRecord /\ l.since = k.since /\ l.exit = k.exit /\ l.tracked = k.tracked
  BY <1>1 DEF ClusterOK, ClusterRecord
<1>3. ASSUME NEW j \in Candidates PROVE CandidateOK(l.cands[j])
  <2>1. k.cands \in [Candidates -> CandidateRecord] /\ l.cands = [k.cands EXCEPT ![i] = c]
    BY DEF ClusterOK, ClusterRecord
  <2>2. l.cands[j] = IF j = i THEN c ELSE k.cands[j]
    BY <2>1
  <2>3. CandidateOK(k.cands[j])
    BY DEF ClusterOK
  <2>4. QED
    BY <2>2, <2>3
<1>4. QED
  BY <1>2, <1>3 DEF Handled, ClusterOK

LEMMA TakeOK ==
  ASSUME NEW k, NEW l, Handled(k, l), NEW n \in Nat
  PROVE  Handled(k, Take(l, n))
<1> DEFINE m == Take(l, n)
<1>1. l \in ClusterRecord /\ l.taken \in Nat
  BY DEF Handled, ClusterOK, ClusterRecord
<1>2. Least(Initial, l.taken + n) \in Nat
  BY <1>1, InitialBounds DEF Least
<1>3. m \in ClusterRecord /\ m.cands = l.cands /\ m.since = l.since /\ m.exit = l.exit /\ m.tracked = l.tracked
  BY <1>1, <1>2 DEF Take, ClusterRecord
<1>4. QED
  BY <1>3 DEF Handled, ClusterOK

LEMMA CandidateOfCluster ==
  ASSUME NEW k, ClusterOK(k), NEW i \in Candidates
  PROVE  /\ CandidateOK(k.cands[i]) /\ k.cands[i] \in CandidateRecord
         /\ k.cands[i].size \in Nat
  BY DEF ClusterOK, CandidateOK, CandidateRecord

LEMMA BackOK ==
  ASSUME NEW c \in CandidateRecord, NEW size \in Nat, size > 0
  PROVE  CandidateOK(Back(c, size)) /\ CandidateOK([Back(c, size) EXCEPT !.lost = 0])
<1>1. Back(c, size) \in CandidateRecord /\ Back(c, size).size = size
        /\ Back(c, size).status \in ActiveStatus
  BY DEF Back, CandidateRecord, ActiveStatus, GoneStatus
<1> DEFINE b == Back(c, size)
<1> HIDE DEF b
<1>2. b \in CandidateRecord /\ b.size = size /\ b.status \in ActiveStatus
  BY <1>1 DEF b
<1>3. CandidateOK(b) /\ CandidateOK([b EXCEPT !.lost = 0])
  BY <1>2 DEF CandidateOK, CandidateRecord
<1>4. QED
  BY <1>3 DEF b

LEMMA ApplyAddOK ==
  ASSUME NEW k, ClusterOK(k), NEW e \in AddEvent
  PROVE  Handled(k, ApplyAdd(k, e))
<1> DEFINE i == CandidateFor(k, e.order)
           waiting == {j \in Candidates : /\ ~IsActive(k.cands[j]) /\ k.cands[j].lost > 0
                                          /\ Matches(k.cands[j], e, k.cands[j].lost)}
           first == CHOOSE j \in waiting : \A l \in waiting : j <= l
<1>1. e.size \in Nat /\ e.size > 0
  BY ConstantsNat DEF AddEvent
<1>2. CASE i # 0
  <2>1. i \in Candidates
    BY <1>2, CandidateForOK
  <2>2. CandidateOK([Back(k.cands[i], e.size) EXCEPT !.lost = 0])
    BY <1>1, <2>1, CandidateOfCluster, BackOK
  <2>3. ApplyAdd(k, e) = [k EXCEPT !.cands[i] = [Back(k.cands[i], e.size) EXCEPT !.lost = 0]]
    BY <1>2, <2>1 DEF ApplyAdd, ClusterOK, ClusterRecord
  <2> HIDE DEF i
  <2>4. QED
    BY <2>1, <2>2, <2>3, ReplaceOne
<1>3. CASE i = 0 /\ waiting = {}
  BY <1>3 DEF ApplyAdd, Handled
<1>4. CASE i = 0 /\ waiting # {}
  <2>1. \E j \in waiting : \A l \in waiting : j <= l
    <3>1. waiting \in SUBSET Nat /\ waiting # {}
      BY <1>4, ConstantsNat
    <3> HIDE DEF waiting
    <3>2. QED
      BY <3>1, LeastElement
  <2>2. first \in Candidates
    BY <2>1
  <2>3. CandidateOK(Adopt(k.cands[first], e))
    BY <2>2, CandidateOfCluster, AdoptOK
  <2>4. ApplyAdd(k, e) = [k EXCEPT !.cands[first] = Adopt(k.cands[first], e)]
    BY <1>4, <2>2 DEF ApplyAdd, ClusterOK, ClusterRecord
  <2> HIDE DEF first
  <2>5. QED
    BY <2>2, <2>3, <2>4, ReplaceOne
<1>5. QED
  BY <1>2, <1>3, <1>4

LEMMA ApplyClearOK ==
  ASSUME NEW k, ClusterOK(k), NEW e, e.t \in Time, NEW recent \in Seq(AddEvent)
  PROVE  Handled(k, ApplyClear(k, e, recent))
<1> DEFINE l == ApplyClear(k, e, recent)
<1>1. ASSUME NEW i \in Candidates
      PROVE  CandidateOK(IF IsActive(k.cands[i]) THEN Lose(k.cands[i], e.t, "LOST", recent) ELSE k.cands[i])
  BY CandidateOfCluster, LoseOK DEF GoneStatus
<1>2. l.cands = [i \in Candidates |->
        IF IsActive(k.cands[i]) THEN Lose(k.cands[i], e.t, "LOST", recent) ELSE k.cands[i]]
  BY DEF ApplyClear, ClusterOK, ClusterRecord
<1>3. l.cands \in [Candidates -> CandidateRecord] /\ \A i \in Candidates : CandidateOK(l.cands[i])
  BY <1>1, <1>2 DEF CandidateOK
<1>4. l = [k EXCEPT !.cands = l.cands]
  BY <1>2 DEF ApplyClear, ClusterOK, ClusterRecord
<1> HIDE DEF l
<1>5. l \in ClusterRecord /\ l.since = k.since /\ l.exit = k.exit /\ l.tracked = k.tracked
  BY <1>3, <1>4 DEF ClusterOK, ClusterRecord
<1>6. Handled(k, l)
  BY <1>3, <1>5 DEF Handled, ClusterOK
<1>7. QED
  BY <1>6 DEF l

LEMMA ApplyModifyOK ==
  ASSUME NEW k, ClusterOK(k), NEW i \in Candidates, NEW e, e.t \in Time, e.size \in Nat,
         NEW recent \in Seq(AddEvent)
  PROVE  Handled(k, ApplyModify(k, i, e, recent))
<1> DEFINE c == k.cands[i]
           size == IF e.size > 0 THEN e.size ELSE c.size
<1>1. CandidateOK(c) /\ c \in CandidateRecord /\ c.size \in Nat /\ size \in Nat
  BY CandidateOfCluster
<1>2. k \in ClusterRecord
  BY DEF ClusterOK
<1>3. CASE size > c.size
  <2> DEFINE l == [k EXCEPT !.cands[i] = Back(c, size)]
             more == Append(l.refills, [t |-> e.t, n |-> size - c.size])
  <2>1. CandidateOK(Back(c, size))
    <3> HIDE DEF c, size
    <3>1. size > 0
      BY <1>1, <1>3
    <3>2. QED
      BY <1>1, <3>1, BackOK
  <2>2. Handled(k, l)
    BY <2>1, ReplaceOne
  <2>3. ApplyModify(k, i, e, recent) = [l EXCEPT !.refills = more]
    BY <1>2, <1>3 DEF ApplyModify, ClusterRecord
  <2> HIDE DEF l
  <2>4. more \in Seq([t : Nat, n : Nat])
    <3>1. [t |-> e.t, n |-> size - c.size] \in [t : Nat, n : Nat]
      <4> HIDE DEF c, size
      <4>1. e.t \in Nat
        BY ConstantsNat
      <4>2. size - c.size \in Nat
        BY <1>1, <1>3
      <4>3. QED
        BY <4>1, <4>2
    <3>2. l.refills \in Seq([t : Nat, n : Nat])
      BY <2>2 DEF Handled, ClusterOK, ClusterRecord
    <3>3. QED
      BY <3>1, <3>2, AppendProperties
  <2> HIDE DEF more
  <2>5. l \in ClusterRecord
    BY <2>2 DEF Handled, ClusterOK
  <2>6. /\ [l EXCEPT !.refills = more] \in ClusterRecord
        /\ [l EXCEPT !.refills = more].cands = l.cands
        /\ [l EXCEPT !.refills = more].tracked = l.tracked
        /\ [l EXCEPT !.refills = more].since = l.since
        /\ [l EXCEPT !.refills = more].exit = l.exit
    BY <2>4, <2>5 DEF ClusterRecord
  <2>7. QED
    BY <2>2, <2>3, <2>6 DEF Handled, ClusterOK
<1>4. CASE size < c.size
  <2> DEFINE d == [c EXCEPT !.status = "REDUCED", !.size = size]
  <2>1. size > 0
    BY <1>1, <1>4
  <2>2. CandidateOK(d)
    <3> HIDE DEF c, size
    <3>1. d \in CandidateRecord /\ d.size = size /\ d.status = "REDUCED"
      BY <1>1 DEF CandidateRecord, ActiveStatus
    <3>2. QED
      BY <2>1, <3>1 DEF CandidateOK, ActiveStatus
  <2>3. Handled(k, [k EXCEPT !.cands[i] = d])
    BY <2>2, ReplaceOne
  <2>4. c.size - size \in Nat
    BY <1>1, <1>4
  <2>5. ApplyModify(k, i, e, recent) = Take([k EXCEPT !.cands[i] = d], c.size - size)
    BY <1>1, <1>4 DEF ApplyModify
  <2> HIDE DEF d, c, size
  <2>6. QED
    BY <2>3, <2>4, <2>5, TakeOK
<1>5. CASE size = c.size /\ size = 0
  <2>1. c.status \in GoneStatus
    BY <1>1, <1>5 DEF CandidateOK, CandidateRecord
  <2>2. CandidateOK(Lose(c, e.t, c.status, recent))
    BY <1>1, <2>1, LoseOK
  <2>3. ApplyModify(k, i, e, recent) = [k EXCEPT !.cands[i] = Lose(c, e.t, c.status, recent)]
    BY <1>5 DEF ApplyModify
  <2> HIDE DEF c
  <2>4. QED
    BY <2>2, <2>3, ReplaceOne
<1>6. CASE size = c.size /\ size # 0
  <2>1. ApplyModify(k, i, e, recent) = k
    BY <1>1, <1>6 DEF ApplyModify
  <2>2. QED
    BY <2>1 DEF Handled
<1>7. QED
  BY <1>1, <1>3, <1>4, <1>5, <1>6

LEMMA LeastNat ==
  ASSUME NEW a \in Nat, NEW b \in Nat
  PROVE  Least(a, b) \in Nat /\ Least(a, b) <= b /\ b - Least(a, b) \in Nat
  BY DEF Least

LEMMA ApplyFillOK ==
  ASSUME NEW k, ClusterOK(k), NEW i \in Candidates, NEW e, e.t \in Time, e.size \in Nat,
         NEW recent \in Seq(AddEvent)
  PROVE  Handled(k, ApplyFill(k, i, e, recent))
<1> DEFINE c == k.cands[i]
           executed == IF e.size > 0 THEN e.size ELSE c.size
           left == c.size - Least(executed, c.size)
           d == IF left > 0 THEN [c EXCEPT !.size = left]
                ELSE Lose([c EXCEPT !.size = 0], e.t, "FILLED", recent)
<1>1. CandidateOK(c) /\ c \in CandidateRecord /\ c.size \in Nat /\ executed \in Nat
  BY CandidateOfCluster
<1>2. left \in Nat
  BY <1>1, LeastNat
<1>3. CandidateOK(d)
  <2>1. CASE left > 0
    <3>1. c.size > 0
      <4> HIDE DEF c, executed
      <4>1. Least(executed, c.size) \in Nat
        BY <1>1, LeastNat
      <4>2. QED
        BY <1>1, <2>1, <4>1
    <3> HIDE DEF c, left
    <3>2. [c EXCEPT !.size = left] \in CandidateRecord
      BY <1>1, <1>2 DEF CandidateRecord
    <3>3. QED
      BY <1>1, <1>2, <2>1, <3>1, <3>2 DEF CandidateOK, CandidateRecord
  <2>2. CASE ~(left > 0)
    <3>1. [c EXCEPT !.size = 0] \in CandidateRecord
      BY <1>1 DEF CandidateRecord
    <3>2. CandidateOK(Lose([c EXCEPT !.size = 0], e.t, "FILLED", recent))
      BY <3>1, LoseOK DEF GoneStatus
    <3>3. QED
      BY <2>2, <3>2
  <2>3. QED
    BY <2>1, <2>2
<1>4. ApplyFill(k, i, e, recent) = Take([k EXCEPT !.cands[i] = d], executed)
  BY DEF ApplyFill
<1> HIDE DEF d, executed
<1>5. Handled(k, [k EXCEPT !.cands[i] = d])
  BY <1>3, ReplaceOne
<1>6. QED
  BY <1>1, <1>4, <1>5, TakeOK

LEMMA ApplyCancelOK ==
  ASSUME NEW k, ClusterOK(k), NEW i \in Candidates, NEW e, e.t \in Time, e.size \in Nat,
         NEW recent \in Seq(AddEvent)
  PROVE  Handled(k, ApplyCancel(k, i, e, recent))
<1> DEFINE c == k.cands[i]
           wanted == IF e.size > 0 THEN e.size ELSE c.size
           cancelled == IF c.size > 0 THEN Least(wanted, c.size) ELSE wanted
           left == c.size - Least(cancelled, c.size)
           d == IF left > 0 THEN [c EXCEPT !.status = "REDUCED", !.size = left]
                ELSE Lose(c, e.t, "CANCELLED", recent)
<1>1. CandidateOK(c) /\ c \in CandidateRecord /\ c.size \in Nat /\ wanted \in Nat
  BY CandidateOfCluster
<1>2. cancelled \in Nat
  BY <1>1, LeastNat
<1>3. left \in Nat
  BY <1>1, <1>2, LeastNat
<1>4. CandidateOK(d)
  <2>1. CASE left > 0
    <3> HIDE DEF c, left
    <3>1. [c EXCEPT !.status = "REDUCED", !.size = left] \in CandidateRecord
      BY <1>1, <1>3 DEF CandidateRecord, ActiveStatus
    <3>2. QED
      BY <1>1, <1>3, <2>1, <3>1 DEF CandidateOK, CandidateRecord, ActiveStatus
  <2>2. CASE ~(left > 0)
    <3>1. CandidateOK(Lose(c, e.t, "CANCELLED", recent))
      BY <1>1, LoseOK DEF GoneStatus
    <3>2. QED
      BY <2>2, <3>1
  <2>3. QED
    BY <2>1, <2>2
<1>5. ApplyCancel(k, i, e, recent) = Take([k EXCEPT !.cands[i] = d], cancelled)
  BY DEF ApplyCancel
<1> HIDE DEF d, cancelled
<1>6. Handled(k, [k EXCEPT !.cands[i] = d])
  BY <1>4, ReplaceOne
<1>7. QED
  BY <1>2, <1>5, <1>6, TakeOK

(* The events and the whole handler.                                       *)
LEMMA ApplyOK ==
  ASSUME NEW k, ClusterOK(k), NEW e \in Event, NEW recent \in Seq(AddEvent)
  PROVE  Handled(k, Apply(k, e, recent))
<1> DEFINE i == CandidateFor(k, e.order)
<1>1. e.t \in Time /\ e.size \in Nat
        /\ e.action \in {"ADD", "CLEAR", "MODIFY", "FILL", "CANCEL"}
  <2> DEFINE Size == Sizes \union {0}
  <2>1. Sizes \subseteq Nat /\ Size \subseteq Nat
    BY ConstantsNat
  <2>2. CASE e \in [t : Time, action : {"ADD"}, order : Orders, size : Sizes]
    BY <2>1, <2>2
  <2>3. CASE e \in [t : Time, action : {"MODIFY", "FILL", "CANCEL"}, order : Orders,
                    size : Size]
    <3> HIDE DEF Size
    <3>1. QED
      BY <2>1, <2>3
  <2>4. CASE e \in [t : Time, action : {"CLEAR"}, order : {""}, size : {0}]
    <3>1. e.t \in Time /\ e.size = 0 /\ e.action = "CLEAR"
      BY <2>4
    <3>2. QED
      BY <3>1
  <2>5. QED
    BY <2>2, <2>3, <2>4 DEF Event
<1>2. CASE e.action = "ADD"
  <2>1. e \in AddEvent
    BY <1>2 DEF Event, AddEvent
  <2>2. Apply(k, e, recent) = ApplyAdd(k, e)
    BY <1>2 DEF Apply
  <2>3. QED
    BY <2>1, <2>2, ApplyAddOK
<1>3. CASE e.action = "CLEAR"
  <2>1. Apply(k, e, recent) = ApplyClear(k, e, recent)
    BY <1>3 DEF Apply
  <2>2. QED
    BY <1>1, <2>1, ApplyClearOK
<1>4. CASE e.action \notin {"ADD", "CLEAR"} /\ i = 0
  BY <1>4 DEF Apply, Handled
<1>5. CASE e.action = "MODIFY" /\ i # 0
  <2>1. Apply(k, e, recent) = ApplyModify(k, i, e, recent) /\ i \in Candidates
    BY <1>5, CandidateForOK DEF Apply
  <2> HIDE DEF i
  <2>2. QED
    BY <1>1, <2>1, ApplyModifyOK
<1>6. CASE e.action = "FILL" /\ i # 0
  <2>1. Apply(k, e, recent) = ApplyFill(k, i, e, recent) /\ i \in Candidates
    BY <1>6, CandidateForOK DEF Apply
  <2> HIDE DEF i
  <2>2. QED
    BY <1>1, <2>1, ApplyFillOK
<1>7. CASE e.action = "CANCEL" /\ i # 0
  <2>1. Apply(k, e, recent) = ApplyCancel(k, i, e, recent) /\ i \in Candidates
    BY <1>7, CandidateForOK DEF Apply
  <2> HIDE DEF i
  <2>2. QED
    BY <1>1, <2>1, ApplyCancelOK
<1>8. QED
  BY <1>1, <1>2, <1>3, <1>4, <1>5, <1>6, <1>7

LEMMA PrunedOK ==
  ASSUME NEW k, NEW l, Handled(k, l), NEW now
  PROVE  Handled(k, Pruned(l, now))
<1> DEFINE m == Pruned(l, now)
           A == [t : Nat, n : Nat]
<1>1. l \in ClusterRecord /\ l.refills \in Seq(A)
  BY DEF Handled, ClusterOK, ClusterRecord
<1>2. NotBefore(l.refills, now - Recent) \in Seq(A)
  <2> HIDE DEF A
  <2>1. QED
    BY <1>1, NotBeforeType
<1>3. m \in ClusterRecord /\ m.cands = l.cands /\ m.since = l.since /\ m.exit = l.exit /\ m.tracked = l.tracked
  BY <1>1, <1>2 DEF Pruned, ClusterRecord
<1>4. QED
  BY <1>3 DEF Handled, ClusterOK

LEMMA RememberedOK ==
  ASSUME adds \in Seq(AddEvent), NEW e \in Event
  PROVE  Remembered(e) \in Seq(AddEvent)
<1>1. CASE e.action = "ADD"
  <2>1. e \in AddEvent
    BY <1>1 DEF Event, AddEvent
  <2>2. Append(adds, e) \in Seq(AddEvent)
    BY <2>1
  <2>3. QED
    BY <1>1, <2>2, NotBeforeType DEF Remembered
<1>2. CASE e.action # "ADD"
  BY <1>2 DEF Remembered
<1>3. QED
  BY <1>1, <1>2

(* Assess sets the times of the weakness and of the signal, nothing else.  *)
LEMMA AssessOK ==
  ASSUME NEW k, ClusterOK(k), NEW now \in Time
  PROVE  /\ ClusterOK(Assess(k, now))
         /\ Assess(k, now) = [k EXCEPT !.since = Assess(k, now).since, !.exit = Assess(k, now).exit]
<1>1. now \in 0 .. MaxTime /\ 0 \in 0 .. MaxTime
  BY ConstantsNat
<1>2. k \in ClusterRecord
  BY DEF ClusterOK
<1>3. Assess(k, now) \in {k, [k EXCEPT !.since = 0], [k EXCEPT !.since = now], [k EXCEPT !.exit = now]}
  BY DEF Assess
<1>4. ASSUME NEW l \in {k, [k EXCEPT !.since = 0], [k EXCEPT !.since = now], [k EXCEPT !.exit = now]}
      PROVE  /\ l \in ClusterRecord /\ l.cands = k.cands /\ l.tracked = k.tracked
             /\ l = [k EXCEPT !.since = l.since, !.exit = l.exit]
  BY <1>1, <1>2 DEF ClusterRecord
<1>5. QED
  BY <1>3, <1>4 DEF ClusterOK

LEMMA NoClusterFacts ==
  /\ ~NoCluster.tracked /\ NoCluster.since = 0 /\ NoCluster.exit = 0
  BY DEF NoCluster

-----------------------------------------------------------------------------
LEMMA InitInv == Init => ProxyInv
  BY ConstantsNat, NoClusterFacts DEF Init, ProxyInv

(* A position is tracked with candidates that are active or lost.          *)
LEMMA StartOK ==
  ASSUME ProxyInv, StartTracking
  PROVE  /\ cluster'.tracked /\ ClusterOK(cluster') /\ cluster'.since = 0 /\ cluster'.exit = 0
         /\ UNCHANGED <<adds, record>> /\ at' = 0
<1>1. PICK size \in [Candidates -> Sizes \union {0}], window \in Windows, seen \in Time :
        cluster' = [NoCluster EXCEPT
          !.tracked = TRUE, !.from = window.from, !.until = window.until,
          !.cands = [i \in Candidates |->
            [id |-> Payload[i].id, initial |-> Payload[i].initial, size |-> size[i],
             status |-> IF size[i] > 0 THEN "ACTIVE" ELSE "LOST",
             lost |-> IF size[i] > 0 THEN 0 ELSE seen, replaced |-> 0]]]
  BY DEF StartTracking
<1> DEFINE cand(i) == [id |-> Payload[i].id, initial |-> Payload[i].initial, size |-> size[i],
                       status |-> IF size[i] > 0 THEN "ACTIVE" ELSE "LOST",
                       lost |-> IF size[i] > 0 THEN 0 ELSE seen, replaced |-> 0]
           cands == [i \in Candidates |-> cand(i)]
<1>2. ASSUME NEW i \in Candidates PROVE CandidateOK(cand(i))
  <2>1. Payload[i].initial \in Nat /\ Payload[i].id \in Orders
    <3> DEFINE Order == [id : Orders, initial : Nat \ {0}]
    <3>1. Payload \in Seq(Order)
      BY ProxyAssumption
    <3>2. Payload[i] \in Order
      <4> HIDE DEF Order
      <4>1. QED
        BY <3>1 DEF Candidates
    <3>3. QED
      BY <3>2
  <2>2. size[i] \in Nat
    <3> DEFINE Size == Sizes \union {0}
    <3>1. Size \subseteq Nat
      BY ConstantsNat
    <3> HIDE DEF Size
    <3>2. QED
      BY <3>1 DEF Size
  <2>3. seen \in Nat /\ seen > 0
    BY ConstantsNat
  <2>4. QED
    BY <2>1, <2>2, <2>3 DEF CandidateOK, CandidateRecord, ActiveStatus, GoneStatus
<1> HIDE DEF cand
<1>3. cands \in [Candidates -> CandidateRecord] /\ \A i \in Candidates : CandidateOK(cands[i])
  BY <1>2 DEF CandidateOK
<1>4. cluster' = [NoCluster EXCEPT !.tracked = TRUE, !.from = window.from,
                                   !.until = window.until, !.cands = cands]
  BY <1>1 DEF cand
<1> HIDE DEF cands
<1>5. window.from \in Nat /\ window.until \in Nat
  BY ProxyAssumption
<1>6. cluster' = [tracked |-> TRUE, cands |-> cands, refills |-> <<>>, taken |-> 0,
                  from |-> window.from, until |-> window.until, since |-> 0, exit |-> 0]
  BY <1>4 DEF NoCluster
<1>7. <<>> \in Seq([t : Nat, n : Nat]) /\ 0 \in 0 .. MaxTime
  BY ConstantsNat
<1>8. cluster' \in ClusterRecord
  BY <1>3, <1>5, <1>6, <1>7 DEF ClusterRecord
<1>9. QED
  BY <1>3, <1>6, <1>8 DEF ClusterOK, StartTracking

(* A raw event: a well-formed cluster is assessed at the time of the event,*)
(* with the weakness and the signal of the cluster before.                 *)
LEMMA EventOK ==
  ASSUME ProxyInv, RawEvent
  PROVE  /\ cluster.tracked /\ adds' \in Seq(AddEvent) /\ at' \in Time
         /\ record' = IF cluster'.exit # cluster.exit THEN cluster'.exit ELSE record
         /\ \E k : ClusterOK(k) /\ k.since = cluster.since /\ k.exit = cluster.exit
                   /\ cluster' = Assess(k, at')
<1>1. PICK e \in Event :
        /\ cluster.tracked /\ adds' = Remembered(e)
        /\ cluster' = Assess(Pruned(Apply(cluster, e, Remembered(e)), e.t), e.t)
        /\ record' = IF cluster'.exit # cluster.exit THEN cluster'.exit ELSE record
        /\ at' = e.t
  BY DEF RawEvent
<1>2. ClusterOK(cluster) /\ adds \in Seq(AddEvent)
  BY <1>1 DEF ProxyInv
<1>3. Remembered(e) \in Seq(AddEvent)
  BY <1>2, RememberedOK
<1>4. Handled(cluster, Pruned(Apply(cluster, e, Remembered(e)), e.t))
  BY <1>2, <1>3, ApplyOK, PrunedOK
<1>5. e.t \in Time
  BY DEF Event
<1>6. QED
  BY <1>1, <1>3, <1>4, <1>5 DEF Handled

LEMMA StepInv == ProxyInv /\ [Next]_vars => ProxyInv'
<1> SUFFICES ASSUME ProxyInv, [Next]_vars PROVE ProxyInv'
  OBVIOUS
<1>1. CASE StartTracking
  BY <1>1, StartOK DEF ProxyInv
<1>2. CASE StopTracking
  BY <1>2, NoClusterFacts DEF StopTracking, ProxyInv
<1>3. CASE RawEvent
  <2>1. PICK k : ClusterOK(k) /\ k.since = cluster.since /\ k.exit = cluster.exit
                 /\ cluster' = Assess(k, at')
    BY <1>3, EventOK
  <2>2. at' \in Time /\ adds' \in Seq(AddEvent)
        /\ record' = IF cluster'.exit # cluster.exit THEN cluster'.exit ELSE record
    BY <1>3, EventOK
  <2>3. ClusterOK(cluster')
    BY <2>1, <2>2, AssessOK
  <2>4. cluster'.tracked /\ cluster'.exit \in 0 .. MaxTime
    BY <2>3 DEF ClusterOK, ClusterRecord
  <2>5. QED
    BY <2>2, <2>3, <2>4 DEF ProxyInv
<1>4. CASE UNCHANGED vars
  BY <1>4 DEF vars, ProxyInv
<1>5. QED
  BY <1>1, <1>2, <1>3, <1>4 DEF Next

(* The proxy's state is well-formed, and the signal of a cluster that is   *)
(* tracked is the one in the store: get_exit_signal cannot fall back to an *)
(* older one while the cluster has its own.                                *)
THEOREM ProxyInvariant == Spec => []ProxyInv
<1>1. Init => ProxyInv
  BY InitInv
<1>2. ProxyInv /\ [Next]_vars => ProxyInv'
  BY StepInv
<1>3. QED
  BY <1>1, <1>2, PTL DEF Spec

(* A candidate is active exactly while it has contracts, and one that is   *)
(* gone waits for a replacement from the time of its loss on, whatever     *)
(* events come, in whatever order and however often.                       *)
THEOREM GoneWaits == Spec => []GoneWaitsForReplacement
<1>1. ProxyInv => GoneWaitsForReplacement
  <2> SUFFICES ASSUME ProxyInv, cluster.tracked, NEW i \in Candidates
               PROVE  LET c == cluster.cands[i]
                      IN /\ IsActive(c) <=> c.size > 0
                         /\ ~IsActive(c) => c.status \in GoneStatus /\ c.lost > 0
    BY DEF GoneWaitsForReplacement
  <2>1. CandidateOK(cluster.cands[i]) /\ cluster.cands[i] \in CandidateRecord
    BY CandidateOfCluster DEF ProxyInv
  <2>2. QED
    BY <2>1 DEF CandidateOK, CandidateRecord, IsActive
<1>2. QED
  BY <1>1, ProxyInvariant, PTL

-----------------------------------------------------------------------------
(* Weakness.                                                               *)

(* A cluster without contracts has only candidates that are gone.          *)
LEMMA NoContracts ==
  ASSUME NEW k, ClusterOK(k), ActiveContracts(k) = 0
  PROVE  \A i \in Candidates : ~IsActive(k.cands[i]) /\ k.cands[i].status \in GoneStatus
<1> DEFINE f == [i \in Candidates |-> IF IsActive(k.cands[i]) THEN k.cands[i].size ELSE 0]
<1>1. \A i \in Candidates : f[i] \in Nat
  BY CandidateOfCluster
<1>2. f \in Seq(Nat) /\ Len(f) = Len(Payload)
  <2>1. Len(Payload) \in Nat
    BY ProxyAssumption
  <2>2. QED
    BY <1>1, <2>1, IsASeq DEF Candidates
<1>3. Total(f) = 0
  BY DEF ActiveContracts
<1>4. \A i \in Candidates : f[i] <= 0
  <2> HIDE DEF f
  <2>1. QED
    BY <1>2, <1>3, TotalBounds DEF Candidates
<1>5. ASSUME NEW i \in Candidates
      PROVE  ~IsActive(k.cands[i]) /\ k.cands[i].status \in GoneStatus
  <2>1. CandidateOK(k.cands[i]) /\ k.cands[i] \in CandidateRecord /\ k.cands[i].size \in Nat
    BY CandidateOfCluster
  <2>2. ~IsActive(k.cands[i])
    BY <1>4, <2>1 DEF IsActive
  <2>3. QED
    BY <2>1, <2>2 DEF CandidateOK, CandidateRecord, IsActive
<1>6. QED
  BY <1>5

LEMMA GoneIsWeak ==
  ASSUME Payload # <<>>, NEW k, ClusterOK(k), NEW now \in Time,
         ActiveContracts(k) = 0, RefillDropped(k), ~ReplacedWithin(k, now, Confirm)
  PROVE  Weak(k, now)
<1>1. 1 \in Candidates
  BY ProxyAssumption DEF Candidates
<1>2. Initial \in Nat /\ Initial > 0
  BY <1>1, InitialBounds
<1>3. k.taken \in Nat
  BY DEF ClusterOK, ClusterRecord
<1>4. RatioLow(k)
  BY <1>2 DEF RatioLow
<1>5. ~IsActive(k.cands[1]) /\ k.cands[1].status \in GoneStatus
  BY <1>1, NoContracts
<1>6. Score(k, now) >= 65 * Initial
  BY <1>2, <1>3, <1>4, <1>5 DEF Score
<1>7. QED
  BY <1>1, <1>4, <1>5, <1>6 DEF Weak

(* When no contract of the actors is left, nothing has replaced them and   *)
(* nothing is refilled, the cluster is found weak at once, for every       *)
(* payload that has an order: one without gives no signal ever, as         *)
(* _exit_conditions_met asks for total_tracked_initial_contracts > 0.      *)
THEOREM AllGone == Payload # <<>> => (Spec => []AllGoneIsWeak)
<1> SUFFICES ASSUME Payload # <<>> PROVE Spec => []AllGoneIsWeak
  OBVIOUS
<1>1. Init => AllGoneIsWeak
  BY NoClusterFacts DEF Init, AllGoneIsWeak
<1>2. ProxyInv /\ AllGoneIsWeak /\ [Next]_vars => AllGoneIsWeak'
  <2> SUFFICES ASSUME ProxyInv, AllGoneIsWeak, [Next]_vars PROVE AllGoneIsWeak'
    OBVIOUS
  <2>1. CASE StartTracking
    BY <2>1 DEF StartTracking, AllGoneIsWeak
  <2>2. CASE StopTracking
    BY <2>2 DEF StopTracking, AllGoneIsWeak
  <2>3. CASE RawEvent
    <3>1. PICK k : ClusterOK(k) /\ k.since = cluster.since /\ k.exit = cluster.exit
                   /\ cluster' = Assess(k, at')
      BY <2>3, EventOK
    <3>2. at' \in Time /\ at' > 0
      BY <2>3, EventOK, ConstantsNat
    <3>3. k \in ClusterRecord
      BY <3>1 DEF ClusterOK
    <3>4. cluster'.cands = k.cands /\ cluster'.refills = k.refills
      <4>1. cluster' = [k EXCEPT !.since = cluster'.since, !.exit = cluster'.exit]
        BY <3>1, <3>2, AssessOK
      <4>2. QED
        BY <3>3, <4>1 DEF ClusterRecord
    <3>5. ASSUME ActiveContracts(cluster') = 0, RefillDropped(cluster'),
                 ~ReplacedWithin(cluster', at', Confirm)
          PROVE  cluster'.since > 0 \/ cluster'.exit > 0
      <4>1. ActiveContracts(k) = 0 /\ RefillDropped(k) /\ ~ReplacedWithin(k, at', Confirm)
        BY <3>4, <3>5 DEF ActiveContracts, RefillDropped, ReplacedWithin
      <4>2. Weak(k, at')
        BY <3>1, <3>2, <4>1, GoneIsWeak
      <4>3. k.since \in Nat /\ k.exit \in Nat
        BY <3>3, ConstantsNat DEF ClusterRecord
      <4>4. QED
        BY <3>1, <3>2, <3>3, <4>2, <4>3 DEF Assess, ClusterRecord
    <3>6. QED
      BY <3>5 DEF AllGoneIsWeak
  <2>4. CASE UNCHANGED vars
    BY <2>4 DEF vars, AllGoneIsWeak, ActiveContracts, RefillDropped, ReplacedWithin
  <2>5. QED
    BY <2>1, <2>2, <2>3, <2>4 DEF Next
<1>3. QED
  BY <1>1, <1>2, ProxyInvariant, PTL DEF Spec

-----------------------------------------------------------------------------
(* The promise of ActorWatch.                                              *)

phaseBar == IF ~cluster.tracked THEN "off" ELSE IF cluster.exit > 0 THEN "exited"
            ELSE IF cluster.since > 0 THEN "weak" ELSE "watched"
answerBar == IF cluster.exit > 0 THEN cluster.exit ELSE record

(* Starting anew and stopping leave the answer as it is.                   *)
LEMMA AnswerKept ==
  ASSUME ProxyInv, record' = record, cluster'.exit = 0
  PROVE  answerBar' = answerBar
  BY DEF ProxyInv, answerBar

(* An event is a step of the watch or changes nothing it speaks of.        *)
LEMMA EventWatched ==
  ASSUME ProxyInv, RawEvent
  PROVE  Watch!Next \/ UNCHANGED <<phaseBar, cluster.since, answerBar>>
<1>1. PICK k : ClusterOK(k) /\ k.since = cluster.since /\ k.exit = cluster.exit
               /\ cluster' = Assess(k, at')
  BY EventOK
<1>2. /\ at' \in Time /\ at' > 0 /\ cluster.tracked
      /\ record' = IF cluster'.exit # cluster.exit THEN cluster'.exit ELSE record
  BY EventOK, ConstantsNat
<1>3. k \in ClusterRecord /\ k.tracked /\ k.since \in Nat /\ k.exit \in Nat
  BY <1>1, ConstantsNat DEF ClusterOK, ClusterRecord
<1>4. CASE k.exit # 0
  <2>1. cluster' = k
    BY <1>1, <1>4 DEF Assess
  <2>2. QED
    BY <1>1, <1>2, <1>3, <2>1 DEF phaseBar, answerBar
<1>5. CASE k.exit = 0 /\ ~Weak(k, at')
  <2>1. cluster' = [k EXCEPT !.since = 0]
    BY <1>1, <1>5 DEF Assess
  <2>2. cluster'.since = 0 /\ cluster'.exit = 0 /\ cluster'.tracked
    BY <1>3, <1>5, <2>1 DEF ClusterRecord
  <2>3. CASE k.since = 0
    BY <1>1, <1>2, <1>5, <2>2, <2>3 DEF phaseBar, answerBar
  <2>4. CASE k.since # 0
    <3>1. Watch!Recover
      BY <1>1, <1>2, <1>3, <1>5, <2>2, <2>4 DEF Watch!Recover, phaseBar, answerBar
    <3>2. QED
      BY <3>1 DEF Watch!Next
  <2>5. QED
    BY <2>3, <2>4
<1>6. CASE k.exit = 0 /\ Weak(k, at') /\ k.since = 0
  <2>1. cluster' = [k EXCEPT !.since = at']
    BY <1>1, <1>6 DEF Assess
  <2>2. cluster'.since = at' /\ cluster'.exit = 0 /\ cluster'.tracked
    BY <1>3, <1>6, <2>1 DEF ClusterRecord
  <2>3. Watch!Weaken
    BY <1>1, <1>2, <1>6, <2>2 DEF Watch!Weaken
  <2>4. QED
    BY <2>3 DEF Watch!Next
<1>7. CASE k.exit = 0 /\ Weak(k, at') /\ k.since # 0 /\ at' - k.since < Confirm
  <2>1. cluster' = k
    BY <1>1, <1>7 DEF Assess
  <2>2. QED
    BY <1>1, <1>2, <1>3, <1>7, <2>1 DEF phaseBar, answerBar
<1>8. CASE k.exit = 0 /\ Weak(k, at') /\ k.since # 0 /\ ~(at' - k.since < Confirm)
  <2>1. cluster' = [k EXCEPT !.exit = at']
    BY <1>1, <1>8 DEF Assess
  <2>2. cluster'.since = k.since /\ cluster'.exit = at' /\ cluster'.tracked
    BY <1>3, <2>1 DEF ClusterRecord
  <2>3. at' - cluster.since >= Confirm
    <3>1. at' \in Nat /\ Confirm \in Nat
      BY <1>2, ConstantsNat
    <3>2. QED
      BY <1>1, <1>3, <1>8, <3>1
  <2>4. Watch!Exit
    BY <1>1, <1>2, <1>3, <1>8, <2>2, <2>3 DEF Watch!Exit
  <2>5. QED
    BY <2>4 DEF Watch!Next
<1>9. QED
  BY <1>4, <1>5, <1>6, <1>7, <1>8

LEMMA WatchInit == Init => Watch!Init
  BY NoClusterFacts DEF Init, Watch!Init

LEMMA WatchStep == ProxyInv /\ [Next]_vars => [Watch!Next]_(Watch!vars)
<1> SUFFICES ASSUME ProxyInv, [Next]_vars PROVE [Watch!Next]_(Watch!vars)
  OBVIOUS
<1>1. CASE StartTracking
  <2>1. cluster'.tracked /\ cluster'.since = 0 /\ cluster'.exit = 0 /\ record' = record
    BY <1>1, StartOK
  <2>2. answerBar' = answerBar
    BY <2>1, AnswerKept
  <2>3. Watch!Start
    BY <2>1, <2>2 DEF Watch!Start, answerBar
  <2>4. QED
    BY <2>3 DEF Watch!Next
<1>2. CASE StopTracking
  <2>1. ~cluster'.tracked /\ cluster'.since = 0 /\ cluster'.exit = 0 /\ record' = record
    BY <1>2, NoClusterFacts DEF StopTracking
  <2>2. answerBar' = answerBar
    BY <2>1, AnswerKept
  <2>3. Watch!Stop
    BY <2>1, <2>2 DEF Watch!Stop, answerBar
  <2>4. QED
    BY <2>3 DEF Watch!Next
<1>3. CASE RawEvent
  BY <1>3, EventWatched DEF Watch!vars, phaseBar, answerBar
<1>4. CASE UNCHANGED vars
  BY <1>4 DEF vars, Watch!vars
<1>5. QED
  BY <1>1, <1>2, <1>3, <1>4 DEF Next

(* The proxy implements ActorWatch: weakness must last Confirm before a    *)
(* signal is given, and a signal that get_exit_signal answered once is     *)
(* never taken back nor replaced while nobody watches.                     *)
THEOREM ProxyKeepsWatch == Spec => KeepsWatch
<1>1. Init => Watch!Init
  BY WatchInit
<1>2. ProxyInv /\ [Next]_vars => [Watch!Next]_(Watch!vars)
  BY WatchStep
<1>3. QED
  BY <1>1, <1>2, ProxyInvariant, PTL DEF Spec, KeepsWatch, Watch!Spec
=============================================================================
