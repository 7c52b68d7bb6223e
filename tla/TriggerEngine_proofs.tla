------------------------ MODULE TriggerEngine_proofs ------------------------
(***************************************************************************)
(* Theorems about the trigger engine and the pages that share it           *)
(* (TriggerEngine, TriggerPages), for all zones, candles and timeouts.     *)
(***************************************************************************)
EXTENDS TriggerPages, FiniteSetTheorems, SequenceTheorems, TLAPS

-----------------------------------------------------------------------------
(* Induction and recursive functions.                                      *)

\* A set of natural numbers that is not empty has a least element: the
\* intervals 1 .. n are well-founded by strict inclusion.
LEMMA LeastNat ==
  ASSUME NEW T \in SUBSET Nat, T # {}
  PROVE  \E m \in T : \A k \in T : m <= k
<1> DEFINE Intervals == {1 .. n : n \in T}
<1>1. Intervals \subseteq FiniteSubsetsOf(Nat) /\ Intervals # {}
  <2>1. ASSUME NEW n \in T
        PROVE  1 .. n \in FiniteSubsetsOf(Nat)
    <3>1. 1 .. n \subseteq Nat /\ IsFiniteSet(1 .. n)
      BY FS_Interval
    <3> QED
      BY <3>1 DEF FiniteSubsetsOf
  <2> QED
    BY <2>1
<1>2. PICK x \in Intervals : \A y \in Intervals : <<y, x>> \notin StrictSubsetOrdering(Nat)
  BY <1>1, WFMin, FS_StrictSubsetOrderingWellFounded
<1>3. PICK m \in T : x = 1 .. m
  OBVIOUS
<1>4. ASSUME NEW k \in T, k < m
      PROVE  FALSE
  <2>1. m \in 1 .. m /\ m \notin 1 .. k
    BY <1>4
  <2>2. 1 .. k \subseteq 1 .. m /\ 1 .. k # 1 .. m /\ {1 .. k, 1 .. m} \subseteq SUBSET Nat
    BY <1>4, <2>1
  <2>3. <<1 .. k, 1 .. m>> \in StrictSubsetOrdering(Nat)
    BY <2>2 DEF StrictSubsetOrdering
  <2> QED
    BY <1>2, <1>3, <2>3
<1> QED
  BY <1>4

LEMMA StepByStep ==
  ASSUME NEW T, 0 \in T, \A n \in Nat : n \in T => n + 1 \in T
  PROVE  Nat \subseteq T
<1> SUFFICES ASSUME Nat \ T # {}
             PROVE  FALSE
  OBVIOUS
<1>1. PICK m \in Nat \ T : \A k \in Nat \ T : m <= k
  BY LeastNat
<1>2. m # 0 /\ m - 1 \in Nat /\ m - 1 \in T
  BY <1>1
<1> QED
  BY <1>2

\* f runs through n steps from base.
Runs(f, n, base, step) == f[0] = base /\ \A i \in 1 .. n : f[i] = step[i][f[i - 1]]

\* The run of n steps exists, for any steps that stay in a set.
LEMMA RunExists ==
  ASSUME NEW T, NEW n \in Nat, NEW base \in T, NEW step \in [1 .. n -> [T -> T]]
  PROVE  \E f \in [0 .. n -> T] : Runs(f, n, base, step)
<1> DEFINE Upto(k) == \E f \in [0 .. k -> T] : Runs(f, k, base, step)
           K == {k \in Nat : k <= n => Upto(k)}
<1>1. Upto(0)
  <2> DEFINE f == [i \in 0 .. 0 |-> base]
  <2>1. f \in [0 .. 0 -> T] /\ Runs(f, 0, base, step)
    BY DEF Runs
  <2> QED
    BY <2>1
<1>2. ASSUME NEW k \in Nat, k + 1 <= n, Upto(k)
      PROVE  Upto(k + 1)
  <2>1. PICK f \in [0 .. k -> T] : Runs(f, k, base, step)
    BY <1>2
  <2> DEFINE g == [i \in 0 .. k + 1 |-> IF i = k + 1 THEN step[k + 1][f[k]] ELSE f[i]]
  <2>2. step[k + 1] \in [T -> T] /\ f[k] \in T
    BY <1>2
  <2>3. g \in [0 .. k + 1 -> T]
    BY <2>2
  <2>4. g[0] = base
    BY <2>1 DEF Runs
  <2>5. ASSUME NEW i \in 1 .. k + 1
        PROVE  g[i] = step[i][g[i - 1]]
    <3>1. CASE i = k + 1
      BY <3>1
    <3>2. CASE i # k + 1
      <4>1. i \in 1 .. k /\ g[i] = f[i] /\ g[i - 1] = f[i - 1]
        BY <3>2
      <4> QED
        BY <2>1, <4>1 DEF Runs
    <3> QED
      BY <3>1, <3>2
  <2>6. Runs(g, k + 1, base, step)
    BY <2>4, <2>5 DEF Runs
  <2> HIDE DEF g
  <2> QED
    BY <2>3, <2>6
<1>3. Nat \subseteq K
  <2>1. 0 \in K /\ \A k \in Nat : k \in K => k + 1 \in K
    BY <1>1, <1>2
  <2> HIDE DEF K
  <2> QED
    BY <2>1, StepByStep
<1> QED
  BY <1>3

-----------------------------------------------------------------------------
(* What is left of a list.                                                 *)

\* One entry more of the list is looked at.
Sift(seq, wanted, T) ==
  [i \in 1 .. Len(seq) |->
     [acc \in T |-> IF seq[i] \in wanted THEN Append(acc, seq[i]) ELSE acc]]

\* The recursion Among is defined by.
IsSieve(f, seq, wanted) ==
  f = [n \in 0 .. Len(seq) |->
         IF n = 0 THEN <<>>
         ELSE IF seq[n] \in wanted THEN Append(f[n - 1], seq[n]) ELSE f[n - 1]]

LEMMA AmongSteps ==
  ASSUME NEW S, NEW seq \in Seq(S), NEW wanted
  PROVE  \E f \in [0 .. Len(seq) -> Seq(S)] :
           /\ f[0] = <<>> /\ Among(seq, wanted) = f[Len(seq)]
           /\ \A n \in 1 .. Len(seq) :
                f[n] = IF seq[n] \in wanted THEN Append(f[n - 1], seq[n]) ELSE f[n - 1]
<1>1. Len(seq) \in Nat /\ <<>> \in Seq(S)
  OBVIOUS
<1>2. Sift(seq, wanted, Seq(S)) \in [1 .. Len(seq) -> [Seq(S) -> Seq(S)]]
  BY DEF Sift
<1>3. PICK g \in [0 .. Len(seq) -> Seq(S)] :
        Runs(g, Len(seq), <<>>, Sift(seq, wanted, Seq(S)))
  BY <1>1, <1>2, RunExists
<1>4. /\ g[0] = <<>>
      /\ \A n \in 1 .. Len(seq) :
           g[n] = IF seq[n] \in wanted THEN Append(g[n - 1], seq[n]) ELSE g[n - 1]
  <2>1. g[0] = <<>>
    BY <1>3 DEF Runs
  <2>2. ASSUME NEW n \in 1 .. Len(seq)
        PROVE  g[n] = IF seq[n] \in wanted THEN Append(g[n - 1], seq[n]) ELSE g[n - 1]
    <3>1. n - 1 \in 0 .. Len(seq)
      BY <1>1
    <3>2. g[n - 1] \in Seq(S)
      BY <3>1
    <3>3. g[n] = Sift(seq, wanted, Seq(S))[n][g[n - 1]]
      BY <1>3 DEF Runs
    <3> QED
      BY <3>2, <3>3 DEF Sift
  <2> QED
    BY <2>1, <2>2
<1>5. IsSieve(g, seq, wanted)
  <2> DEFINE body(n) == IF n = 0 THEN <<>>
                        ELSE IF seq[n] \in wanted THEN Append(g[n - 1], seq[n]) ELSE g[n - 1]
  <2>1. ASSUME NEW n \in 0 .. Len(seq)
        PROVE  g[n] = body(n)
    <3>1. CASE n = 0
      BY <1>4, <3>1
    <3>2. CASE n # 0
      <4>1. n \in 1 .. Len(seq)
        BY <1>1, <3>2
      <4> QED
        BY <1>4, <3>2, <4>1
    <3> QED
      BY <3>1, <3>2
  <2>2. g = [n \in 0 .. Len(seq) |-> g[n]]
    OBVIOUS
  <2>3. g = [n \in 0 .. Len(seq) |-> body(n)]
    <3> HIDE DEF body
    <3> QED
      BY <2>1, <2>2
  <2> QED
    BY <2>3 DEF IsSieve
<1> DEFINE f == CHOOSE h : IsSieve(h, seq, wanted)
<1>6. IsSieve(f, seq, wanted)
  BY <1>5
<1>7. Among(seq, wanted) = f[Len(seq)]
  BY DEF Among, IsSieve
<1> HIDE DEF f
<1>8. /\ f[0] = <<>> /\ f = [n \in 0 .. Len(seq) |-> f[n]]
      /\ \A n \in 1 .. Len(seq) :
           f[n] = IF seq[n] \in wanted THEN Append(f[n - 1], seq[n]) ELSE f[n - 1]
  <2> DEFINE body(n) == IF n = 0 THEN <<>>
                        ELSE IF seq[n] \in wanted THEN Append(f[n - 1], seq[n]) ELSE f[n - 1]
  <2>1. f = [n \in 0 .. Len(seq) |-> body(n)]
    BY <1>6 DEF IsSieve
  <2>2. ASSUME NEW n \in 0 .. Len(seq)
        PROVE  f[n] = body(n)
    <3> HIDE DEF body
    <3> QED
      BY <2>1
  <2>3. f = [n \in 0 .. Len(seq) |-> f[n]]
    <3> HIDE DEF body
    <3> QED
      BY <2>1
  <2>4. f[0] = <<>>
    <3>1. 0 \in 0 .. Len(seq)
      BY <1>1
    <3> QED
      BY <2>2, <3>1
  <2>5. ASSUME NEW n \in 1 .. Len(seq)
        PROVE  f[n] = IF seq[n] \in wanted THEN Append(f[n - 1], seq[n]) ELSE f[n - 1]
    <3>1. n \in 0 .. Len(seq) /\ n # 0
      BY <1>1
    <3> QED
      BY <2>2, <3>1
  <2> QED
    BY <2>3, <2>4, <2>5
<1> DEFINE K == {n \in Nat : n <= Len(seq) => f[n] = g[n]}
<1>9. Nat \subseteq K
  <2>1. 0 \in K
    BY <1>4, <1>8
  <2>2. ASSUME NEW n \in Nat, n \in K
        PROVE  n + 1 \in K
    <3> SUFFICES ASSUME n + 1 <= Len(seq)
                 PROVE  f[n + 1] = g[n + 1]
      OBVIOUS
    <3>1. n + 1 \in 1 .. Len(seq) /\ (n + 1) - 1 = n /\ f[n] = g[n]
      BY <1>1, <2>2
    <3> QED
      BY <1>4, <1>8, <3>1
  <2> HIDE DEF K
  <2> QED
    BY <2>1, <2>2, StepByStep
<1>10. f = g
  <2>1. ASSUME NEW n \in 0 .. Len(seq)
        PROVE  f[n] = g[n]
    BY <1>1, <1>9
  <2> QED
    BY <1>8, <2>1
<1> QED
  BY <1>4, <1>7, <1>10

\* The entries left are those wanted, each at a position of its own, later ones
\* later: from positions of what is left into the list.
Embeds(h, left, seq) ==
  /\ h \in [1 .. Len(left) -> 1 .. Len(seq)]
  /\ \A i \in 1 .. Len(left) : left[i] = seq[h[i]]
  /\ \A i, j \in 1 .. Len(left) : i < j => h[i] < h[j]

LEMMA AmongFacts ==
  ASSUME NEW S, NEW seq \in Seq(S), NEW wanted
  PROVE  /\ Among(seq, wanted) \in Seq(S)
         /\ \A i \in 1 .. Len(Among(seq, wanted)) : Among(seq, wanted)[i] \in wanted
         /\ \E h : Embeds(h, Among(seq, wanted), seq)
         /\ \A k \in 1 .. Len(seq) : seq[k] \in wanted =>
              \E i \in 1 .. Len(Among(seq, wanted)) : Among(seq, wanted)[i] = seq[k]
<1>1. PICK f \in [0 .. Len(seq) -> Seq(S)] :
           /\ f[0] = <<>> /\ Among(seq, wanted) = f[Len(seq)]
           /\ \A n \in 1 .. Len(seq) :
                f[n] = IF seq[n] \in wanted THEN Append(f[n - 1], seq[n]) ELSE f[n - 1]
  BY AmongSteps
<1> DEFINE Fine(n, h) ==
             /\ h \in [1 .. Len(f[n]) -> 1 .. n]
             /\ \A i \in 1 .. Len(f[n]) : f[n][i] = seq[h[i]] /\ f[n][i] \in wanted
             /\ \A i, j \in 1 .. Len(f[n]) : i < j => h[i] < h[j]
             /\ \A k \in 1 .. n : seq[k] \in wanted =>
                  \E i \in 1 .. Len(f[n]) : f[n][i] = seq[k]
           K == {n \in Nat : n <= Len(seq) => \E h : Fine(n, h)}
<1>2. \E h : Fine(0, h)
  <2>1. Fine(0, <<>>)
    BY <1>1
  <2> QED
    BY <2>1
<1>3. ASSUME NEW n \in Nat, n + 1 <= Len(seq), \E h : Fine(n, h)
      PROVE  \E h : Fine(n + 1, h)
  <2>1. PICK h : Fine(n, h)
    BY <1>3
  <2>2. /\ f[n] \in Seq(S) /\ Len(f[n]) \in Nat /\ seq[n + 1] \in S
        /\ f[n + 1] = IF seq[n + 1] \in wanted THEN Append(f[n], seq[n + 1]) ELSE f[n]
    BY <1>1, <1>3
  <2>3. CASE seq[n + 1] \notin wanted
    <3>1. f[n + 1] = f[n]
      BY <2>2, <2>3
    <3>2. h \in [1 .. Len(f[n + 1]) -> 1 .. n + 1]
      BY <2>1, <3>1
    <3>3. \A k \in 1 .. n + 1 : seq[k] \in wanted =>
            \E i \in 1 .. Len(f[n + 1]) : f[n + 1][i] = seq[k]
      BY <2>1, <2>3, <3>1
    <3>4. Fine(n + 1, h)
      BY <2>1, <3>1, <3>2, <3>3
    <3> QED
      BY <3>4
  <2>4. CASE seq[n + 1] \in wanted
    <3> DEFINE m == Len(f[n])
               g == [i \in 1 .. m + 1 |-> IF i = m + 1 THEN n + 1 ELSE h[i]]
    <3>1. /\ Len(f[n + 1]) = m + 1 /\ f[n + 1][m + 1] = seq[n + 1]
          /\ \A i \in 1 .. m : f[n + 1][i] = f[n][i]
      BY <2>2, <2>4
    <3> HIDE DEF m
    <3>2. m = Len(f[n]) /\ m \in Nat
      BY <2>2 DEF m
    <3>8. ASSUME NEW i \in 1 .. m
          PROVE  g[i] = h[i] /\ h[i] \in 1 .. n
      BY <2>1, <3>2
    <3>9. ASSUME NEW i \in 1 .. m + 1
          PROVE  g[i] \in 1 .. n + 1
      <4>1. CASE i = m + 1
        BY <4>1
      <4>2. CASE i # m + 1
        <5>1. i \in 1 .. m
          BY <3>2, <4>2
        <5> QED
          BY <3>8, <5>1
      <4> QED
        BY <4>1, <4>2
    <3>10. g[m + 1] = n + 1
      BY <3>2
    <3>11. DOMAIN g = 1 .. m + 1 /\ g = [i \in 1 .. m + 1 |-> g[i]]
      OBVIOUS
    <3>3. /\ g \in [1 .. m + 1 -> 1 .. n + 1] /\ g[m + 1] = n + 1
          /\ \A i \in 1 .. m : g[i] = h[i] /\ h[i] \in 1 .. n
      <4> HIDE DEF g
      <4> QED
        BY <3>8, <3>9, <3>10, <3>11
    <3> HIDE DEF g
    <3>4. \A i \in 1 .. m + 1 : f[n + 1][i] = seq[g[i]] /\ f[n + 1][i] \in wanted
      <4> TAKE i \in 1 .. m + 1
      <4>1. CASE i = m + 1
        BY <2>4, <3>1, <3>3, <4>1
      <4>2. CASE i # m + 1
        <5>1. i \in 1 .. m
          BY <3>2, <4>2
        <5> QED
          BY <2>1, <3>1, <3>2, <3>3, <5>1
      <4> QED
        BY <4>1, <4>2
    <3>5. ASSUME NEW i \in 1 .. m + 1, NEW j \in 1 .. m + 1, i < j
          PROVE  g[i] < g[j]
      <4>1. i \in 1 .. m /\ g[i] = h[i] /\ h[i] \in 1 .. n
        BY <3>2, <3>3, <3>5
      <4>2. CASE j = m + 1
        BY <3>3, <4>1, <4>2
      <4>3. CASE j # m + 1
        <5>1. j \in 1 .. m /\ g[j] = h[j]
          BY <3>2, <3>3, <4>3
        <5> QED
          BY <2>1, <3>2, <3>5, <4>1, <5>1
      <4> QED
        BY <4>2, <4>3
    <3>6. ASSUME NEW k \in 1 .. n + 1, seq[k] \in wanted
          PROVE  \E i \in 1 .. m + 1 : f[n + 1][i] = seq[k]
      <4>1. CASE k = n + 1
        <5>1. m + 1 \in 1 .. m + 1
          BY <3>2
        <5>2. f[n + 1][m + 1] = seq[n + 1]
          BY <2>4, <3>1, <3>2
        <5>3. f[n + 1][m + 1] = seq[k]
          BY <4>1, <5>2
        <5> HIDE DEF Fine, K
        <5> QED
          BY <5>1, <5>3
      <4>2. CASE k # n + 1
        <5>1. PICK i \in 1 .. m : f[n][i] = seq[k]
          BY <2>1, <3>2, <3>6, <4>2
        <5> QED
          BY <3>1, <3>2, <5>1
      <4> QED
        BY <4>1, <4>2
    <3>7. Fine(n + 1, g)
      BY <3>1, <3>3, <3>4, <3>5, <3>6
    <3> QED
      BY <3>7
  <2> QED
    BY <2>3, <2>4
<1> HIDE DEF Fine
<1>4. Nat \subseteq K
  <2>1. 0 \in K
    BY <1>2
  <2>2. ASSUME NEW n \in Nat, n \in K
        PROVE  n + 1 \in K
    <3> SUFFICES ASSUME n + 1 <= Len(seq)
                 PROVE  \E h : Fine(n + 1, h)
      OBVIOUS
    <3>1. Len(seq) \in Nat
      OBVIOUS
    <3>2. \E h : Fine(n, h)
      BY <2>2, <3>1
    <3> QED
      BY <1>3, <3>2
  <2> HIDE DEF K
  <2> QED
    BY <2>1, <2>2, StepByStep
<1>5. Len(seq) \in Nat
  OBVIOUS
<1>6. \E h : Fine(Len(seq), h)
  BY <1>4, <1>5
<1>7. PICK h : Fine(Len(seq), h)
  BY <1>6
<1>8. Among(seq, wanted) = f[Len(seq)] /\ Among(seq, wanted) \in Seq(S)
  BY <1>1, <1>5
<1>9. Embeds(h, Among(seq, wanted), seq)
  BY <1>7, <1>8 DEF Embeds, Fine
<1>10. /\ \A i \in 1 .. Len(Among(seq, wanted)) : Among(seq, wanted)[i] \in wanted
       /\ \A k \in 1 .. Len(seq) : seq[k] \in wanted =>
              \E i \in 1 .. Len(Among(seq, wanted)) : Among(seq, wanted)[i] = seq[k]
  BY <1>7, <1>8 DEF Fine
<1> QED
  BY <1>8, <1>9, <1>10

-----------------------------------------------------------------------------
(* The lists the engine makes of its memory and its setups.                *)

\* All entries of what is left come from the list, in the same order, and are
\* the wanted ones of the list.
LEMMA AmongEntries ==
  ASSUME NEW S, NEW seq \in Seq(S), NEW wanted
  PROVE  /\ Among(seq, wanted) \in Seq(S)
         /\ Len(Among(seq, wanted)) \in Nat
         /\ \A i \in 1 .. Len(Among(seq, wanted)) :
              /\ Among(seq, wanted)[i] \in wanted
              /\ \E k \in 1 .. Len(seq) : Among(seq, wanted)[i] = seq[k]
<1>1. Among(seq, wanted) \in Seq(S)
  BY AmongFacts
<1>2. \A i \in 1 .. Len(Among(seq, wanted)) : Among(seq, wanted)[i] \in wanted
  BY AmongFacts
<1>3. PICK h : Embeds(h, Among(seq, wanted), seq)
  BY AmongFacts
<1>4. ASSUME NEW i \in 1 .. Len(Among(seq, wanted))
      PROVE  \E k \in 1 .. Len(seq) : Among(seq, wanted)[i] = seq[k]
  BY <1>3 DEF Embeds
<1> QED
  BY <1>1, <1>2, <1>4

\* A list of entries of a set has its entries in the set.
LEMMA EntryOf ==
  ASSUME NEW S, NEW seq \in Seq(S), NEW i \in 1 .. Len(seq)
  PROVE  seq[i] \in S
  OBVIOUS

LEMMA ToSetIs ==
  ASSUME NEW S, NEW seq \in Seq(S)
  PROVE  /\ \A i \in 1 .. Len(seq) : seq[i] \in ToSet(seq)
         /\ \A x \in ToSet(seq) : x \in S /\ \E i \in 1 .. Len(seq) : x = seq[i]
<1>1. DOMAIN seq = 1 .. Len(seq)
  OBVIOUS
<1> QED
  BY <1>1, EntryOf DEF ToSet

\* What is left after forgetting zones has none of them.
LEMMA ForgetIs ==
  ASSUME NEW S, NEW seq \in Seq(S), NEW zones
  PROVE  Forget(seq, zones) \in Seq(S \ zones)
<1>1. /\ Forget(seq, zones) \in Seq(S) /\ Len(Forget(seq, zones)) \in Nat
      /\ \A i \in 1 .. Len(Forget(seq, zones)) : Forget(seq, zones)[i] \in ToSet(seq) \ zones
  BY AmongEntries DEF Forget
<1> DEFINE left == Forget(seq, zones)
<1> HIDE DEF left
<1>2. left \in Seq(S) /\ \A i \in 1 .. Len(left) : left[i] \in S \ zones
  BY <1>1, EntryOf DEF left
<1>3. left \in Seq(S \ zones)
  BY <1>2
<1> QED
  BY <1>3 DEF left

\* A list of what is in no more than one place.
LEMMA ListOfOne ==
  ASSUME NEW z
  PROVE  SetToSeq({}) = <<>> /\ SetToSeq({z}) = <<z>>
<1>1. Cardinality({}) = 0 /\ Cardinality({z}) = 1
  BY FS_EmptySet, FS_Singleton
<1>2. SetToSeq({}) = <<>>
  <2>1. ASSUME NEW f, f \in [1 .. 0 -> {}]
        PROVE  f = <<>>
    <3>1. f \in Seq({}) /\ Len(f) = 0
      BY <2>1
    <3> QED
      BY <3>1
  <2>2. <<>> \in [1 .. 0 -> {}] /\ IsInjective(<<>>)
    BY DEF IsInjective
  <2> QED
    BY <1>1, <2>1, <2>2 DEF SetToSeq
<1>3. SetToSeq({z}) = <<z>>
  <2>1. \A f : f \in [1 .. 1 -> {z}] <=> f = <<z>>
    OBVIOUS
  <2>2. IsInjective(<<z>>)
    BY DEF IsInjective
  <2> QED
    BY <1>1, <2>1, <2>2 DEF SetToSeq
<1> QED
  BY <1>2, <1>3

\* The memory never has a cancelled zone that is not shown again.
LEMMA StoredRecords ==
  ASSUME NEW S, NEW records \in Seq(S), NEW cancels, NEW z
  PROVE  StoreRecords(records, cancels, {z}) \in Seq((S \ cancels) \union {z})
<1> DEFINE kept == Forget(records, cancels)
           K == (S \ cancels) \union {z}
<1>1. kept \in Seq(S \ cancels)
  BY ForgetIs
<1> HIDE DEF kept
<1>2. kept \in Seq(K)
  BY <1>1
<1>3. {z} \ ToSet(kept) \in {{}, {z}}
  OBVIOUS
<1>4. SetToSeq({z} \ ToSet(kept)) \in Seq(K)
  <2>1. <<>> \in Seq(K) /\ <<z>> \in Seq(K)
    OBVIOUS
  <2> QED
    BY <1>3, <2>1, ListOfOne
<1>5. kept \o SetToSeq({z} \ ToSet(kept)) \in Seq(K)
  BY <1>2, <1>4
<1> QED
  BY <1>5 DEF StoreRecords, kept

LEMMA ExpireIs ==
  ASSUME NEW S, NEW records \in Seq(S), NEW at
  PROVE  Expire(records, at) \in Seq(S)
  BY AmongEntries DEF Expire

-----------------------------------------------------------------------------
(* Setups.                                                                 *)

SetupSet(W)  == [zone : W, since : Nat, touched : Nat]
Dated(W) == \A z \in W : z.candle \in Nat

\* A setup has not counted more candles than there were, and was retested
\* late enough.
Fits(s, t) ==
  /\ s.since + s.zone.candle <= t
  /\ s.touched # 0 => s.touched <= t /\ s.touched - s.zone.candle >= MinRetest

LEMMA AgedFits ==
  ASSUME NEW W, Dated(W), NEW s \in SetupSet(W), NEW t \in Nat, Fits(s, t),
         NEW c, c.at \in Nat, t < c.at
  PROVE  /\ Fits(s, c.at)
         /\ Aged(s) \in SetupSet(W) /\ Aged(s).zone = s.zone /\ Aged(s).touched = s.touched
         /\ Fits(Aged(s), c.at)
<1>1. /\ s.zone \in W /\ s.zone.candle \in Nat /\ s.since \in Nat /\ s.touched \in Nat
      /\ MinRetest \in Nat
  BY TriggerAssumption DEF SetupSet, Dated
<1>2. /\ Aged(s) \in SetupSet(W) /\ Aged(s).zone = s.zone
      /\ Aged(s).touched = s.touched /\ Aged(s).since = s.since + 1
  BY <1>1 DEF Aged, SetupSet
<1>3. Fits(s, c.at)
  BY <1>1 DEF Fits
<1>4. Fits(Aged(s), c.at)
  BY <1>1, <1>2 DEF Fits
<1> QED
  BY <1>2, <1>3, <1>4

LEMMA MarkedFits ==
  ASSUME NEW W, Dated(W), NEW s \in SetupSet(W), NEW c, c.at \in Nat, Fits(s, c.at)
  PROVE  Marked(s, c) \in SetupSet(W) /\ Marked(s, c).zone = s.zone /\ Fits(Marked(s, c), c.at)
<1>1. /\ s.zone \in W /\ s.zone.candle \in Nat /\ s.since \in Nat /\ s.touched \in Nat
      /\ MinRetest \in Nat
  BY TriggerAssumption DEF SetupSet, Dated
<1>2. CASE s.since >= MinRetest
  <2> DEFINE m == [s EXCEPT !.touched = c.at]
  <2>1. /\ m \in SetupSet(W) /\ m.zone = s.zone /\ m.touched = c.at /\ m.since = s.since
    BY <1>1 DEF SetupSet
  <2>2. Fits(m, c.at)
    BY <1>1, <1>2, <2>1 DEF Fits
  <2>3. Marked(s, c) \in {m, s}
    BY DEF Marked
  <2> QED
    BY <2>1, <2>2, <2>3
<1>3. CASE ~(s.since >= MinRetest)
  BY <1>3 DEF Marked
<1> QED
  BY <1>2, <1>3

\* A setup that enters was retested, and touched within the timeout.
Retest(e) ==
  /\ e.at - e.zone.candle >= MinRetest
  /\ e.touched # 0 =>
       /\ e.at - e.touched <= TouchedTimeout
       /\ e.touched - e.zone.candle >= MinRetest

LEMMA EntryIsRetest ==
  ASSUME NEW W, Dated(W), NEW s \in SetupSet(W), NEW t \in Nat, Fits(s, t),
         NEW c, c.at \in Nat, t < c.at, Enters(Aged(s), c)
  PROVE  Retest(Entry(s.zone, c, Aged(s)))
<1>1. /\ s.zone \in W /\ s.zone.candle \in Nat /\ s.since \in Nat /\ s.touched \in Nat
      /\ {MinRetest, TouchedTimeout} \subseteq Nat
  BY TriggerAssumption DEF SetupSet, Dated
<1>2. /\ Aged(s).zone = s.zone /\ Aged(s).touched = s.touched /\ Aged(s).since = s.since + 1
  BY <1>1 DEF Aged, SetupSet
<1>3. LET e == Entry(s.zone, c, Aged(s))
      IN e.at = c.at /\ e.zone = s.zone /\ e.touched = s.touched
  BY <1>2 DEF Entry
<1>4. CASE s.touched # 0
  <2>1. c.at - s.touched <= TouchedTimeout
    BY <1>1, <1>2, <1>4 DEF Enters, Expired
  <2> QED
    BY <1>1, <1>3, <1>4, <2>1 DEF Fits, Retest
<1>5. CASE s.touched = 0
  <2>1. s.since + 1 >= MinRetest
    BY <1>2, <1>5 DEF Enters
  <2> QED
    BY <1>1, <1>3, <1>5, <2>1 DEF Fits, Retest
<1> QED
  BY <1>4, <1>5

\* A list of setups as the engine keeps it.
SetupsOK(setups, t, W) ==
  setups \in Seq(SetupSet(W)) /\ \A i \in 1 .. Len(setups) : Fits(setups[i], t)

\* The zones of one list come from another, in the same order.
Thins(new, old) ==
  \E h \in [1 .. Len(new) -> 1 .. Len(old)] :
    /\ \A i \in 1 .. Len(new) : new[i].zone = old[h[i]].zone
    /\ \A i, j \in 1 .. Len(new) : i < j => h[i] < h[j]

OneSetup(setups) ==
  \A i, j \in 1 .. Len(setups) : setups[i].zone = setups[j].zone => i = j

Apart(log, setups) ==
  \A i \in 1 .. Len(log), j \in 1 .. Len(setups) :
    log[i].type = "ENTRY" => log[i].zone # setups[j].zone

LEMMA ThinsKeeps ==
  ASSUME NEW V, NEW new \in Seq(V), NEW old \in Seq(V), Thins(new, old)
  PROVE  /\ OneSetup(old) => OneSetup(new)
         /\ \A log : Apart(log, old) => Apart(log, new)
         /\ \A i \in 1 .. Len(new) : \E j \in 1 .. Len(old) : new[i].zone = old[j].zone
<1>1. PICK h \in [1 .. Len(new) -> 1 .. Len(old)] :
        /\ \A i \in 1 .. Len(new) : new[i].zone = old[h[i]].zone
        /\ \A i, j \in 1 .. Len(new) : i < j => h[i] < h[j]
  BY DEF Thins
<1>2. Len(new) \in Nat /\ Len(old) \in Nat /\ \A i \in 1 .. Len(new) : h[i] \in 1 .. Len(old)
  OBVIOUS
<1>3. ASSUME OneSetup(old)
      PROVE  OneSetup(new)
  <2> SUFFICES ASSUME NEW i \in 1 .. Len(new), NEW j \in 1 .. Len(new), i < j,
                      new[i].zone = new[j].zone
               PROVE  FALSE
    BY <1>2 DEF OneSetup
  <2>1. h[i] \in 1 .. Len(old) /\ h[j] \in 1 .. Len(old) /\ h[i] < h[j]
    BY <1>1, <1>2
  <2>2. h[i] = h[j]
    BY <1>1, <1>3, <2>1 DEF OneSetup
  <2> QED
    BY <1>2, <2>1, <2>2
<1>4. ASSUME NEW log, Apart(log, old)
      PROVE  Apart(log, new)
  BY <1>1, <1>2, <1>4 DEF Apart
<1>5. \A i \in 1 .. Len(new) : \E j \in 1 .. Len(old) : new[i].zone = old[j].zone
  BY <1>1, <1>2
<1> QED
  BY <1>3, <1>4, <1>5

LEMMA AmongThins ==
  ASSUME NEW V, NEW seq \in Seq(V), NEW wanted
  PROVE  Thins(Among(seq, wanted), seq)
<1>1. PICK h : Embeds(h, Among(seq, wanted), seq)
  BY AmongFacts
<1> QED
  BY <1>1 DEF Embeds, Thins

LEMMA ThinsTwice ==
  ASSUME NEW V, NEW a \in Seq(V), NEW b \in Seq(V), NEW d \in Seq(V), Thins(a, b), Thins(b, d)
  PROVE  Thins(a, d)
<1>1. PICK g \in [1 .. Len(a) -> 1 .. Len(b)] :
        /\ \A i \in 1 .. Len(a) : a[i].zone = b[g[i]].zone
        /\ \A i, j \in 1 .. Len(a) : i < j => g[i] < g[j]
  BY DEF Thins
<1>2. PICK h \in [1 .. Len(b) -> 1 .. Len(d)] :
        /\ \A i \in 1 .. Len(b) : b[i].zone = d[h[i]].zone
        /\ \A i, j \in 1 .. Len(b) : i < j => h[i] < h[j]
  BY DEF Thins
<1> DEFINE k == [i \in 1 .. Len(a) |-> h[g[i]]]
<1>3. \A i \in 1 .. Len(a) : g[i] \in 1 .. Len(b) /\ h[g[i]] \in 1 .. Len(d)
  OBVIOUS
<1>4. k \in [1 .. Len(a) -> 1 .. Len(d)] /\ \A i \in 1 .. Len(a) : k[i] = h[g[i]]
  BY <1>3
<1> HIDE DEF k
<1>5. \A i \in 1 .. Len(a) : a[i].zone = d[k[i]].zone
  BY <1>1, <1>2, <1>3, <1>4
<1>6. \A i, j \in 1 .. Len(a) : i < j => k[i] < k[j]
  BY <1>1, <1>2, <1>3, <1>4
<1> QED
  BY <1>4, <1>5, <1>6 DEF Thins

\* Setups that were changed one by one, without their zones.
LEMMA SameZonesThins ==
  ASSUME NEW V, NEW new \in Seq(V), NEW old \in Seq(V), Len(new) <= Len(old),
         \A i \in 1 .. Len(new) : new[i].zone = old[i].zone
  PROVE  Thins(new, old)
<1> DEFINE h == [i \in 1 .. Len(new) |-> i]
<1>1. Len(new) \in Nat /\ Len(old) \in Nat
  OBVIOUS
<1>2. h \in [1 .. Len(new) -> 1 .. Len(old)] /\ \A i \in 1 .. Len(new) : h[i] = i
  BY <1>1
<1> HIDE DEF h
<1> QED
  BY <1>2 DEF Thins

\* The setups left by a candle, of the wanted directions and of the others.
LEMMA KeptOK ==
  ASSUME NEW W, Dated(W), NEW t \in Nat, NEW setups, SetupsOK(setups, t, W),
         NEW c, c.at \in Nat, t < c.at, NEW wanted
  PROVE  SetupsOK(Kept(setups, c, wanted), c.at, W) /\ Thins(Kept(setups, c, wanted), setups)
<1> DEFINE wantedOne(s) == Direction(s.zone) \in wanted
           step(s) == IF wantedOne(s) /\ ~Expired(Aged(s), c) THEN Marked(Aged(s), c) ELSE s
           stays(s) == ~wantedOne(s) \/ ~Expired(Aged(s), c)
           rest == Among(setups, {s \in ToSet(setups) : stays(s)})
<1>1. Kept(setups, c, wanted) = [i \in 1 .. Len(rest) |-> step(rest[i])]
  BY DEF Kept
<1>2. /\ rest \in Seq(SetupSet(W)) /\ Len(rest) \in Nat
      /\ \A i \in 1 .. Len(rest) : \E k \in 1 .. Len(setups) : rest[i] = setups[k]
      /\ Thins(rest, setups)
  <2>1. setups \in Seq(SetupSet(W))
    BY DEF SetupsOK
  <2> DEFINE left == {s \in ToSet(setups) : stays(s)}
  <2> HIDE DEF left
  <2>2. LET those == Among(setups, left)
        IN /\ those \in Seq(SetupSet(W)) /\ Len(those) \in Nat
           /\ \A i \in 1 .. Len(those) : \E k \in 1 .. Len(setups) : those[i] = setups[k]
           /\ Thins(those, setups)
    BY <2>1, AmongEntries, AmongThins
  <2> QED
    BY <2>2 DEF left
<1> HIDE DEF rest
<1>3. ASSUME NEW i \in 1 .. Len(rest)
      PROVE  /\ step(rest[i]) \in SetupSet(W) /\ step(rest[i]).zone = rest[i].zone
             /\ Fits(step(rest[i]), c.at)
  <2>1. rest[i] \in SetupSet(W) /\ Fits(rest[i], t)
    BY <1>2, EntryOf DEF SetupsOK
  <2>2. /\ Fits(rest[i], c.at)
        /\ Aged(rest[i]) \in SetupSet(W) /\ Aged(rest[i]).zone = rest[i].zone
        /\ Fits(Aged(rest[i]), c.at)
    BY <2>1, AgedFits
  <2>3. /\ Marked(Aged(rest[i]), c) \in SetupSet(W) /\ Marked(Aged(rest[i]), c).zone = rest[i].zone
        /\ Fits(Marked(Aged(rest[i]), c), c.at)
    BY <2>2, MarkedFits
  <2> QED
    BY <2>1, <2>2, <2>3
<1> HIDE DEF step
<1> DEFINE kept == [i \in 1 .. Len(rest) |-> step(rest[i])]
<1>4. kept \in Seq(SetupSet(W)) /\ Len(kept) = Len(rest)
  BY <1>2, <1>3
<1>5. \A i \in 1 .. Len(rest) : kept[i] = step(rest[i])
  OBVIOUS
<1> HIDE DEF kept
<1>6. SetupsOK(kept, c.at, W)
  BY <1>3, <1>4, <1>5 DEF SetupsOK
<1>7. Thins(kept, rest)
  BY <1>2, <1>3, <1>4, <1>5, SameZonesThins
<1>8. Thins(kept, setups)
  BY <1>2, <1>4, <1>7, ThinsTwice DEF SetupsOK
<1> QED
  BY <1>1, <1>6, <1>8 DEF kept

\* The setups before the entering one.
LEMMA BeforeOK ==
  ASSUME NEW W, NEW t, NEW setups, SetupsOK(setups, t, W), NEW n \in 1 .. Len(setups)
  PROVE  /\ SetupsOK(SubSeq(setups, 1, n - 1), t, W)
         /\ Thins(SubSeq(setups, 1, n - 1), setups)
<1> DEFINE before == SubSeq(setups, 1, n - 1)
<1>1. setups \in Seq(SetupSet(W)) /\ Len(setups) \in Nat
  BY DEF SetupsOK
<1>2. /\ before \in Seq(SetupSet(W)) /\ Len(before) = n - 1
      /\ \A i \in 1 .. n - 1 : before[i] = setups[i]
  BY <1>1
<1> HIDE DEF before
<1>3. SetupsOK(before, t, W)
  BY <1>1, <1>2 DEF SetupsOK
<1>4. Thins(before, setups)
  BY <1>1, <1>2, SameZonesThins
<1> QED
  BY <1>3, <1>4 DEF before

\* The setup that is found enters, and it is of a wanted direction.
LEMMA FirstEnteringIs ==
  ASSUME NEW setups, Len(setups) \in Nat, NEW c, NEW wanted,
         FirstEntering(setups, c, wanted) # 0
  PROVE  /\ FirstEntering(setups, c, wanted) \in 1 .. Len(setups)
         /\ Direction(setups[FirstEntering(setups, c, wanted)].zone) \in wanted
         /\ Enters(Aged(setups[FirstEntering(setups, c, wanted)]), c)
<1> DEFINE enters == {i \in 1 .. Len(setups) :
                        Direction(setups[i].zone) \in wanted /\ Enters(Aged(setups[i]), c)}
<1>1. FirstEntering(setups, c, wanted) =
        IF enters = {} THEN 0 ELSE CHOOSE i \in enters : \A j \in enters : i <= j
  BY DEF FirstEntering
<1>2. enters # {} /\ enters \in SUBSET Nat
  BY <1>1
<1>3. \E i \in enters : \A j \in enters : i <= j
  <2> HIDE DEF enters
  <2> QED
    BY <1>2, LeastNat
<1>4. FirstEntering(setups, c, wanted) \in enters
  <2> HIDE DEF enters
  <2> QED
    BY <1>1, <1>2, <1>3
<1> QED
  BY <1>4

\* The setups when one of them enters beside no position.
Reached(setups, c, n) ==
  [i \in 1 .. Len(setups) |->
     IF i < n THEN IF Expired(Aged(setups[i]), c) THEN Aged(setups[i]) ELSE Marked(Aged(setups[i]), c)
     ELSE IF i = n THEN Aged(setups[i]) ELSE setups[i]]

LEMMA ReachedOK ==
  ASSUME NEW W, Dated(W), NEW t \in Nat, NEW setups, SetupsOK(setups, t, W),
         NEW c, c.at \in Nat, t < c.at, NEW n \in 1 .. Len(setups)
  PROVE  /\ SetupsOK(Reached(setups, c, n), c.at, W) /\ Thins(Reached(setups, c, n), setups)
         /\ Reached(setups, c, n)[n] = Aged(setups[n])
<1> DEFINE becomes(i) ==
             IF i < n THEN IF Expired(Aged(setups[i]), c) THEN Aged(setups[i]) ELSE Marked(Aged(setups[i]), c)
             ELSE IF i = n THEN Aged(setups[i]) ELSE setups[i]
           reached == [i \in 1 .. Len(setups) |-> becomes(i)]
<1>1. setups \in Seq(SetupSet(W)) /\ Len(setups) \in Nat
  BY DEF SetupsOK
<1>2. ASSUME NEW i \in 1 .. Len(setups)
      PROVE  /\ becomes(i) \in SetupSet(W) /\ becomes(i).zone = setups[i].zone
             /\ Fits(becomes(i), c.at)
  <2>1. setups[i] \in SetupSet(W) /\ Fits(setups[i], t)
    BY <1>1, EntryOf DEF SetupsOK
  <2>2. /\ Fits(setups[i], c.at)
        /\ Aged(setups[i]) \in SetupSet(W) /\ Aged(setups[i]).zone = setups[i].zone
        /\ Fits(Aged(setups[i]), c.at)
    BY <2>1, AgedFits
  <2>3. /\ Marked(Aged(setups[i]), c) \in SetupSet(W) /\ Marked(Aged(setups[i]), c).zone = setups[i].zone
        /\ Fits(Marked(Aged(setups[i]), c), c.at)
    BY <2>2, MarkedFits
  <2> QED
    BY <2>1, <2>2, <2>3
<1>3. becomes(n) = Aged(setups[n])
  BY <1>1
<1>4. Reached(setups, c, n) = reached
  BY DEF Reached
<1> HIDE DEF becomes
<1>5. reached \in Seq(SetupSet(W)) /\ Len(reached) = Len(setups)
  BY <1>1, <1>2
<1>6. \A i \in 1 .. Len(setups) : reached[i] = becomes(i)
  OBVIOUS
<1> HIDE DEF reached
<1>7. SetupsOK(reached, c.at, W)
  BY <1>2, <1>5, <1>6 DEF SetupsOK
<1>8. Thins(reached, setups)
  BY <1>1, <1>2, <1>5, <1>6, SameZonesThins
<1> QED
  BY <1>3, <1>4, <1>6, <1>7, <1>8

-----------------------------------------------------------------------------
(* Signals.                                                                *)

SignalSet(Z) == [type : {"ENTRY", "EXIT"}, zone : Z, at : Nat, touched : Nat]

Paired(log) ==
  /\ \A i \in 1 .. Len(log) : log[i].type = IF i % 2 = 1 THEN "ENTRY" ELSE "EXIT"
  /\ \A i \in 2 .. Len(log) : log[i].type = "EXIT" => log[i].zone = log[i - 1].zone

OneEntry(log) ==
  \A i, j \in 1 .. Len(log) :
    log[i].type = "ENTRY" /\ log[j].type = "ENTRY" /\ log[i].zone = log[j].zone => i = j

LogOK(log, t, Z) ==
  /\ log \in Seq(SignalSet(Z))
  /\ \A i \in 1 .. Len(log) :
       log[i].zone.candle <= t /\ (log[i].type = "ENTRY" => Retest(log[i]))
  /\ Paired(log) /\ OneEntry(log)

LEMMA Parity == \A n \in Nat : (n + 1) % 2 = 1 <=> ~(n % 2 = 1)
  OBVIOUS

\* An entry after a closed position, of a zone that was not entered before.
LEMMA LogEntry ==
  ASSUME NEW Z, NEW t, NEW log, LogOK(log, t, Z), ~(Len(log) % 2 = 1),
         NEW e \in SignalSet(Z), e.type = "ENTRY", Retest(e), e.zone.candle <= t,
         \A i \in 1 .. Len(log) : log[i].type = "ENTRY" => log[i].zone # e.zone
  PROVE  LogOK(Append(log, e), t, Z)
<1> DEFINE n == Len(log)
           new == Append(log, e)
<1>1. log \in Seq(SignalSet(Z)) /\ n \in Nat
  BY DEF LogOK
<1>2. /\ new \in Seq(SignalSet(Z)) /\ Len(new) = n + 1 /\ new[n + 1] = e
      /\ \A i \in 1 .. n : new[i] = log[i]
      /\ \A i \in 1 .. n + 1 : i = n + 1 \/ i \in 1 .. n
  BY <1>1
<1>3. ~(n % 2 = 1) /\ (n + 1) % 2 = 1
  BY <1>1, Parity
<1> HIDE DEF new, n
<1>4. n = Len(log)
  BY DEF n
<1>5. \A i \in 1 .. Len(new) : new[i].type = IF i % 2 = 1 THEN "ENTRY" ELSE "EXIT"
  BY <1>2, <1>3, <1>4 DEF LogOK, Paired
<1>6. ASSUME NEW i \in 2 .. Len(new), new[i].type = "EXIT"
      PROVE  new[i].zone = new[i - 1].zone
  <2>1. i # n + 1
    BY <1>2, <1>6
  <2>2. i \in 2 .. n /\ i - 1 \in 1 .. n /\ i \in 1 .. n
    BY <1>1, <1>2, <2>1, <1>4
  <2> QED
    BY <1>2, <1>4, <1>6, <2>2 DEF LogOK, Paired
<1>7. OneEntry(new)
  BY <1>2, <1>4 DEF LogOK, OneEntry
<1>8. \A i \in 1 .. Len(new) :
       new[i].zone.candle <= t /\ (new[i].type = "ENTRY" => Retest(new[i]))
  BY <1>2, <1>4 DEF LogOK
<1>9. LogOK(new, t, Z)
  BY <1>2, <1>5, <1>6, <1>7, <1>8 DEF LogOK, Paired
<1> QED
  BY <1>9 DEF new

\* The exit of the position that the last signal opened.
LEMMA LogExit ==
  ASSUME NEW Z, NEW t, NEW log, LogOK(log, t, Z), Len(log) % 2 = 1,
         NEW e \in SignalSet(Z), e.type = "EXIT", e.zone = log[Len(log)].zone
  PROVE  LogOK(Append(log, e), t, Z)
<1> DEFINE n == Len(log)
           new == Append(log, e)
<1>1. log \in Seq(SignalSet(Z)) /\ n \in Nat /\ n # 0
  BY DEF LogOK
<1>2. /\ new \in Seq(SignalSet(Z)) /\ Len(new) = n + 1 /\ new[n + 1] = e
      /\ \A i \in 1 .. n : new[i] = log[i]
      /\ \A i \in 1 .. n + 1 : i = n + 1 \/ i \in 1 .. n
  BY <1>1
<1>3. n % 2 = 1 /\ ~((n + 1) % 2 = 1)
  BY <1>1, Parity
<1> HIDE DEF new, n
<1>4. n = Len(log)
  BY DEF n
<1>5. \A i \in 1 .. Len(new) : new[i].type = IF i % 2 = 1 THEN "ENTRY" ELSE "EXIT"
  BY <1>2, <1>3, <1>4 DEF LogOK, Paired
<1>6. ASSUME NEW i \in 2 .. Len(new), new[i].type = "EXIT"
      PROVE  new[i].zone = new[i - 1].zone
  <2>1. CASE i = n + 1
    <3>1. i - 1 = n /\ n \in 1 .. n
      BY <1>1, <1>4, <2>1
    <3> QED
      BY <1>2, <1>4, <2>1, <3>1
  <2>2. CASE i # n + 1
    <3>1. i \in 2 .. n /\ i - 1 \in 1 .. n /\ i \in 1 .. n
      BY <1>1, <1>2, <2>2, <1>4
    <3> QED
      BY <1>2, <1>4, <1>6, <3>1 DEF LogOK, Paired
  <2> QED
    BY <2>1, <2>2
<1>7. OneEntry(new)
  BY <1>2, <1>4 DEF LogOK, OneEntry
<1>8. \A i \in 1 .. Len(new) :
       new[i].zone.candle <= t /\ (new[i].type = "ENTRY" => Retest(new[i]))
  <2>1. n \in 1 .. n
    BY <1>1, <1>4
  <2> QED
    BY <1>2, <1>4, <2>1 DEF LogOK
<1>9. LogOK(new, t, Z)
  BY <1>2, <1>5, <1>6, <1>7, <1>8 DEF LogOK, Paired
<1> QED
  BY <1>9 DEF new

-----------------------------------------------------------------------------
(* The store of setups, position and signals.                              *)

\* After the candle t: the memory holds zones of R, setups are of zones of W,
\* signals of zones of Z.
IsStore(st) ==
  st = [records |-> st.records, tracked |-> st.tracked, setups |-> st.setups,
        position |-> st.position, log |-> st.log]

PositionSet(Z) == [zone : Z, at : Nat]

Distinct(seq) == \A i, j \in 1 .. Len(seq) : seq[i] = seq[j] => i = j

\* The position is the one of the last entry, and its actor proxy runs.
PositionOK(st, Z) ==
  /\ st.position \in PositionSet(Z) \union {NoPosition}
  /\ InPosition(st) <=> Len(st.log) % 2 = 1
  /\ InPosition(st) => /\ st.position.zone = st.log[Len(st.log)].zone
                       /\ st.position \in st.tracked
  /\ WaitsOpposite(st)

StoreOK(st, t, R, W, Z) ==
  /\ IsStore(st)
  /\ st.records \in Seq(R) /\ Distinct(st.records)
  /\ SetupsOK(st.setups, t, W) /\ OneSetup(st.setups)
  /\ LogOK(st.log, t, Z) /\ Apart(st.log, st.setups)
  /\ PositionOK(st, Z)

LEMMA StoreGives ==
  ASSUME NEW st, NEW t, NEW R, NEW W, NEW Z, StoreOK(st, t, R, W, Z)
  PROVE  Alternates(st) /\ EntersOnRetest(st) /\ WaitsOpposite(st) /\ OncePerZone(st)
<1>1. Alternates(st)
  BY DEF StoreOK, PositionOK, LogOK, Paired, Alternates
<1>2. EntersOnRetest(st)
  BY DEF StoreOK, LogOK, Retest, EntersOnRetest
<1>3. WaitsOpposite(st)
  BY DEF StoreOK, PositionOK
<1>4. OncePerZone(st)
  BY DEF StoreOK, LogOK, OneEntry, OneSetup, Apart, OncePerZone
<1> QED
  BY <1>1, <1>2, <1>3, <1>4

LEMMA FreshStore ==
  ASSUME NEW R, NEW W, NEW Z, NEW mem \in Seq(R), Distinct(mem), NEW run
  PROVE  StoreOK(WithFreshStore(mem, run), 0, R, W, Z)
<1> DEFINE st == WithFreshStore(mem, run)
<1>1. /\ IsStore(st) /\ st.records = mem /\ st.setups = <<>> /\ st.log = <<>>
      /\ st.position = NoPosition
  BY DEF WithFreshStore, IsStore
<1> HIDE DEF st
<1>2. SetupsOK(<<>>, 0, W) /\ OneSetup(<<>>) /\ LogOK(<<>>, 0, Z) /\ Apart(<<>>, <<>>)
  BY DEF SetupsOK, OneSetup, LogOK, Apart, Paired, OneEntry
<1>3. PositionOK(st, Z)
  BY <1>1 DEF PositionOK, InPosition, WaitsOpposite
<1>4. StoreOK(st, 0, R, W, Z)
  BY <1>1, <1>2, <1>3 DEF StoreOK
<1> QED
  BY <1>4 DEF st

LEMMA NotNoPosition ==
  ASSUME NEW z, NEW at
  PROVE  [zone |-> z, at |-> at] # NoPosition
<1>1. "at" \in DOMAIN [zone |-> z, at |-> at] /\ "at" \notin DOMAIN NoPosition
  BY DEF NoPosition
<1> QED
  BY <1>1

LEMMA LogLater ==
  ASSUME NEW Z, Dated(Z), NEW log, NEW t \in Nat, LogOK(log, t, Z), NEW u \in Nat, t <= u
  PROVE  LogOK(log, u, Z)
<1>1. log \in Seq(SignalSet(Z))
  BY DEF LogOK
<1>2. ASSUME NEW i \in 1 .. Len(log)
      PROVE  log[i].zone.candle <= u
  <2>1. log[i] \in SignalSet(Z)
    BY <1>1, EntryOf
  <2>2. log[i].zone.candle \in Nat
    BY <2>1 DEF SignalSet, Dated
  <2> QED
    BY <2>2 DEF LogOK
<1> QED
  BY <1>2 DEF LogOK

\* The store once a setup has entered.
LEMMA AfterEntryOK ==
  ASSUME NEW R, NEW W, NEW Z, NEW t, NEW st, IsStore(st),
         NEW setups, SetupsOK(setups, t, W), OneSetup(setups), Apart(st.log, setups),
         NEW s, s.zone \in Z, NEW c, c.at \in Nat, NEW signals, NEW log,
         log = st.log \o signals, LogOK(log, t, Z), Len(log) % 2 = 1,
         log[Len(log)].zone = s.zone,
         \A k \in 1 .. Len(log) : log[k].type = "ENTRY" =>
           \/ log[k].zone = s.zone
           \/ \E i \in 1 .. Len(st.log) : st.log[i].type = "ENTRY" /\ st.log[i].zone = log[k].zone
  PROVE  StoreOK(AfterEntry(st, setups, s, c, signals), t, R, W, Z)
<1> DEFINE new == AfterEntry(st, setups, s, c, signals)
           others == {other \in ToSet(setups) : Direction(other.zone) # Direction(s.zone)}
           left == Among(setups, others)
<1>1. /\ IsStore(new) /\ new.records = <<>> /\ new.setups = left /\ new.log = log
      /\ new.position = PositionAt(s.zone, c)
      /\ new.tracked = (st.tracked \ {st.position}) \union {PositionAt(s.zone, c)}
  <2>1. new = [st EXCEPT
                 !.records = <<>>, !.position = PositionAt(s.zone, c),
                 !.tracked = (st.tracked \ {st.position}) \union {PositionAt(s.zone, c)},
                 !.setups = left, !.log = log]
    BY DEF AfterEntry
  <2>2. new = [records |-> <<>>,
               tracked |-> (st.tracked \ {st.position}) \union {PositionAt(s.zone, c)},
               setups |-> left, position |-> PositionAt(s.zone, c), log |-> log]
    <3> HIDE DEF left
    <3> QED
      BY <2>1 DEF IsStore
  <2> QED
    BY <2>2 DEF IsStore
<1> HIDE DEF new
<1>2. setups \in Seq(SetupSet(W))
  BY DEF SetupsOK
<1>3. /\ left \in Seq(SetupSet(W)) /\ Len(left) \in Nat
      /\ \A i \in 1 .. Len(left) :
           left[i] \in others /\ \E k \in 1 .. Len(setups) : left[i] = setups[k]
      /\ Thins(left, setups)
  <2> HIDE DEF others
  <2> QED
    BY <1>2, AmongEntries, AmongThins
<1>4. \A i \in 1 .. Len(left) : Direction(left[i].zone) # Direction(s.zone)
  BY <1>3
<1> HIDE DEF left, others
<1>5. SetupsOK(left, t, W)
  BY <1>3 DEF SetupsOK
<1>6. OneSetup(left) /\ Apart(st.log, left)
  BY <1>2, <1>3, ThinsKeeps
<1>7. Apart(log, left)
  <2> SUFFICES ASSUME NEW k \in 1 .. Len(log), NEW j \in 1 .. Len(left), log[k].type = "ENTRY"
               PROVE  log[k].zone # left[j].zone
    BY DEF Apart
  <2>1. CASE log[k].zone = s.zone
    BY <1>4, <2>1
  <2>2. CASE log[k].zone # s.zone
    BY <1>6, <2>2 DEF Apart
  <2> QED
    BY <2>1, <2>2
<1>8. PositionAt(s.zone, c) \in PositionSet(Z) /\ PositionAt(s.zone, c) # NoPosition
      /\ PositionAt(s.zone, c).zone = s.zone
  BY NotNoPosition DEF PositionAt, PositionSet
<1>9. InPosition(new)
  BY <1>1, <1>8 DEF InPosition
<1>10. WaitsOpposite(new)
  BY <1>1, <1>4, <1>8 DEF WaitsOpposite
<1>11. PositionOK(new, Z)
  BY <1>1, <1>8, <1>9, <1>10 DEF PositionOK
<1>12. <<>> \in Seq(R) /\ Distinct(<<>>)
  BY DEF Distinct
<1>13. StoreOK(new, t, R, W, Z)
  BY <1>1, <1>5, <1>6, <1>7, <1>11, <1>12 DEF StoreOK
<1> QED
  BY <1>13 DEF new

\* What is left of a list without repetitions has none.
LEMMA AmongDistinct ==
  ASSUME NEW S, NEW seq \in Seq(S), Distinct(seq), NEW wanted
  PROVE  Distinct(Among(seq, wanted))
<1> DEFINE left == Among(seq, wanted)
<1>1. PICK h : Embeds(h, left, seq)
  BY AmongFacts
<1>2. left \in Seq(S) /\ Len(left) \in Nat /\ Len(seq) \in Nat
  BY AmongEntries
<1> HIDE DEF left
<1>3. SUFFICES ASSUME NEW i \in 1 .. Len(left), NEW j \in 1 .. Len(left), i < j, left[i] = left[j]
               PROVE  FALSE
  BY <1>2 DEF Distinct, left
<1>4. h[i] \in 1 .. Len(seq) /\ h[j] \in 1 .. Len(seq) /\ h[i] < h[j]
  BY <1>1, <1>3 DEF Embeds
<1>5. seq[h[i]] = seq[h[j]]
  BY <1>1, <1>3 DEF Embeds
<1> QED
  BY <1>2, <1>4, <1>5 DEF Distinct

\* Putting an entry into a list adds it and nothing else.
LEMMA InsertedEntries ==
  ASSUME NEW S, NEW seq \in Seq(S), NEW z \in S
  PROVE  /\ Inserted(seq, z) \in Seq(S) /\ Len(Inserted(seq, z)) \in Nat
         /\ \A i \in 1 .. Len(Inserted(seq, z)) :
              Inserted(seq, z)[i] = z \/ \E k \in 1 .. Len(seq) : Inserted(seq, z)[i] = seq[k]
         /\ Distinct(seq) /\ (\A k \in 1 .. Len(seq) : seq[k] # z) => Distinct(Inserted(seq, z))
<1> DEFINE later == {y \in ToSet(seq) : Precedes(z, y)}
           a == Among(seq, ToSet(seq) \ later)
           b == Among(seq, later)
           all == a \o <<z>> \o b
<1>1. /\ a \in Seq(S) /\ Len(a) \in Nat
      /\ \A i \in 1 .. Len(a) : a[i] \notin later /\ \E k \in 1 .. Len(seq) : a[i] = seq[k]
  <2> DEFINE earlier == ToSet(seq) \ later
  <2> HIDE DEF later, earlier
  <2>1. /\ Among(seq, earlier) \in Seq(S) /\ Len(Among(seq, earlier)) \in Nat
        /\ \A i \in 1 .. Len(Among(seq, earlier)) :
             /\ Among(seq, earlier)[i] \in earlier
             /\ \E k \in 1 .. Len(seq) : Among(seq, earlier)[i] = seq[k]
    BY AmongEntries
  <2>2. \A y \in earlier : y \notin later
    BY DEF earlier
  <2>3. a = Among(seq, earlier)
    BY DEF earlier
  <2> HIDE DEF a
  <2> QED
    BY <2>1, <2>2, <2>3
<1>2. /\ b \in Seq(S) /\ Len(b) \in Nat
      /\ \A i \in 1 .. Len(b) : b[i] \in later /\ \E k \in 1 .. Len(seq) : b[i] = seq[k]
  <2> HIDE DEF later
  <2> QED
    BY AmongEntries
<1>3. Distinct(seq) => Distinct(a) /\ Distinct(b)
  BY AmongDistinct
<1>4. Inserted(seq, z) = all
  BY DEF Inserted
<1> HIDE DEF later, a, b
<1>5. /\ all \in Seq(S) /\ Len(all) = Len(a) + 1 + Len(b)
      /\ \A i \in 1 .. Len(a) : all[i] = a[i]
      /\ all[Len(a) + 1] = z
      /\ \A i \in 1 .. Len(all) : i > Len(a) + 1 =>
            i - (Len(a) + 1) \in 1 .. Len(b) /\ all[i] = b[i - (Len(a) + 1)]
  BY <1>1, <1>2
<1> HIDE DEF all
<1>6. ASSUME NEW i \in 1 .. Len(all)
      PROVE  \/ i \in 1 .. Len(a) /\ all[i] = a[i]
             \/ i = Len(a) + 1 /\ all[i] = z
             \/ /\ i > Len(a) + 1 /\ i - (Len(a) + 1) \in 1 .. Len(b)
                /\ all[i] = b[i - (Len(a) + 1)]
  <2>1. i \in Nat /\ Len(a) \in Nat /\ 1 <= i
    BY <1>1, <1>2, <1>5
  <2>2. CASE i \in 1 .. Len(a)
    BY <1>5, <2>2
  <2>3. CASE i = Len(a) + 1
    BY <1>5, <2>3
  <2>4. CASE i > Len(a) + 1
    BY <1>5, <2>4
  <2>5. i \in 1 .. Len(a) \/ i = Len(a) + 1 \/ i > Len(a) + 1
    BY <2>1
  <2> QED
    BY <2>2, <2>3, <2>4, <2>5
<1>7. ASSUME NEW i \in 1 .. Len(all)
      PROVE  all[i] = z \/ \E k \in 1 .. Len(seq) : all[i] = seq[k]
  <2>1. CASE i \in 1 .. Len(a) /\ all[i] = a[i]
    BY <1>1, <2>1
  <2>2. CASE i > Len(a) + 1 /\ i - (Len(a) + 1) \in 1 .. Len(b) /\ all[i] = b[i - (Len(a) + 1)]
    BY <1>2, <2>2
  <2> QED
    BY <1>6, <2>1, <2>2
<1>9. Len(all) \in Nat
  BY <1>1, <1>2, <1>5
<1>8. ASSUME Distinct(seq), \A k \in 1 .. Len(seq) : seq[k] # z,
             NEW i \in 1 .. Len(all), NEW j \in 1 .. Len(all), i < j, all[i] = all[j]
      PROVE  FALSE
  <2>1. \A k \in 1 .. Len(a) : a[k] # z
    BY <1>1, <1>8
  <2>2. \A k \in 1 .. Len(b) : b[k] # z
    BY <1>2, <1>8
  <2>3. \A k \in 1 .. Len(a), l \in 1 .. Len(b) : a[k] # b[l]
    BY <1>1, <1>2
  <2>4. CASE i \in 1 .. Len(a) /\ all[i] = a[i]
    <3>1. CASE j \in 1 .. Len(a) /\ all[j] = a[j]
      <4>1. a[i] = a[j]
        <5>1. all[i] = all[j]
          BY <1>8
        <5> QED
          BY <2>4, <3>1, <5>1
      <4>2. i # j
        BY <1>8
      <4>3. Distinct(a) /\ i \in 1 .. Len(a) /\ j \in 1 .. Len(a)
        BY <1>3, <1>8, <2>4, <3>1
      <4> QED
        BY <4>1, <4>2, <4>3 DEF Distinct
    <3>2. CASE j = Len(a) + 1 /\ all[j] = z
      <4>1. a[i] = z
        BY <1>8, <2>4, <3>2
      <4> QED
        BY <2>1, <2>4, <4>1
    <3>3. CASE j > Len(a) + 1 /\ j - (Len(a) + 1) \in 1 .. Len(b) /\ all[j] = b[j - (Len(a) + 1)]
      <4>1. a[i] = b[j - (Len(a) + 1)]
        BY <1>8, <2>4, <3>3
      <4> QED
        BY <2>3, <2>4, <3>3, <4>1
    <3> QED
      BY <1>6, <3>1, <3>2, <3>3
  <2>5. CASE i = Len(a) + 1 /\ all[i] = z
    <3>1. i \in Nat /\ j \in Nat /\ Len(a) \in Nat /\ i < j
      BY <1>1, <1>8, <1>9
    <3>2. j \notin 1 .. Len(a) /\ j # Len(a) + 1
      BY <2>5, <3>1
    <3>3. /\ j - (Len(a) + 1) \in 1 .. Len(b) /\ all[j] = b[j - (Len(a) + 1)]
      BY <1>6, <3>2
    <3>4. b[j - (Len(a) + 1)] = z
      BY <1>8, <2>5, <3>3
    <3> QED
      BY <2>2, <3>3, <3>4
  <2>6. CASE /\ i > Len(a) + 1 /\ i - (Len(a) + 1) \in 1 .. Len(b)
             /\ all[i] = b[i - (Len(a) + 1)]
    <3>1. /\ j > Len(a) + 1 /\ j - (Len(a) + 1) \in 1 .. Len(b)
          /\ all[j] = b[j - (Len(a) + 1)]
      <4>2. i \in Nat /\ j \in Nat /\ Len(a) \in Nat /\ i < j
        BY <1>1, <1>8, <1>9
      <4>1. j \notin 1 .. Len(a) /\ j # Len(a) + 1
        BY <2>6, <4>2
      <4> QED
        BY <1>6, <4>1
    <3>2. i - (Len(a) + 1) = j - (Len(a) + 1)
      <4>1. b[i - (Len(a) + 1)] = b[j - (Len(a) + 1)]
        BY <1>8, <2>6, <3>1
      <4>2. Distinct(b)
        BY <1>3, <1>8
      <4> QED
        BY <2>6, <3>1, <4>1, <4>2 DEF Distinct
    <3>3. i \in Nat /\ j \in Nat /\ Len(a) \in Nat /\ i < j
      BY <1>1, <1>8, <1>9
    <3> QED
      BY <3>2, <3>3
  <2> QED
    BY <1>6, <2>4, <2>5, <2>6
<1>10. Distinct(seq) /\ (\A k \in 1 .. Len(seq) : seq[k] # z) => Distinct(all)
  <2> SUFFICES ASSUME Distinct(seq), \A k \in 1 .. Len(seq) : seq[k] # z,
                      NEW i \in 1 .. Len(all), NEW j \in 1 .. Len(all), all[i] = all[j]
               PROVE  i = j
    BY DEF Distinct
  <2>1. ~(i < j) /\ ~(j < i)
    BY <1>8
  <2> QED
    BY <1>9, <2>1
<1> QED
  BY <1>4, <1>5, <1>7, <1>9, <1>10

\* The recursion Ranked is defined by.
IsRanking(f, seq) ==
  f = [n \in 0 .. Len(seq) |-> IF n = 0 THEN <<>> ELSE Inserted(f[n - 1], seq[n])]

LEMMA RankedSteps ==
  ASSUME NEW S, NEW seq \in Seq(S)
  PROVE  \E f \in [0 .. Len(seq) -> Seq(S)] :
           /\ f[0] = <<>> /\ Ranked(seq) = f[Len(seq)]
           /\ \A n \in 1 .. Len(seq) : f[n] = Inserted(f[n - 1], seq[n])
<1>1. Len(seq) \in Nat /\ <<>> \in Seq(S)
  OBVIOUS
<1> DEFINE place == [i \in 1 .. Len(seq) |-> [acc \in Seq(S) |-> Inserted(acc, seq[i])]]
<1>2. place \in [1 .. Len(seq) -> [Seq(S) -> Seq(S)]]
  <2>1. ASSUME NEW i \in 1 .. Len(seq), NEW acc \in Seq(S)
        PROVE  Inserted(acc, seq[i]) \in Seq(S)
    <3>1. seq[i] \in S
      OBVIOUS
    <3> QED
      BY <3>1, InsertedEntries
  <2> QED
    BY <2>1
<1>3. PICK g \in [0 .. Len(seq) -> Seq(S)] : Runs(g, Len(seq), <<>>, place)
  <2> HIDE DEF place
  <2> QED
    BY <1>1, <1>2, RunExists
<1>4. g[0] = <<>> /\ \A n \in 1 .. Len(seq) : g[n] = Inserted(g[n - 1], seq[n])
  <2>1. g[0] = <<>>
    BY <1>3 DEF Runs
  <2>2. ASSUME NEW n \in 1 .. Len(seq)
        PROVE  g[n] = Inserted(g[n - 1], seq[n])
    <3>1. n - 1 \in 0 .. Len(seq)
      BY <1>1
    <3>2. g[n - 1] \in Seq(S)
      BY <3>1
    <3>3. g[n] = place[n][g[n - 1]]
      BY <1>3 DEF Runs
    <3> QED
      BY <3>2, <3>3
  <2> QED
    BY <2>1, <2>2
<1> HIDE DEF place
<1>5. IsRanking(g, seq)
  <2> DEFINE body(n) == IF n = 0 THEN <<>> ELSE Inserted(g[n - 1], seq[n])
  <2>1. ASSUME NEW n \in 0 .. Len(seq)
        PROVE  g[n] = body(n)
    <3>1. CASE n = 0
      BY <1>4, <3>1
    <3>2. CASE n # 0
      <4>1. n \in 1 .. Len(seq)
        BY <1>1, <3>2
      <4> QED
        BY <1>4, <3>2, <4>1
    <3> QED
      BY <3>1, <3>2
  <2>2. g = [n \in 0 .. Len(seq) |-> g[n]]
    OBVIOUS
  <2>3. g = [n \in 0 .. Len(seq) |-> body(n)]
    <3> HIDE DEF body
    <3> QED
      BY <2>1, <2>2
  <2> QED
    BY <2>3 DEF IsRanking
<1> DEFINE f == CHOOSE h : IsRanking(h, seq)
<1>6. IsRanking(f, seq)
  BY <1>5
<1>7. Ranked(seq) = f[Len(seq)]
  BY DEF Ranked, IsRanking
<1> HIDE DEF f
<1>8. /\ f[0] = <<>> /\ f = [n \in 0 .. Len(seq) |-> f[n]]
      /\ \A n \in 1 .. Len(seq) : f[n] = Inserted(f[n - 1], seq[n])
  <2> DEFINE body(n) == IF n = 0 THEN <<>> ELSE Inserted(f[n - 1], seq[n])
  <2>1. f = [n \in 0 .. Len(seq) |-> body(n)]
    BY <1>6 DEF IsRanking
  <2>2. ASSUME NEW n \in 0 .. Len(seq)
        PROVE  f[n] = body(n)
    <3> HIDE DEF body
    <3> QED
      BY <2>1
  <2>3. f = [n \in 0 .. Len(seq) |-> f[n]]
    <3> HIDE DEF body
    <3> QED
      BY <2>1
  <2>4. f[0] = <<>>
    <3>1. 0 \in 0 .. Len(seq)
      BY <1>1
    <3> QED
      BY <2>2, <3>1
  <2>5. ASSUME NEW n \in 1 .. Len(seq)
        PROVE  f[n] = Inserted(f[n - 1], seq[n])
    <3>1. n \in 0 .. Len(seq) /\ n # 0
      BY <1>1
    <3> QED
      BY <2>2, <3>1
  <2> QED
    BY <2>3, <2>4, <2>5
<1> DEFINE K == {n \in Nat : n <= Len(seq) => f[n] = g[n]}
<1>9. Nat \subseteq K
  <2>1. 0 \in K
    BY <1>4, <1>8
  <2>2. ASSUME NEW n \in Nat, n \in K
        PROVE  n + 1 \in K
    <3> SUFFICES ASSUME n + 1 <= Len(seq)
                 PROVE  f[n + 1] = g[n + 1]
      OBVIOUS
    <3>1. n + 1 \in 1 .. Len(seq) /\ (n + 1) - 1 = n /\ f[n] = g[n]
      BY <1>1, <2>2
    <3> QED
      BY <1>4, <1>8, <3>1
  <2> HIDE DEF K
  <2> QED
    BY <2>1, <2>2, StepByStep
<1>10. f = g
  <2>1. ASSUME NEW n \in 0 .. Len(seq)
        PROVE  f[n] = g[n]
    BY <1>1, <1>9
  <2> QED
    BY <1>8, <2>1
<1> QED
  BY <1>4, <1>7, <1>10

\* A ranked list has entries of the list, and none twice that the list has once.
LEMMA RankedEntries ==
  ASSUME NEW S, NEW seq \in Seq(S)
  PROVE  /\ Ranked(seq) \in Seq(S) /\ Len(Ranked(seq)) \in Nat
         /\ \A i \in 1 .. Len(Ranked(seq)) : \E k \in 1 .. Len(seq) : Ranked(seq)[i] = seq[k]
         /\ Distinct(seq) => Distinct(Ranked(seq))
<1>1. PICK f \in [0 .. Len(seq) -> Seq(S)] :
        /\ f[0] = <<>> /\ Ranked(seq) = f[Len(seq)]
        /\ \A n \in 1 .. Len(seq) : f[n] = Inserted(f[n - 1], seq[n])
  BY RankedSteps
<1> DEFINE Fine(n) == /\ \A i \in 1 .. Len(f[n]) : \E k \in 1 .. n : f[n][i] = seq[k]
                      /\ Distinct(seq) => Distinct(f[n])
           K == {n \in Nat : n <= Len(seq) => Fine(n)}
<1>2. 0 \in K
  BY <1>1 DEF Distinct
<1>3. ASSUME NEW n \in Nat, n + 1 <= Len(seq), Fine(n)
      PROVE  Fine(n + 1)
  <2>1. /\ f[n] \in Seq(S) /\ seq[n + 1] \in S /\ Len(f[n]) \in Nat
        /\ f[n + 1] = Inserted(f[n], seq[n + 1])
    <3>1. n + 1 \in 1 .. Len(seq) /\ n \in 0 .. Len(seq) /\ (n + 1) - 1 = n
      BY <1>3
    <3> QED
      BY <1>1, <3>1
  <2>2. /\ \A i \in 1 .. Len(f[n + 1]) :
             f[n + 1][i] = seq[n + 1] \/ \E k \in 1 .. Len(f[n]) : f[n + 1][i] = f[n][k]
        /\ Distinct(f[n]) /\ (\A k \in 1 .. Len(f[n]) : f[n][k] # seq[n + 1]) => Distinct(f[n + 1])
    <3> DEFINE old == f[n]
               z == seq[n + 1]
    <3> HIDE DEF Fine, old, z
    <3>1. old \in Seq(S) /\ z \in S
      BY <2>1 DEF old, z
    <3>2. /\ \A i \in 1 .. Len(Inserted(old, z)) :
               Inserted(old, z)[i] = z \/ \E k \in 1 .. Len(old) : Inserted(old, z)[i] = old[k]
          /\ Distinct(old) /\ (\A k \in 1 .. Len(old) : old[k] # z) => Distinct(Inserted(old, z))
      BY <3>1, InsertedEntries
    <3>3. f[n + 1] = Inserted(old, z)
      BY <2>1 DEF old, z
    <3> QED
      BY <3>2, <3>3 DEF old, z
  <2>3. \A i \in 1 .. Len(f[n + 1]) : \E k \in 1 .. n + 1 : f[n + 1][i] = seq[k]
    BY <1>3, <2>2
  <2>4. ASSUME Distinct(seq), NEW k \in 1 .. Len(f[n]), f[n][k] = seq[n + 1]
        PROVE  FALSE
    <3>1. PICK l \in 1 .. n : f[n][k] = seq[l]
      BY <1>3
    <3>2. l \in 1 .. Len(seq) /\ n + 1 \in 1 .. Len(seq) /\ l # n + 1
      BY <1>3
    <3> QED
      BY <2>4, <3>1, <3>2 DEF Distinct
  <2> QED
    BY <1>3, <2>2, <2>3, <2>4
<1>4. Nat \subseteq K
  <2>1. ASSUME NEW n \in Nat, n \in K
        PROVE  n + 1 \in K
    <3> SUFFICES ASSUME n + 1 <= Len(seq) PROVE Fine(n + 1)
      OBVIOUS
    <3>1. Fine(n)
      BY <2>1
    <3> HIDE DEF Fine
    <3> QED
      BY <1>3, <3>1
  <2> HIDE DEF K
  <2> QED
    BY <1>2, <2>1, StepByStep
<1>5. Fine(Len(seq)) /\ Len(seq) \in Nat
  <2> HIDE DEF Fine
  <2> QED
    BY <1>4
<1>6. f[Len(seq)] \in Seq(S)
  BY <1>5
<1> QED
  BY <1>1, <1>5, <1>6

\* The references of a candle are records of it, none twice.
LEMMA ReferencesAre ==
  ASSUME NEW S, NEW records \in Seq(S), NEW at
  PROVE  /\ ReferencesOf(records, at) \in Seq(S)
         /\ \A i \in 1 .. Len(ReferencesOf(records, at)) :
              ReferencesOf(records, at)[i].candle = at
<1> DEFINE left == Among(Expire(records, at), {z \in ToSet(records) : z.candle = at})
<1>1. left \in Seq(S) /\ \A i \in 1 .. Len(left) : left[i].candle = at
  BY AmongEntries, ExpireIs
<1> HIDE DEF left
<1>2. ReferencesOf(records, at) = Ranked(left)
  BY DEF ReferencesOf, left
<1> QED
  BY <1>1, <1>2, RankedEntries

LEMMA ReferencesDistinct ==
  ASSUME NEW S, NEW records \in Seq(S), Distinct(records), NEW at
  PROVE  Distinct(Expire(records, at)) /\ Distinct(ReferencesOf(records, at))
<1>1. Expire(records, at) \in Seq(S) /\ Distinct(Expire(records, at))
  BY ExpireIs, AmongDistinct DEF Expire
<1> DEFINE left == Among(Expire(records, at), {z \in ToSet(records) : z.candle = at})
<1>2. left \in Seq(S) /\ Distinct(left)
  BY <1>1, AmongDistinct, AmongEntries
<1> HIDE DEF left
<1>3. ReferencesOf(records, at) = Ranked(left)
  BY DEF ReferencesOf, left
<1> QED
  BY <1>1, <1>2, <1>3, RankedEntries

-----------------------------------------------------------------------------
(* One candle.                                                             *)

\* The zones the engine may meet, and a candle later than the last one.
NextInput(R, W, Z, t, c) ==
  /\ Dated(Z) /\ W \subseteq Z /\ R \subseteq Z
  /\ t \in Nat /\ c.at \in Nat /\ t < c.at
  /\ \A z \in R : z.candle = c.at => z \in W

LEMMA InputGives ==
  ASSUME NEW R, NEW W, NEW Z, NEW t, NEW c, NextInput(R, W, Z, t, c)
  PROVE  /\ Dated(W) /\ Dated(Z) /\ W \subseteq Z /\ R \subseteq Z
         /\ t \in Nat /\ c.at \in Nat /\ t < c.at /\ t <= c.at
  BY DEF NextInput, Dated

\* The signal of a setup that enters, and what it is appended to.
LEMMA EntrySignal ==
  ASSUME NEW R, NEW W, NEW Z, NEW t, NEW c, NextInput(R, W, Z, t, c),
         NEW setups, SetupsOK(setups, t, W), NEW n \in 1 .. Len(setups),
         Enters(Aged(setups[n]), c), NEW log, Apart(log, setups)
  PROVE  LET e == Entry(setups[n].zone, c, Aged(setups[n]))
         IN /\ e \in SignalSet(Z) /\ e.type = "ENTRY" /\ Retest(e) /\ e.zone = setups[n].zone
            /\ e.zone.candle <= c.at /\ e.zone \in Z
            /\ \A i \in 1 .. Len(log) : log[i].type = "ENTRY" => log[i].zone # e.zone
<1> DEFINE s == setups[n]
           e == Entry(s.zone, c, Aged(s))
<1>1. s \in SetupSet(W) /\ Fits(s, t)
  BY EntryOf DEF SetupsOK
<1>2. Dated(W) /\ W \subseteq Z /\ t \in Nat /\ c.at \in Nat /\ t < c.at
  BY InputGives
<1> HIDE DEF s
<1>3. /\ Fits(s, c.at) /\ Aged(s) \in SetupSet(W) /\ Aged(s).touched = s.touched
  BY <1>1, <1>2, AgedFits
<1>4. s.zone \in W /\ s.zone \in Z /\ s.touched \in Nat /\ s.since \in Nat /\ s.zone.candle \in Nat
  BY <1>1, <1>2 DEF SetupSet, Dated
<1>5. s.zone.candle <= c.at
  BY <1>2, <1>3, <1>4 DEF Fits
<1>6. Retest(e)
  BY <1>1, <1>2, EntryIsRetest DEF s
<1>7. e = [type |-> "ENTRY", zone |-> s.zone, at |-> c.at, touched |-> s.touched]
  BY <1>3 DEF Entry
<1>8. e \in SignalSet(Z) /\ e.type = "ENTRY" /\ e.zone = s.zone
  BY <1>2, <1>4, <1>7 DEF SignalSet
<1> HIDE DEF e
<1>9. \A i \in 1 .. Len(log) : log[i].type = "ENTRY" => log[i].zone # e.zone
  BY <1>8 DEF Apart, s
<1> QED
  BY <1>4, <1>5, <1>6, <1>8, <1>9 DEF e, s

\* Beside no position a setup enters.
LEMMA FlatEntryOK ==
  ASSUME NEW R, NEW W, NEW Z, NEW t, NEW c, NextInput(R, W, Z, t, c),
         NEW st, StoreOK(st, t, R, W, Z), ~InPosition(st),
         NEW n \in 1 .. Len(st.setups), Enters(Aged(st.setups[n]), c)
  PROVE  LET reached == Reached(st.setups, c, n)
         IN StoreOK(AfterEntry(st, reached, reached[n], c, <<Entry(reached[n].zone, c, reached[n])>>),
                    c.at, R, W, Z)
<1> DEFINE reached == Reached(st.setups, c, n)
           e == Entry(st.setups[n].zone, c, Aged(st.setups[n]))
           log == Append(st.log, e)
<1>1. /\ IsStore(st) /\ SetupsOK(st.setups, t, W) /\ OneSetup(st.setups)
      /\ LogOK(st.log, t, Z) /\ Apart(st.log, st.setups) /\ ~(Len(st.log) % 2 = 1)
  BY DEF StoreOK, PositionOK
<1>2. Dated(Z) /\ Dated(W) /\ t \in Nat /\ c.at \in Nat /\ t < c.at /\ t <= c.at
  BY InputGives
<1>3. /\ SetupsOK(reached, c.at, W) /\ Thins(reached, st.setups)
      /\ reached[n] = Aged(st.setups[n])
  BY <1>1, <1>2, ReachedOK
<1>4. /\ e \in SignalSet(Z) /\ e.type = "ENTRY" /\ Retest(e) /\ e.zone = st.setups[n].zone
      /\ e.zone.candle <= c.at /\ e.zone \in Z
      /\ \A i \in 1 .. Len(st.log) : st.log[i].type = "ENTRY" => st.log[i].zone # e.zone
  BY <1>1, EntrySignal
<1> HIDE DEF reached
<1>5. reached[n].zone = st.setups[n].zone
  <2>1. st.setups[n] \in SetupSet(W) /\ Fits(st.setups[n], t)
    BY <1>1, EntryOf DEF SetupsOK
  <2> QED
    BY <1>2, <1>3, <2>1, AgedFits
<1>6. Entry(reached[n].zone, c, reached[n]) = e
  BY <1>3, <1>5
<1> HIDE DEF e
<1>7. LogOK(st.log, c.at, Z)
  BY <1>1, <1>2, LogLater
<1>8. LogOK(log, c.at, Z)
  BY <1>1, <1>4, <1>7, LogEntry
<1>9. st.log \in Seq(SignalSet(Z)) /\ Len(st.log) \in Nat
  BY <1>1 DEF LogOK
<1>10. /\ log = st.log \o <<e>> /\ Len(log) = Len(st.log) + 1 /\ log[Len(log)] = e
       /\ \A k \in 1 .. Len(log) : log[k] = e \/ (k \in 1 .. Len(st.log) /\ log[k] = st.log[k])
  BY <1>4, <1>9
<1>11. Len(log) % 2 = 1
  BY <1>1, <1>9, <1>10, Parity
<1> HIDE DEF log
<1>12. OneSetup(reached) /\ Apart(st.log, reached)
  BY <1>1, <1>3, ThinsKeeps DEF SetupsOK
<1>13. \A k \in 1 .. Len(log) : log[k].type = "ENTRY" =>
           \/ log[k].zone = reached[n].zone
           \/ \E i \in 1 .. Len(st.log) : st.log[i].type = "ENTRY" /\ st.log[i].zone = log[k].zone
  BY <1>4, <1>5, <1>10
<1>14. log[Len(log)].zone = reached[n].zone /\ reached[n].zone \in Z
  BY <1>4, <1>5, <1>10
<1>15. StoreOK(AfterEntry(st, reached, reached[n], c, <<e>>), c.at, R, W, Z)
  BY <1>1, <1>2, <1>3, <1>8, <1>10, <1>11, <1>12, <1>13, <1>14, AfterEntryOK
<1> QED
  BY <1>6, <1>15 DEF reached

\* In a position a setup of the other direction enters.
LEMMA ReverseOK ==
  ASSUME NEW R, NEW W, NEW Z, NEW t, NEW c, NextInput(R, W, Z, t, c),
         NEW st, StoreOK(st, t, R, W, Z), InPosition(st),
         NEW n \in 1 .. Len(st.setups), Enters(Aged(st.setups[n]), c)
  PROVE  StoreOK(ReverseAt(st, n, c), c.at, R, W, Z)
<1> DEFINE wanted == Opposite(Direction(st.position.zone))
           s == Aged(st.setups[n])
           before == SubSeq(st.setups, 1, n - 1)
           kept == Kept(before, c, {wanted})
           x == Exit(st.position.zone, c)
           e == Entry(st.setups[n].zone, c, s)
           mid == Append(st.log, x)
           log == Append(mid, e)
<1>1. /\ IsStore(st) /\ SetupsOK(st.setups, t, W) /\ OneSetup(st.setups)
      /\ LogOK(st.log, t, Z) /\ Apart(st.log, st.setups) /\ Len(st.log) % 2 = 1
      /\ st.position \in PositionSet(Z) \union {NoPosition} /\ st.position # NoPosition
      /\ st.position.zone = st.log[Len(st.log)].zone
  BY DEF StoreOK, PositionOK, InPosition
<1>2. Dated(Z) /\ Dated(W) /\ t \in Nat /\ c.at \in Nat /\ t < c.at /\ t <= c.at
  BY InputGives
<1>3. SetupsOK(before, t, W) /\ Thins(before, st.setups)
  BY <1>1, BeforeOK
<1>4. SetupsOK(kept, c.at, W) /\ Thins(kept, before)
  <2> HIDE DEF before, wanted
  <2> QED
    BY <1>2, <1>3, KeptOK
<1>5. /\ e \in SignalSet(Z) /\ e.type = "ENTRY" /\ Retest(e) /\ e.zone = st.setups[n].zone
      /\ e.zone.candle <= c.at /\ e.zone \in Z
      /\ \A i \in 1 .. Len(st.log) : st.log[i].type = "ENTRY" => st.log[i].zone # e.zone
  BY <1>1, EntrySignal
<1>6. s.zone = st.setups[n].zone
  <2>1. st.setups[n] \in SetupSet(W) /\ Fits(st.setups[n], t)
    BY <1>1, EntryOf DEF SetupsOK
  <2> QED
    BY <1>2, <2>1, AgedFits
<1>7. x \in SignalSet(Z) /\ x.type = "EXIT" /\ x.zone = st.log[Len(st.log)].zone
  <2>1. st.position.zone \in Z
    BY <1>1 DEF PositionSet
  <2> QED
    BY <1>1, <1>2, <2>1 DEF Exit, SignalSet
<1>8. ReverseAt(st, n, c) = AfterEntry(st, kept, s, c, <<x, e>>)
  BY <1>6 DEF ReverseAt
<1> HIDE DEF e, x, kept, before, wanted, s
<1>9. LogOK(st.log, c.at, Z)
  BY <1>1, <1>2, LogLater
<1>10. LogOK(mid, c.at, Z)
  BY <1>1, <1>7, <1>9, LogExit
<1>11. st.log \in Seq(SignalSet(Z)) /\ Len(st.log) \in Nat
  BY <1>1 DEF LogOK
<1>12. /\ mid \in Seq(SignalSet(Z)) /\ Len(mid) = Len(st.log) + 1
       /\ \A k \in 1 .. Len(mid) : mid[k] = x \/ (k \in 1 .. Len(st.log) /\ mid[k] = st.log[k])
  BY <1>7, <1>11
<1>13. ~(Len(mid) % 2 = 1)
  BY <1>1, <1>11, <1>12, Parity
<1>14. \A i \in 1 .. Len(mid) : mid[i].type = "ENTRY" => mid[i].zone # e.zone
  BY <1>5, <1>7, <1>12
<1>15. log = st.log \o <<x, e>>
  BY <1>5, <1>7, <1>11
<1> HIDE DEF mid
<1>16. LogOK(log, c.at, Z)
  BY <1>5, <1>10, <1>13, <1>14, LogEntry
<1>17. /\ Len(log) = Len(mid) + 1 /\ log[Len(log)] = e
       /\ \A k \in 1 .. Len(log) : log[k] = e \/ (k \in 1 .. Len(mid) /\ log[k] = mid[k])
  BY <1>5, <1>12
<1>18. Len(log) % 2 = 1
  <2>1. Len(mid) \in Nat
    BY <1>11, <1>12
  <2>2. (Len(mid) + 1) % 2 = 1
    BY <1>13, <2>1, Parity
  <2> QED
    BY <1>17, <2>2
<1> HIDE DEF log
<1>19. Thins(kept, st.setups)
  BY <1>1, <1>3, <1>4, ThinsTwice DEF SetupsOK
<1>20. OneSetup(kept) /\ Apart(st.log, kept)
  BY <1>1, <1>4, <1>19, ThinsKeeps DEF SetupsOK
<1>21. ASSUME NEW k \in 1 .. Len(log), log[k].type = "ENTRY"
       PROVE  \/ log[k].zone = s.zone
              \/ \E i \in 1 .. Len(st.log) : st.log[i].type = "ENTRY" /\ st.log[i].zone = log[k].zone
  <2>1. CASE log[k] = e
    BY <1>5, <1>6, <2>1
  <2>2. CASE log[k] # e
    <3>1. k \in 1 .. Len(mid) /\ log[k] = mid[k]
      BY <1>17, <2>2
    <3>2. mid[k] # x
      BY <1>7, <1>21, <3>1
    <3>3. k \in 1 .. Len(st.log) /\ log[k] = st.log[k]
      BY <1>12, <3>1, <3>2
    <3> QED
      BY <1>21, <3>3
  <2> QED
    BY <2>1, <2>2
<1>22. log[Len(log)].zone = s.zone /\ s.zone \in Z
  BY <1>5, <1>6, <1>17
<1>23. StoreOK(AfterEntry(st, kept, s, c, <<x, e>>), c.at, R, W, Z)
  BY <1>1, <1>2, <1>4, <1>15, <1>16, <1>18, <1>20, <1>21, <1>22, AfterEntryOK
<1> QED
  BY <1>8, <1>23

\* The setups a candle adds, one for each zone found.
NewSetups(found) == [k \in 1 .. Len(found) |-> NewSetup(found[k])]

\* A list of setups and those a candle adds.
LEMMA OneMoreSetup ==
  ASSUME NEW R, NEW W, NEW Z, NEW t, NEW c, NextInput(R, W, Z, t, c),
         NEW new, NEW old, SetupsOK(new, c.at, W), SetupsOK(old, t, W), Thins(new, old),
         OneSetup(new), NEW log, LogOK(log, t, Z), Apart(log, new),
         NEW found \in Seq(W), Distinct(found),
         \A k \in 1 .. Len(found) : /\ found[k].candle = c.at
                                    /\ \A i \in 1 .. Len(new) : found[k] # new[i].zone
  PROVE  LET more == new \o NewSetups(found)
         IN /\ SetupsOK(more, c.at, W) /\ OneSetup(more) /\ Apart(log, more)
            /\ \A i \in 1 .. Len(more) : \/ \E j \in 1 .. Len(new) : more[i].zone = new[j].zone
                                         \/ \E k \in 1 .. Len(found) : more[i].zone = found[k]
<1> DEFINE extra == [k \in 1 .. Len(found) |-> NewSetup(found[k])]
           more == new \o extra
<1>1. Dated(W) /\ Dated(Z) /\ W \subseteq Z /\ t \in Nat /\ c.at \in Nat /\ t < c.at
  BY InputGives
<1>2. new \in Seq(SetupSet(W)) /\ Len(new) \in Nat /\ Len(found) \in Nat
  BY DEF SetupsOK
<1>3. ASSUME NEW k \in 1 .. Len(found)
      PROVE  /\ NewSetup(found[k]) \in SetupSet(W) /\ NewSetup(found[k]).zone = found[k]
             /\ Fits(NewSetup(found[k]), c.at)
  <2>1. found[k] \in W /\ found[k].candle = c.at
    BY EntryOf
  <2>2. /\ NewSetup(found[k]) \in SetupSet(W) /\ NewSetup(found[k]).zone = found[k]
        /\ NewSetup(found[k]).since = 0 /\ NewSetup(found[k]).touched = 0
    BY <2>1 DEF NewSetup, SetupSet
  <2> QED
    BY <1>1, <2>1, <2>2 DEF Fits
<1>4. extra \in Seq(SetupSet(W)) /\ Len(extra) = Len(found)
  BY <1>2, <1>3
<1>5. \A k \in 1 .. Len(found) : extra[k] = NewSetup(found[k])
  OBVIOUS
<1> HIDE DEF extra
<1>6. /\ more \in Seq(SetupSet(W)) /\ Len(more) = Len(new) + Len(found)
      /\ \A i \in 1 .. Len(new) : more[i] = new[i]
      /\ \A i \in 1 .. Len(more) : ~(i \in 1 .. Len(new)) =>
           i - Len(new) \in 1 .. Len(found) /\ more[i] = extra[i - Len(new)]
  <2>1. more \in Seq(SetupSet(W)) /\ Len(more) = Len(new) + Len(found)
    <3>1. /\ new \o extra \in Seq(SetupSet(W))
          /\ Len(new \o extra) = Len(new) + Len(extra)
      BY <1>2, <1>4, ConcatProperties
    <3> QED
      BY <1>4, <3>1
  <2>2. \A i \in 1 .. Len(new) : more[i] = new[i]
    BY <1>2, <1>4
  <2>3. ASSUME NEW i \in 1 .. Len(more), ~(i \in 1 .. Len(new))
        PROVE  i - Len(new) \in 1 .. Len(found) /\ more[i] = extra[i - Len(new)]
    <3>1. i - Len(new) \in 1 .. Len(found)
      BY <1>2, <2>1, <2>3
    <3>2. i \in Nat /\ i > Len(new) /\ i <= Len(new) + Len(extra)
      BY <1>2, <1>4, <2>1, <2>3
    <3> QED
      BY <1>2, <1>4, <3>1, <3>2
  <2> QED
    BY <2>1, <2>2, <2>3
<1> HIDE DEF more
<1>7. ASSUME NEW i \in 1 .. Len(more), ~(i \in 1 .. Len(new))
      PROVE  /\ i - Len(new) \in 1 .. Len(found) /\ more[i].zone = found[i - Len(new)]
             /\ Fits(more[i], c.at)
  <2>1. i - Len(new) \in 1 .. Len(found) /\ more[i] = NewSetup(found[i - Len(new)])
    BY <1>5, <1>6, <1>7
  <2> QED
    BY <1>3, <2>1
<1>8. SetupsOK(more, c.at, W)
  <2>1. ASSUME NEW i \in 1 .. Len(more)
        PROVE  Fits(more[i], c.at)
    <3>1. CASE i \in 1 .. Len(new)
      BY <1>6, <3>1 DEF SetupsOK
    <3>2. CASE ~(i \in 1 .. Len(new))
      BY <1>7, <3>2
    <3> QED
      BY <3>1, <3>2
  <2> QED
    BY <1>6, <2>1 DEF SetupsOK
<1>9. OneSetup(more)
  <2> SUFFICES ASSUME NEW i \in 1 .. Len(more), NEW j \in 1 .. Len(more),
                      more[i].zone = more[j].zone
               PROVE  i = j
    BY DEF OneSetup
  <2>1. CASE i \in 1 .. Len(new) /\ j \in 1 .. Len(new)
    BY <1>6, <2>1 DEF OneSetup
  <2>2. CASE i \in 1 .. Len(new) /\ ~(j \in 1 .. Len(new))
    <3>1. more[i] = new[i] /\ j - Len(new) \in 1 .. Len(found) /\ more[j].zone = found[j - Len(new)]
      BY <1>6, <1>7, <2>2
    <3> QED
      BY <2>2, <3>1
  <2>3. CASE ~(i \in 1 .. Len(new)) /\ j \in 1 .. Len(new)
    <3>1. more[j] = new[j] /\ i - Len(new) \in 1 .. Len(found) /\ more[i].zone = found[i - Len(new)]
      BY <1>6, <1>7, <2>3
    <3> QED
      BY <2>3, <3>1
  <2>4. CASE ~(i \in 1 .. Len(new)) /\ ~(j \in 1 .. Len(new))
    <3>1. /\ i - Len(new) \in 1 .. Len(found) /\ more[i].zone = found[i - Len(new)]
          /\ j - Len(new) \in 1 .. Len(found) /\ more[j].zone = found[j - Len(new)]
      BY <1>7, <2>4
    <3>2. i - Len(new) = j - Len(new)
      BY <3>1 DEF Distinct
    <3>3. i \in Int /\ j \in Int
      BY <1>6, <1>2
    <3> QED
      BY <1>2, <3>2, <3>3
  <2> QED
    BY <2>1, <2>2, <2>3, <2>4
<1>10. Apart(log, more)
  <2> SUFFICES ASSUME NEW i \in 1 .. Len(log), NEW j \in 1 .. Len(more), log[i].type = "ENTRY"
               PROVE  log[i].zone # more[j].zone
    BY DEF Apart
  <2>1. CASE j \in 1 .. Len(new)
    BY <1>6, <2>1 DEF Apart
  <2>2. CASE ~(j \in 1 .. Len(new))
    <3>1. more[j].zone.candle = c.at
      BY <1>7, <2>2
    <3>2. log[i] \in SignalSet(Z)
      BY EntryOf DEF LogOK
    <3>3. log[i].zone.candle \in Nat /\ log[i].zone.candle <= t
      BY <1>1, <3>2 DEF SignalSet, Dated, LogOK
    <3> QED
      BY <1>1, <3>1, <3>3
  <2> QED
    BY <2>1, <2>2
<1>11. \A i \in 1 .. Len(more) : \/ \E j \in 1 .. Len(new) : more[i].zone = new[j].zone
                                 \/ \E k \in 1 .. Len(found) : more[i].zone = found[k]
  BY <1>6, <1>7
<1> QED
  BY <1>8, <1>9, <1>10, <1>11 DEF more, extra, NewSetups

\* A zone of the candle is not the zone of an earlier setup.
LEMMA LaterZone ==
  ASSUME NEW W, Dated(W), NEW t \in Nat, NEW c, c.at \in Nat, t < c.at,
         NEW old, SetupsOK(old, t, W), NEW new \in Seq(SetupSet(W)), Thins(new, old),
         NEW z, z.candle = c.at, NEW i \in 1 .. Len(new)
  PROVE  z # new[i].zone
<1>1. old \in Seq(SetupSet(W))
  BY DEF SetupsOK
<1>2. PICK j \in 1 .. Len(old) : new[i].zone = old[j].zone
  BY <1>1, ThinsKeeps
<1>3. old[j] \in SetupSet(W) /\ Fits(old[j], t)
  BY <1>1, EntryOf DEF SetupsOK
<1>4. old[j].zone.candle \in Nat /\ old[j].since \in Nat
  BY <1>3 DEF SetupSet, Dated
<1>5. old[j].zone.candle <= t
  BY <1>3, <1>4 DEF Fits
<1> QED
  BY <1>2, <1>4, <1>5

\* The store when only the memory and the setups have changed.
LEMMA QuietOK ==
  ASSUME NEW R, NEW W, NEW Z, NEW t, NEW c, NextInput(R, W, Z, t, c),
         NEW st, StoreOK(st, t, R, W, Z),
         NEW records, records \in Seq(R), Distinct(records),
         NEW setups, SetupsOK(setups, c.at, W), OneSetup(setups), Apart(st.log, setups),
         InPosition(st) => \A i \in 1 .. Len(setups) :
                             Direction(setups[i].zone) # Direction(st.position.zone)
  PROVE  StoreOK([st EXCEPT !.records = records, !.setups = setups], c.at, R, W, Z)
<1> DEFINE new == [st EXCEPT !.records = records, !.setups = setups]
<1>1. IsStore(st) /\ LogOK(st.log, t, Z) /\ PositionOK(st, Z)
  BY DEF StoreOK
<1>2. /\ IsStore(new) /\ new.records = records /\ new.setups = setups /\ new.log = st.log
      /\ new.position = st.position /\ new.tracked = st.tracked
  <2>0. DOMAIN st = {"records", "tracked", "setups", "position", "log"}
    <3> DEFINE r == [records |-> st.records, tracked |-> st.tracked, setups |-> st.setups,
                     position |-> st.position, log |-> st.log]
    <3>1. DOMAIN r = {"records", "tracked", "setups", "position", "log"} /\ st = r
      BY <1>1 DEF IsStore
    <3> HIDE DEF r
    <3> QED
      BY <3>1
  <2>1. new = [x \in DOMAIN new |-> new[x]] /\ DOMAIN new = DOMAIN st
    OBVIOUS
  <2>2. /\ new.records = records /\ new.setups = setups /\ new.log = st.log
        /\ new.position = st.position /\ new.tracked = st.tracked
    BY <2>0
  <2> HIDE DEF new
  <2>3. new = [records |-> new.records, tracked |-> new.tracked, setups |-> new.setups,
               position |-> new.position, log |-> new.log]
    BY <2>0, <2>1
  <2> QED
    BY <2>2, <2>3 DEF IsStore
<1> HIDE DEF new
<1>3. LogOK(st.log, c.at, Z)
  BY <1>1, InputGives, LogLater
<1>4. InPosition(new) <=> InPosition(st)
  BY <1>2 DEF InPosition
<1>5. WaitsOpposite(new)
  BY <1>2, <1>4 DEF WaitsOpposite
<1>6. PositionOK(new, Z)
  BY <1>1, <1>2, <1>4, <1>5 DEF PositionOK
<1>7. StoreOK(new, c.at, R, W, Z)
  BY <1>2, <1>3, <1>6 DEF StoreOK
<1> QED
  BY <1>7 DEF new

LEMMA EvaluateFlatOK ==
  ASSUME NEW R, NEW W, NEW Z, NEW t, NEW c, NextInput(R, W, Z, t, c),
         NEW st, StoreOK(st, t, R, W, Z), ~InPosition(st)
  PROVE  StoreOK(EvaluateFlat(st, c), c.at, R, W, Z)
<1> DEFINE both == {"LONG", "SHORT"}
           n == FirstEntering(st.setups, c, both)
           reached == Reached(st.setups, c, n)
           found == ReferencesOf(st.records, c.at)
           kept == Kept(st.setups, c, both)
           best == IF found = <<>> THEN <<>> ELSE <<NewSetup(Head(found))>>
           first == IF found = <<>> THEN <<>> ELSE <<Head(found)>>
<1>1. /\ IsStore(st) /\ SetupsOK(st.setups, t, W) /\ OneSetup(st.setups)
      /\ LogOK(st.log, t, Z) /\ Apart(st.log, st.setups)
      /\ st.records \in Seq(R) /\ Distinct(st.records)
  BY DEF StoreOK
<1>2. Dated(W) /\ t \in Nat /\ c.at \in Nat /\ t < c.at
  BY InputGives
<1>3. CASE n # 0
  <2>1. Len(st.setups) \in Nat
    BY <1>1 DEF SetupsOK
  <2>2. n \in 1 .. Len(st.setups) /\ Enters(Aged(st.setups[n]), c)
    BY <1>3, <2>1, FirstEnteringIs
  <2>3. EvaluateFlat(st, c) =
          AfterEntry(st, reached, reached[n], c, <<Entry(reached[n].zone, c, reached[n])>>)
    BY <1>3 DEF EvaluateFlat, Reached
  <2> HIDE DEF n
  <2> QED
    BY <2>2, <2>3, FlatEntryOK
<1>4. CASE n = 0
  <2>1. EvaluateFlat(st, c) =
          [st EXCEPT !.records = Expire(st.records, c.at), !.setups = kept \o best]
    BY <1>4 DEF EvaluateFlat
  <2>2. SetupsOK(kept, c.at, W) /\ Thins(kept, st.setups)
    BY <1>1, <1>2, KeptOK
  <2>3. OneSetup(kept) /\ Apart(st.log, kept)
    BY <1>1, <2>2, ThinsKeeps DEF SetupsOK
  <2>4. found \in Seq(R) /\ \A k \in 1 .. Len(found) : found[k].candle = c.at
    BY <1>1, ReferencesAre
  <2>5. best = NewSetups(first)
    BY DEF NewSetups
  <2> HIDE DEF found
  <2>6. /\ first \in Seq(W) /\ Distinct(first)
        /\ \A k \in 1 .. Len(first) : first[k].candle = c.at
    <3>1. CASE found = <<>>
      BY <3>1 DEF Distinct
    <3>2. CASE found # <<>>
      <4>1. Head(found) = found[1] /\ 1 \in 1 .. Len(found) /\ Head(found) \in R
        BY <2>4, <3>2
      <4>2. Head(found).candle = c.at
        BY <2>4, <4>1
      <4>3. Head(found) \in W
        BY <4>1, <4>2 DEF NextInput
      <4>4. first = <<Head(found)>>
        BY <3>2
      <4> QED
        BY <4>2, <4>3, <4>4 DEF Distinct
    <3> QED
      BY <3>1, <3>2
  <2> HIDE DEF first, kept, best
  <2>7. \A k \in 1 .. Len(first), i \in 1 .. Len(kept) : first[k] # kept[i].zone
    <3>1. kept \in Seq(SetupSet(W)) /\ Thins(kept, st.setups) /\ SetupsOK(st.setups, t, W)
      BY <1>1, <2>2 DEF SetupsOK
    <3> TAKE k \in 1 .. Len(first), i \in 1 .. Len(kept)
    <3> DEFINE z == first[k]
    <3>2. z.candle = c.at
      BY <2>6
    <3> HIDE DEF z
    <3>3. z # kept[i].zone
      BY <1>2, <3>1, <3>2, LaterZone
    <3> QED
      BY <3>3 DEF z
  <2>8. SetupsOK(kept \o best, c.at, W) /\ OneSetup(kept \o best) /\ Apart(st.log, kept \o best)
    BY <1>1, <2>2, <2>3, <2>5, <2>6, <2>7, OneMoreSetup
  <2>9. Expire(st.records, c.at) \in Seq(R) /\ Distinct(Expire(st.records, c.at))
    BY <1>1, ExpireIs, ReferencesDistinct
  <2>10. StoreOK([st EXCEPT !.records = Expire(st.records, c.at), !.setups = kept \o best],
                 c.at, R, W, Z)
    BY <2>8, <2>9, QuietOK
  <2> QED
    BY <2>1, <2>10
<1> QED
  BY <1>3, <1>4

LEMMA OtherDirection ==
  \A z : Direction(z) \in {"LONG", "SHORT"} /\ Opposite(Direction(z)) # Direction(z)
  BY DEF Direction, Opposite

\* In a position without a reversal: the setups of the other direction are
\* watched and the refills of the candle are remembered.
LEMMA WatchedOK ==
  ASSUME NEW R, NEW W, NEW Z, NEW t, NEW c, NextInput(R, W, Z, t, c),
         NEW st, StoreOK(st, t, R, W, Z), InPosition(st), NEW wanted
  PROVE  LET watched == Remember([st EXCEPT !.setups = Kept(@, c, wanted)], c)
         IN StoreOK(watched, c.at, R, W, Z) /\ watched.position = st.position
<1> DEFINE kept == Kept(st.setups, c, wanted)
           mid == [st EXCEPT !.setups = kept]
           way == Opposite(Direction(st.position.zone))
           held == {kept[i].zone : i \in 1 .. Len(kept)}
           refs == ReferencesOf(st.records, c.at)
           fresh == {z \in ToSet(st.records) : Direction(z) = way /\ z \notin held}
           found == Among(refs, fresh)
           more == kept \o [i \in 1 .. Len(found) |-> NewSetup(found[i])]
           new == [st EXCEPT !.records = Expire(st.records, c.at), !.setups = more]
<1>1. /\ IsStore(st) /\ SetupsOK(st.setups, t, W) /\ OneSetup(st.setups)
      /\ LogOK(st.log, t, Z) /\ Apart(st.log, st.setups)
      /\ st.records \in Seq(R) /\ Distinct(st.records) /\ WaitsOpposite(st)
  BY DEF StoreOK, PositionOK
<1>2. Dated(W) /\ t \in Nat /\ c.at \in Nat /\ t < c.at
  BY InputGives
<1>3. /\ DOMAIN st = {"records", "tracked", "setups", "position", "log"}
  <2> DEFINE r == [records |-> st.records, tracked |-> st.tracked, setups |-> st.setups,
                   position |-> st.position, log |-> st.log]
  <2>1. DOMAIN r = {"records", "tracked", "setups", "position", "log"} /\ st = r
    BY <1>1 DEF IsStore
  <2> HIDE DEF r
  <2> QED
    BY <2>1
<1>4. Remember([st EXCEPT !.setups = Kept(@, c, wanted)], c) = new
  <2>1. [st EXCEPT !.setups = Kept(@, c, wanted)] = mid
    OBVIOUS
  <2>2. mid.setups = kept /\ mid.position = st.position /\ mid.records = st.records
    BY <1>3
  <2> HIDE DEF kept
  <2>3. [mid EXCEPT !.records = Expire(st.records, c.at), !.setups = more] = new
    BY <1>3
  <2>4. Remember(mid, c) =
          [mid EXCEPT !.records = Expire(st.records, c.at), !.setups = more]
    BY <1>3, <2>2 DEF Remember
  <2> QED
    BY <2>1, <2>3, <2>4
<1>5. SetupsOK(kept, c.at, W) /\ Thins(kept, st.setups)
  BY <1>1, <1>2, KeptOK
<1>6. OneSetup(kept) /\ Apart(st.log, kept)
  BY <1>1, <1>5, ThinsKeeps DEF SetupsOK
<1>7. /\ refs \in Seq(R) /\ \A k \in 1 .. Len(refs) : refs[k].candle = c.at
      /\ Distinct(refs)
  BY <1>1, ReferencesAre, ReferencesDistinct
<1>8. \A k \in 1 .. Len(found) : found[k] \in fresh
  <2> HIDE DEF refs, fresh
  <2> QED
    BY <1>7, AmongEntries
<1>9. /\ found \in Seq(R) /\ Distinct(found) /\ Len(found) \in Nat
      /\ \A k \in 1 .. Len(found) : found[k].candle = c.at
  <2> HIDE DEF refs, fresh
  <2> QED
    BY <1>7, AmongEntries, AmongDistinct
<1>10. \A k \in 1 .. Len(found), i \in 1 .. Len(kept) : found[k] # kept[i].zone
  <2> HIDE DEF found, kept
  <2> QED
    BY <1>8
<1>11. \A k \in 1 .. Len(found) : Direction(found[k]) = way
  <2> HIDE DEF found
  <2> QED
    BY <1>8
<1> HIDE DEF found, kept
<1>12. found \in Seq(W)
  <2>1. \A k \in 1 .. Len(found) : found[k] \in W
    BY <1>9, EntryOf DEF NextInput
  <2> QED
    BY <1>9, <2>1
<1>13. /\ SetupsOK(more, c.at, W) /\ OneSetup(more) /\ Apart(st.log, more)
       /\ \A i \in 1 .. Len(more) : \/ \E j \in 1 .. Len(kept) : more[i].zone = kept[j].zone
                                    \/ \E k \in 1 .. Len(found) : more[i].zone = found[k]
  <2>1. more = kept \o NewSetups(found)
    BY DEF NewSetups
  <2> HIDE DEF more
  <2> QED
    BY <1>1, <1>5, <1>6, <1>9, <1>10, <1>12, <2>1, OneMoreSetup
<1>14. \A j \in 1 .. Len(kept) : Direction(kept[j].zone) # Direction(st.position.zone)
  <2> TAKE j \in 1 .. Len(kept)
  <2>1. \E k \in 1 .. Len(st.setups) : kept[j].zone = st.setups[k].zone
    BY <1>1, <1>5, ThinsKeeps DEF SetupsOK
  <2> QED
    BY <1>1, <2>1 DEF WaitsOpposite
<1> HIDE DEF more
<1>15. \A i \in 1 .. Len(more) : Direction(more[i].zone) # Direction(st.position.zone)
  BY <1>11, <1>13, <1>14, OtherDirection
<1>16. Expire(st.records, c.at) \in Seq(R) /\ Distinct(Expire(st.records, c.at))
  BY <1>1, ExpireIs, ReferencesDistinct
<1>17. StoreOK(new, c.at, R, W, Z)
  BY <1>13, <1>15, <1>16, QuietOK
<1>18. new.position = st.position
  BY <1>3
<1> HIDE DEF new
<1> QED
  BY <1>4, <1>17, <1>18

\* A live candle ends the position, or leaves it.
LEMMA ExitLiveOK ==
  ASSUME NEW R, NEW W, NEW Z, NEW t, NEW st, StoreOK(st, t, R, W, Z), InPosition(st),
         NEW live, live.at \in Nat
  PROVE  StoreOK(ExitLive(st, live), t, R, W, Z)
<1> DEFINE x == Exit(st.position.zone, live)
           log == Append(st.log, x)
           closed == [st EXCEPT
                        !.records = <<>>, !.setups = <<>>, !.position = NoPosition,
                        !.tracked = @ \ {st.position}, !.log = log]
           open == [st EXCEPT !.records = Expire(st.records, live.at)]
<1>1. ExitLive(st, live) \in {closed, open}
  BY DEF ExitLive
<1>2. /\ IsStore(st) /\ SetupsOK(st.setups, t, W) /\ OneSetup(st.setups)
      /\ LogOK(st.log, t, Z) /\ Apart(st.log, st.setups) /\ Len(st.log) % 2 = 1
      /\ st.position \in PositionSet(Z) \union {NoPosition} /\ st.position # NoPosition
      /\ st.position.zone = st.log[Len(st.log)].zone
      /\ st.records \in Seq(R) /\ Distinct(st.records) /\ PositionOK(st, Z)
  BY DEF StoreOK, PositionOK, InPosition
<1>3. DOMAIN st = {"records", "tracked", "setups", "position", "log"}
  <2> DEFINE r == [records |-> st.records, tracked |-> st.tracked, setups |-> st.setups,
                   position |-> st.position, log |-> st.log]
  <2>1. DOMAIN r = {"records", "tracked", "setups", "position", "log"} /\ st = r
    BY <1>2 DEF IsStore
  <2> HIDE DEF r
  <2> QED
    BY <2>1
<1>4. StoreOK(closed, t, R, W, Z)
  <2>1. x \in SignalSet(Z) /\ x.type = "EXIT" /\ x.zone = st.log[Len(st.log)].zone
    <3>1. st.position.zone \in Z
      BY <1>2 DEF PositionSet
    <3> QED
      BY <1>2, <3>1 DEF Exit, SignalSet
  <2> HIDE DEF x
  <2>2. LogOK(log, t, Z)
    BY <1>2, <2>1, LogExit
  <2>3. st.log \in Seq(SignalSet(Z)) /\ Len(st.log) \in Nat
    BY <1>2 DEF LogOK
  <2>4. Len(log) = Len(st.log) + 1
    BY <2>1, <2>3
  <2>5. ~(Len(log) % 2 = 1)
    BY <1>2, <2>3, <2>4, Parity
  <2> HIDE DEF log
  <2>6. closed = [x2 \in DOMAIN closed |-> closed[x2]] /\ DOMAIN closed = DOMAIN st
    OBVIOUS
  <2>7. /\ closed.records = <<>> /\ closed.setups = <<>> /\ closed.position = NoPosition
        /\ closed.log = log
    BY <1>3
  <2> HIDE DEF closed
  <2>8. IsStore(closed)
    BY <1>3, <2>6 DEF IsStore
  <2>9. SetupsOK(<<>>, t, W) /\ OneSetup(<<>>) /\ Apart(log, <<>>) /\ Distinct(<<>>)
    BY DEF SetupsOK, OneSetup, Apart, Distinct
  <2>10. PositionOK(closed, Z)
    BY <2>5, <2>7 DEF PositionOK, InPosition, WaitsOpposite
  <2>11. <<>> \in Seq(R)
    OBVIOUS
  <2> QED
    BY <2>2, <2>7, <2>8, <2>9, <2>10, <2>11 DEF StoreOK
<1>5. StoreOK(open, t, R, W, Z)
  <2>1. open = [x2 \in DOMAIN open |-> open[x2]] /\ DOMAIN open = DOMAIN st
    OBVIOUS
  <2>2. /\ open.records = Expire(st.records, live.at) /\ open.setups = st.setups
        /\ open.position = st.position /\ open.log = st.log /\ open.tracked = st.tracked
    BY <1>3
  <2> HIDE DEF open
  <2>3. IsStore(open)
    BY <1>3, <2>1 DEF IsStore
  <2>4. Expire(st.records, live.at) \in Seq(R) /\ Distinct(Expire(st.records, live.at))
    BY <1>2, ExpireIs, ReferencesDistinct
  <2>5. InPosition(open) <=> InPosition(st)
    BY <2>2 DEF InPosition
  <2>6. WaitsOpposite(open)
    BY <1>2, <2>2, <2>5 DEF PositionOK, WaitsOpposite
  <2>7. PositionOK(open, Z)
    BY <1>2, <2>2, <2>5, <2>6 DEF PositionOK
  <2> QED
    BY <1>2, <2>2, <2>3, <2>4, <2>7 DEF StoreOK
<1> HIDE DEF closed, open
<1> QED
  BY <1>1, <1>4, <1>5

\* A candle, and the live one behind it.
LEMMA EvaluateOK ==
  ASSUME NEW R, NEW W, NEW Z, NEW t, NEW c, NextInput(R, W, Z, t, c),
         NEW st, StoreOK(st, t, R, W, Z), NEW live, \A l \in live : l.at \in Nat
  PROVE  StoreOK(Evaluate(st, c, live), c.at, R, W, Z)
<1>1. CASE ~InPosition(st)
  BY <1>1, EvaluateFlatOK DEF Evaluate, InPosition
<1>2. CASE InPosition(st)
  <2> DEFINE wanted == {Opposite(Direction(st.position.zone))}
             n == FirstEntering(st.setups, c, wanted)
             watched == Remember([st EXCEPT !.setups = Kept(@, c, wanted)], c)
             l == CHOOSE l \in live : TRUE
  <2>1. Evaluate(st, c, live) = IF n # 0 THEN ReverseAt(st, n, c)
                                ELSE IF live = {} THEN watched ELSE ExitLive(watched, l)
    BY <1>2 DEF Evaluate, InPosition
  <2>2. CASE n # 0
    <3>1. Len(st.setups) \in Nat
      BY DEF StoreOK, SetupsOK
    <3>2. n \in 1 .. Len(st.setups) /\ Enters(Aged(st.setups[n]), c)
      <4> HIDE DEF wanted
      <4> QED
        BY <2>2, <3>1, FirstEnteringIs
    <3> HIDE DEF n
    <3>3. StoreOK(ReverseAt(st, n, c), c.at, R, W, Z)
      BY <1>2, <3>2, ReverseOK
    <3> QED
      BY <2>1, <2>2, <3>3
  <2>3. CASE n = 0
    <3>1. StoreOK(watched, c.at, R, W, Z) /\ watched.position = st.position
      <4> HIDE DEF wanted
      <4> QED
        BY <1>2, WatchedOK
    <3> HIDE DEF watched, n
    <3>2. InPosition(watched)
      BY <1>2, <3>1 DEF InPosition
    <3>3. live # {} => l.at \in Nat
      OBVIOUS
    <3> HIDE DEF l
    <3>4. live # {} => StoreOK(ExitLive(watched, l), c.at, R, W, Z)
      BY <3>1, <3>2, <3>3, ExitLiveOK
    <3> QED
      BY <2>1, <2>3, <3>1, <3>4
  <2> QED
    BY <2>2, <2>3
<1> QED
  BY <1>1, <1>2

-----------------------------------------------------------------------------
(* The pages.                                                              *)

CandleOf(n, shape) ==
  [at |-> n, low |-> shape.low, high |-> shape.high, buys |-> shape.buys, sells |-> shape.sells]

LiveOf(n, shape) ==
  [at |-> n, low |-> shape.low, high |-> shape.high, buys |-> shape.buys, sells |-> shape.sells,
   lower |-> shape.lower, upper |-> shape.upper]

Candle == {CandleOf(n, shape) : n \in Nat, shape \in Shapes}

\* The number of the i-th closed candle; candles are numbered from 1.
At(i) == IF i = 0 THEN 0 ELSE history[i].at

InOrder ==
  /\ history \in Seq(Candle)
  /\ \A i \in 1 .. Len(history) : At(i - 1) < At(i)

LEMMA AtIs ==
  ASSUME InOrder
  PROVE  /\ Len(history) \in Nat
         /\ \A i \in 0 .. Len(history) : At(i) \in Nat
         /\ LastClosed = At(Len(history))
<1>1. history \in Seq(Candle) /\ Len(history) \in Nat
  BY DEF InOrder
<1>2. ASSUME NEW i \in 1 .. Len(history)
      PROVE  history[i].at \in Nat
  <2>1. history[i] \in Candle
    BY <1>1, EntryOf
  <2> QED
    BY <2>1 DEF Candle, CandleOf
<1>3. ASSUME NEW i \in 0 .. Len(history)
      PROVE  At(i) \in Nat
  <2>1. i = 0 \/ i \in 1 .. Len(history)
    BY <1>1
  <2> QED
    BY <1>2, <2>1 DEF At
<1>4. LastClosed = At(Len(history))
  <2>1. history = <<>> <=> Len(history) = 0
    BY <1>1
  <2> QED
    BY <2>1 DEF LastClosed, Last, At
<1> QED
  BY <1>1, <1>3, <1>4

\* The recursion Enrich is defined by.
IsEnrichment(f, live) ==
  f = [i \in 0 .. Len(history) |->
         IF i = 0 THEN WithFreshStore(memory, running)
         ELSE Evaluate(f[i - 1], history[i], IF i = Len(history) THEN live ELSE {})]

LEMMA EnrichmentExists ==
  ASSUME Len(history) \in Nat, NEW live
  PROVE  \E f : IsEnrichment(f, live)
<1> DEFINE next(x, i) == Evaluate(x, history[i], IF i = Len(history) THEN live ELSE {})
           Upto(k, f) == /\ f = [i \in 0 .. k |-> f[i]]
                         /\ f[0] = WithFreshStore(memory, running)
                         /\ \A i \in 1 .. k : f[i] = next(f[i - 1], i)
           K == {k \in Nat : \E f : Upto(k, f)}
<1>1. 0 \in K
  <2> DEFINE f == [i \in 0 .. 0 |-> WithFreshStore(memory, running)]
  <2>1. Upto(0, f)
    OBVIOUS
  <2> QED
    BY <2>1
<1>2. ASSUME NEW k \in Nat, k \in K
      PROVE  k + 1 \in K
  <2>1. PICK f : Upto(k, f)
    BY <1>2
  <2> HIDE DEF next
  <2> DEFINE g == [i \in 0 .. k + 1 |-> IF i = k + 1 THEN next(f[k], k + 1) ELSE f[i]]
  <2>2. g = [i \in 0 .. k + 1 |-> g[i]]
    OBVIOUS
  <2>3. g[0] = WithFreshStore(memory, running)
    BY <2>1
  <2>4. ASSUME NEW i \in 1 .. k + 1
        PROVE  g[i] = next(g[i - 1], i)
    <3>1. CASE i = k + 1
      <4>1. g[i] = next(f[k], k + 1) /\ g[i - 1] = f[k]
        BY <3>1
      <4> QED
        BY <3>1, <4>1
    <3>2. CASE i # k + 1
      <4>1. i \in 1 .. k /\ g[i] = f[i] /\ g[i - 1] = f[i - 1]
        BY <3>2
      <4> QED
        BY <2>1, <4>1
    <3> QED
      BY <3>1, <3>2
  <2> HIDE DEF g
  <2>5. Upto(k + 1, g)
    BY <2>2, <2>3, <2>4
  <2> HIDE DEF Upto
  <2> QED
    BY <2>5
<1>3. Len(history) \in K
  <2> HIDE DEF K
  <2> QED
    BY <1>1, <1>2, StepByStep
<1>4. PICK f : Upto(Len(history), f)
  BY <1>3
<1> DEFINE body(i) == IF i = 0 THEN WithFreshStore(memory, running) ELSE next(f[i - 1], i)
<1>5. ASSUME NEW i \in 0 .. Len(history)
      PROVE  f[i] = body(i)
  <2>1. i = 0 \/ (i # 0 /\ i \in 1 .. Len(history))
    OBVIOUS
  <2> HIDE DEF next
  <2> QED
    BY <1>4, <2>1
<1>6. f = [i \in 0 .. Len(history) |-> body(i)]
  <2>1. f = [i \in 0 .. Len(history) |-> f[i]]
    BY <1>4
  <2> HIDE DEF body
  <2> QED
    BY <1>5, <2>1
<1> QED
  BY <1>6 DEF IsEnrichment

\* What a page is given is a store after the last closed candle.
LEMMA EnrichOK ==
  ASSUME InOrder, NEW K, Dated(K), memory \in Seq(K), Distinct(memory),
         NEW live, \A l \in live : l.at \in Nat
  PROVE  StoreOK(Enrich(live), LastClosed, K, K, K)
<1> DEFINE f == CHOOSE g : IsEnrichment(g, live)
           n == Len(history)
<1>1. /\ n \in Nat /\ LastClosed = At(n)
      /\ \A i \in 0 .. n : At(i) \in Nat
  BY AtIs
<1>2. IsEnrichment(f, live)
  BY <1>1, EnrichmentExists
<1>3. Enrich(live) = f[n]
  BY DEF Enrich, IsEnrichment
<1> HIDE DEF f
<1> DEFINE body(i) == IF i = 0 THEN WithFreshStore(memory, running)
                      ELSE Evaluate(f[i - 1], history[i], IF i = n THEN live ELSE {})
<1>4. ASSUME NEW i \in 0 .. n
      PROVE  f[i] = body(i)
  <2>1. f = [j \in 0 .. n |-> body(j)]
    BY <1>2 DEF IsEnrichment
  <2> HIDE DEF body
  <2> QED
    BY <2>1
<1> DEFINE T == {i \in Nat : i <= n => StoreOK(f[i], At(i), K, K, K)}
<1>5. 0 \in T
  <2>1. f[0] = WithFreshStore(memory, running)
    BY <1>1, <1>4
  <2> QED
    BY <2>1, FreshStore DEF At
<1>6. ASSUME NEW i \in Nat, i \in T
      PROVE  i + 1 \in T
  <2> SUFFICES ASSUME i + 1 <= n
               PROVE  StoreOK(f[i + 1], At(i + 1), K, K, K)
    OBVIOUS
  <2> DEFINE behind == IF i + 1 = n THEN live ELSE {}
             c == history[i + 1]
  <2>1. i + 1 \in 0 .. n /\ i \in 0 .. n /\ i + 1 \in 1 .. n /\ (i + 1) - 1 = i /\ i + 1 # 0
    BY <1>1
  <2>2. f[i + 1] = Evaluate(f[i], c, behind)
    BY <1>4, <2>1
  <2>3. At(i + 1) = c.at /\ At(i) < c.at /\ At(i) \in Nat /\ c.at \in Nat
    BY <1>1, <2>1 DEF At, InOrder
  <2>4. StoreOK(f[i], At(i), K, K, K)
    BY <1>1, <1>6, <2>1
  <2>5. NextInput(K, K, K, At(i), c)
    BY <2>3 DEF NextInput
  <2>6. \A l \in behind : l.at \in Nat
    OBVIOUS
  <2> HIDE DEF c, behind
  <2>7. StoreOK(Evaluate(f[i], c, behind), c.at, K, K, K)
    BY <2>4, <2>5, <2>6, EvaluateOK
  <2> QED
    BY <2>2, <2>3, <2>7
<1>7. n \in T
  <2> HIDE DEF T
  <2> QED
    BY <1>1, <1>5, <1>6, StepByStep
<1> QED
  BY <1>1, <1>3, <1>7

\* Records that are stored do not repeat.
LEMMA StoredDistinct ==
  ASSUME NEW S, NEW records \in Seq(S), Distinct(records), NEW cancels, NEW z
  PROVE  Distinct(StoreRecords(records, cancels, {z}))
<1> DEFINE kept == Forget(records, cancels)
<1>1. kept \in Seq(S) /\ Len(kept) \in Nat /\ Distinct(kept)
  BY AmongEntries, AmongDistinct DEF Forget
<1> HIDE DEF kept
<1>2. \A x : x \in ToSet(kept) <=> \E i \in 1 .. Len(kept) : x = kept[i]
  BY <1>1, ToSetIs
<1>3. CASE z \in ToSet(kept)
  <2>1. {z} \ ToSet(kept) = {}
    BY <1>3
  <2>2. SetToSeq({z} \ ToSet(kept)) = <<>>
    BY <2>1, ListOfOne
  <2>3. kept \o <<>> = kept
    BY <1>1
  <2> QED
    BY <1>1, <2>2, <2>3 DEF StoreRecords, kept
<1>4. CASE z \notin ToSet(kept)
  <2>1. {z} \ ToSet(kept) = {z}
    BY <1>4
  <2> DEFINE more == kept \o <<z>>
  <2>2. /\ Len(more) = Len(kept) + 1 /\ more[Len(kept) + 1] = z
        /\ \A i \in 1 .. Len(kept) : more[i] = kept[i]
    BY <1>1
  <2> HIDE DEF more
  <2>3. \A i \in 1 .. Len(kept) : kept[i] # z
    BY <1>2, <1>4
  <2>4. Distinct(more)
    <3> SUFFICES ASSUME NEW i \in 1 .. Len(more), NEW j \in 1 .. Len(more), more[i] = more[j]
                 PROVE  i = j
      BY DEF Distinct
    <3>1. (i = Len(kept) + 1 \/ i \in 1 .. Len(kept)) /\ (j = Len(kept) + 1 \/ j \in 1 .. Len(kept))
      BY <1>1, <2>2
    <3> QED
      BY <1>1, <2>2, <2>3, <3>1 DEF Distinct
  <2> QED
    BY <2>1, <2>4, ListOfOne DEF StoreRecords, kept, more
<1> QED
  BY <1>3, <1>4

\* The memory of the shared engine holds zones that were not cancelled, each
\* once; the proxy of a page's open position was started and is not stopped
\* until the next page; a page that is up to date has entered no cancelled zone.
PageInv ==
  /\ InOrder
  /\ Dated(known) /\ gone \subseteq known
  /\ memory \in Seq(known \ gone) /\ Distinct(memory)
  /\ page.log \in Seq(SignalSet(known))
  /\ ~stale => page.log \in Seq(SignalSet(known \ gone))
  /\ PageSound /\ OncePerZone(page)
  /\ ProxyOfOpenPositionRuns

LEMMA PageInvInit == PagesInit => PageInv
<1> SUFFICES ASSUME PagesInit
             PROVE  PageInv
  OBVIOUS
<1>1. /\ page.log = <<>> /\ page.setups = <<>> /\ page.position = NoPosition
  BY DEF PagesInit, NoPage, WithFreshStore
<1>2. ~InPosition(page)
  BY <1>1 DEF InPosition
<1>3. PageSound /\ OncePerZone(page)
  BY <1>1, <1>2 DEF PageSound, Alternates, EntersOnRetest, WaitsOpposite, OncePerZone
<1>4. InOrder /\ Distinct(memory)
  BY DEF PagesInit, InOrder, Distinct
<1> QED
  BY <1>1, <1>2, <1>3, <1>4 DEF PagesInit, PageInv, Dated, ProxyOfOpenPositionRuns

LEMMA PageInvStep == PageInv /\ [PagesNext]_pageVars => PageInv'
<1> SUFFICES ASSUME PageInv, [PagesNext]_pageVars
             PROVE  PageInv'
  OBVIOUS
<1>1. CASE UNCHANGED pageVars
  BY <1>1 DEF pageVars, PageInv, InOrder, At, Dated, PageSound, ProxyOfOpenPositionRuns
<1>2. CASE PublishZone
  <2>1. PICK place \in Places, cancels \in {{}} \union {{z} : z \in ToSet(memory)} :
          LET z == [candle |-> LastClosed + 1, side |-> place.side,
                    low |-> place.low, high |-> place.high,
                    count |-> place.count, levels |-> place.levels]
          IN /\ z \notin known
             /\ memory' = StoreRecords(memory, cancels, {z})
             /\ known' = known \union {z}
             /\ gone' = gone \union cancels
             /\ stale' = TRUE
             /\ UNCHANGED <<history, running, page>>
    BY <1>2 DEF PublishZone
  <2> DEFINE z == [candle |-> LastClosed + 1, side |-> place.side,
                   low |-> place.low, high |-> place.high,
                   count |-> place.count, levels |-> place.levels]
  <2>2. z.candle \in Nat
    <3>1. LastClosed \in Nat
      BY AtIs DEF PageInv
    <3> QED
      BY <3>1
  <2>3. /\ z \notin known /\ memory' = StoreRecords(memory, cancels, {z})
        /\ known' = known \union {z} /\ gone' = gone \union cancels /\ stale' = TRUE
        /\ UNCHANGED <<history, running, page>>
    BY <2>1
  <2> HIDE DEF z
  <2>4. cancels \subseteq known \ gone
    BY ToSetIs DEF PageInv
  <2>5. memory' \in Seq(((known \ gone) \ cancels) \union {z}) /\ Distinct(memory')
    BY <2>3, StoredRecords, StoredDistinct DEF PageInv
  <2>6. ((known \ gone) \ cancels) \union {z} = known' \ gone'
    BY <2>3, <2>4 DEF PageInv
  <2>7. Dated(known') /\ gone' \subseteq known'
    BY <2>2, <2>3, <2>4 DEF PageInv, Dated
  <2>8. InOrder'
    BY <2>3 DEF PageInv, InOrder, At
  <2>9. page.log \in Seq(SignalSet(known'))
    <3>1. SignalSet(known) \subseteq SignalSet(known')
      BY <2>3 DEF SignalSet
    <3> QED
      BY <3>1 DEF PageInv
  <2>10. PageSound' /\ OncePerZone(page)' /\ ProxyOfOpenPositionRuns'
    BY <2>3 DEF PageInv, PageSound, ProxyOfOpenPositionRuns
  <2> QED
    BY <2>3, <2>5, <2>6, <2>7, <2>8, <2>9, <2>10 DEF PageInv
<1>3. CASE CandleCloses
  <2>1. PICK shape \in Shapes, skipped \in 0 .. 1 :
          /\ history' = Append(history, CandleOf(LastClosed + 1 + skipped, shape))
          /\ stale' = TRUE
          /\ UNCHANGED <<memory, running, known, gone, page>>
    BY <1>3 DEF CandleCloses, CandleOf
  <2> DEFINE c == CandleOf(LastClosed + 1 + skipped, shape)
             n == Len(history)
  <2>2. n \in Nat /\ LastClosed = At(n) /\ At(n) \in Nat /\ history \in Seq(Candle)
    BY AtIs DEF PageInv, InOrder
  <2>3. c \in Candle /\ c.at = LastClosed + 1 + skipped
    <3>1. LastClosed + 1 + skipped \in Nat
      BY <2>2
    <3> QED
      BY <3>1 DEF Candle, CandleOf
  <2> HIDE DEF c
  <2>4. /\ history' \in Seq(Candle) /\ Len(history') = n + 1 /\ history'[n + 1] = c
        /\ \A i \in 1 .. n : history'[i] = history[i]
    BY <2>1, <2>2, <2>3 DEF c
  <2>5. ASSUME NEW i \in 1 .. n + 1
        PROVE  At(i - 1)' < At(i)'
    <3>1. CASE i = n + 1
      <4>1. At(i - 1)' = At(n) /\ At(i)' = c.at
        BY <2>2, <2>4, <3>1 DEF At
      <4> QED
        BY <2>2, <2>3, <4>1
    <3>2. CASE i # n + 1
      <4>1. i \in 1 .. n /\ (i - 1 = 0 \/ i - 1 \in 1 .. n)
        BY <2>2, <3>2
      <4>2. At(i - 1)' = At(i - 1) /\ At(i)' = At(i)
        BY <2>4, <4>1 DEF At
      <4> QED
        BY <4>1, <4>2 DEF PageInv, InOrder
    <3> QED
      BY <3>1, <3>2
  <2>6. InOrder'
    BY <2>4, <2>5 DEF InOrder
  <2> QED
    BY <2>1, <2>6 DEF PageInv, Dated, PageSound, ProxyOfOpenPositionRuns
<1>4. CASE ServePage
  <2>1. PICK shape \in Shapes \union {NoPosition} :
          LET live == IF shape = NoPosition THEN {} ELSE {LiveOf(LastClosed + 1, shape)}
              result == Enrich(live)
          IN /\ page' = [result EXCEPT !.records = <<>>, !.tracked = {}]
             /\ memory' = result.records
             /\ running' = result.tracked
             /\ stale' = FALSE
             /\ UNCHANGED <<history, known, gone>>
    BY <1>4 DEF ServePage, LiveOf
  <2> DEFINE live == IF shape = NoPosition THEN {} ELSE {LiveOf(LastClosed + 1, shape)}
             result == Enrich(live)
             K == known \ gone
  <2>2. /\ page' = [result EXCEPT !.records = <<>>, !.tracked = {}]
        /\ memory' = result.records /\ running' = result.tracked
        /\ stale' = FALSE /\ UNCHANGED <<history, known, gone>>
    BY <2>1
  <2>3. \A l \in live : l.at \in Nat
    <3>1. LastClosed \in Nat
      BY AtIs DEF PageInv
    <3> QED
      BY <3>1 DEF LiveOf
  <2>4. InOrder /\ Dated(K) /\ memory \in Seq(K) /\ Distinct(memory)
    BY DEF PageInv, Dated
  <2> HIDE DEF live
  <2>5. StoreOK(result, LastClosed, K, K, K)
    BY <2>3, <2>4, EnrichOK
  <2> HIDE DEF result
  <2>6. /\ IsStore(result) /\ result.records \in Seq(K) /\ Distinct(result.records)
        /\ result.log \in Seq(SignalSet(K))
        /\ InPosition(result) => result.position \in result.tracked
    BY <2>5 DEF StoreOK, PositionOK, LogOK
  <2>7. DOMAIN result = {"records", "tracked", "setups", "position", "log"}
    <3> DEFINE r == [records |-> result.records, tracked |-> result.tracked,
                     setups |-> result.setups, position |-> result.position, log |-> result.log]
    <3>1. DOMAIN r = {"records", "tracked", "setups", "position", "log"} /\ result = r
      BY <2>6 DEF IsStore
    <3> HIDE DEF r
    <3> QED
      BY <3>1
  <2>8. page'.log = result.log /\ page'.setups = result.setups /\ page'.position = result.position
    BY <2>2, <2>7
  <2>9. Alternates(result) /\ EntersOnRetest(result) /\ WaitsOpposite(result) /\ OncePerZone(result)
    BY <2>5, StoreGives
  <2>10. PageSound' /\ OncePerZone(page)'
    <3>1. Alternates(page')
      BY <2>8, <2>9 DEF Alternates, InPosition
    <3>2. EntersOnRetest(page')
      BY <2>8, <2>9 DEF EntersOnRetest
    <3>3. WaitsOpposite(page')
      BY <2>8, <2>9 DEF WaitsOpposite, InPosition
    <3>4. OncePerZone(page')
      BY <2>8, <2>9 DEF OncePerZone
    <3>5. OncePerZone(page)' = OncePerZone(page')
      BY DEF OncePerZone
    <3> QED
      BY <3>1, <3>2, <3>3, <3>4, <3>5 DEF PageSound
  <2>11. ProxyOfOpenPositionRuns'
    BY <2>2, <2>6, <2>8 DEF ProxyOfOpenPositionRuns, InPosition
  <2>12. InOrder'
    BY <2>2, <2>4 DEF InOrder, At
  <2>13. page'.log \in Seq(SignalSet(known)) /\ page'.log \in Seq(SignalSet(K))
    <3>1. SignalSet(K) \subseteq SignalSet(known)
      BY DEF SignalSet
    <3>2. result.log \in Seq(SignalSet(known))
      <4> DEFINE fewer == SignalSet(K)
      <4>1. result.log \in Seq(fewer) /\ fewer \subseteq SignalSet(known)
        BY <2>6, <3>1
      <4> HIDE DEF fewer
      <4> QED
        BY <4>1
    <3> QED
      BY <2>6, <2>8, <3>2
  <2> QED
    BY <2>2, <2>6, <2>10, <2>11, <2>12, <2>13 DEF PageInv, Dated
<1> QED
  BY <1>1, <1>2, <1>3, <1>4 DEF PagesNext

LEMMA PageInvAlways == PagesSpec => []PageInv
  BY PageInvInit, PageInvStep, PTL DEF PagesSpec

\* PageSound: the signals of a page alternate and belong together and its
\* entries are retests, for all candles, zones, timeouts and requests of pages.
THEOREM PagesAreSound == PagesSpec => []PageSound
<1>1. PageInv => PageSound
  BY DEF PageInv
<1> QED
  BY <1>1, PageInvAlways, PTL

\* PageSkipsCancelled: a page enters no zone that was cancelled before.
THEOREM PagesSkipCancelled == PagesSpec => []PageSkipsCancelled
<1>1. PageInv => PageSkipsCancelled
  <2> SUFFICES ASSUME PageInv, ~stale, NEW i \in 1 .. Len(page.log)
               PROVE  page.log[i].zone \notin gone
    BY DEF PageSkipsCancelled
  <2>1. page.log[i] \in SignalSet(known \ gone)
    BY EntryOf DEF PageInv
  <2> QED
    BY <2>1 DEF SignalSet
<1> QED
  BY <1>1, PageInvAlways, PTL

\* ProxyOfOpenPositionRuns: the proxy of the position that is open at the end
\* of a page runs, whatever pages were asked for before.
THEOREM OpenPositionIsTracked == PagesSpec => []ProxyOfOpenPositionRuns
<1>1. PageInv => ProxyOfOpenPositionRuns
  BY DEF PageInv
<1> QED
  BY <1>1, PageInvAlways, PTL

=============================================================================
