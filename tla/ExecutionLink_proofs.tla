------------------------ MODULE ExecutionLink_proofs ------------------------
(***************************************************************************)
(* Theorems about ExecutionLink, for any number of candles, retries and    *)
(* faults: a command the server counts as sent is under way, a request is  *)
(* attempted once, and a live position is known.  They follow from one     *)
(* inductive invariant, LinkInv.                                           *)
(***************************************************************************)
EXTENDS ExecutionLink, FiniteSetTheorems, SequenceTheorems, TLAPS

-----------------------------------------------------------------------------
(* What the server, the terminal and the messages are made of.             *)

Command == [type : {"OPEN", "CLOSE"}, side : Sides, ticket : Nat, sig : Nat]

Position == [side : Sides, gain : BOOLEAN, req : Command]
Tracked == [side : Sides, req : Command]
TrackBook == UNION {[T -> Tracked] : T \in SUBSET Nat}
Order == [side : Sides, fate : {"OPEN", "STOP", "SIGNAL", "HAND"}]

Status ==
  [kind : {"OPENED", "STILL_OPEN", "CLOSED_BY_SIGNAL", "STOPPED", "REJECTED"},
   ticket : Nat, side : Sides, req : Command, sig : Nat, gain : BOOLEAN,
   reason : {"NONE", "NOT_CLOSED", "RETRYABLE", "FINAL"}]
Polls == [kind : {"POLL"}, live : BOOLEAN]

Book == UNION {[T -> Position] : T \in SUBSET Nat}

ServerState ==
  [known : BOOLEAN, entries : [Sides -> Nat],
   exits : [Sides -> [ticket : Nat, sig : Nat]], zone : Sides \union {"NEUTRAL"},
   positions : Book,
   pending : Seq(Command), sent : SUBSET Command, completed : SUBSET Command]

Distinct(seq) == \A i, j \in DOMAIN seq : seq[i] = seq[j] => i = j

\* A command that was decided by candle now, about tickets up to n.
Issued(c, now, n) ==
  IF c.type = "OPEN" THEN c.sig \in 1 .. now ELSE c.ticket \in 1 .. n

ServerOK(s, now, n) ==
  /\ s \in ServerState
  /\ \A side \in Sides : s.entries[side] <= now
  /\ DOMAIN s.positions \subseteq 1 .. n
  /\ \A c \in ToSet(s.pending) : Issued(c, now, n)
  /\ Distinct(s.pending)
  /\ s.sent \subseteq ToSet(s.pending) /\ s.completed \intersect ToSet(s.pending) = {}

\* A command that does not go out: it is out, it was completed, or it was
\* dropped together with its trigger.
Withheld(s, c) ==
  \/ c \in s.sent \union s.completed
  \/ c.type = "OPEN" /\ c \notin ToSet(s.pending) /\ s.entries[c.side] # c.sig

\* What a message of the terminal may say of a broker b.
StatusOK(m, b) ==
  /\ m.kind = "POLL" => m \in Polls
  /\ m.kind # "POLL" => m \in Status
  /\ m.kind \in {"OPENED", "REJECTED"} => m.req.type = "OPEN"
  /\ m.kind = "CLOSED_BY_SIGNAL" => m.req.type = "CLOSE"
  /\ m.kind \in {"OPENED", "CLOSED_BY_SIGNAL", "STOPPED"} => m.reason = "NONE"
  /\ m.kind = "STILL_OPEN" =>
       m.reason = "NONE" \/ (m.reason = "NOT_CLOSED" /\ m.req.type = "CLOSE")
  /\ m.kind = "REJECTED" => m.reason \in {"RETRYABLE", "FINAL"}
  /\ m.kind \in {"CLOSED_BY_SIGNAL", "STOPPED"} => b[m.ticket].fate # "OPEN"

\* Requests and the tickets they are said to be about.
Reports(u) == {m \in ToSet(u) : m.kind \notin {"POLL", "REJECTED"}}
Said(u) == {<<m.req, m.ticket>> : m \in Reports(u)}
Held(book) == {<<book[t].req, t>> : t \in DOMAIN book}

Claims == Said(up) \union Held(tracked) \union Held(server.positions)

ClaimOK(a, n, opened) ==
  /\ a[2] \in 1 .. n
  /\ IF a[1].type = "OPEN" THEN a[1] \in opened ELSE a[1].ticket = a[2]

\* Whoever names a request names it for the same ticket.
OneTicket(claims) == \A a, b \in claims : a[1] = b[1] => a[2] = b[2]

\* Requests to be tried again, each said so once.
IsRetry(m) == m.kind # "POLL" /\ m.reason = "RETRYABLE"
Retrying(u) == {m.req : m \in {x \in ToSet(u) : IsRetry(x)}}
OneRetry(u) ==
  \A i, j \in DOMAIN u : IsRetry(u[i]) /\ IsRetry(u[j]) /\ u[i].req = u[j].req => i = j

\* The terminal waits for the answer to one poll.
OnePoll(u) == \A i, j \in DOMAIN u : u[i] = Poll(TRUE) /\ u[j] = Poll(TRUE) => i = j

Lines == Seq(Status \union Polls)
LineOK(u, b) ==
  u \in Lines /\ OneRetry(u) /\ OnePoll(u) /\ \A m \in ToSet(u) : StatusOK(m, b)

LinkType ==
  /\ clock \in Nat /\ broker \in Seq(Order) /\ tracked \in TrackBook
  /\ settled \in SUBSET Command /\ waiting \in BOOLEAN

\* An answer on its way is waited for, and it is the answer to the one poll
\* that was waited for.
Waits ==
  /\ \/ down = NoAnswer
     \/ waiting /\ \E cmds \in Seq(Command) : down = <<cmds>> /\ Distinct(cmds)
  /\ Poll(TRUE) \in ToSet(up) => waiting /\ down = NoAnswer

\* Requests that were handed out are held back by the server until their own
\* answer comes, and there is one answer.
HandedOut ==
  /\ \A c \in settled \union Answered \union Retrying(up) :
       c \in Command /\ Issued(c, clock, Len(broker)) /\ Withheld(server, c)
  /\ settled \intersect Answered = {}
  /\ Retrying(up) \intersect (settled \union Answered) = {}

\* SentIsUnderWay and BrokerKnown, of the server s, the line u and the broker b.
UnderWay(s, handed, u) ==
  \A c \in s.sent : c \in handed \/ \E m \in ToSet(u) : Answers(m, c)
HeardOf(b, s, u) ==
  \A t \in Live(b) :
    \/ t \in DOMAIN s.positions
    \/ \E m \in ToSet(u) : m.kind \in {"OPENED", "STILL_OPEN"} /\ m.ticket = t

LinkInv ==
  /\ LinkType /\ LineOK(up, broker) /\ Waits
  /\ ServerOK(server, clock, Len(broker))
  /\ \A a \in Claims : ClaimOK(a, Len(broker), settled)
  /\ OneTicket(Claims)
  /\ HandedOut
  /\ UnderWay(server, Answered \union lost, up)
  /\ HeardOf(broker, server, up)

-----------------------------------------------------------------------------
(* Induction and recursive functions.                                      *)

LEMMA LeastNat ==
  ASSUME NEW T \in SUBSET Nat, T # {}
  PROVE  \E m \in T : \A k \in T : m <= k
<1> DEFINE Intervals == {1 .. n : n \in T}
<1>1. Intervals \subseteq FiniteSubsetsOf(Nat) /\ Intervals # {}
  <2>1. ASSUME NEW n \in T
        PROVE  1 .. n \in FiniteSubsetsOf(Nat)
    <3>1. 1 .. n \subseteq Nat /\ IsFiniteSet(1 .. n)
      BY FS_Interval
    <3> QED
      BY <3>1 DEF FiniteSubsetsOf
  <2> QED
    BY <2>1
<1>2. PICK x \in Intervals : \A y \in Intervals : <<y, x>> \notin StrictSubsetOrdering(Nat)
  BY <1>1, WFMin, FS_StrictSubsetOrderingWellFounded
<1>3. PICK m \in T : x = 1 .. m
  OBVIOUS
<1>4. ASSUME NEW k \in T, k < m
      PROVE  FALSE
  <2>1. m \in 1 .. m /\ m \notin 1 .. k
    BY <1>4
  <2>2. 1 .. k \subseteq 1 .. m /\ 1 .. k # 1 .. m /\ {1 .. k, 1 .. m} \subseteq SUBSET Nat
    BY <1>4, <2>1
  <2>3. <<1 .. k, 1 .. m>> \in StrictSubsetOrdering(Nat)
    BY <2>2 DEF StrictSubsetOrdering
  <2> QED
    BY <1>2, <1>3, <2>3
<1> QED
  BY <1>4

LEMMA StepByStep ==
  ASSUME NEW T, 0 \in T, \A n \in Nat : n \in T => n + 1 \in T
  PROVE  Nat \subseteq T
<1> SUFFICES ASSUME Nat \ T # {}
             PROVE  FALSE
  OBVIOUS
<1>1. PICK m \in Nat \ T : \A k \in Nat \ T : m <= k
  BY LeastNat
<1>2. m # 0 /\ m - 1 \in Nat /\ m - 1 \in T
  BY <1>1
<1> QED
  BY <1>2

\* f runs through n steps from base.
Runs(f, n, base, step) == f[0] = base /\ \A i \in 1 .. n : f[i] = step[i][f[i - 1]]

\* The run of n steps exists, for any steps that stay in a set.
LEMMA RunExists ==
  ASSUME NEW T, NEW n \in Nat, NEW base \in T, NEW step \in [1 .. n -> [T -> T]]
  PROVE  \E f \in [0 .. n -> T] : Runs(f, n, base, step)
<1> DEFINE Upto(k) == \E f \in [0 .. k -> T] : Runs(f, k, base, step)
           K == {k \in Nat : k <= n => Upto(k)}
<1>1. Upto(0)
  <2> DEFINE f == [i \in 0 .. 0 |-> base]
  <2>1. f \in [0 .. 0 -> T] /\ Runs(f, 0, base, step)
    BY DEF Runs
  <2> QED
    BY <2>1
<1>2. ASSUME NEW k \in Nat, k + 1 <= n, Upto(k)
      PROVE  Upto(k + 1)
  <2>1. PICK f \in [0 .. k -> T] : Runs(f, k, base, step)
    BY <1>2
  <2> DEFINE g == [i \in 0 .. k + 1 |-> IF i = k + 1 THEN step[k + 1][f[k]] ELSE f[i]]
  <2>2. step[k + 1] \in [T -> T] /\ f[k] \in T
    BY <1>2
  <2>3. g \in [0 .. k + 1 -> T]
    BY <2>2
  <2>4. g[0] = base
    BY <2>1 DEF Runs
  <2>5. ASSUME NEW i \in 1 .. k + 1
        PROVE  g[i] = step[i][g[i - 1]]
    <3>1. CASE i = k + 1
      BY <3>1
    <3>2. CASE i # k + 1
      <4>1. i \in 1 .. k /\ g[i] = f[i] /\ g[i - 1] = f[i - 1]
        BY <3>2
      <4> QED
        BY <2>1, <4>1 DEF Runs
    <3> QED
      BY <3>1, <3>2
  <2>6. Runs(g, k + 1, base, step)
    BY <2>4, <2>5 DEF Runs
  <2> HIDE DEF g
  <2> QED
    BY <2>3, <2>6
<1>3. Nat \subseteq K
  <2>1. 0 \in K /\ \A k \in Nat : k \in K => k + 1 \in K
    BY <1>1, <1>2
  <2> HIDE DEF K
  <2> QED
    BY <2>1, StepByStep
<1> QED
  BY <1>3

-----------------------------------------------------------------------------
(* Lists.                                                                  *)

LEMMA ToSetAppend ==
  ASSUME NEW S, NEW seq \in Seq(S), NEW e \in S
  PROVE  ToSet(Append(seq, e)) = ToSet(seq) \union {e}
<1>1. Len(seq) \in Nat /\ DOMAIN seq = 1 .. Len(seq)
  OBVIOUS
<1>2. /\ DOMAIN Append(seq, e) = 1 .. Len(seq) + 1
      /\ \A i \in 1 .. Len(seq) : Append(seq, e)[i] = seq[i]
      /\ Append(seq, e)[Len(seq) + 1] = e
  BY AppendProperties
<1>3. 1 .. Len(seq) + 1 = (1 .. Len(seq)) \union {Len(seq) + 1}
  BY <1>1
<1> QED
  BY <1>1, <1>2, <1>3 DEF ToSet

\* The entries of a list that is made of two.
LEMMA ConcatParts ==
  ASSUME NEW S, NEW a \in Seq(S), NEW b \in Seq(S)
  PROVE  /\ a \o b \in Seq(S)
         /\ \A i \in DOMAIN a : i \in DOMAIN (a \o b) /\ (a \o b)[i] = a[i]
         /\ \A i \in DOMAIN b :
              i + Len(a) \in DOMAIN (a \o b) /\ (a \o b)[i + Len(a)] = b[i]
         /\ \A i \in DOMAIN (a \o b) :
              i \in DOMAIN a \/ (i - Len(a) \in DOMAIN b /\ i = (i - Len(a)) + Len(a))
<1>1. /\ Len(a) \in Nat /\ DOMAIN a = 1 .. Len(a)
      /\ Len(b) \in Nat /\ DOMAIN b = 1 .. Len(b)
  OBVIOUS
<1>2. /\ a \o b \in Seq(S) /\ DOMAIN (a \o b) = 1 .. Len(a) + Len(b)
      /\ \A i \in 1 .. Len(a) + Len(b) :
           (a \o b)[i] = IF i <= Len(a) THEN a[i] ELSE b[i - Len(a)]
  BY <1>1, ConcatProperties
<1>3. ASSUME NEW i \in DOMAIN b
      PROVE  i + Len(a) \in DOMAIN (a \o b) /\ (a \o b)[i + Len(a)] = b[i]
  <2>1. i + Len(a) \in 1 .. Len(a) + Len(b) /\ ~(i + Len(a) <= Len(a))
        /\ (i + Len(a)) - Len(a) = i
    BY <1>1
  <2> QED
    BY <1>2, <2>1
<1>4. ASSUME NEW i \in DOMAIN a
      PROVE  i \in DOMAIN (a \o b) /\ (a \o b)[i] = a[i]
  BY <1>1, <1>2
<1>5. ASSUME NEW i \in DOMAIN (a \o b)
      PROVE  i \in DOMAIN a \/ (i - Len(a) \in DOMAIN b /\ i = (i - Len(a)) + Len(a))
  BY <1>1, <1>2
<1> QED
  BY <1>2, <1>3, <1>4, <1>5

LEMMA ToSetConcat ==
  ASSUME NEW S, NEW a \in Seq(S), NEW b \in Seq(S)
  PROVE  ToSet(a \o b) = ToSet(a) \union ToSet(b)
<1>1. ASSUME NEW x \in ToSet(a) \union ToSet(b)
      PROVE  x \in ToSet(a \o b)
  <2>1. CASE x \in ToSet(a)
    <3>1. PICK i \in DOMAIN a : x = a[i]
      BY <2>1 DEF ToSet
    <3>2. i \in DOMAIN (a \o b) /\ (a \o b)[i] = x
      BY <3>1, ConcatParts
    <3> QED
      BY <3>2 DEF ToSet
  <2>2. CASE x \in ToSet(b)
    <3>1. PICK i \in DOMAIN b : x = b[i]
      BY <2>2 DEF ToSet
    <3>2. i + Len(a) \in DOMAIN (a \o b) /\ (a \o b)[i + Len(a)] = x
      BY <3>1, ConcatParts
    <3> QED
      BY <3>2 DEF ToSet
  <2> QED
    BY <2>1, <2>2
<1>2. ASSUME NEW x \in ToSet(a \o b)
      PROVE  x \in ToSet(a) \union ToSet(b)
  <2>1. PICK i \in DOMAIN (a \o b) : x = (a \o b)[i]
    BY DEF ToSet
  <2>2. i \in DOMAIN a \/ (i - Len(a) \in DOMAIN b /\ i = (i - Len(a)) + Len(a))
    BY ConcatParts
  <2>3. CASE i \in DOMAIN a
    BY <2>1, <2>3, ConcatParts DEF ToSet
  <2>4. CASE i - Len(a) \in DOMAIN b /\ i = (i - Len(a)) + Len(a)
    <3>1. (a \o b)[(i - Len(a)) + Len(a)] = b[i - Len(a)]
      BY <2>4, ConcatParts
    <3> QED
      BY <2>1, <2>4, <3>1 DEF ToSet
  <2> QED
    BY <2>2, <2>3, <2>4
<1> QED
  BY <1>1, <1>2

LEMMA ToSetType ==
  ASSUME NEW S, NEW seq \in Seq(S)
  PROVE  ToSet(seq) \subseteq S
  BY DEF ToSet

\* Lists without repetition, put together.
LEMMA DistinctConcat ==
  ASSUME NEW S, NEW a \in Seq(S), NEW b \in Seq(S), Distinct(a), Distinct(b),
         ToSet(a) \intersect ToSet(b) = {}
  PROVE  Distinct(a \o b)
<1>1. SUFFICES ASSUME NEW i \in DOMAIN (a \o b), NEW j \in DOMAIN (a \o b),
                      (a \o b)[i] = (a \o b)[j]
               PROVE  i = j
  BY DEF Distinct
<1> DEFINE Left(k) == k \in DOMAIN a /\ (a \o b)[k] = a[k]
           Right(k) == /\ k - Len(a) \in DOMAIN b /\ k = (k - Len(a)) + Len(a)
                       /\ (a \o b)[k] = b[k - Len(a)]
<1>2. \A k \in DOMAIN (a \o b) : Left(k) \/ Right(k)
  <2> TAKE k \in DOMAIN (a \o b)
  <2>1. k \in DOMAIN a \/ (k - Len(a) \in DOMAIN b /\ k = (k - Len(a)) + Len(a))
    BY ConcatParts
  <2>2. CASE k \in DOMAIN a
    BY <2>2, ConcatParts
  <2>3. CASE k - Len(a) \in DOMAIN b /\ k = (k - Len(a)) + Len(a)
    <3>1. (a \o b)[(k - Len(a)) + Len(a)] = b[k - Len(a)]
      BY <2>3, ConcatParts
    <3> QED
      BY <2>3, <3>1
  <2> QED
    BY <2>1, <2>2, <2>3
<1>3. CASE Left(i) /\ Left(j)
  BY <1>1, <1>3 DEF Distinct
<1>4. CASE Right(i) /\ Right(j)
  <2>1. b[i - Len(a)] = b[j - Len(a)]
    BY <1>1, <1>4
  <2>2. i - Len(a) = j - Len(a)
    BY <1>4, <2>1 DEF Distinct
  <2> QED
    BY <1>4, <2>2
<1>5. CASE Left(i) /\ Right(j)
  BY <1>1, <1>5 DEF ToSet
<1>6. CASE Right(i) /\ Left(j)
  BY <1>1, <1>6 DEF ToSet
<1> QED
  BY <1>2, <1>3, <1>4, <1>5, <1>6

LEMMA DistinctAppend ==
  ASSUME NEW S, NEW seq \in Seq(S), Distinct(seq), NEW e \in S, e \notin ToSet(seq)
  PROVE  Distinct(Append(seq, e))
<1>1. Len(seq) \in Nat /\ DOMAIN seq = 1 .. Len(seq)
  OBVIOUS
<1>2. /\ DOMAIN Append(seq, e) = 1 .. Len(seq) + 1
      /\ \A i \in 1 .. Len(seq) : Append(seq, e)[i] = seq[i]
      /\ Append(seq, e)[Len(seq) + 1] = e
  BY AppendProperties
<1>3. \A i \in 1 .. Len(seq) + 1 : i \in 1 .. Len(seq) \/ i = Len(seq) + 1
  BY <1>1
<1>4. \A i \in 1 .. Len(seq) : seq[i] # e
  BY <1>1 DEF ToSet
<1> QED
  BY <1>1, <1>2, <1>3, <1>4 DEF Distinct

-----------------------------------------------------------------------------
(* What is left of a list.                                                 *)

\* The recursion Without is defined by.
IsRest(f, seq, gone) ==
  f = [n \in 0 .. Len(seq) |->
         IF n = 0 THEN <<>>
         ELSE IF seq[n] \in gone THEN f[n - 1] ELSE Append(f[n - 1], seq[n])]

\* One entry more of the list is looked at.
Drop(seq, gone, T) ==
  [i \in 1 .. Len(seq) |->
     [acc \in T |-> IF seq[i] \in gone THEN acc ELSE Append(acc, seq[i])]]

LEMMA WithoutSteps ==
  ASSUME NEW S, NEW seq \in Seq(S), NEW gone
  PROVE  \E f : /\ f[0] = <<>> /\ Without(seq, gone) = f[Len(seq)]
                /\ \A n \in 1 .. Len(seq) :
                     f[n] = IF seq[n] \in gone THEN f[n - 1] ELSE Append(f[n - 1], seq[n])
<1>1. Len(seq) \in Nat /\ <<>> \in Seq(S)
  OBVIOUS
<1>2. Drop(seq, gone, Seq(S)) \in [1 .. Len(seq) -> [Seq(S) -> Seq(S)]]
  BY DEF Drop
<1>3. PICK g \in [0 .. Len(seq) -> Seq(S)] :
        Runs(g, Len(seq), <<>>, Drop(seq, gone, Seq(S)))
  BY <1>1, <1>2, RunExists
<1> DEFINE body(h, n) ==
             IF n = 0 THEN <<>>
             ELSE IF seq[n] \in gone THEN h[n - 1] ELSE Append(h[n - 1], seq[n])
<1>4. IsRest(g, seq, gone)
  <2>1. ASSUME NEW n \in 0 .. Len(seq)
        PROVE  g[n] = body(g, n)
    <3>1. CASE n = 0
      BY <1>3, <3>1 DEF Runs
    <3>2. CASE n # 0
      <4>1. n \in 1 .. Len(seq) /\ n - 1 \in 0 .. Len(seq)
        BY <1>1, <3>2
      <4>2. g[n - 1] \in Seq(S) /\ g[n] = Drop(seq, gone, Seq(S))[n][g[n - 1]]
        BY <1>3, <4>1 DEF Runs
      <4> QED
        BY <3>2, <4>1, <4>2 DEF Drop
    <3> QED
      BY <3>1, <3>2
  <2>2. g = [n \in 0 .. Len(seq) |-> g[n]]
    OBVIOUS
  <2>3. g = [n \in 0 .. Len(seq) |-> body(g, n)]
    <3> HIDE DEF body
    <3> QED
      BY <2>1, <2>2
  <2> QED
    BY <2>3 DEF IsRest
<1> DEFINE f == CHOOSE h : IsRest(h, seq, gone)
<1>5. IsRest(f, seq, gone)
  BY <1>4
<1>6. Without(seq, gone) = f[Len(seq)]
  BY DEF Without, IsRest
<1> HIDE DEF f
<1>7. f = [n \in 0 .. Len(seq) |-> body(f, n)]
  BY <1>5 DEF IsRest
<1>8. ASSUME NEW n \in 0 .. Len(seq)
      PROVE  f[n] = body(f, n)
  <2> HIDE DEF body
  <2> QED
    BY <1>7
<1>9. f[0] = <<>>
  BY <1>1, <1>8
<1>10. ASSUME NEW n \in 1 .. Len(seq)
       PROVE  f[n] = IF seq[n] \in gone THEN f[n - 1] ELSE Append(f[n - 1], seq[n])
  <2>1. n \in 0 .. Len(seq) /\ n # 0
    BY <1>1
  <2> QED
    BY <1>8, <2>1
<1> QED
  BY <1>6, <1>9, <1>10

LEMMA WithoutFacts ==
  ASSUME NEW S, NEW seq \in Seq(S), NEW gone
  PROVE  /\ Without(seq, gone) \in Seq(S)
         /\ ToSet(Without(seq, gone)) = ToSet(seq) \ gone
         /\ Distinct(seq) => Distinct(Without(seq, gone))
<1>1. PICK f : /\ f[0] = <<>> /\ Without(seq, gone) = f[Len(seq)]
               /\ \A n \in 1 .. Len(seq) :
                    f[n] = IF seq[n] \in gone THEN f[n - 1] ELSE Append(f[n - 1], seq[n])
  BY WithoutSteps
<1>2. Len(seq) \in Nat /\ DOMAIN seq = 1 .. Len(seq)
  OBVIOUS
<1> DEFINE Upto(n) == {seq[i] : i \in 1 .. n}
           Fine(n) == /\ f[n] \in Seq(S)
                      /\ ToSet(f[n]) = Upto(n) \ gone
                      /\ Distinct(seq) => Distinct(f[n])
           K == {n \in Nat : n <= Len(seq) => Fine(n)}
<1>3. Fine(0)
  <2>1. f[0] \in Seq(S) /\ DOMAIN f[0] = {}
    BY <1>1
  <2>2. Upto(0) = {} /\ ToSet(f[0]) = {}
    BY <2>1 DEF ToSet
  <2> QED
    BY <2>1, <2>2 DEF Distinct
<1>4. ASSUME NEW n \in Nat, n + 1 <= Len(seq), Fine(n)
      PROVE  Fine(n + 1)
  <2>1. /\ n + 1 \in 1 .. Len(seq) /\ seq[n + 1] \in S /\ (n + 1) - 1 = n
        /\ f[n + 1] = IF seq[n + 1] \in gone THEN f[n] ELSE Append(f[n], seq[n + 1])
    BY <1>1, <1>2, <1>4
  <2>2. Upto(n + 1) = Upto(n) \union {seq[n + 1]}
    <3>1. 1 .. n + 1 = (1 .. n) \union {n + 1}
      BY <1>4
    <3> QED
      BY <3>1
  <2>3. CASE seq[n + 1] \in gone
    <3>1. Upto(n + 1) \ gone = Upto(n) \ gone
      BY <2>2, <2>3
    <3> HIDE DEF Upto
    <3> QED
      BY <1>4, <2>1, <2>3, <3>1
  <2>4. CASE seq[n + 1] \notin gone
    <3>1. ToSet(f[n + 1]) = ToSet(f[n]) \union {seq[n + 1]}
      BY <1>4, <2>1, <2>4, ToSetAppend
    <3>2. ToSet(f[n + 1]) = Upto(n + 1) \ gone
      BY <1>4, <2>2, <2>4, <3>1
    <3>3. f[n + 1] \in Seq(S)
      BY <1>4, <2>1, <2>4, AppendProperties
    <3>4. ASSUME Distinct(seq)
          PROVE  Distinct(f[n + 1])
      <4>1. \A i \in 1 .. n : i \in DOMAIN seq /\ n + 1 \in DOMAIN seq /\ i # n + 1
        BY <1>2, <1>4
      <4>2. seq[n + 1] \notin Upto(n)
        BY <3>4, <4>1 DEF Distinct
      <4>3. seq[n + 1] \notin ToSet(f[n]) /\ Distinct(f[n])
        BY <1>4, <3>4, <4>2
      <4> QED
        BY <1>4, <2>1, <2>4, <4>3, DistinctAppend
    <3> QED
      BY <3>2, <3>3, <3>4
  <2> QED
    BY <2>3, <2>4
<1> HIDE DEF Fine
<1>5. Nat \subseteq K
  <2>1. 0 \in K
    BY <1>3
  <2>2. ASSUME NEW n \in Nat, n \in K
        PROVE  n + 1 \in K
    BY <1>2, <1>4, <2>2
  <2> HIDE DEF K
  <2> QED
    BY <2>1, <2>2, StepByStep
<1>6. Fine(Len(seq))
  BY <1>2, <1>5
<1>7. ToSet(seq) = Upto(Len(seq))
  BY <1>2 DEF ToSet
<1> QED
  BY <1>1, <1>6, <1>7 DEF Fine

-----------------------------------------------------------------------------
(* The tickets of a set in their order.                                    *)

Enumerates(seq, tickets) ==
  /\ seq \in [1 .. Cardinality(tickets) -> tickets]
  /\ \A i, j \in DOMAIN seq : i < j => seq[i] < seq[j]

LEMMA Ordered ==
  ASSUME NEW n \in Nat, NEW tickets \in SUBSET (1 .. n)
  PROVE  \E seq : Enumerates(seq, tickets)
<1> DEFINE K == {k \in Nat : \A T \in SUBSET (1 .. k) : \E seq : Enumerates(seq, T)}
<1>1. 0 \in K
  <2>1. ASSUME NEW T \in SUBSET (1 .. 0)
        PROVE  \E seq : Enumerates(seq, T)
    <3>1. T = {}
      OBVIOUS
    <3>3. Cardinality(T) = 0
      BY <3>1, FS_EmptySet
    <3>2. Enumerates(<<>>, T)
      BY <3>1, <3>3 DEF Enumerates
    <3> QED
      BY <3>2
  <2> QED
    BY <2>1
<1>2. ASSUME NEW k \in Nat, k \in K
      PROVE  k + 1 \in K
  <2>1. SUFFICES ASSUME NEW T \in SUBSET (1 .. k + 1)
                 PROVE  \E seq : Enumerates(seq, T)
    OBVIOUS
  <2>2. CASE k + 1 \notin T
    <3>1. T \subseteq 1 .. k
      BY <1>2, <2>2
    <3> QED
      BY <1>2, <3>1
  <2>3. CASE k + 1 \in T
    <3> DEFINE U == T \ {k + 1}
               m == Cardinality(U)
    <3>1. U \subseteq 1 .. k
      BY <1>2
    <3>2. PICK seq : Enumerates(seq, U)
      BY <1>2, <3>1
    <3>3. IsFiniteSet(U) /\ m \in Nat
      <4>1. IsFiniteSet(1 .. k)
        BY <1>2, FS_Interval
      <4>2. IsFiniteSet(U)
        BY <3>1, <4>1, FS_Subset
      <4> QED
        BY <4>2, FS_CardinalityType
    <3>4. T = U \union {k + 1} /\ k + 1 \notin U
      BY <2>3
    <3>5. Cardinality(T) = m + 1
      BY <3>3, <3>4, FS_AddElement
    <3> HIDE DEF m
    <3> DEFINE g == [i \in 1 .. m + 1 |-> IF i = m + 1 THEN k + 1 ELSE seq[i]]
    <3>6. /\ seq \in [1 .. m -> U]
          /\ \A i, j \in 1 .. m : i < j => seq[i] < seq[j]
      BY <3>2 DEF Enumerates, m
    <3>7. /\ DOMAIN g = 1 .. m + 1 /\ g[m + 1] = k + 1
          /\ \A i \in 1 .. m : g[i] = seq[i] /\ seq[i] \in U
      BY <3>3, <3>6
    <3>8. g = [i \in 1 .. m + 1 |-> g[i]]
      OBVIOUS
    <3> HIDE DEF g
    <3>9. \A i \in 1 .. m + 1 : i \in 1 .. m \/ i = m + 1
      BY <3>3
    <3>10. \A i \in 1 .. m + 1 : g[i] \in T
      BY <3>4, <3>7, <3>9
    <3>11. g \in [1 .. m + 1 -> T]
      BY <3>8, <3>10
    <3>12. ASSUME NEW i \in 1 .. m + 1, NEW j \in 1 .. m + 1, i < j
           PROVE  g[i] < g[j]
      <4>1. i \in 1 .. m
        BY <3>3, <3>12
      <4>2. seq[i] \in 1 .. k
        BY <3>1, <3>7, <4>1
      <4>3. CASE j = m + 1
        BY <3>7, <4>1, <4>2, <4>3
      <4>4. CASE j \in 1 .. m
        BY <3>6, <3>7, <3>12, <4>1, <4>4
      <4> QED
        BY <3>9, <4>3, <4>4
    <3>13. Enumerates(g, T)
      BY <3>5, <3>7, <3>11, <3>12 DEF Enumerates
    <3> QED
      BY <3>13
  <2> QED
    BY <2>2, <2>3
<1>3. Nat \subseteq K
  <2> HIDE DEF K
  <2> QED
    BY <1>1, <1>2, StepByStep
<1> QED
  BY <1>3

LEMMA InOrderFacts ==
  ASSUME NEW n \in Nat, NEW tickets \in SUBSET (1 .. n)
  PROVE  /\ InOrder(tickets) \in Seq(tickets) /\ Distinct(InOrder(tickets))
         /\ \A i \in DOMAIN InOrder(tickets) :
              InOrder(tickets)[i] \in tickets /\ InOrder(tickets)[i] \in Nat
<1>1. \E seq \in [1 .. Cardinality(tickets) -> tickets] :
        \A i, j \in DOMAIN seq : i < j => seq[i] < seq[j]
  BY Ordered DEF Enumerates
<1>2. /\ InOrder(tickets) \in [1 .. Cardinality(tickets) -> tickets]
      /\ \A i, j \in DOMAIN InOrder(tickets) :
           i < j => InOrder(tickets)[i] < InOrder(tickets)[j]
  BY <1>1 DEF InOrder
<1> DEFINE list == InOrder(tickets)
<1> HIDE DEF list
<1>3. Cardinality(tickets) \in Nat
  <2>1. IsFiniteSet(1 .. n)
    BY FS_Interval
  <2>2. IsFiniteSet(tickets)
    BY <2>1, FS_Subset
  <2> QED
    BY <2>2, FS_CardinalityType
<1>4. /\ list \in Seq(tickets) /\ DOMAIN list = 1 .. Cardinality(tickets)
      /\ \A i \in DOMAIN list : list[i] \in tickets /\ list[i] \in Nat
  <2>1. list \in [1 .. Cardinality(tickets) -> tickets]
    BY <1>2 DEF list
  <2>2. list \in Seq(tickets)
    BY <1>3, <2>1
  <2>3. \A t \in tickets : t \in Nat
    OBVIOUS
  <2> QED
    BY <2>1, <2>2, <2>3
<1>5. Distinct(list)
  <2>1. ASSUME NEW i \in DOMAIN list, NEW j \in DOMAIN list, list[i] = list[j]
        PROVE  i = j
    <3>1. i \in Nat /\ j \in Nat /\ list[i] \in Nat /\ list[j] \in Nat
      BY <1>3, <1>4
    <3>2. (i < j => list[i] < list[j]) /\ (j < i => list[j] < list[i])
      BY <1>2 DEF list
    <3> QED
      BY <2>1, <3>1, <3>2
  <2> QED
    BY <2>1 DEF Distinct
<1> QED
  BY <1>4, <1>5 DEF list

\* The newest of some tickets is one of them.
LEMMA MaxIsOne ==
  ASSUME NEW n \in Nat, NEW tickets \in SUBSET (1 .. n), tickets # {}
  PROVE  Max(tickets) \in tickets
<1> DEFINE T == {k \in Nat : \E t \in tickets : k = n - t}
<1>1. T \in SUBSET Nat /\ T # {}
  <2>1. PICK t \in tickets : TRUE
    OBVIOUS
  <2>2. n - t \in T
    OBVIOUS
  <2> QED
    BY <2>2
<1>2. PICK m \in T : \A k \in T : m <= k
  <2> HIDE DEF T
  <2> QED
    BY <1>1, LeastNat
<1>3. PICK t \in tickets : m = n - t
  BY <1>2
<1>4. ASSUME NEW u \in tickets
      PROVE  t >= u
  <2>1. n - u \in T /\ t \in 1 .. n /\ u \in 1 .. n
    OBVIOUS
  <2>2. n - t <= n - u
    BY <1>2, <1>3, <2>1
  <2> QED
    BY <2>1, <2>2
<1> QED
  BY <1>4 DEF Max

-----------------------------------------------------------------------------
(* What the server decides.                                                *)

\* The server r holds back what the server s held back, and counts no more
\* commands as sent.
Quieter(s, r, now, n) ==
  /\ r.sent \subseteq s.sent
  /\ \A c \in Command : Issued(c, now, n) /\ Withheld(s, c) => Withheld(r, c)

LEMMA QuieterChain ==
  ASSUME NEW now, NEW n, NEW s, NEW r, NEW q,
         Quieter(s, r, now, n), Quieter(r, q, now, n)
  PROVE  Quieter(s, q, now, n)
  BY DEF Quieter

LEMMA SidesFacts ==
  /\ "BUY" \in Sides /\ "SELL" \in Sides /\ "BUY" # "SELL"
  /\ \A side \in Sides : Opposite(side) \in Sides
  BY DEF Sides, Opposite

LEMMA NewestFacts ==
  ASSUME NEW entries \in [Sides -> Nat], HasEntry(entries)
  PROVE  Newest(entries) \in Sides /\ entries[Newest(entries)] > 0
<1>1. \E side \in Sides : entries[side] > 0 /\ entries[side] >= entries[Opposite(side)]
  <2>1. /\ entries["BUY"] \in Nat /\ entries["SELL"] \in Nat
        /\ Sides = {"BUY", "SELL"}
        /\ Opposite("BUY") = "SELL" /\ Opposite("SELL") = "BUY"
    BY SidesFacts DEF Sides, Opposite
  <2>2. entries["BUY"] > 0 \/ entries["SELL"] > 0
    BY <2>1 DEF HasEntry
  <2>3. CASE entries["BUY"] >= entries["SELL"]
    <3>1. entries["BUY"] > 0
      BY <2>1, <2>2, <2>3
    <3> QED
      BY <2>1, <2>3, <3>1
  <2>4. CASE ~(entries["BUY"] >= entries["SELL"])
    <3>1. entries["SELL"] > 0 /\ entries["SELL"] >= entries["BUY"]
      BY <2>1, <2>2, <2>4
    <3> QED
      BY <2>1, <3>1
  <2> QED
    BY <2>3, <2>4
<1> QED
  BY <1>1 DEF Newest

LEMMA BookFacts ==
  ASSUME NEW book \in Book
  PROVE  /\ DOMAIN book \in SUBSET Nat /\ book \in [DOMAIN book -> Position]
         /\ \A t \in DOMAIN book :
              /\ book[t] \in Position /\ book[t].side \in Sides
              /\ book[t].gain \in BOOLEAN /\ book[t].req \in Command
<1>1. PICK T \in SUBSET Nat : book \in [T -> Position]
  BY DEF Book
<1>2. DOMAIN book \in SUBSET Nat /\ book \in [DOMAIN book -> Position]
  BY <1>1
<1>3. ASSUME NEW p \in Position
      PROVE  p.side \in Sides /\ p.gain \in BOOLEAN /\ p.req \in Command
  <2> HIDE DEF Command
  <2> QED
    BY DEF Position
<1> QED
  BY <1>2, <1>3

LEMMA CommandFields ==
  ASSUME NEW c \in Command
  PROVE  /\ c.type \in {"OPEN", "CLOSE"} /\ c.side \in Sides
         /\ c.ticket \in Nat /\ c.sig \in Nat
  BY DEF Command

\* The commands the server finds right: each is one it could have issued, and
\* an OPEN is that of a trigger it has.
LEMMA Evaluated ==
  ASSUME NEW now \in Nat, NEW n \in Nat, NEW s, ServerOK(s, now, n)
  PROVE  /\ EvaluateSymbol(s) \in Seq(Command) /\ Distinct(EvaluateSymbol(s))
         /\ \A c \in ToSet(EvaluateSymbol(s)) :
              Issued(c, now, n) /\ (c.type = "OPEN" => s.entries[c.side] = c.sig)
<1> DEFINE tickets == {t \in DOMAIN s.positions : Closable(s, t)}
           closable == InOrder(tickets)
           closes == [i \in DOMAIN closable |-> CloseOf(s, closable[i])]
           side == Newest(s.entries)
           opens == <<OpenCommand(side, s.entries[side])>>
<1>1. /\ s.positions \in Book /\ s.entries \in [Sides -> Nat]
      /\ s.exits \in [Sides -> [ticket : Nat, sig : Nat]]
      /\ DOMAIN s.positions \subseteq 1 .. n
      /\ \A x \in Sides : s.entries[x] <= now
  <2> HIDE DEF Book, Command
  <2> QED
    BY DEF ServerOK, ServerState
<1>2. tickets \in SUBSET (1 .. n)
  BY <1>1
<1> HIDE DEF tickets
<1>3. /\ closable \in Seq(tickets) /\ Distinct(closable)
      /\ \A i \in DOMAIN closable : closable[i] \in tickets /\ closable[i] \in Nat
  BY <1>2, InOrderFacts
<1> HIDE DEF closable
<1>4. ASSUME NEW i \in DOMAIN closable
      PROVE  /\ closes[i] \in Command /\ closes[i].type = "CLOSE"
             /\ closes[i].ticket = closable[i] /\ Issued(closes[i], now, n)
  <2>1. closable[i] \in DOMAIN s.positions /\ closable[i] \in Nat /\ closable[i] \in 1 .. n
    BY <1>2, <1>3 DEF tickets
  <2>2. s.positions[closable[i]].side \in Sides
    BY <1>1, <2>1, BookFacts
  <2>3. s.exits[s.positions[closable[i]].side].sig \in Nat
    BY <1>1, <2>2
  <2>4. /\ CloseOf(s, closable[i]) \in Command
        /\ CloseOf(s, closable[i]).type = "CLOSE"
        /\ CloseOf(s, closable[i]).ticket = closable[i]
    BY <2>1, <2>2, <2>3 DEF CloseOf, CloseCommand, Command
  <2> QED
    BY <2>1, <2>4 DEF Issued
<1>5. closes \in Seq(Command) /\ DOMAIN closes = DOMAIN closable
  <2>1. PICK k \in Nat : DOMAIN closable = 1 .. k
    BY <1>3
  <2> HIDE DEF Command
  <2>2. \A i \in 1 .. k : closes[i] \in Command
    BY <1>4, <2>1
  <2>3. closes = [i \in 1 .. k |-> closes[i]]
    BY <2>1
  <2> HIDE DEF closes
  <2> QED
    BY <2>1, <2>2, <2>3
<1> HIDE DEF closes
<1>6. Distinct(closes)
  BY <1>3, <1>4, <1>5 DEF Distinct
<1>7. CASE closable # <<>>
  <2>1. EvaluateSymbol(s) = closes
    BY <1>7 DEF EvaluateSymbol, closes, closable, tickets
  <2>2. \A c \in ToSet(closes) : Issued(c, now, n) /\ c.type # "OPEN"
    BY <1>4, <1>5 DEF ToSet
  <2> QED
    BY <1>5, <1>6, <2>1, <2>2
<1>8. CASE closable = <<>> /\ (DOMAIN s.positions # {} \/ ~HasEntry(s.entries))
  <2>1. EvaluateSymbol(s) = <<>>
    BY <1>8 DEF EvaluateSymbol, closable, tickets
  <2> QED
    BY <2>1 DEF ToSet, Distinct
<1>9. CASE closable = <<>> /\ ~(DOMAIN s.positions # {} \/ ~HasEntry(s.entries))
  <2>1. EvaluateSymbol(s) = opens
    BY <1>9 DEF EvaluateSymbol, closable, tickets
  <2>2. side \in Sides /\ s.entries[side] > 0 /\ s.entries[side] \in Nat
        /\ s.entries[side] <= now
    BY <1>1, <1>9, NewestFacts
  <2> HIDE DEF side
  <2>3. /\ opens[1] \in Command /\ opens[1].type = "OPEN" /\ opens[1].side = side
        /\ opens[1].sig = s.entries[side]
    BY <2>2 DEF OpenCommand, Command
  <2>4. opens \in Seq(Command) /\ ToSet(opens) = {opens[1]} /\ Distinct(opens)
    BY <2>3 DEF ToSet, Distinct
  <2>5. Issued(opens[1], now, n)
    BY <2>2, <2>3 DEF Issued
  <2> HIDE DEF opens
  <2> QED
    BY <2>1, <2>3, <2>4, <2>5
<1> QED
  BY <1>7, <1>8, <1>9

LEMMA ServerFields ==
  ASSUME NEW s \in ServerState
  PROVE  /\ s.known \in BOOLEAN /\ s.entries \in [Sides -> Nat]
         /\ s.exits \in [Sides -> [ticket : Nat, sig : Nat]]
         /\ s.zone \in Sides \union {"NEUTRAL"} /\ s.positions \in Book
         /\ s.pending \in Seq(Command) /\ s.sent \in SUBSET Command
         /\ s.completed \in SUBSET Command
<1> HIDE DEF Book, Command
<1> QED
  BY DEF ServerState

\* _refresh_execution_commands adds commands to the queue, and none that is
\* held back.
LEMMA RefreshFacts ==
  ASSUME NEW now \in Nat, NEW n \in Nat, NEW s, ServerOK(s, now, n)
  PROVE  /\ ServerOK(Refresh(s), now, n) /\ Quieter(s, Refresh(s), now, n)
         /\ Refresh(s).positions = s.positions /\ Refresh(s).sent = s.sent
         /\ Refresh(s).known = s.known
<1>1. CASE \E c \in ToSet(s.pending) : c \in s.sent
  <2>1. Refresh(s) = s
    BY <1>1 DEF Refresh
  <2> QED
    BY <2>1 DEF Quieter
<1>2. CASE ~(\E c \in ToSet(s.pending) : c \in s.sent)
  <2> DEFINE known == s.completed \union ToSet(s.pending)
             added == Without(EvaluateSymbol(s), known)
             queue == s.pending \o added
             r == [s EXCEPT !.pending = queue]
  <2>1. Refresh(s) = r
    BY <1>2 DEF Refresh
  <2>2. /\ s \in ServerState /\ s.pending \in Seq(Command) /\ s.sent \subseteq Command
        /\ s.completed \subseteq Command
        /\ Distinct(s.pending) /\ s.sent \subseteq ToSet(s.pending)
        /\ s.completed \intersect ToSet(s.pending) = {}
        /\ \A c \in ToSet(s.pending) : Issued(c, now, n)
        /\ \A side \in Sides : s.entries[side] <= now
        /\ DOMAIN s.positions \subseteq 1 .. n
    BY ServerFields DEF ServerOK
  <2>3. /\ added \in Seq(Command) /\ Distinct(added)
        /\ ToSet(added) = ToSet(EvaluateSymbol(s)) \ known
    <3> HIDE DEF known
    <3> QED
      BY Evaluated, WithoutFacts
  <2>4. \A c \in ToSet(added) : /\ Issued(c, now, n) /\ c \notin known
                                /\ (c.type = "OPEN" => s.entries[c.side] = c.sig)
    <3> HIDE DEF known, added
    <3>1. \A c \in ToSet(added) : c \in ToSet(EvaluateSymbol(s)) /\ c \notin known
      BY <2>3
    <3> QED
      BY <3>1, Evaluated
  <2> HIDE DEF added
  <2>5. /\ queue \in Seq(Command) /\ ToSet(queue) = ToSet(s.pending) \union ToSet(added)
        /\ Distinct(queue)
    <3>1. ToSet(s.pending) \intersect ToSet(added) = {}
      BY <2>4
    <3> HIDE DEF Command
    <3> QED
      BY <2>2, <2>3, <3>1, ConcatParts, ToSetConcat, DistinctConcat
  <2> HIDE DEF queue
  <2>6. /\ r \in ServerState
        /\ r.entries = s.entries /\ r.positions = s.positions /\ r.pending = queue
        /\ r.sent = s.sent /\ r.completed = s.completed /\ r.known = s.known
    <3> HIDE DEF Book, Command
    <3> QED
      BY <2>2, <2>5 DEF ServerState
  <2> HIDE DEF r
  <2>7. ServerOK(r, now, n)
    BY <2>2, <2>4, <2>5, <2>6 DEF ServerOK
  <2>8. Quieter(s, r, now, n)
    BY <2>4, <2>5, <2>6 DEF Quieter, Withheld
  <2> QED
    BY <2>1, <2>6, <2>7, <2>8
<1> QED
  BY <1>1, <1>2

LEMMA RefreshKnownFacts ==
  ASSUME NEW now \in Nat, NEW n \in Nat, NEW s, ServerOK(s, now, n)
  PROVE  /\ ServerOK(RefreshKnown(s), now, n) /\ Quieter(s, RefreshKnown(s), now, n)
         /\ RefreshKnown(s).positions = s.positions /\ RefreshKnown(s).sent = s.sent
<1>1. CASE s.known
  BY <1>1, RefreshFacts DEF RefreshKnown
<1>2. CASE ~s.known
  BY <1>2 DEF RefreshKnown, Quieter
<1> QED
  BY <1>1, <1>2

LEMMA WithZoneFacts ==
  ASSUME NEW now \in Nat, NEW n \in Nat, NEW s, ServerOK(s, now, n)
  PROVE  /\ ServerOK(WithZone(s), now, n) /\ Quieter(s, WithZone(s), now, n)
         /\ WithZone(s).positions = s.positions /\ WithZone(s).sent = s.sent
<1> DEFINE zone == IF HasEntry(s.entries) THEN Newest(s.entries) ELSE "NEUTRAL"
           r == [s EXCEPT !.zone = zone]
<1>1. s \in ServerState /\ s.entries \in [Sides -> Nat]
  BY ServerFields DEF ServerOK
<1>2. zone \in Sides \union {"NEUTRAL"}
  BY <1>1, NewestFacts
<1>3. WithZone(s) = r
  BY DEF WithZone
<1> HIDE DEF zone
<1>4. /\ r \in ServerState
      /\ r.entries = s.entries /\ r.positions = s.positions /\ r.pending = s.pending
      /\ r.sent = s.sent /\ r.completed = s.completed /\ r.known = s.known
  <2> HIDE DEF Book, Command
  <2> QED
    BY <1>1, <1>2 DEF ServerState
<1> HIDE DEF r
<1>5. ServerOK(r, now, n)
  BY <1>4 DEF ServerOK
<1>6. Quieter(s, r, now, n)
  BY <1>4 DEF Quieter, Withheld
<1> QED
  BY <1>3, <1>4, <1>5, <1>6

\* Triggers are cleared together with the OPEN commands they led to, whether
\* these are out or not.
LEMMA Dropping ==
  ASSUME NEW now \in Nat, NEW n \in Nat, NEW s, ServerOK(s, now, n),
         NEW e \in [Sides -> Nat], \A side \in Sides : e[side] \in {0, s.entries[side]},
         NEW gone, \A c \in gone : c.type = "OPEN" /\ e[c.side] # c.sig,
         NEW r, r = WithZone(DropOpens([s EXCEPT !.entries = e], gone))
  PROVE  /\ ServerOK(r, now, n) /\ Quieter(s, r, now, n) /\ r.positions = s.positions
<1> DEFINE left == Without(s.pending, gone)
           q == [s EXCEPT !.entries = e, !.pending = left, !.sent = @ \ gone]
<1>1. /\ s \in ServerState /\ s.pending \in Seq(Command) /\ s.sent \subseteq Command
      /\ s.completed \subseteq Command /\ s.entries \in [Sides -> Nat]
      /\ Distinct(s.pending) /\ s.sent \subseteq ToSet(s.pending)
      /\ s.completed \intersect ToSet(s.pending) = {}
      /\ \A c \in ToSet(s.pending) : Issued(c, now, n)
      /\ \A side \in Sides : s.entries[side] <= now
      /\ DOMAIN s.positions \subseteq 1 .. n
  BY ServerFields DEF ServerOK
<1>2. /\ left \in Seq(Command) /\ Distinct(left)
      /\ ToSet(left) = ToSet(s.pending) \ gone
  BY <1>1, WithoutFacts
<1>3. DropOpens([s EXCEPT !.entries = e], gone) = q
  <2> HIDE DEF Book, Command
  <2> QED
    BY <1>1 DEF DropOpens, ServerState
<1> HIDE DEF left
<1>4. /\ q \in ServerState
      /\ q.entries = e /\ q.positions = s.positions /\ q.pending = left
      /\ q.sent = s.sent \ gone /\ q.completed = s.completed /\ q.known = s.known
  <2>1. s.sent \ gone \in SUBSET Command
    BY <1>1
  <2> HIDE DEF Book, Command
  <2> QED
    BY <1>1, <1>2, <2>1 DEF ServerState
<1> HIDE DEF q
<1>5. ServerOK(q, now, n)
  <2>1. \A side \in Sides : e[side] <= now
    BY <1>1
  <2> QED
    BY <1>1, <1>2, <1>4, <2>1 DEF ServerOK
<1>6. Quieter(s, q, now, n)
  <2>1. ASSUME NEW c \in Command, Issued(c, now, n), Withheld(s, c)
        PROVE  Withheld(q, c)
    <3>1. CASE c \in s.sent /\ c \in gone
      <4>1. c \notin ToSet(q.pending) /\ c.type = "OPEN" /\ q.entries[c.side] # c.sig
        BY <1>2, <1>4, <3>1
      <4> QED
        BY <4>1 DEF Withheld
    <3>2. CASE c \in (s.sent \ gone) \union s.completed
      BY <1>4, <3>2 DEF Withheld
    <3>3. CASE c.type = "OPEN" /\ c \notin ToSet(s.pending) /\ s.entries[c.side] # c.sig
      <4>1. c.sig \in 1 .. now /\ c.side \in Sides
        BY <2>1, <3>3, CommandFields DEF Issued
      <4>2. e[c.side] # c.sig
        BY <1>1, <3>3, <4>1
      <4> QED
        BY <1>2, <1>4, <3>3, <4>2 DEF Withheld
    <3> QED
      BY <2>1, <3>1, <3>2, <3>3 DEF Withheld
  <2> QED
    BY <1>4, <2>1 DEF Quieter
<1>7. /\ ServerOK(r, now, n) /\ Quieter(q, r, now, n) /\ r.positions = q.positions
  BY <1>3, <1>5, WithZoneFacts
<1> QED
  BY <1>4, <1>6, <1>7, QuieterChain

LEMMA ClearEntryFacts ==
  ASSUME NEW now \in Nat, NEW n \in Nat, NEW s, ServerOK(s, now, n), NEW side \in Sides
  PROVE  /\ ServerOK(ClearEntryOfSide(s, side), now, n)
         /\ Quieter(s, ClearEntryOfSide(s, side), now, n)
         /\ ClearEntryOfSide(s, side).positions = s.positions
<1> DEFINE e == [s.entries EXCEPT ![side] = 0]
           q == [s EXCEPT !.entries[side] = 0]
           gone == {c \in PendingOpens(s) : c.side = side}
<1>1. /\ s \in ServerState /\ s.entries \in [Sides -> Nat]
      /\ s.pending \in Seq(Command) /\ \A c \in ToSet(s.pending) : Issued(c, now, n)
  BY ServerFields DEF ServerOK
<1>2. e \in [Sides -> Nat] /\ \A x \in Sides : e[x] \in {0, s.entries[x]}
  BY <1>1
<1>3. q = [s EXCEPT !.entries = e]
  <2> HIDE DEF Book, Command
  <2> QED
    BY <1>1 DEF ServerState
<1>4. ASSUME NEW c \in gone
      PROVE  c.type = "OPEN" /\ e[c.side] # c.sig
  <2>1. c \in ToSet(s.pending) /\ c.type = "OPEN" /\ c.side = side
    BY DEF PendingOpens
  <2>2. c.sig \in 1 .. now
    BY <1>1, <2>1 DEF Issued
  <2>3. e[c.side] = 0
    BY <1>1, <2>1
  <2> QED
    BY <2>1, <2>2, <2>3
<1>5. ClearEntryOfSide(s, side) = WithZone(DropOpens([s EXCEPT !.entries = e], gone))
  BY <1>3 DEF ClearEntryOfSide
<1> HIDE DEF e, q, gone
<1> QED
  BY <1>2, <1>4, <1>5, Dropping

LEMMA ClearUpToFacts ==
  ASSUME NEW now \in Nat, NEW n \in Nat, NEW s, ServerOK(s, now, n), NEW cutoff \in Nat
  PROVE  /\ ServerOK(ClearEntriesUpTo(s, cutoff), now, n)
         /\ Quieter(s, ClearEntriesUpTo(s, cutoff), now, n)
         /\ ClearEntriesUpTo(s, cutoff).positions = s.positions
<1> DEFINE e == [side \in Sides |-> IF s.entries[side] <= cutoff THEN 0 ELSE s.entries[side]]
           gone == {c \in PendingOpens(s) : c.sig <= cutoff}
<1>1. /\ s \in ServerState /\ s.entries \in [Sides -> Nat]
      /\ s.pending \in Seq(Command) /\ \A c \in ToSet(s.pending) : Issued(c, now, n)
  BY ServerFields DEF ServerOK
<1>2. e \in [Sides -> Nat] /\ \A x \in Sides : e[x] \in {0, s.entries[x]}
  BY <1>1
<1>3. [s EXCEPT !.entries = [side \in Sides |-> IF @[side] <= cutoff THEN 0 ELSE @[side]]]
        = [s EXCEPT !.entries = e]
  OBVIOUS
<1>4. ASSUME NEW c \in gone
      PROVE  c.type = "OPEN" /\ e[c.side] # c.sig
  <2>1. c \in ToSet(s.pending) /\ c.type = "OPEN" /\ c.sig <= cutoff
    BY DEF PendingOpens
  <2>2. c.sig \in 1 .. now /\ c.side \in Sides
    BY <1>1, <2>1, ToSetType, CommandFields DEF Issued
  <2>3. e[c.side] = 0 \/ e[c.side] > cutoff
    BY <1>1, <2>2
  <2> QED
    BY <1>2, <2>1, <2>2, <2>3
<1>5. ClearEntriesUpTo(s, cutoff) = WithZone(DropOpens([s EXCEPT !.entries = e], gone))
  BY <1>3 DEF ClearEntriesUpTo
<1> HIDE DEF e, gone
<1> QED
  BY <1>2, <1>4, <1>5, Dropping

-----------------------------------------------------------------------------
(* What the server hears.                                                  *)

\* A command that is completed is neither out nor in the queue any more.
LEMMA CompleteFacts ==
  ASSUME NEW now \in Nat, NEW n \in Nat, NEW s, ServerOK(s, now, n), NEW type, NEW req
  PROVE  /\ ServerOK(Complete(s, type, req), now, n)
         /\ Quieter(s, Complete(s, type, req), now, n)
         /\ Complete(s, type, req).positions = s.positions
         /\ req.type = type => req \notin Complete(s, type, req).sent
<1>1. /\ s \in ServerState /\ s.pending \in Seq(Command) /\ s.sent \subseteq Command
      /\ s.completed \subseteq Command
      /\ Distinct(s.pending) /\ s.sent \subseteq ToSet(s.pending)
      /\ s.completed \intersect ToSet(s.pending) = {}
      /\ \A c \in ToSet(s.pending) : Issued(c, now, n)
  BY ServerFields DEF ServerOK
<1>2. CASE ~Matches(s, type, req)
  BY <1>1, <1>2 DEF Complete, Matches, Quieter
<1>3. CASE Matches(s, type, req)
  <2> DEFINE left == Without(s.pending, {req})
             q == [s EXCEPT !.pending = left, !.sent = @ \ {req}, !.completed = @ \union {req}]
  <2>1. Complete(s, type, req) = q
    BY <1>3 DEF Complete
  <2>2. /\ left \in Seq(Command) /\ Distinct(left)
        /\ ToSet(left) = ToSet(s.pending) \ {req}
    BY <1>1, WithoutFacts
  <2> HIDE DEF left
  <2>3. req \in ToSet(s.pending) /\ req \in Command
    BY <1>1, <1>3, ToSetType DEF Matches
  <2>4. /\ q \in ServerState
        /\ q.entries = s.entries /\ q.positions = s.positions /\ q.pending = left
        /\ q.sent = s.sent \ {req} /\ q.completed = s.completed \union {req}
    <3>1. s.sent \ {req} \in SUBSET Command /\ s.completed \union {req} \in SUBSET Command
      BY <1>1, <2>3
    <3> HIDE DEF Book, Command
    <3> QED
      BY <1>1, <2>2, <3>1 DEF ServerState
  <2> HIDE DEF q
  <2>5. ServerOK(q, now, n)
    BY <1>1, <2>2, <2>4 DEF ServerOK
  <2>6. Quieter(s, q, now, n)
    BY <2>2, <2>4 DEF Quieter, Withheld
  <2> QED
    BY <2>1, <2>4, <2>5, <2>6
<1> QED
  BY <1>2, <1>3

\* A command that is put back goes out again; all others are held back as before.
LEMMA PutBackFacts ==
  ASSUME NEW now \in Nat, NEW n \in Nat, NEW s, ServerOK(s, now, n), NEW req
  PROVE  /\ ServerOK(PutBack(s, req), now, n)
         /\ PutBack(s, req).sent = s.sent \ {req}
         /\ PutBack(s, req).positions = s.positions
         /\ \A c \in Command : c # req /\ Withheld(s, c) => Withheld(PutBack(s, req), c)
<1> DEFINE q == [s EXCEPT !.sent = @ \ {req}]
<1>1. s \in ServerState /\ s.sent \subseteq Command
  BY ServerFields DEF ServerOK
<1>2. /\ q \in ServerState
      /\ q.entries = s.entries /\ q.positions = s.positions /\ q.pending = s.pending
      /\ q.sent = s.sent \ {req} /\ q.completed = s.completed
  <2>1. s.sent \ {req} \in SUBSET Command
    BY <1>1
  <2> HIDE DEF Book, Command
  <2> QED
    BY <1>1, <2>1 DEF ServerState
<1>3. PutBack(s, req) = q
  BY DEF PutBack
<1> HIDE DEF q
<1>4. ServerOK(q, now, n)
  BY <1>2 DEF ServerOK
<1>5. \A c \in Command : c # req /\ Withheld(s, c) => Withheld(q, c)
  BY <1>2 DEF Withheld
<1> QED
  BY <1>2, <1>3, <1>4, <1>5

\* Positions come and go without any command being touched.
LEMMA WithBook ==
  ASSUME NEW now \in Nat, NEW n \in Nat, NEW s, ServerOK(s, now, n),
         NEW book \in Book, DOMAIN book \subseteq 1 .. n,
         NEW r, r = [s EXCEPT !.positions = book]
  PROVE  /\ ServerOK(r, now, n) /\ Quieter(s, r, now, n) /\ r.positions = book
<1>1. s \in ServerState
  BY DEF ServerOK
<1>2. /\ r \in ServerState
      /\ r.entries = s.entries /\ r.positions = book /\ r.pending = s.pending
      /\ r.sent = s.sent /\ r.completed = s.completed
  <2> HIDE DEF Book, Command
  <2> QED
    BY <1>1 DEF ServerState
<1> QED
  BY <1>2 DEF ServerOK, Quieter, Withheld

\* Some positions are taken out.
LEMMA RestrictBook ==
  ASSUME NEW book \in Book, NEW kept, kept \subseteq DOMAIN book
  PROVE  /\ Restrict(book, kept) \in Book /\ DOMAIN Restrict(book, kept) = kept
         /\ \A t \in kept : Restrict(book, kept)[t] = book[t]
<1>1. /\ DOMAIN Restrict(book, kept) = kept
      /\ \A t \in kept : Restrict(book, kept)[t] = book[t]
  BY DEF Restrict
<1>2. \A t \in kept : book[t] \in Position
  BY BookFacts
<1>3. Restrict(book, kept) \in [kept -> Position]
  BY <1>2 DEF Restrict
<1>4. kept \in SUBSET Nat
  BY BookFacts
<1> QED
  BY <1>1, <1>3, <1>4 DEF Book

\* A position is stored over what was known of its ticket.
LEMMA HavingBook ==
  ASSUME NEW book \in Book, NEW t \in Nat, NEW p \in Position
  PROVE  Having(book, t, p) \in Book
<1>1. {t} \union DOMAIN book \in SUBSET Nat
  BY BookFacts
<1>2. \A u \in DOMAIN book : book[u] \in Position
  BY BookFacts
<1>3. Having(book, t, p) \in [{t} \union DOMAIN book -> Position]
  <2> HIDE DEF Position
  <2> QED
    BY <1>2 DEF Having
<1> QED
  BY <1>1, <1>3 DEF Book

LEMMA StatusFields ==
  ASSUME NEW m \in Status
  PROVE  /\ m.kind \in {"OPENED", "STILL_OPEN", "CLOSED_BY_SIGNAL", "STOPPED", "REJECTED"}
         /\ m.ticket \in Nat /\ m.side \in Sides /\ m.req \in Command /\ m.sig \in Nat
         /\ m.gain \in BOOLEAN /\ m.reason \in {"NONE", "NOT_CLOSED", "RETRYABLE", "FINAL"}
<1> HIDE DEF Command
<1> QED
  BY DEF Status

\* A status about an open position: the server knows the position afterwards,
\* by the request it had for it or by the one of the status.
LEMMA HeardOpen ==
  ASSUME NEW now \in Nat, NEW n \in Nat, NEW s, ServerOK(s, now, n), NEW m \in Status,
         m.ticket \in 1 .. n, Named(s, m) \subseteq {m.ticket},
         m.kind = "OPENED" \/ (m.kind = "STILL_OPEN" /\ m.reason \in {"NONE", "NOT_CLOSED"}),
         m.kind = "OPENED" => m.reason = "NONE",
         NEW r, r = HearOpen(s, m)
  PROVE  /\ ServerOK(r, now, n) /\ Quieter(s, r, now, n)
         /\ Held(r.positions) \subseteq Held(s.positions) \union {<<m.req, m.ticket>>}
         /\ DOMAIN r.positions = DOMAIN s.positions \union {m.ticket}
         /\ \A c : Answers(m, c) => c \notin r.sent
<1> DEFINE found == Named(s, m)
           refused == m.kind = "STILL_OPEN" /\ m.reason # "NONE"
           before == {s.positions[t] : t \in found}
           req == IF refused /\ found # {} THEN (CHOOSE p \in before : TRUE).req ELSE m.req
           position == [side |-> m.side, gain |-> m.gain, req |-> req]
           less == Restrict(s.positions, DOMAIN s.positions \ found)
           kept == WithoutPositions(s, found)
           book == Having(less, m.ticket, position)
           stored == [kept EXCEPT !.positions = Having(@, m.ticket, position)]
           opened == Complete(stored, "OPEN", m.req)
           answered == IF refused THEN Complete(opened, "CLOSE", m.req) ELSE opened
           cleared == ClearEntryOfSide(answered, m.side)
<1>1. r = IF found = {m.ticket} /\ before = {position} THEN cleared ELSE RefreshKnown(cleared)
  BY DEF HearOpen
<1>2. /\ s.positions \in Book /\ DOMAIN s.positions \subseteq 1 .. n
      /\ m.side \in Sides /\ m.gain \in BOOLEAN /\ m.req \in Command /\ m.ticket \in Nat
  BY ServerFields, StatusFields DEF ServerOK
<1>3. /\ req \in Command
      /\ req = m.req \/ (m.ticket \in DOMAIN s.positions /\ req = s.positions[m.ticket].req)
  <2>1. CASE refused /\ found # {}
    <3>1. found = {m.ticket} /\ m.ticket \in DOMAIN s.positions
      BY <2>1 DEF Named
    <3>2. before = {s.positions[m.ticket]}
      BY <3>1
    <3> HIDE DEF before, found
    <3>3. req = s.positions[m.ticket].req
      BY <2>1, <3>2
    <3>4. s.positions[m.ticket].req \in Command
      BY <1>2, <3>1, BookFacts
    <3> QED
      BY <3>1, <3>3, <3>4
  <2>2. CASE ~(refused /\ found # {})
    BY <1>2, <2>2
  <2> QED
    BY <2>1, <2>2
<1> HIDE DEF req
<1>4. position \in Position /\ position.req = req
  <2> HIDE DEF Command
  <2> QED
    BY <1>2, <1>3 DEF Position
<1> HIDE DEF position
<1>5. /\ less \in Book /\ DOMAIN less = DOMAIN s.positions \ found
      /\ \A t \in DOMAIN less : less[t] = s.positions[t]
  <2> HIDE DEF found
  <2> QED
    BY <1>2, RestrictBook
<1>6. kept = [s EXCEPT !.positions = less]
  BY DEF WithoutPositions
<1> HIDE DEF kept, less
<1>7. ServerOK(kept, now, n) /\ Quieter(s, kept, now, n) /\ kept.positions = less
  BY <1>2, <1>5, <1>6, WithBook
<1>8. book \in Book /\ DOMAIN book = DOMAIN less \union {m.ticket}
      /\ book[m.ticket] = position
      /\ \A t \in DOMAIN less : t # m.ticket => book[t] = less[t]
  <2>1. book \in Book
    BY <1>2, <1>4, <1>5, HavingBook
  <2>2. /\ DOMAIN book = DOMAIN less \union {m.ticket} /\ book[m.ticket] = position
        /\ \A t \in DOMAIN less : t # m.ticket => book[t] = less[t]
    BY DEF Having
  <2> QED
    BY <2>1, <2>2
<1> HIDE DEF book
<1>9. stored = [kept EXCEPT !.positions = book]
  BY <1>7 DEF book
<1> HIDE DEF stored
<1>10. ServerOK(stored, now, n) /\ Quieter(kept, stored, now, n) /\ stored.positions = book
  <2>1. DOMAIN book \subseteq 1 .. n
    BY <1>2, <1>5, <1>8
  <2> QED
    BY <1>7, <1>8, <1>9, <2>1, WithBook
<1>11. /\ ServerOK(opened, now, n) /\ Quieter(stored, opened, now, n)
       /\ opened.positions = book /\ (m.req.type = "OPEN" => m.req \notin opened.sent)
  BY <1>10, CompleteFacts
<1> HIDE DEF opened
<1>12. /\ ServerOK(answered, now, n) /\ Quieter(opened, answered, now, n)
       /\ answered.positions = book
       /\ refused /\ m.req.type = "CLOSE" => m.req \notin answered.sent
  <2>1. CASE refused
    BY <1>11, <2>1, CompleteFacts
  <2>2. CASE ~refused
    BY <1>11, <2>2 DEF Quieter
  <2> QED
    BY <2>1, <2>2
<1> HIDE DEF answered
<1>13. /\ ServerOK(cleared, now, n) /\ Quieter(answered, cleared, now, n)
       /\ cleared.positions = book
  BY <1>2, <1>12, ClearEntryFacts
<1> HIDE DEF cleared
<1>14. ServerOK(r, now, n) /\ Quieter(cleared, r, now, n) /\ r.positions = book
  <2>1. CASE found = {m.ticket} /\ before = {position}
    BY <1>1, <1>13, <2>1 DEF Quieter
  <2>2. CASE ~(found = {m.ticket} /\ before = {position})
    BY <1>1, <1>13, <2>2, RefreshKnownFacts
  <2> QED
    BY <2>1, <2>2
<1>15. Quieter(opened, r, now, n)
  BY <1>12, <1>13, <1>14, QuieterChain
<1>16. Quieter(s, r, now, n)
  BY <1>7, <1>10, <1>11, <1>15, QuieterChain
<1>17. DOMAIN r.positions = DOMAIN s.positions \union {m.ticket}
  BY <1>5, <1>8, <1>14
<1>18. ASSUME NEW t \in DOMAIN book
       PROVE  <<book[t].req, t>> \in Held(s.positions) \union {<<m.req, m.ticket>>}
  <2>1. CASE t = m.ticket
    <3>1. book[t].req = req
      BY <1>4, <1>8, <2>1
    <3>2. CASE req = m.req
      BY <2>1, <3>1, <3>2
    <3>3. CASE m.ticket \in DOMAIN s.positions /\ req = s.positions[m.ticket].req
      BY <2>1, <3>1, <3>3 DEF Held
    <3> QED
      BY <1>3, <3>2, <3>3
  <2>2. CASE t # m.ticket
    <3>1. t \in DOMAIN s.positions /\ book[t] = s.positions[t]
      BY <1>5, <1>8, <2>2
    <3> QED
      BY <3>1 DEF Held
  <2> QED
    BY <2>1, <2>2
<1>19. Held(r.positions) \subseteq Held(s.positions) \union {<<m.req, m.ticket>>}
  BY <1>14, <1>18 DEF Held
<1>20. ASSUME NEW c, Answers(m, c)
       PROVE  c \notin r.sent
  <2>1. c = m.req /\ c.type \in {"OPEN", "CLOSE"} /\ (c.type = "OPEN" \/ refused)
    BY <1>2, <1>20, CommandFields DEF Answers
  <2>2. CASE c.type = "OPEN"
    BY <1>11, <1>15, <2>1, <2>2 DEF Quieter
  <2>3. CASE c.type = "CLOSE"
    <3>1. c \notin answered.sent
      BY <1>12, <2>1, <2>3
    <3> QED
      BY <1>13, <1>14, <3>1 DEF Quieter
  <2> QED
    BY <2>1, <2>2, <2>3
<1> QED
  BY <1>14, <1>16, <1>17, <1>19, <1>20

\* A position that is gone is forgotten, no other.
LEMMA Forgotten ==
  ASSUME NEW now \in Nat, NEW n \in Nat, NEW s, ServerOK(s, now, n), NEW m \in Status,
         Named(s, m) \subseteq {m.ticket}, NEW r, r = Forget(s, m, now)
  PROVE  /\ ServerOK(r, now, n) /\ Quieter(s, r, now, n)
         /\ Held(r.positions) \subseteq Held(s.positions)
         /\ DOMAIN s.positions \ {m.ticket} \subseteq DOMAIN r.positions
<1>1. CASE Named(s, m) = {}
  BY <1>1 DEF Forget, Quieter
<1>2. CASE Named(s, m) # {}
  <2> DEFINE found == Named(s, m)
             less == Restrict(s.positions, DOMAIN s.positions \ found)
             kept == WithoutPositions(s, found)
             cutoff == IF m.sig > 0 THEN m.sig ELSE now
             cleared == ClearEntriesUpTo(kept, cutoff)
  <2>1. r = RefreshKnown(cleared)
    BY <1>2 DEF Forget
  <2>2. s.positions \in Book /\ DOMAIN s.positions \subseteq 1 .. n /\ m.sig \in Nat
    BY ServerFields, StatusFields DEF ServerOK
  <2>3. /\ less \in Book /\ DOMAIN less = DOMAIN s.positions \ found
        /\ \A t \in DOMAIN less : less[t] = s.positions[t]
    <3> HIDE DEF found
    <3> QED
      BY <2>2, RestrictBook
  <2>4. kept = [s EXCEPT !.positions = less]
    BY DEF WithoutPositions
  <2> HIDE DEF kept, less
  <2>5. ServerOK(kept, now, n) /\ Quieter(s, kept, now, n) /\ kept.positions = less
    BY <2>2, <2>3, <2>4, WithBook
  <2>6. cutoff \in Nat
    BY <2>2
  <2> HIDE DEF cutoff
  <2>7. /\ ServerOK(cleared, now, n) /\ Quieter(kept, cleared, now, n)
        /\ cleared.positions = less
    BY <2>5, <2>6, ClearUpToFacts
  <2> HIDE DEF cleared
  <2>8. ServerOK(r, now, n) /\ Quieter(cleared, r, now, n) /\ r.positions = less
    BY <2>1, <2>7, RefreshKnownFacts
  <2>9. Quieter(s, r, now, n)
    BY <2>5, <2>7, <2>8, QuieterChain
  <2>10. Held(less) \subseteq Held(s.positions)
    BY <2>3 DEF Held
  <2> QED
    BY <2>3, <2>8, <2>9, <2>10
<1> QED
  BY <1>1, <1>2

\* What changes when the server r, that was s, has read m: afterwards the
\* command m answers is not out, and nothing else that was held back goes out.
HearsWell(s, r, m, now, n) ==
  /\ ServerOK(r, now, n)
  /\ r.sent \subseteq s.sent
  /\ \A c : Answers(m, c) => c \notin r.sent
  /\ \A c \in Command : /\ Issued(c, now, n) /\ Withheld(s, c)
                        /\ ~(m.reason = "RETRYABLE" /\ c = m.req)
                        => Withheld(r, c)
  /\ Held(r.positions) \subseteq Held(s.positions) \union
       (IF m.kind = "REJECTED" THEN {} ELSE {<<m.req, m.ticket>>})
  /\ \A t \in DOMAIN s.positions :
       t \in DOMAIN r.positions \/ (t = m.ticket /\ m.kind \in {"CLOSED_BY_SIGNAL", "STOPPED"})
  /\ m.kind \in {"OPENED", "STILL_OPEN"} => m.ticket \in DOMAIN r.positions

\* Named looks at the positions only.
LEMMA NamedOf ==
  ASSUME NEW s, NEW r, r.positions = s.positions, NEW m
  PROVE  Named(r, m) = Named(s, m)
  BY DEF Named

LEMMA HeardClosed ==
  ASSUME NEW now \in Nat, NEW n \in Nat, NEW s, ServerOK(s, now, n), NEW m \in Status,
         Named(s, m) \subseteq {m.ticket},
         m.kind = "CLOSED_BY_SIGNAL", m.req.type = "CLOSE", m.reason = "NONE"
  PROVE  HearsWell(s, HearClosed(s, m, now), m, now, n)
<1> DEFINE done == Complete(s, "CLOSE", m.req)
           r == HearClosed(s, m, now)
<1>1. \A c : Answers(m, c) => c = m.req
  BY DEF Answers
<1>2. /\ s.sent \subseteq ToSet(s.pending) /\ s.sent \subseteq Command
  BY ServerFields DEF ServerOK
<1>3. CASE Matches(s, "CLOSE", m.req)
  <2>1. /\ ServerOK(done, now, n) /\ Quieter(s, done, now, n)
        /\ done.positions = s.positions /\ m.req \notin done.sent
    BY CompleteFacts
  <2>2. r = Forget(done, m, now)
    BY <1>3 DEF HearClosed
  <2> HIDE DEF done, r
  <2>3. Named(done, m) \subseteq {m.ticket}
    BY <2>1, NamedOf
  <2>4. /\ ServerOK(r, now, n) /\ Quieter(done, r, now, n)
        /\ Held(r.positions) \subseteq Held(done.positions)
        /\ DOMAIN done.positions \ {m.ticket} \subseteq DOMAIN r.positions
    BY <2>1, <2>2, <2>3, Forgotten
  <2>5. Quieter(s, r, now, n)
    BY <2>1, <2>4, QuieterChain
  <2>6. m.req \notin r.sent
    BY <2>1, <2>4 DEF Quieter
  <2>7. HearsWell(s, r, m, now, n)
    BY <1>1, <2>1, <2>4, <2>5, <2>6 DEF HearsWell, Quieter
  <2> QED
    BY <2>7 DEF r
<1>4. CASE ~Matches(s, "CLOSE", m.req)
  <2>1. r = s
    BY <1>4 DEF HearClosed
  <2>2. m.req \notin s.sent
    BY <1>2, <1>4 DEF Matches
  <2> QED
    BY <1>1, <2>1, <2>2 DEF HearsWell
<1> QED
  BY <1>3, <1>4

LEMMA HeardStopped ==
  ASSUME NEW now \in Nat, NEW n \in Nat, NEW s, ServerOK(s, now, n), NEW m \in Status,
         Named(s, m) \subseteq {m.ticket}, m.kind = "STOPPED", m.reason = "NONE"
  PROVE  HearsWell(s, HearStopped(s, m, now), m, now, n)
<1> DEFINE opened == Complete(s, "OPEN", m.req)
           done == Complete(opened, "CLOSE", m.req)
           r == HearStopped(s, m, now)
<1>1. \A c : Answers(m, c) => c = m.req /\ c.type = "OPEN"
  BY DEF Answers
<1>2. /\ ServerOK(opened, now, n) /\ Quieter(s, opened, now, n)
      /\ opened.positions = s.positions
      /\ m.req.type = "OPEN" => m.req \notin opened.sent
  BY CompleteFacts
<1> HIDE DEF opened
<1>3. /\ ServerOK(done, now, n) /\ Quieter(opened, done, now, n)
      /\ done.positions = opened.positions
  BY <1>2, CompleteFacts
<1>4. r = Forget(done, m, now)
  BY DEF HearStopped, opened
<1> HIDE DEF done, r
<1>5. Named(done, m) \subseteq {m.ticket}
  BY <1>2, <1>3, NamedOf
<1>6. /\ ServerOK(r, now, n) /\ Quieter(done, r, now, n)
      /\ Held(r.positions) \subseteq Held(done.positions)
      /\ DOMAIN done.positions \ {m.ticket} \subseteq DOMAIN r.positions
  BY <1>3, <1>4, <1>5, Forgotten
<1>7. Quieter(opened, r, now, n) /\ Quieter(s, r, now, n)
  BY <1>2, <1>3, <1>6, QuieterChain
<1>8. \A c : Answers(m, c) => c \notin r.sent
  BY <1>1, <1>2, <1>7 DEF Quieter
<1>9. HearsWell(s, r, m, now, n)
  BY <1>2, <1>3, <1>6, <1>7, <1>8 DEF HearsWell, Quieter
<1> QED
  BY <1>9 DEF r

LEMMA HeardRejected ==
  ASSUME NEW now \in Nat, NEW n \in Nat, NEW s, ServerOK(s, now, n), NEW m \in Status,
         m.kind = "REJECTED", m.req.type = "OPEN", m.reason \in {"RETRYABLE", "FINAL"}
  PROVE  HearsWell(s, HearRejected(s, m), m, now, n)
<1> DEFINE answered == IF m.reason = "RETRYABLE" THEN PutBack(s, m.req)
                       ELSE Complete(s, "OPEN", m.req)
           r == HearRejected(s, m)
           HeldBack(q) == \A c \in Command : /\ Issued(c, now, n) /\ Withheld(s, c)
                                             /\ ~(m.reason = "RETRYABLE" /\ c = m.req)
                                             => Withheld(q, c)
<1>1. \A c : Answers(m, c) => c = m.req
  BY DEF Answers
<1>2. /\ ServerOK(answered, now, n) /\ answered.sent \subseteq s.sent
      /\ answered.positions = s.positions /\ m.req \notin answered.sent
      /\ HeldBack(answered)
  <2>1. CASE m.reason = "RETRYABLE"
    <3>1. answered = PutBack(s, m.req)
      BY <2>1
    <3> HIDE DEF answered
    <3>2. /\ ServerOK(answered, now, n) /\ answered.sent = s.sent \ {m.req}
          /\ answered.positions = s.positions
      BY <3>1, PutBackFacts
    <3>3. \A c \in Command : c # m.req /\ Withheld(s, c) => Withheld(answered, c)
      BY <3>1, PutBackFacts
    <3> QED
      BY <2>1, <3>2, <3>3
  <2>2. CASE m.reason # "RETRYABLE"
    <3>1. answered = Complete(s, "OPEN", m.req)
      BY <2>2
    <3> HIDE DEF answered
    <3>2. /\ ServerOK(answered, now, n) /\ Quieter(s, answered, now, n)
          /\ answered.positions = s.positions /\ m.req \notin answered.sent
      BY <3>1, CompleteFacts
    <3> QED
      BY <2>2, <3>2 DEF Quieter
  <2> QED
    BY <2>1, <2>2
<1>3. r = IF Named(s, m) = {} THEN RefreshKnown(answered) ELSE answered
  BY DEF HearRejected
<1> HIDE DEF answered, r
<1>4. /\ ServerOK(r, now, n) /\ Quieter(answered, r, now, n)
      /\ r.positions = answered.positions
  <2>1. CASE Named(s, m) = {}
    BY <1>2, <1>3, <2>1, RefreshKnownFacts
  <2>2. CASE Named(s, m) # {}
    BY <1>2, <1>3, <2>2 DEF Quieter
  <2> QED
    BY <2>1, <2>2
<1>5. r.sent \subseteq s.sent /\ m.req \notin r.sent /\ HeldBack(r)
  BY <1>2, <1>4 DEF Quieter
<1>6. HearsWell(s, r, m, now, n)
  BY <1>1, <1>2, <1>4, <1>5 DEF HearsWell
<1> QED
  BY <1>6 DEF r

LEMMA Heard ==
  ASSUME NEW now \in Nat, NEW n \in Nat, NEW s, ServerOK(s, now, n), NEW m \in Status,
         NEW b, StatusOK(m, b),
         m.kind # "REJECTED" => m.ticket \in 1 .. n /\ Named(s, m) \subseteq {m.ticket}
  PROVE  HearsWell(s, Hear(s, m, now), m, now, n)
<1>1. m.kind \in {"OPENED", "STILL_OPEN", "CLOSED_BY_SIGNAL", "STOPPED", "REJECTED"}
  BY StatusFields
<1>2. CASE m.kind \in {"OPENED", "STILL_OPEN"}
  <2>1. /\ m.kind = "OPENED" => m.reason = "NONE"
        /\ m.kind = "STILL_OPEN" => m.reason \in {"NONE", "NOT_CLOSED"}
    BY DEF StatusOK
  <2>2. m.kind = "OPENED" \/ (m.kind = "STILL_OPEN" /\ m.reason \in {"NONE", "NOT_CLOSED"})
    BY <1>2, <2>1
  <2> DEFINE r == HearOpen(s, m)
  <2>3. Hear(s, m, now) = r
    BY <1>2 DEF Hear
  <2>4. /\ ServerOK(r, now, n) /\ Quieter(s, r, now, n)
        /\ Held(r.positions) \subseteq Held(s.positions) \union {<<m.req, m.ticket>>}
        /\ DOMAIN r.positions = DOMAIN s.positions \union {m.ticket}
        /\ \A c : Answers(m, c) => c \notin r.sent
    BY <1>2, <2>1, <2>2, HeardOpen
  <2> HIDE DEF r
  <2> QED
    BY <1>2, <2>3, <2>4 DEF HearsWell, Quieter
<1>3. CASE m.kind = "CLOSED_BY_SIGNAL"
  <2>1. m.req.type = "CLOSE" /\ m.reason = "NONE"
    BY <1>3 DEF StatusOK
  <2>2. Hear(s, m, now) = HearClosed(s, m, now)
    BY <1>3 DEF Hear
  <2> QED
    BY <1>3, <2>1, <2>2, HeardClosed
<1>4. CASE m.kind = "STOPPED"
  <2>1. m.reason = "NONE"
    BY <1>4 DEF StatusOK
  <2>2. Hear(s, m, now) = HearStopped(s, m, now)
    BY <1>4 DEF Hear
  <2> QED
    BY <1>4, <2>1, <2>2, HeardStopped
<1>5. CASE m.kind = "REJECTED"
  <2>1. m.req.type = "OPEN" /\ m.reason \in {"RETRYABLE", "FINAL"}
    BY <1>5 DEF StatusOK
  <2>2. Hear(s, m, now) = HearRejected(s, m)
    BY <1>5 DEF Hear
  <2> QED
    BY <1>5, <2>1, <2>2, HeardRejected
<1> QED
  BY <1>1, <1>2, <1>3, <1>4, <1>5

-----------------------------------------------------------------------------
(* What the terminal does and says.                                        *)

LEMMA MessageFacts ==
  ASSUME NEW kind \in {"OPENED", "STILL_OPEN", "CLOSED_BY_SIGNAL", "STOPPED", "REJECTED"},
         NEW ticket \in Nat, NEW cmd \in Command, NEW gain \in BOOLEAN,
         NEW reason \in {"NONE", "NOT_CLOSED", "RETRYABLE", "FINAL"}
  PROVE  LET m == Message(kind, ticket, cmd, gain, reason)
         IN  /\ m \in Status /\ m.kind = kind /\ m.ticket = ticket /\ m.req = cmd
             /\ m.reason = reason
<1>1. cmd.side \in Sides /\ cmd.sig \in Nat
  BY CommandFields
<1> HIDE DEF Command
<1> QED
  BY <1>1 DEF Message, Status

\* A broker some time later: tickets stay, and what is closed stays closed.
Ages(b, later) ==
  /\ Len(b) <= Len(later)
  /\ \A t \in 1 .. Len(b) : b[t].fate # "OPEN" => later[t].fate # "OPEN"

LEMMA StatusAges ==
  ASSUME NEW m, NEW b, NEW later, StatusOK(m, b), Ages(b, later),
         m.kind \in {"CLOSED_BY_SIGNAL", "STOPPED"} => m.ticket \in 1 .. Len(b)
  PROVE  StatusOK(m, later)
<1>1. m.kind \in {"CLOSED_BY_SIGNAL", "STOPPED"} => later[m.ticket].fate # "OPEN"
  BY DEF StatusOK, Ages
<1> HIDE DEF Status, Polls
<1> QED
  BY <1>1 DEF StatusOK

\* The one reply to a command.
Replies(m, c, b) ==
  /\ m \in Status /\ m.req = c /\ StatusOK(m, b) /\ Answers(m, c)
  /\ m.kind \in {"OPENED", "CLOSED_BY_SIGNAL", "STILL_OPEN", "REJECTED"}
  /\ m.kind \in {"OPENED", "CLOSED_BY_SIGNAL"} => m.ticket \in 1 .. Len(b)
  /\ m.kind \in {"CLOSED_BY_SIGNAL", "STILL_OPEN"} => m.ticket = c.ticket /\ c.type = "CLOSE"

Acc == [broker : Seq(Order), said : Seq(Status)]

\* One command more is executed.
DoesOne(acc, new, c) ==
  /\ new \in Acc /\ Ages(acc.broker, new.broker)
  /\ \E m : /\ new.said = Append(acc.said, m) /\ Replies(m, c, new.broker)
            /\ \A t \in Live(new.broker) :
                 t \in Live(acc.broker) \/ (m.kind = "OPENED" /\ m.ticket = t)

LEMMA SameBroker ==
  ASSUME NEW b \in Seq(Order)
  PROVE  Ages(b, b)
<1>1. Len(b) \in Nat
  OBVIOUS
<1> QED
  BY <1>1 DEF Ages

LEMMA DoesOpen ==
  ASSUME NEW acc \in Acc, NEW c \in Command, c.type = "OPEN", NEW luck \in Luck,
         NEW gain \in BOOLEAN
  PROVE  DoesOne(acc, TryOpen(acc, c, luck, gain), c)
<1> DEFINE new == TryOpen(acc, c, luck, gain)
           b == acc.broker
           No(why) == Message("REJECTED", 0, c, FALSE, why)
           yes == Message("OPENED", Len(b) + 1, c, gain, "NONE")
<1>1. b \in Seq(Order) /\ acc.said \in Seq(Status) /\ Len(b) \in Nat
  <2> HIDE DEF Order, Status
  <2> QED
    BY DEF Acc
<1>2. ASSUME NEW why \in {"RETRYABLE", "FINAL"}, new = [acc EXCEPT !.said = Append(@, No(why))]
      PROVE  DoesOne(acc, new, c)
  <2>1. /\ No(why) \in Status /\ No(why).kind = "REJECTED" /\ No(why).req = c
        /\ No(why).reason = why
    <3>1. c.side \in Sides /\ c.sig \in Nat
      BY CommandFields
    <3> HIDE DEF Command
    <3> QED
      BY <3>1 DEF Message, Status
  <2> DEFINE m == No(why)
  <2> HIDE DEF m, new
  <2>2. m \in Status /\ m.kind = "REJECTED" /\ m.req = c /\ m.reason = why
    BY <2>1 DEF m
  <2>3. new \in Acc /\ new.broker = b /\ new.said = Append(acc.said, m)
    <3> HIDE DEF Order, Status
    <3>1. Append(acc.said, m) \in Seq(Status)
      BY <1>1, <2>2, AppendProperties
    <3> QED
      BY <1>2, <3>1 DEF Acc, m
  <2>4. StatusOK(m, b)
    <3> HIDE DEF Status
    <3> QED
      BY <2>2 DEF StatusOK
  <2>5. Replies(m, c, b)
    <3> HIDE DEF Status
    <3> QED
      BY <2>2, <2>4 DEF Replies, Answers
  <2> QED
    BY <1>1, <2>3, <2>5, SameBroker DEF DoesOne
<1>3. CASE Live(b) # {}
  BY <1>2, <1>3 DEF TryOpen
<1>4. CASE Live(b) = {} /\ luck # "DONE"
  BY <1>2, <1>4 DEF TryOpen, Luck
<1>5. CASE Live(b) = {} /\ luck = "DONE"
  <2> DEFINE order == [side |-> c.side, fate |-> "OPEN"]
             more == Append(b, order)
             m == yes
  <2>1. new = [broker |-> more, said |-> Append(acc.said, m)]
    BY <1>5 DEF TryOpen
  <2> HIDE DEF new
  <2>2. order \in Order
    BY CommandFields DEF Order
  <2>3. /\ more \in Seq(Order) /\ Len(more) = Len(b) + 1 /\ DOMAIN more = 1 .. Len(b) + 1
        /\ \A t \in 1 .. Len(b) : more[t] = b[t]
    BY <1>1, <2>2, AppendProperties
  <2> HIDE DEF more, order
  <2>4. m \in Status /\ m.kind = "OPENED" /\ m.ticket = Len(b) + 1 /\ m.req = c
        /\ m.reason = "NONE"
    BY <1>1, MessageFacts
  <2> HIDE DEF m
  <2>5. new \in Acc /\ new.broker = more /\ new.said = Append(acc.said, m)
    <3> HIDE DEF Order, Status
    <3>1. Append(acc.said, m) \in Seq(Status)
      BY <1>1, <2>4, AppendProperties
    <3> QED
      BY <2>1, <2>3, <3>1 DEF Acc
  <2>6. Ages(b, more)
    BY <1>1, <2>3 DEF Ages
  <2>7. StatusOK(m, more)
    <3> HIDE DEF Status
    <3> QED
      BY <2>4 DEF StatusOK
  <2>8. Replies(m, c, more)
    <3> HIDE DEF Status
    <3> QED
      BY <1>1, <2>3, <2>4, <2>7 DEF Replies, Answers
  <2>9. \A t \in Live(more) : t = m.ticket
    <3>1. \A t \in Live(more) : t \in 1 .. Len(b) \/ t = Len(b) + 1
      BY <1>1, <2>3 DEF Live
    <3>2. \A t \in 1 .. Len(b) : t \notin Live(more)
      BY <1>1, <1>5, <2>3 DEF Live
    <3> QED
      BY <2>4, <3>1, <3>2
  <2>10. DoesOne(acc, new, c)
    BY <2>4, <2>5, <2>6, <2>8, <2>9 DEF DoesOne
  <2> QED
    BY <2>10 DEF new
<1> HIDE DEF b, new
<1> QED
  BY <1>3, <1>4, <1>5

LEMMA DoesClose ==
  ASSUME NEW acc \in Acc, NEW c \in Command, c.type = "CLOSE", NEW luck \in Luck,
         NEW gain \in BOOLEAN
  PROVE  DoesOne(acc, TryClose(acc, c, luck, gain), c)
<1> DEFINE new == TryClose(acc, c, luck, gain)
           b == acc.broker
           closes == c.ticket \in Live(b) /\ gain /\ luck = "DONE"
           yes == Message("CLOSED_BY_SIGNAL", c.ticket, c, FALSE, "NONE")
           profit == c.ticket \in Live(b) /\ gain
           no == Message("STILL_OPEN", c.ticket, c, profit, "NOT_CLOSED")
<1>1. b \in Seq(Order) /\ acc.said \in Seq(Status) /\ Len(b) \in Nat /\ DOMAIN b = 1 .. Len(b)
  <2> HIDE DEF Order, Status
  <2> QED
    BY DEF Acc
<1>2. c.side \in Sides /\ c.sig \in Nat /\ c.ticket \in Nat
  BY CommandFields
<1>3. CASE closes
  <2> DEFINE after == [b EXCEPT ![c.ticket].fate = "SIGNAL"]
             m == yes
  <2>1. new = [broker |-> after, said |-> Append(acc.said, m)]
    BY <1>3 DEF TryClose
  <2>2. c.ticket \in 1 .. Len(b) /\ b[c.ticket] \in Order
    BY <1>1, <1>3 DEF Live
  <2>3. [b[c.ticket] EXCEPT !.fate = "SIGNAL"] \in Order
        /\ [b[c.ticket] EXCEPT !.fate = "SIGNAL"].fate = "SIGNAL"
    BY <2>2 DEF Order
  <2> HIDE DEF new
  <2>4. /\ after \in Seq(Order) /\ Len(after) = Len(b) /\ DOMAIN after = 1 .. Len(b)
        /\ after[c.ticket].fate = "SIGNAL"
        /\ \A t \in 1 .. Len(b) : t # c.ticket => after[t] = b[t]
    <3> HIDE DEF Order
    <3> QED
      BY <1>1, <2>2, <2>3
  <2> HIDE DEF after
  <2>5. /\ m \in Status /\ m.kind = "CLOSED_BY_SIGNAL" /\ m.ticket = c.ticket /\ m.req = c
        /\ m.reason = "NONE"
    <3> HIDE DEF Command
    <3> QED
      BY <1>2 DEF Message, Status
  <2> HIDE DEF m
  <2>6. new \in Acc /\ new.broker = after /\ new.said = Append(acc.said, m)
    <3> HIDE DEF Order, Status
    <3>1. Append(acc.said, m) \in Seq(Status)
      BY <1>1, <2>5, AppendProperties
    <3> QED
      BY <2>1, <2>4, <3>1 DEF Acc
  <2>7. Ages(b, after)
    BY <1>1, <2>4 DEF Ages
  <2>8. StatusOK(m, after)
    <3> HIDE DEF Status
    <3> QED
      BY <2>4, <2>5 DEF StatusOK
  <2>9. Replies(m, c, after)
    <3> HIDE DEF Status
    <3> QED
      BY <2>2, <2>4, <2>5, <2>8 DEF Replies, Answers
  <2>10. \A t \in Live(after) : t \in Live(b)
    BY <1>1, <2>4 DEF Live
  <2>11. DoesOne(acc, new, c)
    BY <2>6, <2>7, <2>9, <2>10 DEF DoesOne
  <2> QED
    BY <2>11 DEF new
<1>4. CASE ~closes
  <2> DEFINE m == no
  <2>1. new = [acc EXCEPT !.said = Append(@, m)]
    BY <1>4 DEF TryClose
  <2> HIDE DEF new
  <2>2. profit \in BOOLEAN
    OBVIOUS
  <2> HIDE DEF profit
  <2>3. /\ m \in Status /\ m.kind = "STILL_OPEN" /\ m.ticket = c.ticket /\ m.req = c
        /\ m.reason = "NOT_CLOSED"
    BY <1>2, <2>2, MessageFacts
  <2> HIDE DEF m
  <2>4. new \in Acc /\ new.broker = b /\ new.said = Append(acc.said, m)
    <3> HIDE DEF Order, Status
    <3>1. Append(acc.said, m) \in Seq(Status)
      BY <1>1, <2>3, AppendProperties
    <3> QED
      BY <2>1, <3>1 DEF Acc
  <2>5. StatusOK(m, b)
    <3> HIDE DEF Status
    <3> QED
      BY <2>3 DEF StatusOK
  <2>6. Replies(m, c, b)
    <3> HIDE DEF Status
    <3> QED
      BY <2>3, <2>5 DEF Replies, Answers
  <2>7. DoesOne(acc, new, c)
    BY <1>1, <2>4, <2>6, SameBroker DEF DoesOne
  <2> QED
    BY <2>7 DEF new
<1> QED
  BY <1>3, <1>4

LEMMA Does ==
  ASSUME NEW acc \in Acc, NEW c \in Command, NEW luck \in Luck, NEW gain \in BOOLEAN
  PROVE  DoesOne(acc, Execute(acc, c, luck, gain), c)
<1>1. CASE c.type = "OPEN"
  BY <1>1, DoesOpen DEF Execute
<1>2. CASE c.type # "OPEN"
  BY <1>2, CommandFields, DoesClose DEF Execute
<1> QED
  BY <1>1, <1>2

\* The recursion ExecuteAll is defined by.
IsTurn(f, cmds, lucks, gain) ==
  f = [n \in 0 .. Len(cmds) |->
         IF n = 0 THEN [broker |-> broker, said |-> <<>>]
         ELSE Execute(f[n - 1], cmds[n], lucks[n], gain)]

Doing(cmds, lucks, gain) ==
  [i \in 1 .. Len(cmds) |-> [acc \in Acc |-> Execute(acc, cmds[i], lucks[i], gain)]]

LEMMA ExecuteSteps ==
  ASSUME NEW cmds \in Seq(Command), NEW lucks \in [DOMAIN cmds -> Luck],
         NEW gain \in BOOLEAN, broker \in Seq(Order)
  PROVE  \E f : /\ f[0] = [broker |-> broker, said |-> <<>>]
                /\ ExecuteAll(cmds, lucks, gain) = f[Len(cmds)]
                /\ \A n \in 1 .. Len(cmds) : f[n] = Execute(f[n - 1], cmds[n], lucks[n], gain)
<1> DEFINE N == Len(cmds)
           start == [broker |-> broker, said |-> <<>>]
<1>1. N \in Nat /\ DOMAIN cmds = 1 .. N
  OBVIOUS
<1>2. start \in Acc
  <2>1. <<>> \in Seq(Status)
    OBVIOUS
  <2> HIDE DEF Status, Order
  <2> QED
    BY <2>1 DEF Acc
<1>3. Doing(cmds, lucks, gain) \in [1 .. N -> [Acc -> Acc]]
  <2>1. ASSUME NEW i \in 1 .. N, NEW acc \in Acc
        PROVE  Execute(acc, cmds[i], lucks[i], gain) \in Acc
    <3>1. cmds[i] \in Command /\ lucks[i] \in Luck
      BY <1>1
    <3> HIDE DEF Acc, Command
    <3> QED
      BY <3>1, Does DEF DoesOne
  <2> HIDE DEF Acc
  <2> QED
    BY <2>1 DEF Doing
<1> HIDE DEF start
<1>4. PICK g \in [0 .. N -> Acc] : Runs(g, N, start, Doing(cmds, lucks, gain))
  BY <1>1, <1>2, <1>3, RunExists
<1> DEFINE body(h, n) ==
             IF n = 0 THEN start ELSE Execute(h[n - 1], cmds[n], lucks[n], gain)
<1>5. IsTurn(g, cmds, lucks, gain)
  <2>1. ASSUME NEW n \in 0 .. N
        PROVE  g[n] = body(g, n)
    <3>1. CASE n = 0
      BY <1>4, <3>1 DEF Runs
    <3>2. CASE n # 0
      <4>1. n \in 1 .. N /\ n - 1 \in 0 .. N
        BY <1>1, <3>2
      <4>2. g[n - 1] \in Acc /\ g[n] = Doing(cmds, lucks, gain)[n][g[n - 1]]
        BY <1>4, <4>1 DEF Runs
      <4> HIDE DEF Acc
      <4> QED
        BY <3>2, <4>1, <4>2 DEF Doing
    <3> QED
      BY <3>1, <3>2
  <2>2. g = [n \in 0 .. N |-> g[n]]
    OBVIOUS
  <2>3. g = [n \in 0 .. N |-> body(g, n)]
    <3> HIDE DEF body
    <3> QED
      BY <2>1, <2>2
  <2> QED
    BY <2>3 DEF IsTurn, start
<1> DEFINE f == CHOOSE h : IsTurn(h, cmds, lucks, gain)
<1>6. IsTurn(f, cmds, lucks, gain)
  BY <1>5
<1>7. ExecuteAll(cmds, lucks, gain) = f[N]
  BY DEF ExecuteAll, IsTurn
<1> HIDE DEF f
<1>8. f = [n \in 0 .. N |-> body(f, n)]
  BY <1>6 DEF IsTurn, start
<1>9. ASSUME NEW n \in 0 .. N
      PROVE  f[n] = body(f, n)
  <2> HIDE DEF body
  <2> QED
    BY <1>8
<1>10. f[0] = start
  BY <1>1, <1>9
<1>11. ASSUME NEW n \in 1 .. N
       PROVE  f[n] = Execute(f[n - 1], cmds[n], lucks[n], gain)
  <2>1. n \in 0 .. N /\ n # 0
    BY <1>1
  <2> QED
    BY <1>9, <2>1
<1> QED
  BY <1>7, <1>10, <1>11 DEF start

LEMMA RepliesAges ==
  ASSUME NEW b \in Seq(Order), NEW later \in Seq(Order), Ages(b, later),
         NEW m, NEW c, Replies(m, c, b)
  PROVE  Replies(m, c, later)
<1>1. Len(b) \in Nat /\ Len(later) \in Nat /\ Len(b) <= Len(later)
  BY DEF Ages
<1>2. m.kind \in {"CLOSED_BY_SIGNAL", "STOPPED"} => m.ticket \in 1 .. Len(b)
  BY DEF Replies
<1>3. StatusOK(m, b)
  BY DEF Replies
<1>4. StatusOK(m, later)
  BY <1>2, <1>3, StatusAges
<1>5. \A t \in 1 .. Len(b) : t \in 1 .. Len(later)
  BY <1>1
<1> QED
  BY <1>4, <1>5 DEF Replies

LEMMA AgesChain ==
  ASSUME NEW a \in Seq(Order), NEW b \in Seq(Order), NEW c \in Seq(Order), Ages(a, b), Ages(b, c)
  PROVE  Ages(a, c)
<1>1. Len(a) \in Nat /\ Len(b) \in Nat /\ Len(c) \in Nat
  OBVIOUS
<1> QED
  BY <1>1 DEF Ages

\* Evaluate: every command gets one reply, in the order of the commands, and
\* the broker has no live position that was not there or is not reported.
LEMMA ExecuteFacts ==
  ASSUME NEW cmds \in Seq(Command), NEW lucks \in [DOMAIN cmds -> Luck],
         NEW gain \in BOOLEAN, broker \in Seq(Order)
  PROVE  LET done == ExecuteAll(cmds, lucks, gain)
         IN  /\ done.broker \in Seq(Order) /\ done.said \in Seq(Status)
             /\ Ages(broker, done.broker)
             /\ DOMAIN done.said = DOMAIN cmds
             /\ \A i \in DOMAIN cmds : Replies(done.said[i], cmds[i], done.broker)
             /\ \A t \in Live(done.broker) :
                  \/ t \in Live(broker)
                  \/ \E i \in DOMAIN cmds :
                       done.said[i].kind = "OPENED" /\ done.said[i].ticket = t
<1> DEFINE N == Len(cmds)
<1>1. N \in Nat /\ DOMAIN cmds = 1 .. N
  OBVIOUS
<1>2. PICK f : /\ f[0] = [broker |-> broker, said |-> <<>>]
               /\ ExecuteAll(cmds, lucks, gain) = f[N]
               /\ \A n \in 1 .. N : f[n] = Execute(f[n - 1], cmds[n], lucks[n], gain)
  BY ExecuteSteps
<1> DEFINE Fine(n) ==
             /\ f[n].broker \in Seq(Order) /\ f[n].said \in Seq(Status) /\ f[n] \in Acc
             /\ Ages(broker, f[n].broker)
             /\ Len(f[n].said) = n
             /\ \A i \in 1 .. n : Replies(f[n].said[i], cmds[i], f[n].broker)
             /\ \A t \in Live(f[n].broker) :
                  \/ t \in Live(broker)
                  \/ \E i \in 1 .. n : f[n].said[i].kind = "OPENED" /\ f[n].said[i].ticket = t
           K == {n \in Nat : n <= N => Fine(n)}
<1>3. Fine(0)
  <2>1. f[0].broker = broker /\ f[0].said = <<>>
    BY <1>2
  <2>2. f[0] \in Acc
    <3>1. <<>> \in Seq(Status)
      OBVIOUS
    <3> HIDE DEF Order, Status
    <3> QED
      BY <1>2, <3>1 DEF Acc
  <2> QED
    BY <2>1, <2>2, SameBroker
<1>4. ASSUME NEW n \in Nat, n + 1 <= N, Fine(n)
      PROVE  Fine(n + 1)
  <2>1. /\ n + 1 \in 1 .. N /\ (n + 1) - 1 = n
        /\ cmds[n + 1] \in Command /\ lucks[n + 1] \in Luck
    BY <1>1, <1>4
  <2>2. f[n + 1] = Execute(f[n], cmds[n + 1], lucks[n + 1], gain)
    BY <1>2, <2>1
  <2>3. DoesOne(f[n], f[n + 1], cmds[n + 1])
    BY <1>4, <2>1, <2>2, Does
  <2>4. PICK m : /\ f[n + 1].said = Append(f[n].said, m)
                 /\ Replies(m, cmds[n + 1], f[n + 1].broker)
                 /\ \A t \in Live(f[n + 1].broker) :
                      t \in Live(f[n].broker) \/ (m.kind = "OPENED" /\ m.ticket = t)
    BY <2>3 DEF DoesOne
  <2>5. /\ f[n + 1] \in Acc /\ Ages(f[n].broker, f[n + 1].broker)
        /\ f[n + 1].broker \in Seq(Order) /\ f[n + 1].said \in Seq(Status)
    <3> HIDE DEF Order, Status
    <3> QED
      BY <2>3 DEF DoesOne, Acc
  <2>6. m \in Status
    BY <2>4 DEF Replies
  <2>7. /\ Len(f[n + 1].said) = n + 1 /\ f[n + 1].said[n + 1] = m
        /\ \A i \in 1 .. n : f[n + 1].said[i] = f[n].said[i]
    <3>1. f[n].said \in Seq(Status) /\ Len(f[n].said) = n
      BY <1>4
    <3> QED
      BY <2>4, <2>6, <3>1, AppendProperties
  <2>8. \A i \in 1 .. n + 1 : i \in 1 .. n \/ i = n + 1
    BY <1>4
  <2>9. f[n].broker \in Seq(Order) /\ Ages(broker, f[n].broker)
    BY <1>4
  <2>10. Ages(broker, f[n + 1].broker)
    BY <2>5, <2>9, AgesChain
  <2>11. ASSUME NEW i \in 1 .. n + 1
         PROVE  Replies(f[n + 1].said[i], cmds[i], f[n + 1].broker)
    <3>1. CASE i = n + 1
      BY <2>4, <2>7, <3>1
    <3>2. CASE i \in 1 .. n
      <4>1. Replies(f[n].said[i], cmds[i], f[n].broker)
        BY <1>4, <3>2
      <4>2. Replies(f[n].said[i], cmds[i], f[n + 1].broker)
        BY <2>5, <2>9, <4>1, RepliesAges
      <4> QED
        BY <2>7, <3>2, <4>2
    <3> QED
      BY <2>8, <3>1, <3>2
  <2>12. ASSUME NEW t \in Live(f[n + 1].broker), t \notin Live(broker)
         PROVE  \E i \in 1 .. n + 1 :
                  f[n + 1].said[i].kind = "OPENED" /\ f[n + 1].said[i].ticket = t
    <3>1. CASE m.kind = "OPENED" /\ m.ticket = t
      <4>1. n + 1 \in 1 .. n + 1
        BY <1>4
      <4> QED
        BY <2>7, <3>1, <4>1
    <3>2. CASE t \in Live(f[n].broker)
      <4>1. PICK i \in 1 .. n : f[n].said[i].kind = "OPENED" /\ f[n].said[i].ticket = t
        BY <1>4, <2>12, <3>2
      <4>2. i \in 1 .. n + 1
        BY <1>4
      <4> QED
        BY <2>7, <4>1, <4>2
    <3> QED
      BY <2>4, <2>12, <3>1, <3>2
  <2> QED
    BY <2>5, <2>7, <2>10, <2>11, <2>12
<1> HIDE DEF Fine
<1>5. Nat \subseteq K
  <2>1. 0 \in K
    BY <1>3
  <2>2. ASSUME NEW n \in Nat, n \in K
        PROVE  n + 1 \in K
    BY <1>1, <1>4, <2>2
  <2> HIDE DEF K
  <2> QED
    BY <2>1, <2>2, StepByStep
<1>6. Fine(N)
  BY <1>1, <1>5
<1>7. DOMAIN f[N].said = DOMAIN cmds
  <2>1. f[N].said \in Seq(Status) /\ Len(f[N].said) = N
    BY <1>6 DEF Fine
  <2> QED
    BY <1>1, <2>1
<1> DEFINE done == ExecuteAll(cmds, lucks, gain)
<1>8. done = f[N]
  BY <1>2
<1> HIDE DEF done
<1>9. /\ done.broker \in Seq(Order) /\ done.said \in Seq(Status)
      /\ Ages(broker, done.broker)
      /\ DOMAIN done.said = DOMAIN cmds
      /\ \A i \in DOMAIN cmds : Replies(done.said[i], cmds[i], done.broker)
      /\ \A t \in Live(done.broker) :
           \/ t \in Live(broker)
           \/ \E i \in DOMAIN cmds : done.said[i].kind = "OPENED" /\ done.said[i].ticket = t
  BY <1>1, <1>6, <1>7, <1>8 DEF Fine
<1> QED
  BY <1>9 DEF done

-----------------------------------------------------------------------------
(* What the terminal tracks.                                               *)

LEMMA TrackFacts ==
  ASSUME NEW book \in TrackBook
  PROVE  /\ DOMAIN book \in SUBSET Nat
         /\ \A t \in DOMAIN book :
              book[t] \in Tracked /\ book[t].side \in Sides /\ book[t].req \in Command
<1>1. PICK T \in SUBSET Nat : book \in [T -> Tracked]
  BY DEF TrackBook
<1>2. ASSUME NEW p \in Tracked
      PROVE  p.side \in Sides /\ p.req \in Command
  <2> HIDE DEF Command
  <2> QED
    BY DEF Tracked
<1> QED
  BY <1>1, <1>2

LEMMA TrackRestrict ==
  ASSUME NEW book \in TrackBook, NEW kept, kept \subseteq DOMAIN book
  PROVE  Restrict(book, kept) \in TrackBook /\ Held(Restrict(book, kept)) \subseteq Held(book)
<1>1. \A t \in kept : book[t] \in Tracked
  BY TrackFacts
<1>2. Restrict(book, kept) \in [kept -> Tracked]
  <2> HIDE DEF Tracked
  <2> QED
    BY <1>1 DEF Restrict
<1>3. kept \in SUBSET Nat
  BY TrackFacts
<1>4. DOMAIN Restrict(book, kept) = kept /\ \A t \in kept : Restrict(book, kept)[t] = book[t]
  BY DEF Restrict
<1> QED
  BY <1>2, <1>3, <1>4 DEF TrackBook, Held

\* A status is remembered.
LEMMA TrackOne ==
  ASSUME NEW book \in TrackBook, NEW m \in Status
  PROVE  /\ Track(book, m) \in TrackBook
         /\ Held(Track(book, m)) \subseteq Held(book) \union
              (IF m.kind \in {"OPENED", "STILL_OPEN"} THEN {<<m.req, m.ticket>>} ELSE {})
<1>1. CASE m.kind \in {"OPENED", "STILL_OPEN"}
  <2> DEFINE p == [side |-> m.side, req |-> m.req]
             new == Having(book, m.ticket, p)
  <2>1. Track(book, m) = new
    BY <1>1 DEF Track
  <2>2. p \in Tracked /\ p.req = m.req
    <3>1. m.side \in Sides /\ m.req \in Command
      BY StatusFields
    <3> HIDE DEF Command, Status
    <3> QED
      BY <3>1 DEF Tracked
  <2> HIDE DEF p
  <2>3. /\ DOMAIN new = DOMAIN book \union {m.ticket} /\ new[m.ticket] = p
        /\ \A t \in DOMAIN book : t # m.ticket => new[t] = book[t]
    BY DEF Having
  <2>4. \A t \in DOMAIN book : book[t] \in Tracked
    BY TrackFacts
  <2>5. new \in [DOMAIN book \union {m.ticket} -> Tracked]
    <3> HIDE DEF Tracked
    <3> QED
      BY <2>2, <2>4 DEF Having
  <2>6. DOMAIN book \union {m.ticket} \in SUBSET Nat
    BY TrackFacts, StatusFields
  <2> HIDE DEF new
  <2>7. new \in TrackBook
    BY <2>5, <2>6 DEF TrackBook
  <2>8. ASSUME NEW t \in DOMAIN new
        PROVE  <<new[t].req, t>> \in Held(book) \union {<<m.req, m.ticket>>}
    <3>1. CASE t = m.ticket
      BY <2>2, <2>3, <3>1
    <3>2. CASE t # m.ticket
      BY <2>3, <3>2 DEF Held
    <3> QED
      BY <3>1, <3>2
  <2>9. Held(new) \subseteq Held(book) \union {<<m.req, m.ticket>>}
    BY <2>8 DEF Held
  <2> QED
    BY <1>1, <2>1, <2>7, <2>9
<1>2. CASE m.kind = "CLOSED_BY_SIGNAL"
  <2>1. Track(book, m) = Restrict(book, DOMAIN book \ {m.ticket})
    BY <1>2 DEF Track
  <2>2. DOMAIN book \ {m.ticket} \subseteq DOMAIN book
    OBVIOUS
  <2> QED
    BY <1>2, <2>1, <2>2, TrackRestrict
<1>3. CASE m.kind \notin {"OPENED", "STILL_OPEN", "CLOSED_BY_SIGNAL"}
  BY <1>3 DEF Track
<1> QED
  BY <1>1, <1>2, <1>3

\* The recursion TrackAll is defined by.
IsMemory(f, said) ==
  f = [n \in 0 .. Len(said) |-> IF n = 0 THEN tracked ELSE Track(f[n - 1], said[n])]

Tracking(said) == [i \in 1 .. Len(said) |-> [book \in TrackBook |-> Track(book, said[i])]]

LEMMA TrackSteps ==
  ASSUME NEW said \in Seq(Status), tracked \in TrackBook
  PROVE  \E f : /\ f[0] = tracked /\ TrackAll(said) = f[Len(said)]
                /\ \A n \in 1 .. Len(said) : f[n] = Track(f[n - 1], said[n])
<1> DEFINE N == Len(said)
<1>1. N \in Nat
  OBVIOUS
<1>2. Tracking(said) \in [1 .. N -> [TrackBook -> TrackBook]]
  <2>1. \A i \in 1 .. N : said[i] \in Status
    OBVIOUS
  <2> HIDE DEF TrackBook, Status
  <2> QED
    BY <2>1, TrackOne DEF Tracking
<1>3. PICK g \in [0 .. N -> TrackBook] : Runs(g, N, tracked, Tracking(said))
  BY <1>1, <1>2, RunExists
<1> DEFINE body(h, n) == IF n = 0 THEN tracked ELSE Track(h[n - 1], said[n])
<1>4. IsMemory(g, said)
  <2>1. ASSUME NEW n \in 0 .. N
        PROVE  g[n] = body(g, n)
    <3>1. CASE n = 0
      BY <1>3, <3>1 DEF Runs
    <3>2. CASE n # 0
      <4>1. n \in 1 .. N /\ n - 1 \in 0 .. N
        BY <1>1, <3>2
      <4>2. g[n - 1] \in TrackBook /\ g[n] = Tracking(said)[n][g[n - 1]]
        BY <1>3, <4>1 DEF Runs
      <4> HIDE DEF TrackBook
      <4> QED
        BY <3>2, <4>1, <4>2 DEF Tracking
    <3> QED
      BY <3>1, <3>2
  <2>2. g = [n \in 0 .. N |-> g[n]]
    OBVIOUS
  <2>3. g = [n \in 0 .. N |-> body(g, n)]
    <3> HIDE DEF body
    <3> QED
      BY <2>1, <2>2
  <2> QED
    BY <2>3 DEF IsMemory
<1> DEFINE f == CHOOSE h : IsMemory(h, said)
<1>5. IsMemory(f, said)
  BY <1>4
<1>6. TrackAll(said) = f[N]
  BY DEF TrackAll, IsMemory
<1> HIDE DEF f
<1>7. f = [n \in 0 .. N |-> body(f, n)]
  BY <1>5 DEF IsMemory
<1>8. ASSUME NEW n \in 0 .. N
      PROVE  f[n] = body(f, n)
  <2> HIDE DEF body
  <2> QED
    BY <1>7
<1>9. f[0] = tracked
  BY <1>1, <1>8
<1>10. ASSUME NEW n \in 1 .. N
       PROVE  f[n] = Track(f[n - 1], said[n])
  <2>1. n \in 0 .. N /\ n # 0
    BY <1>1
  <2> QED
    BY <1>8, <2>1
<1> QED
  BY <1>6, <1>9, <1>10

LEMMA TrackAllFacts ==
  ASSUME NEW said \in Seq(Status), tracked \in TrackBook
  PROVE  TrackAll(said) \in TrackBook /\ Held(TrackAll(said)) \subseteq Held(tracked) \union Said(said)
<1>1. PICK f : /\ f[0] = tracked /\ TrackAll(said) = f[Len(said)]
               /\ \A n \in 1 .. Len(said) : f[n] = Track(f[n - 1], said[n])
  BY TrackSteps
<1>2. Len(said) \in Nat /\ DOMAIN said = 1 .. Len(said)
  OBVIOUS
<1> DEFINE Fine(n) == f[n] \in TrackBook /\ Held(f[n]) \subseteq Held(tracked) \union Said(said)
           K == {n \in Nat : n <= Len(said) => Fine(n)}
<1>3. ASSUME NEW n \in Nat, n + 1 <= Len(said), Fine(n)
      PROVE  Fine(n + 1)
  <2>1. n + 1 \in DOMAIN said /\ (n + 1) - 1 = n /\ said[n + 1] \in Status
    BY <1>2, <1>3
  <2>2. f[n + 1] = Track(f[n], said[n + 1])
    BY <1>1, <1>2, <2>1
  <2> DEFINE m == said[n + 1]
  <2>3. m.kind \in {"OPENED", "STILL_OPEN"} => <<m.req, m.ticket>> \in Said(said)
    BY <2>1 DEF Said, Reports, ToSet
  <2>4. /\ f[n + 1] \in TrackBook
        /\ Held(f[n + 1]) \subseteq Held(f[n]) \union
             (IF m.kind \in {"OPENED", "STILL_OPEN"} THEN {<<m.req, m.ticket>>} ELSE {})
    BY <1>3, <2>1, <2>2, TrackOne
  <2> HIDE DEF m
  <2> QED
    BY <1>3, <2>3, <2>4
<1> HIDE DEF Fine
<1>4. Nat \subseteq K
  <2>1. 0 \in K
    BY <1>1 DEF Fine
  <2>2. ASSUME NEW n \in Nat, n \in K
        PROVE  n + 1 \in K
    BY <1>2, <1>3, <2>2
  <2> HIDE DEF K
  <2> QED
    BY <2>1, <2>2, StepByStep
<1>5. Fine(Len(said))
  BY <1>2, <1>4
<1> QED
  BY <1>1, <1>5 DEF Fine

-----------------------------------------------------------------------------
(* What the turns of the timer add to the line.                            *)

\* Reports about positions the terminal tracks say nothing new.
Known(news, book, b) ==
  /\ news \in Seq(Status)
  /\ \A m \in ToSet(news) :
       /\ StatusOK(m, b) /\ m.kind \in {"STILL_OPEN", "STOPPED"} /\ m.reason = "NONE"
       /\ <<m.req, m.ticket>> \in Held(book)

LEMMA OpenReportsFacts ==
  ASSUME NEW gain \in BOOLEAN, tracked \in TrackBook, broker \in Seq(Order),
         DOMAIN tracked \subseteq 1 .. Len(broker)
  PROVE  Known(OpenReports(gain), tracked, broker)
<1> DEFINE tickets == DOMAIN tracked \intersect Live(broker)
           seen == InOrder(tickets)
           base(i) == Message("STILL_OPEN", seen[i], tracked[seen[i]].req, gain, "NONE")
           news == [i \in DOMAIN seen |->
                      [base(i) EXCEPT !.side = tracked[seen[i]].side, !.sig = 0]]
<1>1. Len(broker) \in Nat /\ tickets \in SUBSET (1 .. Len(broker))
  OBVIOUS
<1> HIDE DEF tickets
<1>2. /\ seen \in Seq(tickets)
      /\ \A i \in DOMAIN seen : seen[i] \in tickets /\ seen[i] \in Nat
  BY <1>1, InOrderFacts
<1> HIDE DEF seen
<1>3. ASSUME NEW i \in DOMAIN seen
      PROVE  /\ news[i] \in Status /\ news[i].kind = "STILL_OPEN" /\ news[i].reason = "NONE"
             /\ StatusOK(news[i], broker) /\ <<news[i].req, news[i].ticket>> \in Held(tracked)
  <2> DEFINE m == news[i]
  <2>1. seen[i] \in DOMAIN tracked /\ seen[i] \in Nat
    BY <1>2 DEF tickets
  <2>2. tracked[seen[i]].side \in Sides /\ tracked[seen[i]].req \in Command
    BY <2>1, TrackFacts
  <2>3. /\ m \in Status /\ m.kind = "STILL_OPEN" /\ m.ticket = seen[i]
        /\ m.req = tracked[seen[i]].req /\ m.reason = "NONE"
    <3> HIDE DEF Command
    <3> QED
      BY <2>1, <2>2 DEF Message, Status
  <2> HIDE DEF m
  <2>4. StatusOK(m, broker)
    <3> HIDE DEF Status
    <3> QED
      BY <2>3 DEF StatusOK
  <2>5. <<m.req, m.ticket>> \in Held(tracked)
    BY <2>1, <2>3 DEF Held
  <2> QED
    BY <2>3, <2>4, <2>5 DEF m
<1>4. news \in Seq(Status) /\ DOMAIN news = DOMAIN seen
  <2>1. PICK k \in Nat : DOMAIN seen = 1 .. k
    BY <1>2
  <2>2. news = [i \in 1 .. k |-> news[i]] /\ DOMAIN news = DOMAIN seen
    BY <2>1
  <2>3. \A i \in 1 .. k : news[i] \in Status
    BY <1>3, <2>1
  <2> HIDE DEF news, Status
  <2> QED
    BY <2>2, <2>3
<1>5. OpenReports(gain) = news
  BY DEF OpenReports, seen, tickets
<1> HIDE DEF news
<1> QED
  BY <1>3, <1>4, <1>5 DEF Known, ToSet

LEMMA StopReportsFacts ==
  ASSUME NEW book \in TrackBook, NEW b \in Seq(Order), DOMAIN book \subseteq 1 .. Len(b)
  PROVE  Known(StopReports(book, b), book, b)
<1> DEFINE tickets == Stopped(book, b)
           list == InOrder(tickets)
           gone == Reverse(list)
           base(i) == Message("STOPPED", gone[i], book[gone[i]].req, FALSE, "NONE")
           news == [i \in DOMAIN gone |->
                      [base(i) EXCEPT !.side = book[gone[i]].side, !.sig = 0]]
<1>1. Len(b) \in Nat /\ tickets \in SUBSET (1 .. Len(b))
  BY DEF Stopped
<1>2. tickets \subseteq DOMAIN book /\ \A t \in tickets : b[t].fate # "OPEN"
  BY DEF Stopped
<1> HIDE DEF tickets
<1>3. list \in Seq(tickets)
  BY <1>1, InOrderFacts
<1> HIDE DEF list
<1>4. /\ Len(list) \in Nat /\ DOMAIN gone = 1 .. Len(list)
      /\ \A i \in 1 .. Len(list) : gone[i] = list[(Len(list) - i) + 1]
  BY <1>3 DEF Reverse
<1>5. \A i \in 1 .. Len(list) : gone[i] \in tickets
  BY <1>3, <1>4
<1> HIDE DEF gone
<1>6. ASSUME NEW i \in DOMAIN gone
      PROVE  /\ news[i] \in Status /\ news[i].kind = "STOPPED" /\ news[i].reason = "NONE"
             /\ StatusOK(news[i], b) /\ <<news[i].req, news[i].ticket>> \in Held(book)
  <2> DEFINE m == news[i]
  <2>1. gone[i] \in DOMAIN book /\ gone[i] \in Nat /\ b[gone[i]].fate # "OPEN"
    BY <1>1, <1>2, <1>4, <1>5
  <2>2. book[gone[i]].side \in Sides /\ book[gone[i]].req \in Command
    BY <2>1, TrackFacts
  <2>3. /\ m \in Status /\ m.kind = "STOPPED" /\ m.ticket = gone[i]
        /\ m.req = book[gone[i]].req /\ m.reason = "NONE"
    <3> HIDE DEF Command
    <3> QED
      BY <2>1, <2>2 DEF Message, Status
  <2> HIDE DEF m
  <2>4. StatusOK(m, b)
    <3> HIDE DEF Status
    <3> QED
      BY <2>1, <2>3 DEF StatusOK
  <2>5. <<m.req, m.ticket>> \in Held(book)
    BY <2>1, <2>3 DEF Held
  <2> QED
    BY <2>3, <2>4, <2>5 DEF m
<1>7. news \in Seq(Status) /\ DOMAIN news = DOMAIN gone
  <2>1. news = [i \in 1 .. Len(list) |-> news[i]] /\ DOMAIN news = DOMAIN gone
    BY <1>4
  <2>2. \A i \in 1 .. Len(list) : news[i] \in Status
    BY <1>4, <1>6
  <2> HIDE DEF news, Status
  <2> QED
    BY <1>4, <2>1, <2>2
<1>8. StopReports(book, b) = news
  BY DEF StopReports, gone, list, tickets
<1> HIDE DEF news
<1> QED
  BY <1>6, <1>7, <1>8 DEF Known, ToSet

-----------------------------------------------------------------------------
(* The line to the server.                                                 *)

LEMMA SaidConcat ==
  ASSUME NEW S, NEW a \in Seq(S), NEW b \in Seq(S)
  PROVE  Said(a \o b) = Said(a) \union Said(b) /\ Retrying(a \o b) = Retrying(a) \union Retrying(b)
<1>1. ToSet(a \o b) = ToSet(a) \union ToSet(b)
  BY ToSetConcat
<1>2. Said(a \o b) = Said(a) \union Said(b)
  BY <1>1 DEF Said, Reports
<1>3. Retrying(a \o b) = Retrying(a) \union Retrying(b)
  BY <1>1 DEF Retrying
<1> QED
  BY <1>2, <1>3

\* Where an entry of two lists put together comes from.
LEMMA ConcatOrigin ==
  ASSUME NEW S, NEW a \in Seq(S), NEW b \in Seq(S), NEW k \in DOMAIN (a \o b)
  PROVE  \/ k \in DOMAIN a /\ (a \o b)[k] = a[k]
         \/ k - Len(a) \in DOMAIN b /\ k = (k - Len(a)) + Len(a) /\ (a \o b)[k] = b[k - Len(a)]
<1>1. k \in DOMAIN a \/ (k - Len(a) \in DOMAIN b /\ k = (k - Len(a)) + Len(a))
  BY ConcatParts
<1>2. CASE k \in DOMAIN a
  BY <1>2, ConcatParts
<1>3. CASE k - Len(a) \in DOMAIN b /\ k = (k - Len(a)) + Len(a)
  <2>1. (a \o b)[(k - Len(a)) + Len(a)] = b[k - Len(a)]
    BY <1>3, ConcatParts
  <2> QED
    BY <1>3, <2>1
<1> QED
  BY <1>1, <1>2, <1>3

LEMMA OneRetryConcat ==
  ASSUME NEW S, NEW a \in Seq(S), NEW b \in Seq(S), OneRetry(a), OneRetry(b),
         Retrying(a) \intersect Retrying(b) = {}
  PROVE  OneRetry(a \o b)
<1> DEFINE u == a \o b
           Left(k) == k \in DOMAIN a /\ u[k] = a[k]
           Right(k) == k - Len(a) \in DOMAIN b /\ k = (k - Len(a)) + Len(a) /\ u[k] = b[k - Len(a)]
<1>1. \A k \in DOMAIN u : Left(k) \/ Right(k)
  BY ConcatOrigin
<1> HIDE DEF u
<1>2. SUFFICES ASSUME NEW i \in DOMAIN u, NEW j \in DOMAIN u,
                      IsRetry(u[i]), IsRetry(u[j]), u[i].req = u[j].req
               PROVE  i = j
  BY DEF OneRetry, u
<1>3. CASE Left(i) /\ Left(j)
  BY <1>2, <1>3 DEF OneRetry
<1>4. CASE Right(i) /\ Right(j)
  <2>1. i - Len(a) = j - Len(a)
    BY <1>2, <1>4 DEF OneRetry
  <2> QED
    BY <1>4, <2>1
<1>5. CASE Left(i) /\ Right(j)
  <2>1. u[i].req \in Retrying(a) /\ u[j].req \in Retrying(b)
    BY <1>2, <1>5 DEF Retrying, ToSet
  <2> QED
    BY <1>2, <2>1
<1>6. CASE Right(i) /\ Left(j)
  <2>1. u[j].req \in Retrying(a) /\ u[i].req \in Retrying(b)
    BY <1>2, <1>6 DEF Retrying, ToSet
  <2> QED
    BY <1>2, <2>1
<1> QED
  BY <1>1, <1>3, <1>4, <1>5, <1>6

LEMMA OnePollConcat ==
  ASSUME NEW S, NEW a \in Seq(S), NEW b \in Seq(S), OnePoll(a), OnePoll(b),
         Poll(TRUE) \notin ToSet(a) \/ Poll(TRUE) \notin ToSet(b)
  PROVE  OnePoll(a \o b)
<1> DEFINE u == a \o b
           Left(k) == k \in DOMAIN a /\ u[k] = a[k]
           Right(k) == k - Len(a) \in DOMAIN b /\ k = (k - Len(a)) + Len(a) /\ u[k] = b[k - Len(a)]
<1>1. \A k \in DOMAIN u : Left(k) \/ Right(k)
  BY ConcatOrigin
<1> HIDE DEF u
<1>2. SUFFICES ASSUME NEW i \in DOMAIN u, NEW j \in DOMAIN u,
                      u[i] = Poll(TRUE), u[j] = Poll(TRUE)
               PROVE  i = j
  BY DEF OnePoll, u
<1>3. CASE Left(i) /\ Left(j)
  BY <1>2, <1>3 DEF OnePoll
<1>4. CASE Right(i) /\ Right(j)
  <2>1. i - Len(a) = j - Len(a)
    BY <1>2, <1>4 DEF OnePoll
  <2> QED
    BY <1>4, <2>1
<1>5. CASE Left(i) /\ Right(j)
  BY <1>2, <1>5 DEF ToSet
<1>6. CASE Right(i) /\ Left(j)
  BY <1>2, <1>6 DEF ToSet
<1> QED
  BY <1>1, <1>3, <1>4, <1>5, <1>6

LEMMA PollFacts ==
  /\ Poll(TRUE) \in Polls /\ Poll(FALSE) \in Polls
  /\ Poll(TRUE).kind = "POLL" /\ Poll(FALSE).kind = "POLL" /\ Poll(FALSE) # Poll(TRUE)
  /\ \A m \in Status : m.kind # "POLL"
  BY DEF Poll, Polls, Status

LEMMA StatusIsLine ==
  ASSUME NEW news \in Seq(Status)
  PROVE  news \in Lines
<1>1. \A i \in 1 .. Len(news) : news[i] \in Status
  OBVIOUS
<1> HIDE DEF Status, Polls
<1> QED
  BY <1>1 DEF Lines

\* Reports are put on the line.
LEMMA Reporting ==
  ASSUME NEW b, NEW u, LineOK(u, b), NEW news, NEW book, Known(news, book, b)
  PROVE  /\ LineOK(u \o news, b)
         /\ Said(u \o news) \subseteq Said(u) \union Held(book)
         /\ Retrying(u \o news) = Retrying(u)
         /\ ToSet(u) \subseteq ToSet(u \o news)
         /\ Poll(TRUE) \in ToSet(u \o news) => Poll(TRUE) \in ToSet(u)
<1>1. u \in Lines /\ OneRetry(u) /\ OnePoll(u) /\ \A m \in ToSet(u) : StatusOK(m, b)
  BY DEF LineOK
<1>2. /\ news \in Seq(Status)
      /\ \A m \in ToSet(news) : /\ StatusOK(m, b) /\ m.kind # "POLL" /\ m.reason # "RETRYABLE"
                                /\ <<m.req, m.ticket>> \in Held(book)
  BY DEF Known
<1>3. news \in Lines
  BY <1>2, StatusIsLine
<1>4. Retrying(news) = {} /\ OneRetry(news)
  <2>1. \A i \in DOMAIN news : ~IsRetry(news[i])
    BY <1>2 DEF IsRetry, ToSet
  <2> QED
    BY <2>1 DEF Retrying, OneRetry, ToSet
<1>5. Poll(TRUE) \notin ToSet(news)
  BY <1>2, PollFacts
<1>6. OnePoll(news)
  BY <1>5 DEF OnePoll, ToSet
<1>7. Said(news) \subseteq Held(book)
  BY <1>2 DEF Said, Reports
<1> DEFINE S == Status \union Polls
<1>8. u \in Seq(S) /\ news \in Seq(S) /\ Seq(S) = Lines
  BY <1>1, <1>3 DEF Lines
<1> HIDE DEF S
<1>9. /\ Said(u \o news) = Said(u) \union Said(news)
      /\ Retrying(u \o news) = Retrying(u) \union Retrying(news)
  BY <1>8, SaidConcat
<1>10. OneRetry(u \o news)
  BY <1>1, <1>4, <1>8, OneRetryConcat
<1>11. OnePoll(u \o news)
  BY <1>1, <1>5, <1>6, <1>8, OnePollConcat
<1>12. ToSet(u \o news) = ToSet(u) \union ToSet(news) /\ u \o news \in Lines
  <2>1. ToSet(u \o news) = ToSet(u) \union ToSet(news)
    BY <1>8, ToSetConcat
  <2>2. u \o news \in Seq(S)
    BY <1>8, ConcatParts
  <2> QED
    BY <1>8, <2>1, <2>2
<1>13. LineOK(u \o news, b)
  BY <1>1, <1>2, <1>10, <1>11, <1>12 DEF LineOK
<1> QED
  BY <1>4, <1>5, <1>7, <1>9, <1>12, <1>13

\* The first message is read.
LEMMA TailLine ==
  ASSUME NEW b, NEW u, LineOK(u, b), u # <<>>
  PROVE  /\ LineOK(Tail(u), b)
         /\ ToSet(u) = ToSet(Tail(u)) \union {Head(u)}
         /\ IsRetry(Head(u)) => Head(u).req \notin Retrying(Tail(u))
         /\ Head(u) = Poll(TRUE) => Poll(TRUE) \notin ToSet(Tail(u))
<1> DEFINE S == Status \union Polls
           v == Tail(u)
<1>1. u \in Seq(S) /\ OneRetry(u) /\ OnePoll(u) /\ \A m \in ToSet(u) : StatusOK(m, b)
  BY DEF LineOK, Lines
<1> HIDE DEF S
<1>2. /\ Len(u) \in Nat /\ Len(u) > 0 /\ DOMAIN u = 1 .. Len(u)
      /\ v \in Seq(S) /\ DOMAIN v = 1 .. Len(u) - 1 /\ Head(u) = u[1]
      /\ \A i \in 1 .. Len(u) - 1 : v[i] = u[i + 1]
  BY <1>1
<1> HIDE DEF v
<1>3. \A i \in DOMAIN v : i + 1 \in DOMAIN u /\ i + 1 # 1 /\ v[i] = u[i + 1]
  BY <1>2
<1>4. \A i \in DOMAIN u : i = 1 \/ (i - 1 \in DOMAIN v /\ v[i - 1] = u[i])
  <2> TAKE i \in DOMAIN u
  <2>1. CASE i # 1
    <3>1. i - 1 \in 1 .. Len(u) - 1 /\ (i - 1) + 1 = i
      BY <1>2, <2>1
    <3> QED
      BY <1>2, <3>1
  <2> QED
    BY <2>1
<1>5. 1 \in DOMAIN u
  BY <1>2
<1>6. ToSet(u) = ToSet(v) \union {Head(u)}
  BY <1>2, <1>3, <1>4, <1>5 DEF ToSet
<1>7. ASSUME NEW i \in DOMAIN v, NEW j \in DOMAIN v, i + 1 = j + 1
      PROVE  i = j
  BY <1>2, <1>7
<1>8. OneRetry(v)
  BY <1>1, <1>3, <1>7 DEF OneRetry
<1>9. OnePoll(v)
  BY <1>1, <1>3, <1>7 DEF OnePoll
<1>10. ASSUME IsRetry(Head(u)), Head(u).req \in Retrying(v)
       PROVE  FALSE
  <2>1. PICK i \in DOMAIN v : IsRetry(v[i]) /\ v[i].req = Head(u).req
    BY <1>10 DEF Retrying, ToSet
  <2>2. i + 1 = 1
    BY <1>1, <1>2, <1>3, <1>5, <1>10, <2>1 DEF OneRetry
  <2> QED
    BY <1>3, <2>2
<1>11. ASSUME Head(u) = Poll(TRUE), Poll(TRUE) \in ToSet(v)
       PROVE  FALSE
  <2>1. PICK i \in DOMAIN v : v[i] = Poll(TRUE)
    BY <1>11 DEF ToSet
  <2>2. i + 1 = 1
    BY <1>1, <1>2, <1>3, <1>5, <1>11, <2>1 DEF OnePoll
  <2> QED
    BY <1>3, <2>2
<1>12. LineOK(v, b)
  <2>1. v \in Lines
    BY <1>2 DEF Lines, S
  <2> QED
    BY <1>1, <1>6, <1>8, <1>9, <2>1 DEF LineOK
<1> QED
  BY <1>6, <1>10, <1>11, <1>12 DEF v

\* The polls on the line are taken for stale; nothing else changes.
LEMMA StaleLine ==
  ASSUME NEW b, LineOK(up, b)
  PROVE  /\ LineOK(StalePolls, b) /\ Poll(TRUE) \notin ToSet(StalePolls)
         /\ Said(StalePolls) = Said(up) /\ Retrying(StalePolls) = Retrying(up)
         /\ \A m \in ToSet(up) : m.kind # "POLL" => m \in ToSet(StalePolls)
<1> DEFINE u == StalePolls
<1>1. /\ up \in Seq(Status \union Polls) /\ OneRetry(up) /\ OnePoll(up)
      /\ \A m \in ToSet(up) : StatusOK(m, b)
  BY DEF LineOK, Lines
<1>2. /\ DOMAIN u = DOMAIN up
      /\ \A i \in DOMAIN up : u[i] = IF up[i].kind = "POLL" THEN Poll(FALSE) ELSE up[i]
  BY DEF StalePolls
<1>3. u \in Lines
  <2>1. PICK k \in Nat : DOMAIN up = 1 .. k
    BY <1>1
  <2>2. ASSUME NEW i \in 1 .. k
        PROVE  u[i] \in Status \union Polls
    <3>1. u[i] = Poll(FALSE) \/ u[i] = up[i]
      BY <1>2, <2>1
    <3>2. up[i] \in Status \union Polls
      BY <1>1, <2>1
    <3> HIDE DEF Status, Polls, u
    <3> QED
      BY <3>1, <3>2, PollFacts
  <2>3. u = [i \in 1 .. k |-> u[i]]
    BY <2>1 DEF StalePolls
  <2> HIDE DEF Status, Polls, u
  <2> QED
    BY <2>2, <2>3 DEF Lines
<1> HIDE DEF u
<1>4. \A m \in ToSet(up) : m.kind # "POLL" => m \in ToSet(u)
  BY <1>2 DEF ToSet
<1>5. \A m \in ToSet(u) : m = Poll(FALSE) \/ (m \in ToSet(up) /\ m.kind # "POLL")
  BY <1>2 DEF ToSet
<1>6. Poll(TRUE) \notin ToSet(u)
  BY <1>5, PollFacts
<1>7. Reports(u) = Reports(up)
  BY <1>4, <1>5, PollFacts DEF Reports
<1>8. Retrying(u) = Retrying(up)
  <2>1. {x \in ToSet(u) : IsRetry(x)} = {x \in ToSet(up) : IsRetry(x)}
    BY <1>4, <1>5, PollFacts DEF IsRetry
  <2> QED
    BY <2>1 DEF Retrying
<1>9. OneRetry(u)
  <2>1. \A i \in DOMAIN u : IsRetry(u[i]) => i \in DOMAIN up /\ up[i] = u[i]
    BY <1>2, PollFacts DEF IsRetry
  <2> QED
    BY <1>1, <2>1 DEF OneRetry
<1>10. OnePoll(u)
  BY <1>6 DEF OnePoll, ToSet
<1>11. StatusOK(Poll(FALSE), b)
  <2>1. Poll(FALSE) \in Polls /\ Poll(FALSE).kind = "POLL"
    BY PollFacts
  <2> HIDE DEF Polls, Status
  <2> QED
    BY <2>1 DEF StatusOK
<1>12. LineOK(u, b)
  BY <1>1, <1>3, <1>5, <1>9, <1>10, <1>11 DEF LineOK
<1> QED
  BY <1>4, <1>6, <1>7, <1>8, <1>12 DEF u, Said

\* The line holds of a broker some time later.
LEMMA LineAges ==
  ASSUME NEW b, NEW later, Ages(b, later), NEW u, LineOK(u, b),
         \A a \in Said(u) : a[2] \in 1 .. Len(b)
  PROVE  LineOK(u, later)
<1>1. ASSUME NEW m \in ToSet(u)
      PROVE  StatusOK(m, later)
  <2>1. StatusOK(m, b)
    BY DEF LineOK
  <2>2. ASSUME m.kind \in {"CLOSED_BY_SIGNAL", "STOPPED"}
        PROVE  m.ticket \in 1 .. Len(b)
    <3>1. <<m.req, m.ticket>> \in Said(u)
      BY <2>2 DEF Said, Reports
    <3> QED
      BY <3>1
  <2> QED
    BY <2>1, <2>2, StatusAges
<1> QED
  BY <1>1 DEF LineOK

\* The replies to an answer.
LEMMA Replying ==
  ASSUME NEW cmds \in Seq(Command), Distinct(cmds), NEW said \in Seq(Status),
         DOMAIN said = DOMAIN cmds, NEW b, \A i \in DOMAIN cmds : Replies(said[i], cmds[i], b)
  PROVE  /\ LineOK(said, b) /\ Poll(TRUE) \notin ToSet(said)
         /\ Retrying(said) \subseteq ToSet(cmds)
         /\ \A m \in ToSet(said) : m.req \in ToSet(cmds) /\ Replies(m, m.req, b)
         /\ \A c \in ToSet(cmds) : \E m \in ToSet(said) : Replies(m, c, b)
         /\ \A m, k \in ToSet(said) : m.req = k.req => m = k
<1>1. \A i \in DOMAIN said : said[i].req = cmds[i] /\ said[i] \in Status /\ StatusOK(said[i], b)
  BY DEF Replies
<1>2. \A i, j \in DOMAIN said : said[i].req = said[j].req => i = j
  BY <1>1 DEF Distinct
<1>3. OneRetry(said)
  BY <1>2 DEF OneRetry
<1>4. Poll(TRUE) \notin ToSet(said)
  BY <1>1, PollFacts DEF ToSet
<1>5. OnePoll(said)
  BY <1>4 DEF OnePoll, ToSet
<1>6. LineOK(said, b)
  BY <1>1, <1>3, <1>5, StatusIsLine DEF LineOK, ToSet
<1>7. \A m \in ToSet(said) : m.req \in ToSet(cmds) /\ Replies(m, m.req, b)
  BY <1>1 DEF ToSet
<1>8. Retrying(said) \subseteq ToSet(cmds)
  BY <1>7 DEF Retrying
<1>9. \A c \in ToSet(cmds) : \E m \in ToSet(said) : Replies(m, c, b)
  BY DEF ToSet
<1>10. \A m, k \in ToSet(said) : m.req = k.req => m = k
  BY <1>2 DEF ToSet
<1> QED
  BY <1>4, <1>6, <1>7, <1>8, <1>9, <1>10

-----------------------------------------------------------------------------
(* LinkInv holds in the beginning, and every action keeps it.              *)

LEMMA IssuedGrows ==
  ASSUME NEW now \in Nat, NEW n \in Nat, NEW now2 \in Nat, NEW n2 \in Nat,
         now <= now2, n <= n2, NEW c, Issued(c, now, n)
  PROVE  Issued(c, now2, n2)
<1>1. 1 .. now \subseteq 1 .. now2 /\ 1 .. n \subseteq 1 .. n2
  OBVIOUS
<1> QED
  BY <1>1 DEF Issued

LEMMA ServerGrows ==
  ASSUME NEW now \in Nat, NEW n \in Nat, NEW now2 \in Nat, NEW n2 \in Nat,
         now <= now2, n <= n2, NEW s, ServerOK(s, now, n)
  PROVE  ServerOK(s, now2, n2)
<1>1. 1 .. n \subseteq 1 .. n2
  OBVIOUS
<1>2. \A c \in ToSet(s.pending) : Issued(c, now2, n2)
  BY IssuedGrows DEF ServerOK
<1>3. s.entries \in [Sides -> Nat] /\ \A side \in Sides : s.entries[side] <= now
  BY ServerFields DEF ServerOK
<1>4. \A side \in Sides : s.entries[side] <= now2
  BY <1>3
<1> QED
  BY <1>1, <1>2, <1>4 DEF ServerOK

\* All tickets anyone names are tickets of the broker.
LEMMA Tickets ==
  ASSUME LinkInv
  PROVE  /\ Len(broker) \in Nat /\ clock \in Nat
         /\ DOMAIN broker = 1 .. Len(broker)
         /\ \A a \in Claims : a[2] \in 1 .. Len(broker)
         /\ DOMAIN tracked \subseteq 1 .. Len(broker)
<1>1. broker \in Seq(Order) /\ clock \in Nat
  BY DEF LinkInv, LinkType
<1>2. \A a \in Claims : a[2] \in 1 .. Len(broker)
  BY DEF LinkInv, ClaimOK
<1>3. ASSUME NEW t \in DOMAIN tracked
      PROVE  t \in 1 .. Len(broker)
  <2>1. <<tracked[t].req, t>> \in Claims
    BY DEF Claims, Held
  <2> QED
    BY <1>2, <2>1
<1> QED
  BY <1>1, <1>2, <1>3

LEMMA AnsweredFacts ==
  /\ down = NoAnswer => Answered = {}
  /\ \A cmds : down = <<cmds>> => down # NoAnswer /\ Head(down) = cmds /\ Answered = ToSet(cmds)
  BY DEF Answered, NoAnswer

LEMMA InitKeeps == Init => LinkInv
<1> SUFFICES ASSUME Init
             PROVE  LinkInv
  OBVIOUS
<1>1. /\ clock = 0 /\ tracked = <<>> /\ waiting = FALSE /\ broker = <<>> /\ up = <<>>
      /\ down = NoAnswer /\ lost = {} /\ settled = {}
      /\ server.positions = <<>> /\ server.pending = <<>> /\ server.sent = {}
      /\ server.completed = {} /\ server.entries = [side \in Sides |-> 0]
  BY DEF Init
<1>2. Len(broker) = 0 /\ ToSet(up) = {} /\ DOMAIN up = {} /\ DOMAIN server.positions = {}
      /\ DOMAIN tracked = {} /\ ToSet(server.pending) = {} /\ Answered = {} /\ DOMAIN broker = {}
      /\ DOMAIN server.pending = {}
  BY <1>1, AnsweredFacts DEF ToSet
<1>3. <<>> \in Book /\ <<>> \in TrackBook /\ <<>> \in Seq(Order) /\ <<>> \in Lines
      /\ <<>> \in Seq(Command)
  <2> HIDE DEF Order, Command, Status, Polls, Position, Tracked
  <2>1. <<>> \in [{} -> Position] /\ <<>> \in [{} -> Tracked] /\ {} \in SUBSET Nat
    OBVIOUS
  <2>2. <<>> \in Book
    BY <2>1 DEF Book
  <2>3. <<>> \in TrackBook
    BY <2>1 DEF TrackBook
  <2>4. <<>> \in Seq(Status \union Polls) /\ <<>> \in Seq(Order) /\ <<>> \in Seq(Command)
    OBVIOUS
  <2> QED
    BY <2>2, <2>3, <2>4 DEF Lines
<1>4. server \in ServerState
  <2>1. [side \in Sides |-> 0] \in [Sides -> Nat]
        /\ [side \in Sides |-> [ticket |-> 0, sig |-> 0]] \in [Sides -> [ticket : Nat, sig : Nat]]
    OBVIOUS
  <2> HIDE DEF Book, Command
  <2> QED
    BY <1>3, <2>1 DEF Init, ServerState
<1>5. ServerOK(server, clock, Len(broker))
  BY <1>1, <1>2, <1>4 DEF ServerOK, Distinct
<1>6. LineOK(up, broker)
  BY <1>1, <1>2, <1>3 DEF LineOK, OneRetry, OnePoll
<1>7. Claims = {} /\ Retrying(up) = {}
  BY <1>2 DEF Claims, Said, Reports, Held, Retrying
<1>8. LinkType /\ Waits
  BY <1>1, <1>2, <1>3 DEF LinkType, Waits
<1>9. HandedOut
  BY <1>1, <1>2, <1>7 DEF HandedOut
<1>10. UnderWay(server, Answered \union lost, up) /\ HeardOf(broker, server, up)
  BY <1>1, <1>2 DEF UnderWay, HeardOf, Live
<1> QED
  BY <1>5, <1>6, <1>7, <1>8, <1>9, <1>10 DEF LinkInv, OneTicket

LEMMA CloseCandleKeeps ==
  ASSUME LinkInv, NEW side \in Sides, NEW entry \in BOOLEAN, NEW exit \in BOOLEAN,
         CloseCandle(side, entry, exit)
  PROVE  LinkInv'
<1> DEFINE n == Len(broker)
           now == clock + 1
           other == Opposite(side)
           exits == exit /\ Winners(server, other) # {}
           entered == IF entry THEN WithEntry(server, side) ELSE server
           left == IF exits THEN WithExit(entered, other) ELSE entered
           SameBut(r) == /\ r.positions = server.positions /\ r.sent = server.sent
                         /\ r.pending = server.pending /\ r.completed = server.completed
           HeldBack(r) == \A c \in Command :
                            Issued(c, clock, n) /\ Withheld(server, c) => Withheld(r, c)
<1>1. /\ clock' = clock + 1 /\ server' = WithZone(RefreshKnown(left))
      /\ UNCHANGED <<tracked, waiting, broker, up, down, lost, settled>>
  BY DEF CloseCandle
<1>2. n \in Nat /\ clock \in Nat /\ now \in Nat
  BY Tickets
<1>3. /\ server \in ServerState /\ ServerOK(server, clock, n) /\ ServerOK(server, now, n)
      /\ server.entries \in [Sides -> Nat] /\ server.positions \in Book
      /\ server.exits \in [Sides -> [ticket : Nat, sig : Nat]]
      /\ DOMAIN server.positions \subseteq 1 .. n
      /\ \A x \in Sides : server.entries[x] <= clock
  <2>1. ServerOK(server, clock, n)
    BY DEF LinkInv
  <2>2. ServerOK(server, now, n)
    BY <1>2, <2>1, ServerGrows
  <2> QED
    BY <2>1, <2>2, ServerFields DEF ServerOK
<1>4. /\ ServerOK(entered, now, n) /\ SameBut(entered) /\ HeldBack(entered)
      /\ entered.exits = server.exits /\ entered \in ServerState
  <2>1. CASE entry
    <3> DEFINE e == [server.entries EXCEPT ![side] = now]
               q == [server EXCEPT !.entries = e, !.zone = side]
    <3>1. entered = q
      <4> HIDE DEF Book, Command
      <4> QED
        BY <1>3, <2>1 DEF WithEntry, ServerState
    <3>2. e \in [Sides -> Nat] /\ e[side] = now /\ \A x \in Sides : x # side => e[x] = server.entries[x]
      BY <1>2, <1>3
    <3> HIDE DEF entered, e
    <3>3. /\ q \in ServerState /\ q.entries = e /\ SameBut(q) /\ q.exits = server.exits
      <4> HIDE DEF Book, Command
      <4> QED
        BY <1>3, <3>2 DEF ServerState
    <3> HIDE DEF q
    <3>4. ASSUME NEW x \in Sides
          PROVE  q.entries[x] <= now
      <4>1. server.entries[x] \in Nat /\ server.entries[x] <= clock
        BY <1>3
      <4>2. e[x] = now \/ e[x] = server.entries[x]
        BY <3>2
      <4>3. e[x] <= now
        BY <1>2, <4>1, <4>2
      <4> QED
        BY <3>3, <4>3
    <3>5. ServerOK(q, now, n)
      BY <1>3, <3>3, <3>4 DEF ServerOK
    <3>6. ASSUME NEW c \in Command, Issued(c, clock, n), Withheld(server, c)
          PROVE  Withheld(q, c)
      <4>1. CASE c.type = "OPEN" /\ c \notin ToSet(server.pending) /\ server.entries[c.side] # c.sig
        <5>1. c.sig \in 1 .. clock /\ c.side \in Sides
          BY <3>6, <4>1, CommandFields DEF Issued
        <5>2. now # c.sig
          BY <1>2, <5>1
        <5>3. q.entries[c.side] # c.sig
          BY <3>2, <3>3, <4>1, <5>1, <5>2
        <5> QED
          BY <3>3, <4>1, <5>3 DEF Withheld
      <4>2. CASE c \in server.sent \union server.completed
        BY <3>3, <4>2 DEF Withheld
      <4> QED
        BY <3>6, <4>1, <4>2 DEF Withheld
    <3> QED
      BY <3>1, <3>3, <3>5, <3>6
  <2>2. CASE ~entry
    BY <1>3, <2>2
  <2> QED
    BY <2>1, <2>2
<1> HIDE DEF entered
<1>5. ServerOK(left, now, n) /\ SameBut(left) /\ HeldBack(left)
  <2>1. CASE exits
    <3> DEFINE won == Winners(entered, other)
               mark == [ticket |-> Max(won), sig |-> now]
               x == [server.exits EXCEPT ![other] = mark]
               q == [entered EXCEPT !.exits = x]
    <3>1. won \in SUBSET (1 .. n) /\ won # {}
      BY <1>3, <1>4, <2>1 DEF Winners
    <3>2. Max(won) \in Nat
      <4>1. Max(won) \in won
        BY <1>2, <3>1, MaxIsOne
      <4> QED
        BY <3>1, <4>1
    <3>3. x \in [Sides -> [ticket : Nat, sig : Nat]]
      <4>1. mark \in [ticket : Nat, sig : Nat] /\ other \in Sides
        BY <1>2, <3>2, SidesFacts
      <4> HIDE DEF mark, other
      <4> QED
        BY <1>3, <4>1
    <3>4. left = q
      BY <1>4, <2>1 DEF WithExit
    <3> HIDE DEF left, x
    <3>5. q \in ServerState /\ q.entries = entered.entries /\ q.positions = entered.positions
          /\ q.pending = entered.pending /\ q.sent = entered.sent /\ q.completed = entered.completed
      <4> HIDE DEF Book, Command
      <4> QED
        BY <1>4, <3>3 DEF ServerState
    <3> HIDE DEF q
    <3>6. ServerOK(q, now, n) /\ SameBut(q)
      BY <1>4, <3>5 DEF ServerOK
    <3>7. HeldBack(q)
      BY <1>4, <3>5 DEF Withheld
    <3> QED
      BY <3>4, <3>6, <3>7
  <2>2. CASE ~exits
    BY <1>4, <2>2
  <2> QED
    BY <2>1, <2>2
<1> HIDE DEF left
<1> DEFINE known == RefreshKnown(left)
<1>6. /\ ServerOK(known, now, n) /\ Quieter(left, known, now, n)
      /\ known.positions = left.positions /\ known.sent = left.sent
  BY <1>2, <1>5, RefreshKnownFacts
<1> HIDE DEF known
<1>7. server' = WithZone(known)
  BY <1>1 DEF known
<1>8. /\ ServerOK(server', now, n) /\ Quieter(known, server', now, n)
      /\ server'.positions = known.positions /\ server'.sent = known.sent
  BY <1>2, <1>6, <1>7, WithZoneFacts
<1>9. server'.positions = server.positions /\ server'.sent = server.sent
  BY <1>5, <1>6, <1>8
<1>10. ASSUME NEW c \in Command, Issued(c, clock, n), Withheld(server, c)
       PROVE  Issued(c, now, n) /\ Withheld(server', c)
  <2>1. Issued(c, now, n)
    BY <1>2, <1>10, IssuedGrows
  <2> QED
    BY <1>5, <1>6, <1>8, <1>10, <2>1 DEF Quieter
<1>11. Answered' = Answered /\ Claims' = Claims
  BY <1>1, <1>9 DEF Answered, Claims
<1>12. HandedOut'
  BY <1>1, <1>10, <1>11 DEF LinkInv, HandedOut
<1>13. LinkType' /\ Waits'
  BY <1>1, <1>2 DEF LinkInv, LinkType, Waits
<1>14. UnderWay(server', Answered' \union lost', up') /\ HeardOf(broker', server', up')
  BY <1>1, <1>9, <1>11 DEF LinkInv, UnderWay, HeardOf
<1>15. LineOK(up', broker') /\ OneTicket(Claims')
       /\ \A a \in Claims' : ClaimOK(a, Len(broker'), settled')
  BY <1>1, <1>11 DEF LinkInv
<1>16. ServerOK(server', clock', Len(broker'))
  BY <1>1, <1>8
<1> QED
  BY <1>12, <1>13, <1>14, <1>15, <1>16 DEF LinkInv

LEMMA AnswerPollKeeps ==
  ASSUME LinkInv, AnswerPoll
  PROVE  LinkInv'
<1> DEFINE n == Len(broker)
           q == [server EXCEPT !.known = TRUE]
           ready == IF server.known THEN server ELSE Refresh(q)
           commands == Without(ready.pending, ready.sent)
           poll == Head(up)
           r == [ready EXCEPT !.sent = @ \union ToSet(commands)]
<1>1. /\ up # <<>> /\ poll.kind = "POLL" /\ up' = Tail(up) /\ server' = r
      /\ IF poll.live THEN down' = <<commands>> /\ lost' = lost
         ELSE down' = down /\ lost' = lost \union ToSet(commands)
      /\ UNCHANGED <<clock, tracked, waiting, broker, settled>>
  BY DEF AnswerPoll
<1>2. /\ n \in Nat /\ clock \in Nat /\ ServerOK(server, clock, n) /\ server \in ServerState
      /\ LineOK(up, broker) /\ Waits /\ HandedOut
      /\ UnderWay(server, Answered \union lost, up) /\ HeardOf(broker, server, up)
  BY Tickets DEF LinkInv, ServerOK
<1>3. /\ LineOK(Tail(up), broker) /\ ToSet(up) = ToSet(Tail(up)) \union {poll}
      /\ poll = Poll(TRUE) => Poll(TRUE) \notin ToSet(Tail(up))
  BY <1>1, <1>2, TailLine
<1>4. ServerOK(q, clock, n) /\ Quieter(server, q, clock, n) /\ q.positions = server.positions
      /\ q.sent = server.sent
  <2>1. /\ q \in ServerState
        /\ q.entries = server.entries /\ q.positions = server.positions
        /\ q.pending = server.pending /\ q.sent = server.sent /\ q.completed = server.completed
    <3> HIDE DEF Book, Command
    <3> QED
      BY <1>2 DEF ServerState
  <2> HIDE DEF q
  <2> QED
    BY <1>2, <2>1 DEF ServerOK, Quieter, Withheld
<1> HIDE DEF q
<1>5. /\ ServerOK(ready, clock, n) /\ Quieter(server, ready, clock, n)
      /\ ready.positions = server.positions /\ ready.sent = server.sent
  <2>1. CASE server.known
    BY <1>2, <2>1 DEF Quieter
  <2>2. CASE ~server.known
    <3>1. /\ ServerOK(Refresh(q), clock, n) /\ Quieter(q, Refresh(q), clock, n)
          /\ Refresh(q).positions = q.positions /\ Refresh(q).sent = q.sent
      BY <1>2, <1>4, RefreshFacts
    <3>2. Quieter(server, Refresh(q), clock, n)
      BY <1>4, <3>1, QuieterChain
    <3> QED
      BY <1>4, <2>2, <3>1, <3>2
  <2> QED
    BY <2>1, <2>2
<1> HIDE DEF ready
<1>6. /\ ready \in ServerState /\ ready.pending \in Seq(Command) /\ ready.sent \in SUBSET Command
      /\ Distinct(ready.pending) /\ ready.sent \subseteq ToSet(ready.pending)
      /\ ready.completed \intersect ToSet(ready.pending) = {}
      /\ \A c \in ToSet(ready.pending) : Issued(c, clock, n)
  BY <1>5, ServerFields DEF ServerOK
<1>7. /\ commands \in Seq(Command) /\ Distinct(commands)
      /\ ToSet(commands) = ToSet(ready.pending) \ ready.sent
  BY <1>6, WithoutFacts
<1> HIDE DEF commands
<1>8. ToSet(commands) \subseteq Command
  BY <1>7, ToSetType
<1>9. /\ r \in ServerState
      /\ r.entries = ready.entries /\ r.positions = ready.positions /\ r.pending = ready.pending
      /\ r.sent = ready.sent \union ToSet(commands) /\ r.completed = ready.completed
  <2>1. ready.sent \union ToSet(commands) \in SUBSET Command
    BY <1>6, <1>8
  <2> HIDE DEF Book, Command
  <2> QED
    BY <1>6, <2>1 DEF ServerState
<1> HIDE DEF r
<1>10. ServerOK(r, clock, n)
  BY <1>5, <1>6, <1>7, <1>9 DEF ServerOK
<1>11. \A c : Withheld(ready, c) => Withheld(r, c)
  BY <1>9 DEF Withheld
<1>12. ASSUME NEW c \in settled \union Answered \union Retrying(up)
       PROVE  /\ c \in Command /\ Issued(c, clock, n) /\ Withheld(r, c)
              /\ c \notin ToSet(commands)
  <2>1. c \in Command /\ Issued(c, clock, n) /\ Withheld(server, c)
    BY <1>2 DEF HandedOut
  <2>2. Withheld(ready, c)
    BY <1>5, <2>1 DEF Quieter
  <2>3. c \notin ToSet(commands)
    BY <1>6, <1>7, <2>2 DEF Withheld
  <2> QED
    BY <1>11, <2>1, <2>2, <2>3
<1>13. ASSUME NEW c \in ToSet(commands)
       PROVE  c \in Command /\ Issued(c, clock, n) /\ Withheld(r, c)
  BY <1>6, <1>7, <1>8, <1>9 DEF Withheld
<1>14. Said(Tail(up)) \subseteq Said(up) /\ Retrying(Tail(up)) \subseteq Retrying(up)
  BY <1>3 DEF Said, Reports, Retrying
<1>15. Claims' \subseteq Claims
  BY <1>1, <1>5, <1>9, <1>14 DEF Claims
<1>16. poll.live => poll = Poll(TRUE) /\ waiting /\ down = NoAnswer
  <2>1. ASSUME poll.live
        PROVE  poll = Poll(TRUE)
    <3>1. StatusOK(poll, broker)
      BY <1>2, <1>3 DEF LineOK
    <3>2. poll \in Polls
      BY <1>1, <3>1 DEF StatusOK
    <3> HIDE DEF poll
    <3> QED
      BY <2>1, <3>2 DEF Polls, Poll
  <2>2. poll \in ToSet(up)
    BY <1>3
  <2> HIDE DEF poll
  <2> QED
    BY <1>2, <2>1, <2>2 DEF Waits
<1>17. /\ Answered' \subseteq Answered \union ToSet(commands) /\ (poll.live \/ Answered' = Answered)
       /\ Answered \subseteq Answered'
       /\ Answered \union lost \union ToSet(commands) \subseteq Answered' \union lost'
  <2>1. CASE poll.live
    <3>1. Answered' = ToSet(commands) /\ Answered = {}
      <4>1. down' = <<commands>> /\ down = NoAnswer
        BY <1>1, <1>16, <2>1
      <4> QED
        BY <4>1 DEF Answered, NoAnswer
    <3> QED
      BY <1>1, <2>1, <3>1
  <2>2. CASE ~poll.live
    <3>1. Answered' = Answered
      BY <1>1, <2>2 DEF Answered
    <3> QED
      BY <1>1, <2>2, <3>1
  <2> QED
    BY <2>1, <2>2
<1> HIDE DEF poll
<1>18. Waits'
  <2>1. CASE poll.live
    <3>1. poll = Poll(TRUE) /\ waiting /\ down' = <<commands>>
      BY <1>1, <1>16, <2>1
    <3>2. Poll(TRUE) \notin ToSet(up')
      BY <1>1, <1>3, <3>1
    <3> QED
      BY <1>1, <1>7, <3>1, <3>2 DEF Waits
  <2>2. CASE ~poll.live
    <3>1. down' = down /\ waiting' = waiting /\ ToSet(up') \subseteq ToSet(up)
      BY <1>1, <1>3, <2>2
    <3> QED
      BY <1>2, <3>1 DEF Waits
  <2> QED
    BY <2>1, <2>2
<1>19. HandedOut'
  <2>1. \A c \in settled' \union Answered' \union Retrying(up') :
          c \in Command /\ Issued(c, clock', Len(broker')) /\ Withheld(server', c)
    BY <1>1, <1>12, <1>13, <1>14, <1>17
  <2>2. settled' \intersect Answered' = {}
    BY <1>1, <1>2, <1>12, <1>17 DEF HandedOut
  <2>3. Retrying(up') \intersect (settled' \union Answered') = {}
    BY <1>1, <1>2, <1>12, <1>14, <1>17 DEF HandedOut
  <2> QED
    BY <2>1, <2>2, <2>3 DEF HandedOut
<1>20. LinkType'
  BY <1>1 DEF LinkInv, LinkType
<1>21. UnderWay(server', Answered' \union lost', up')
  <2>1. ASSUME NEW c \in r.sent, c \notin Answered' \union lost'
        PROVE  \E m \in ToSet(up') : Answers(m, c)
    <3>1. c \in server.sent /\ c \notin Answered \union lost
      BY <1>5, <1>9, <1>17, <2>1
    <3>2. PICK m \in ToSet(up) : Answers(m, c)
      BY <1>2, <3>1 DEF UnderWay
    <3>3. m # poll
      BY <1>1, <3>2 DEF Answers
    <3> QED
      BY <1>1, <1>3, <3>2, <3>3
  <2> QED
    BY <1>1, <2>1 DEF UnderWay
<1>22. HeardOf(broker', server', up')
  <2>1. ASSUME NEW t \in Live(broker), t \notin DOMAIN server.positions
        PROVE  \E m \in ToSet(up') : m.kind \in {"OPENED", "STILL_OPEN"} /\ m.ticket = t
    <3>1. PICK m \in ToSet(up) : m.kind \in {"OPENED", "STILL_OPEN"} /\ m.ticket = t
      BY <1>2, <2>1 DEF HeardOf
    <3>2. m # poll
      BY <1>1, <3>1
    <3> QED
      BY <1>1, <1>3, <3>1, <3>2
  <2>2. DOMAIN server'.positions = DOMAIN server.positions
    BY <1>1, <1>5, <1>9
  <2> QED
    BY <1>1, <2>1, <2>2 DEF HeardOf
<1>23. LineOK(up', broker') /\ OneTicket(Claims')
       /\ \A a \in Claims' : ClaimOK(a, Len(broker'), settled')
  BY <1>1, <1>3, <1>15 DEF LinkInv, OneTicket
<1>24. ServerOK(server', clock', Len(broker'))
  BY <1>1, <1>10
<1> QED
  BY <1>18, <1>19, <1>20, <1>21, <1>22, <1>23, <1>24 DEF LinkInv

LEMMA TakeStatusKeeps ==
  ASSUME LinkInv, TakeStatus
  PROVE  LinkInv'
<1> DEFINE n == Len(broker)
           m == Head(up)
<1>1. /\ up # <<>> /\ m.kind # "POLL" /\ up' = Tail(up) /\ server' = Hear(server, m, clock)
      /\ UNCHANGED <<clock, tracked, waiting, broker, down, lost, settled>>
  BY DEF TakeStatus
<1>2. /\ n \in Nat /\ clock \in Nat /\ ServerOK(server, clock, n)
      /\ LineOK(up, broker) /\ Waits /\ HandedOut
      /\ UnderWay(server, Answered \union lost, up) /\ HeardOf(broker, server, up)
      /\ OneTicket(Claims) /\ \A a \in Claims : a[2] \in 1 .. n
  BY Tickets DEF LinkInv
<1>3. /\ LineOK(Tail(up), broker) /\ ToSet(up) = ToSet(Tail(up)) \union {m}
      /\ IsRetry(m) => m.req \notin Retrying(Tail(up))
  BY <1>1, <1>2, TailLine
<1> HIDE DEF m
<1>4. StatusOK(m, broker) /\ m \in Status
  BY <1>1, <1>2, <1>3 DEF LineOK, StatusOK
<1>5. m.kind # "REJECTED" => <<m.req, m.ticket>> \in Said(up)
  BY <1>1, <1>3 DEF Said, Reports
<1>6. ASSUME m.kind # "REJECTED"
      PROVE  m.ticket \in 1 .. n /\ Named(server, m) \subseteq {m.ticket}
  <2>1. <<m.req, m.ticket>> \in Claims
    BY <1>5, <1>6 DEF Claims
  <2>2. m.ticket \in 1 .. n
    BY <1>2, <2>1
  <2>3. ASSUME NEW t \in DOMAIN server.positions, server.positions[t].req = m.req
        PROVE  t = m.ticket
    <3>1. <<m.req, t>> \in Claims
      BY <2>3 DEF Claims, Held
    <3> QED
      BY <1>2, <2>1, <3>1 DEF OneTicket
  <2> QED
    BY <2>2, <2>3 DEF Named
<1>7. HearsWell(server, server', m, clock, n)
  BY <1>1, <1>2, <1>4, <1>6, Heard
<1>8. Said(Tail(up)) \subseteq Said(up) /\ Retrying(Tail(up)) \subseteq Retrying(up)
  BY <1>3 DEF Said, Reports, Retrying
<1>9. Claims' \subseteq Claims
  <2>1. Held(server'.positions) \subseteq Held(server.positions) \union Said(up)
    BY <1>5, <1>7 DEF HearsWell
  <2> QED
    BY <1>1, <1>8, <2>1 DEF Claims
<1>10. Answered' = Answered
  BY <1>1 DEF Answered
<1>11. HandedOut'
  <2>1. ASSUME NEW c \in settled \union Answered \union Retrying(Tail(up))
        PROVE  c \in Command /\ Issued(c, clock, n) /\ Withheld(server', c)
    <3>1. c \in Command /\ Issued(c, clock, n) /\ Withheld(server, c)
      BY <1>2, <1>8, <2>1 DEF HandedOut
    <3>2. ~(m.reason = "RETRYABLE" /\ c = m.req)
      <4>1. SUFFICES ASSUME m.reason = "RETRYABLE", c = m.req
                     PROVE  FALSE
        OBVIOUS
      <4>2. IsRetry(m) /\ c \in Retrying(up)
        BY <1>1, <1>3, <4>1 DEF IsRetry, Retrying
      <4> QED
        BY <1>2, <1>3, <2>1, <4>1, <4>2 DEF HandedOut
    <3> QED
      BY <1>7, <3>1, <3>2 DEF HearsWell
  <2> QED
    BY <1>1, <1>2, <1>8, <1>10, <2>1 DEF HandedOut
<1>12. UnderWay(server', Answered' \union lost', up')
  <2>1. ASSUME NEW c \in server'.sent, c \notin Answered \union lost
        PROVE  \E k \in ToSet(up') : Answers(k, c)
    <3>1. c \in server.sent
      BY <1>7, <2>1 DEF HearsWell
    <3>2. PICK k \in ToSet(up) : Answers(k, c)
      BY <1>2, <2>1, <3>1 DEF UnderWay
    <3>3. k # m
      BY <1>7, <2>1, <3>2 DEF HearsWell
    <3> QED
      BY <1>1, <1>3, <3>2, <3>3
  <2> QED
    BY <1>1, <1>10, <2>1 DEF UnderWay
<1>13. HeardOf(broker', server', up')
  <2>1. ASSUME NEW t \in Live(broker), t \notin DOMAIN server'.positions
        PROVE  \E k \in ToSet(up') : k.kind \in {"OPENED", "STILL_OPEN"} /\ k.ticket = t
    <3>1. CASE t \in DOMAIN server.positions
      <4>1. t = m.ticket /\ m.kind \in {"CLOSED_BY_SIGNAL", "STOPPED"}
        BY <1>7, <2>1, <3>1 DEF HearsWell
      <4> QED
        BY <1>4, <2>1, <4>1 DEF StatusOK, Live
    <3>2. CASE t \notin DOMAIN server.positions
      <4>1. PICK k \in ToSet(up) : k.kind \in {"OPENED", "STILL_OPEN"} /\ k.ticket = t
        BY <1>2, <3>2 DEF HeardOf
      <4>2. k # m
        BY <1>7, <2>1, <4>1 DEF HearsWell
      <4> QED
        BY <1>1, <1>3, <4>1, <4>2
    <3> QED
      BY <3>1, <3>2
  <2> QED
    BY <1>1, <2>1 DEF HeardOf
<1>14. LinkType' /\ Waits'
  BY <1>1, <1>3 DEF LinkInv, LinkType, Waits
<1>15. LineOK(up', broker') /\ OneTicket(Claims')
       /\ \A a \in Claims' : ClaimOK(a, Len(broker'), settled')
  BY <1>1, <1>3, <1>9 DEF LinkInv, OneTicket
<1>16. ServerOK(server', clock', Len(broker'))
  BY <1>1, <1>7 DEF HearsWell
<1> QED
  BY <1>11, <1>12, <1>13, <1>14, <1>15, <1>16 DEF LinkInv

\* A turn ends: what was stopped is reported and no longer tracked.
LEMMA TurnEnds ==
  ASSUME NEW book \in TrackBook, NEW b \in Seq(Order), DOMAIN book \subseteq 1 .. Len(b),
         NEW sending, LineOK(sending, b), EndTurn(book, b, sending)
  PROVE  /\ tracked' \in TrackBook /\ Held(tracked') \subseteq Held(book)
         /\ LineOK(up', b) /\ Said(up') \subseteq Said(sending) \union Held(book)
         /\ Retrying(up') = Retrying(sending) /\ ToSet(sending) \subseteq ToSet(up')
         /\ Poll(TRUE) \in ToSet(up') => Poll(TRUE) \in ToSet(sending)
<1> DEFINE news == StopReports(book, b)
           kept == DOMAIN book \ Stopped(book, b)
<1>1. up' = sending \o news /\ tracked' = Restrict(book, kept)
  BY DEF EndTurn
<1>2. Known(news, book, b)
  BY StopReportsFacts
<1> HIDE DEF news
<1>3. tracked' \in TrackBook /\ Held(tracked') \subseteq Held(book)
  <2>1. kept \subseteq DOMAIN book
    OBVIOUS
  <2> HIDE DEF kept
  <2> QED
    BY <1>1, <2>1, TrackRestrict
<1> DEFINE all == sending \o news
<1>4. /\ LineOK(all, b) /\ Said(all) \subseteq Said(sending) \union Held(book)
      /\ Retrying(all) = Retrying(sending) /\ ToSet(sending) \subseteq ToSet(all)
      /\ Poll(TRUE) \in ToSet(all) => Poll(TRUE) \in ToSet(sending)
  <2>1. LineOK(all, b)
    BY <1>2, Reporting
  <2>2. Said(all) \subseteq Said(sending) \union Held(book)
    BY <1>2, Reporting
  <2>3. Retrying(all) = Retrying(sending)
    BY <1>2, Reporting
  <2>4. ToSet(sending) \subseteq ToSet(all)
    BY <1>2, Reporting
  <2>5. Poll(TRUE) \in ToSet(all) => Poll(TRUE) \in ToSet(sending)
    BY <1>2, Reporting
  <2> QED
    BY <2>1, <2>2, <2>3, <2>4, <2>5
<1>5. up' = all
  BY <1>1
<1> HIDE DEF all
<1> QED
  BY <1>3, <1>4, <1>5

\* What does not touch the server keeps the invariant, if no ticket and no
\* report is made up, no status gets lost, and no position is opened.
LEMMA Quiet ==
  ASSUME LinkInv, UNCHANGED <<clock, server, settled>>,
         broker' \in Seq(Order), Len(broker') = Len(broker), Live(broker') \subseteq Live(broker),
         tracked' \in TrackBook, Held(tracked') \subseteq Held(tracked),
         waiting' \in BOOLEAN, Waits', LineOK(up', broker'),
         Said(up') \subseteq Claims, Retrying(up') \subseteq Retrying(up),
         Answered' \subseteq Answered, Answered \union lost \subseteq Answered' \union lost',
         \A m \in ToSet(up) : m.kind # "POLL" => m \in ToSet(up')
  PROVE  LinkInv'
<1>1. Claims' \subseteq Claims
  BY DEF Claims
<1>2. OneTicket(Claims') /\ \A a \in Claims' : ClaimOK(a, Len(broker'), settled')
  BY <1>1 DEF LinkInv, OneTicket
<1>3. HandedOut'
  BY DEF LinkInv, HandedOut
<1>4. UnderWay(server', Answered' \union lost', up')
  <2>1. ASSUME NEW c \in server.sent, c \notin Answered' \union lost'
        PROVE  \E m \in ToSet(up') : Answers(m, c)
    <3>1. PICK m \in ToSet(up) : Answers(m, c)
      BY <2>1 DEF LinkInv, UnderWay
    <3> QED
      BY <3>1 DEF Answers
  <2> QED
    BY <2>1 DEF UnderWay
<1>5. HeardOf(broker', server', up')
  <2>1. ASSUME NEW t \in Live(broker), t \notin DOMAIN server.positions
        PROVE  \E m \in ToSet(up') : m.kind \in {"OPENED", "STILL_OPEN"} /\ m.ticket = t
    <3>1. PICK m \in ToSet(up) : m.kind \in {"OPENED", "STILL_OPEN"} /\ m.ticket = t
      BY <2>1 DEF LinkInv, HeardOf
    <3> QED
      BY <3>1
  <2> QED
    BY <2>1 DEF HeardOf
<1>6. LinkType' /\ ServerOK(server', clock', Len(broker'))
  BY DEF LinkInv, LinkType
<1> QED
  BY <1>2, <1>3, <1>4, <1>5, <1>6 DEF LinkInv

LEMMA SendPollKeeps ==
  ASSUME LinkInv, NEW gain \in BOOLEAN, SendPoll(gain)
  PROVE  LinkInv'
<1> DEFINE news == OpenReports(gain)
           told == up \o news
           one == <<Poll(TRUE)>>
           sending == told \o one
<1>1. /\ ~waiting /\ EndTurn(tracked, broker, sending) /\ waiting' = TRUE
      /\ UNCHANGED <<clock, server, broker, down, lost, settled>>
  BY DEF SendPoll
<1>2. /\ broker \in Seq(Order) /\ tracked \in TrackBook /\ LineOK(up, broker)
      /\ DOMAIN tracked \subseteq 1 .. Len(broker)
  BY Tickets DEF LinkInv, LinkType
<1>3. Known(news, tracked, broker)
  BY <1>2, OpenReportsFacts
<1> HIDE DEF news
<1>4. /\ LineOK(told, broker) /\ Said(told) \subseteq Said(up) \union Held(tracked)
      /\ Retrying(told) = Retrying(up) /\ ToSet(up) \subseteq ToSet(told)
      /\ (Poll(TRUE) \in ToSet(told) => Poll(TRUE) \in ToSet(up))
  <2>1. ToSet(up) \subseteq ToSet(told)
    BY <1>2, <1>3, Reporting
  <2>2. /\ LineOK(told, broker) /\ Said(told) \subseteq Said(up) \union Held(tracked)
        /\ Retrying(told) = Retrying(up)
        /\ (Poll(TRUE) \in ToSet(told) => Poll(TRUE) \in ToSet(up))
    BY <1>2, <1>3, Reporting
  <2> HIDE DEF told
  <2> QED
    BY <2>1, <2>2
<1> HIDE DEF told
<1>5. down = NoAnswer /\ Poll(TRUE) \notin ToSet(up)
  BY <1>1 DEF LinkInv, Waits
<1>6. /\ one \in Seq(Polls) /\ ToSet(one) = {Poll(TRUE)} /\ OnePoll(one)
      /\ OneRetry(one) /\ Said(one) = {} /\ Retrying(one) = {}
  <2>1. /\ one \in Seq(Polls) /\ DOMAIN one = {1} /\ one[1] = Poll(TRUE)
        /\ Poll(TRUE).kind = "POLL"
    <3>1. Poll(TRUE) \in Polls /\ Poll(TRUE).kind = "POLL"
      BY PollFacts
    <3> DEFINE ask == Poll(TRUE)
    <3>2. ask \in Polls
      BY <3>1
    <3> HIDE DEF ask, Polls
    <3>3. <<ask>> \in Seq(Polls) /\ DOMAIN <<ask>> = {1} /\ <<ask>>[1] = ask
      BY <3>2
    <3> QED
      BY <3>1, <3>3 DEF ask
  <2> HIDE DEF one
  <2>2. ToSet(one) = {Poll(TRUE)}
    BY <2>1 DEF ToSet
  <2> QED
    BY <2>1, <2>2 DEF OnePoll, OneRetry, Said, Reports, Retrying, IsRetry
<1> HIDE DEF one
<1> DEFINE S == Status \union Polls
<1>7. told \in Seq(S) /\ one \in Seq(S) /\ Seq(S) = Lines
  <2>1. \A i \in 1 .. Len(one) : one[i] \in Polls
    BY <1>6
  <2> HIDE DEF Status, Polls
  <2> QED
    BY <1>4, <1>6, <2>1 DEF LineOK, Lines
<1> HIDE DEF S
<1>8. /\ Said(sending) = Said(told) \union Said(one)
      /\ Retrying(sending) = Retrying(told) \union Retrying(one)
  BY <1>7, SaidConcat
<1>9. OneRetry(sending) /\ OnePoll(sending)
  <2>1. OneRetry(sending)
    BY <1>4, <1>6, <1>7, OneRetryConcat DEF LineOK
  <2>2. OnePoll(sending)
    BY <1>4, <1>5, <1>6, <1>7, OnePollConcat DEF LineOK
  <2> QED
    BY <2>1, <2>2
<1>10. ToSet(sending) = ToSet(told) \union ToSet(one) /\ sending \in Lines
  <2>1. ToSet(told \o one) = ToSet(told) \union ToSet(one)
    BY <1>7, ToSetConcat
  <2>2. told \o one \in Seq(S)
    BY <1>7, ConcatParts
  <2> QED
    BY <1>7, <2>1, <2>2
<1>11. LineOK(sending, broker)
  <2>1. StatusOK(Poll(TRUE), broker)
    BY PollFacts DEF StatusOK
  <2> QED
    BY <1>4, <1>6, <1>9, <1>10, <2>1 DEF LineOK
<1> HIDE DEF sending
<1>12. /\ tracked' \in TrackBook /\ Held(tracked') \subseteq Held(tracked)
       /\ LineOK(up', broker) /\ Said(up') \subseteq Said(sending) \union Held(tracked)
       /\ Retrying(up') = Retrying(sending) /\ ToSet(sending) \subseteq ToSet(up')
  BY <1>1, <1>2, <1>11, TurnEnds
<1>13. Waits' /\ Answered' = Answered /\ waiting' \in BOOLEAN
  BY <1>1, <1>5 DEF Waits, Answered
<1>14. Said(up') \subseteq Claims /\ Retrying(up') = Retrying(up) /\ ToSet(up) \subseteq ToSet(up')
  BY <1>4, <1>6, <1>8, <1>10, <1>12 DEF Claims
<1>15. broker' \in Seq(Order) /\ Len(broker') = Len(broker) /\ Live(broker') = Live(broker)
       /\ LineOK(up', broker')
  BY <1>1, <1>2, <1>12
<1> QED
  BY <1>1, <1>12, <1>13, <1>14, <1>15, Quiet

LEMMA TurnWithoutAnswerKeeps ==
  ASSUME LinkInv, TurnWithoutAnswer
  PROVE  LinkInv'
<1>1. /\ EndTurn(tracked, broker, up)
      /\ UNCHANGED <<clock, server, waiting, broker, down, lost, settled>>
  BY DEF TurnWithoutAnswer
<1>2. /\ broker \in Seq(Order) /\ tracked \in TrackBook /\ LineOK(up, broker) /\ Waits
      /\ DOMAIN tracked \subseteq 1 .. Len(broker) /\ waiting \in BOOLEAN
  BY Tickets DEF LinkInv, LinkType
<1>3. /\ tracked' \in TrackBook /\ Held(tracked') \subseteq Held(tracked)
      /\ LineOK(up', broker) /\ Said(up') \subseteq Said(up) \union Held(tracked)
      /\ Retrying(up') = Retrying(up) /\ ToSet(up) \subseteq ToSet(up')
      /\ Poll(TRUE) \in ToSet(up') => Poll(TRUE) \in ToSet(up)
  BY <1>1, <1>2, TurnEnds
<1>4. Waits' /\ Answered' = Answered
  BY <1>1, <1>2, <1>3 DEF Waits, Answered
<1>5. Said(up') \subseteq Claims
  BY <1>3 DEF Claims
<1>6. broker' \in Seq(Order) /\ Len(broker') = Len(broker) /\ Live(broker') = Live(broker)
      /\ LineOK(up', broker') /\ waiting' \in BOOLEAN
  BY <1>1, <1>2, <1>3
<1> QED
  BY <1>1, <1>3, <1>4, <1>5, <1>6, Quiet

LEMMA GiveUpKeeps ==
  ASSUME LinkInv, GiveUp
  PROVE  LinkInv'
<1>1. /\ EndTurn(tracked, broker, StalePolls) /\ waiting' = FALSE /\ down' = NoAnswer
      /\ lost' = lost \union Answered /\ UNCHANGED <<clock, server, broker, settled>>
  BY DEF GiveUp
<1>2. /\ broker \in Seq(Order) /\ tracked \in TrackBook /\ LineOK(up, broker)
      /\ DOMAIN tracked \subseteq 1 .. Len(broker)
  BY Tickets DEF LinkInv, LinkType
<1>3. /\ LineOK(StalePolls, broker) /\ Poll(TRUE) \notin ToSet(StalePolls)
      /\ Said(StalePolls) = Said(up) /\ Retrying(StalePolls) = Retrying(up)
      /\ \A m \in ToSet(up) : m.kind # "POLL" => m \in ToSet(StalePolls)
  BY <1>2, StaleLine
<1> DEFINE stale == StalePolls
<1> HIDE DEF stale
<1>4. /\ tracked' \in TrackBook /\ Held(tracked') \subseteq Held(tracked)
      /\ LineOK(up', broker) /\ Said(up') \subseteq Said(stale) \union Held(tracked)
      /\ Retrying(up') = Retrying(stale) /\ ToSet(stale) \subseteq ToSet(up')
      /\ Poll(TRUE) \in ToSet(up') => Poll(TRUE) \in ToSet(stale)
  <2>1. LineOK(stale, broker) /\ EndTurn(tracked, broker, stale)
    BY <1>1, <1>3 DEF stale
  <2> QED
    BY <1>2, <2>1, TurnEnds
<1>5. Waits' /\ Answered' = {} /\ waiting' \in BOOLEAN
  <2>1. Poll(TRUE) \notin ToSet(up')
    BY <1>3, <1>4 DEF stale
  <2> QED
    BY <1>1, <2>1 DEF Waits, Answered
<1>6. /\ Said(up') \subseteq Claims /\ Retrying(up') = Retrying(up)
      /\ \A m \in ToSet(up) : m.kind # "POLL" => m \in ToSet(up')
  BY <1>3, <1>4 DEF Claims, stale
<1>7. broker' \in Seq(Order) /\ Len(broker') = Len(broker) /\ Live(broker') = Live(broker)
      /\ LineOK(up', broker')
  BY <1>1, <1>2, <1>4
<1> QED
  BY <1>1, <1>4, <1>5, <1>6, <1>7, Quiet

LEMMA RestartKeeps ==
  ASSUME LinkInv, Restart
  PROVE  LinkInv'
<1>1. /\ tracked' = <<>> /\ waiting' = FALSE /\ up' = StalePolls /\ down' = NoAnswer
      /\ lost' = lost \union Answered /\ UNCHANGED <<clock, server, broker, settled>>
  BY DEF Restart
<1>2. broker \in Seq(Order) /\ LineOK(up, broker)
  BY DEF LinkInv, LinkType
<1>3. /\ LineOK(StalePolls, broker) /\ Poll(TRUE) \notin ToSet(StalePolls)
      /\ Said(StalePolls) = Said(up) /\ Retrying(StalePolls) = Retrying(up)
      /\ \A m \in ToSet(up) : m.kind # "POLL" => m \in ToSet(StalePolls)
  BY <1>2, StaleLine
<1>4. tracked' \in TrackBook /\ Held(tracked') = {}
  <2>1. <<>> \in [{} -> Tracked] /\ {} \in SUBSET Nat /\ DOMAIN <<>> = {}
    OBVIOUS
  <2> QED
    BY <1>1, <2>1 DEF TrackBook, Held
<1>5. Waits' /\ Answered' = {} /\ waiting' \in BOOLEAN
  BY <1>1, <1>3 DEF Waits, Answered
<1>6. /\ LineOK(up', broker') /\ Said(up') \subseteq Claims /\ Retrying(up') = Retrying(up)
      /\ \A m \in ToSet(up) : m.kind # "POLL" => m \in ToSet(up')
  BY <1>1, <1>3 DEF Claims
<1>7. broker' \in Seq(Order) /\ Len(broker') = Len(broker) /\ Live(broker') = Live(broker)
  BY <1>1, <1>2
<1> QED
  BY <1>1, <1>4, <1>5, <1>6, <1>7, Quiet

\* A position is closed by its stop or by hand.
LEMMA ClosedKeeps ==
  ASSUME LinkInv, NEW t \in Live(broker), NEW fate \in {"STOP", "HAND"},
         broker' = [broker EXCEPT ![t].fate = fate],
         UNCHANGED <<clock, server, tracked, waiting, up, down, lost, settled>>
  PROVE  LinkInv'
<1>1. /\ broker \in Seq(Order) /\ LineOK(up, broker) /\ Waits /\ tracked \in TrackBook
      /\ waiting \in BOOLEAN /\ Len(broker) \in Nat /\ DOMAIN broker = 1 .. Len(broker)
      /\ \A a \in Claims : a[2] \in 1 .. Len(broker)
  BY Tickets DEF LinkInv, LinkType
<1>2. t \in DOMAIN broker /\ broker[t] \in Order
  BY <1>1 DEF Live
<1> DEFINE shut == [broker[t] EXCEPT !.fate = fate]
<1>3. shut \in Order /\ shut.fate = fate
  BY <1>2 DEF Order
<1> HIDE DEF shut
<1>4. broker' = [broker EXCEPT ![t] = shut]
  BY DEF shut
<1>5. /\ broker' \in Seq(Order) /\ Len(broker') = Len(broker) /\ DOMAIN broker' = DOMAIN broker
      /\ broker'[t] = shut /\ \A x \in DOMAIN broker : x # t => broker'[x] = broker[x]
  <2> HIDE DEF Order
  <2> QED
    BY <1>1, <1>2, <1>3, <1>4
<1>6. Live(broker') \subseteq Live(broker) /\ Ages(broker, broker')
  BY <1>1, <1>3, <1>5 DEF Live, Ages
<1>7. LineOK(up, broker')
  <2>1. \A a \in Said(up) : a[2] \in 1 .. Len(broker)
    BY <1>1 DEF Claims
  <2> QED
    BY <1>1, <1>6, <2>1, LineAges
<1>8. Waits' /\ Answered' = Answered
  BY <1>1 DEF Waits, Answered
<1>9. Said(up') \subseteq Claims /\ Retrying(up') = Retrying(up) /\ LineOK(up', broker')
      /\ tracked' \in TrackBook /\ Held(tracked') = Held(tracked) /\ waiting' \in BOOLEAN
  BY <1>1, <1>7 DEF Claims
<1> QED
  BY <1>5, <1>6, <1>8, <1>9, Quiet

\* The replies to an answer name tickets as their commands do.
LEMMA RepliesClaim ==
  ASSUME NEW cmds \in Seq(Command), NEW n \in Nat, NEW now, NEW later \in Seq(Order),
         n <= Len(later), \A c \in ToSet(cmds) : Issued(c, now, n),
         NEW said, \A m \in ToSet(said) : m.req \in ToSet(cmds) /\ Replies(m, m.req, later),
         \A m, k \in ToSet(said) : m.req = k.req => m = k,
         NEW opened, ToSet(cmds) \ Retrying(said) \subseteq opened
  PROVE  \A a \in Said(said) : a[1] \in ToSet(cmds) /\ ClaimOK(a, Len(later), opened)
<1> SUFFICES ASSUME NEW a \in Said(said)
             PROVE  a[1] \in ToSet(cmds) /\ ClaimOK(a, Len(later), opened)
  OBVIOUS
<1>1. PICK m \in ToSet(said) : a = <<m.req, m.ticket>> /\ m.kind \notin {"POLL", "REJECTED"}
  BY DEF Said, Reports
<1>2. a[1] = m.req /\ a[2] = m.ticket /\ m.req \in ToSet(cmds) /\ m.req \in Command
  BY <1>1, ToSetType
<1>3. Replies(m, m.req, later) /\ StatusOK(m, later)
  BY DEF Replies
<1>4. Issued(m.req, now, n) /\ Len(later) \in Nat
  BY <1>2
<1>5. CASE m.kind = "OPENED"
  <2>1. m.ticket \in 1 .. Len(later) /\ m.req.type = "OPEN" /\ m.reason = "NONE"
    BY <1>3, <1>5 DEF Replies, StatusOK
  <2>2. m.req \notin Retrying(said)
    <3>1. ASSUME NEW k \in ToSet(said), IsRetry(k), k.req = m.req
          PROVE  FALSE
      BY <2>1, <3>1 DEF IsRetry
    <3> QED
      BY <3>1 DEF Retrying
  <2> QED
    BY <1>2, <2>1, <2>2 DEF ClaimOK
<1>6. CASE m.kind \in {"CLOSED_BY_SIGNAL", "STILL_OPEN"}
  <2>1. m.ticket = m.req.ticket /\ m.req.type = "CLOSE"
    BY <1>3, <1>6 DEF Replies
  <2>2. m.ticket \in 1 .. n
    BY <1>4, <2>1 DEF Issued
  <2>3. m.ticket \in 1 .. Len(later)
    BY <1>4, <2>2
  <2> QED
    BY <1>2, <2>1, <2>3 DEF ClaimOK
<1> QED
  BY <1>1, <1>3, <1>5, <1>6 DEF Replies

LEMMA ReceiveKeeps ==
  ASSUME LinkInv, waiting, NEW cmds \in Seq(Command), Distinct(cmds), down = <<cmds>>,
         NEW lucks \in [DOMAIN cmds -> Luck], NEW gain \in BOOLEAN, Receive(cmds, lucks, gain)
  PROVE  LinkInv'
<1> DEFINE n == Len(broker)
           done == ExecuteAll(cmds, lucks, gain)
           later == done.broker
           said == done.said
           book == TrackAll(said)
           again == {i \in DOMAIN said : said[i].reason = "RETRYABLE"}
           sending == up \o said
<1>1. /\ broker' = later /\ down' = NoAnswer /\ waiting' = FALSE
      /\ EndTurn(book, later, sending)
      /\ settled' = settled \union (ToSet(cmds) \ {said[i].req : i \in again})
      /\ UNCHANGED <<clock, server, lost>>
  BY DEF Receive
<1>2. /\ n \in Nat /\ clock \in Nat /\ broker \in Seq(Order) /\ tracked \in TrackBook
      /\ LineOK(up, broker) /\ Waits /\ HandedOut /\ ServerOK(server, clock, n)
      /\ \A a \in Claims : ClaimOK(a, n, settled) /\ a[2] \in 1 .. n
      /\ OneTicket(Claims) /\ settled \in SUBSET Command
      /\ UnderWay(server, Answered \union lost, up) /\ HeardOf(broker, server, up)
  BY Tickets DEF LinkInv, LinkType
<1>3. Answered = ToSet(cmds) /\ down # NoAnswer /\ ToSet(cmds) \subseteq Command
  BY AnsweredFacts, ToSetType
<1>4. /\ later \in Seq(Order) /\ said \in Seq(Status) /\ Ages(broker, later)
      /\ DOMAIN said = DOMAIN cmds /\ \A i \in DOMAIN cmds : Replies(said[i], cmds[i], later)
      /\ \A t \in Live(later) :
           t \in Live(broker) \/ \E i \in DOMAIN cmds : said[i].kind = "OPENED" /\ said[i].ticket = t
  BY <1>2, ExecuteFacts
<1> HIDE DEF done
<1> HIDE DEF later, said
<1>5. /\ LineOK(said, later) /\ Poll(TRUE) \notin ToSet(said)
      /\ Retrying(said) \subseteq ToSet(cmds)
      /\ \A m \in ToSet(said) : m.req \in ToSet(cmds) /\ Replies(m, m.req, later)
      /\ \A c \in ToSet(cmds) : \E m \in ToSet(said) : Replies(m, c, later)
      /\ \A m, k \in ToSet(said) : m.req = k.req => m = k
  BY <1>4, Replying
<1>6. {said[i].req : i \in again} = Retrying(said)
  <2>1. \A i \in DOMAIN said : said[i].kind # "POLL"
    BY <1>4, PollFacts
  <2>2. {m \in ToSet(said) : IsRetry(m)} = {said[i] : i \in again}
    BY <2>1 DEF IsRetry, ToSet
  <2> QED
    BY <2>2 DEF Retrying
<1>7. settled' = settled \union (ToSet(cmds) \ Retrying(said))
  BY <1>1, <1>6
<1>8. book \in TrackBook /\ Held(book) \subseteq Held(tracked) \union Said(said)
  BY <1>2, <1>4, TrackAllFacts
<1> HIDE DEF book
<1>9. Len(later) \in Nat /\ n <= Len(later)
  BY <1>4 DEF Ages
<1>10. \A c \in ToSet(cmds) : Issued(c, clock, n) /\ Withheld(server, c) /\ c \notin settled
  BY <1>2, <1>3 DEF HandedOut
<1>11. \A a \in Said(said) : a[1] \in ToSet(cmds) /\ ClaimOK(a, Len(later), settled')
  BY <1>2, <1>4, <1>5, <1>7, <1>9, <1>10, RepliesClaim
<1>12. \A a \in Claims : ClaimOK(a, Len(later), settled')
  BY <1>2, <1>7, <1>9 DEF ClaimOK
<1>13. DOMAIN book \subseteq 1 .. Len(later)
  <2>1. ASSUME NEW t \in DOMAIN book
        PROVE  t \in 1 .. Len(later)
    <3> DEFINE a == <<book[t].req, t>>
    <3>1. a \in Held(book) /\ a[2] = t
      BY DEF Held
    <3>2. a \in Claims \union Said(said)
      BY <1>8, <3>1 DEF Claims
    <3> HIDE DEF a
    <3>3. ClaimOK(a, Len(later), settled')
      BY <1>11, <1>12, <3>2
    <3> QED
      BY <3>1, <3>3 DEF ClaimOK
  <2> QED
    BY <2>1
<1>14. LineOK(up, later)
  <2>1. \A a \in Said(up) : a[2] \in 1 .. n
    BY <1>2 DEF Claims
  <2> QED
    BY <1>2, <1>4, <2>1, LineAges
<1> DEFINE S == Status \union Polls
<1>15. up \in Seq(S) /\ said \in Seq(S) /\ Seq(S) = Lines
  BY <1>5, <1>14 DEF LineOK, Lines
<1> HIDE DEF S
<1>16. /\ Said(sending) = Said(up) \union Said(said)
       /\ Retrying(sending) = Retrying(up) \union Retrying(said)
  BY <1>15, SaidConcat
<1>17. Retrying(up) \intersect (settled \union ToSet(cmds)) = {}
  BY <1>2, <1>3 DEF HandedOut
<1>18. OneRetry(sending)
  <2>1. Retrying(up) \intersect Retrying(said) = {}
    BY <1>5, <1>17
  <2>2. OneRetry(up) /\ OneRetry(said)
    BY <1>5, <1>14 DEF LineOK
  <2> QED
    BY <1>15, <2>1, <2>2, OneRetryConcat
<1>19. OnePoll(sending)
  <2>1. OnePoll(up) /\ OnePoll(said)
    BY <1>5, <1>14 DEF LineOK
  <2> QED
    BY <1>5, <1>15, <2>1, OnePollConcat
<1>20. ToSet(sending) = ToSet(up) \union ToSet(said) /\ sending \in Lines
  <2>1. ToSet(up \o said) = ToSet(up) \union ToSet(said)
    BY <1>15, ToSetConcat
  <2>2. up \o said \in Seq(S)
    BY <1>15, ConcatParts
  <2> QED
    BY <1>15, <2>1, <2>2
<1> HIDE DEF sending
<1>21. LineOK(sending, later)
  BY <1>5, <1>14, <1>18, <1>19, <1>20 DEF LineOK
<1>22. /\ tracked' \in TrackBook /\ Held(tracked') \subseteq Held(book)
       /\ LineOK(up', later) /\ Said(up') \subseteq Said(sending) \union Held(book)
       /\ Retrying(up') = Retrying(sending) /\ ToSet(sending) \subseteq ToSet(up')
       /\ (Poll(TRUE) \in ToSet(up') => Poll(TRUE) \in ToSet(sending))
  BY <1>1, <1>4, <1>8, <1>13, <1>21, TurnEnds
<1>23. Claims' \subseteq Claims \union Said(said)
  BY <1>1, <1>8, <1>16, <1>22 DEF Claims
<1>24. \A a \in Claims' : ClaimOK(a, Len(broker'), settled')
  BY <1>1, <1>11, <1>12, <1>23
<1>25. OneTicket(Claims')
  <2>1. ASSUME NEW a \in Claims, NEW b \in Said(said), a[1] = b[1]
        PROVE  a[2] = b[2]
    <3>1. ClaimOK(a, n, settled) /\ ClaimOK(b, Len(later), settled') /\ b[1] \notin settled
      BY <1>2, <1>10, <1>11
    <3> QED
      BY <2>1, <3>1 DEF ClaimOK
  <2>2. ASSUME NEW a \in Said(said), NEW b \in Said(said), a[1] = b[1]
        PROVE  a[2] = b[2]
    <3>1. PICK m \in ToSet(said) : a = <<m.req, m.ticket>>
      BY DEF Said, Reports
    <3>2. PICK k \in ToSet(said) : b = <<k.req, k.ticket>>
      BY DEF Said, Reports
    <3>3. m = k
      BY <1>5, <2>2, <3>1, <3>2
    <3> QED
      BY <3>1, <3>2, <3>3
  <2>3. ASSUME NEW a \in Claims', NEW b \in Claims', a[1] = b[1]
        PROVE  a[2] = b[2]
    <3>1. CASE a \in Said(said)
      <4>1. CASE b \in Said(said)
        BY <2>2, <2>3, <3>1, <4>1
      <4>2. CASE b \in Claims
        BY <2>1, <2>3, <3>1, <4>2
      <4> QED
        BY <1>23, <4>1, <4>2
    <3>2. CASE a \in Claims
      <4>1. CASE b \in Said(said)
        BY <2>1, <2>3, <3>2, <4>1
      <4>2. CASE b \in Claims
        BY <1>2, <2>3, <3>2, <4>2 DEF OneTicket
      <4> QED
        BY <1>23, <4>1, <4>2
    <3> QED
      BY <1>23, <3>1, <3>2
  <2> QED
    BY <2>3 DEF OneTicket
<1>26. Answered' = {}
  BY <1>1 DEF Answered
<1>27. Retrying(up') = Retrying(up) \union Retrying(said)
  BY <1>16, <1>22
<1>28. HandedOut'
  <2>1. ASSUME NEW c \in settled' \union Answered' \union Retrying(up')
        PROVE  c \in Command /\ Issued(c, clock', Len(broker')) /\ Withheld(server', c)
    <3>1. c \in settled \union Answered \union Retrying(up)
      BY <1>3, <1>5, <1>7, <1>26, <1>27
    <3>2. c \in Command /\ Issued(c, clock, n) /\ Withheld(server, c)
      BY <1>2, <3>1 DEF HandedOut
    <3>3. Issued(c, clock, Len(later))
      BY <1>2, <1>9, <3>2, IssuedGrows
    <3> QED
      BY <1>1, <3>2, <3>3
  <2>2. Retrying(up') \intersect (settled' \union Answered') = {}
    BY <1>5, <1>7, <1>10, <1>17, <1>26, <1>27
  <2> QED
    BY <1>26, <2>1, <2>2 DEF HandedOut
<1>29. UnderWay(server', Answered' \union lost', up')
  <2>1. ASSUME NEW c \in server.sent, c \notin lost
        PROVE  \E m \in ToSet(up') : Answers(m, c)
    <3>1. CASE c \in ToSet(cmds)
      <4>1. PICK m \in ToSet(said) : Replies(m, c, later)
        BY <1>5, <3>1
      <4> QED
        BY <1>20, <1>22, <4>1 DEF Replies
    <3>2. CASE c \notin ToSet(cmds)
      <4>1. PICK m \in ToSet(up) : Answers(m, c)
        BY <1>2, <1>3, <2>1, <3>2 DEF UnderWay
      <4> QED
        BY <1>20, <1>22, <4>1
    <3> QED
      BY <3>1, <3>2
  <2> QED
    BY <1>1, <2>1 DEF UnderWay
<1>30. HeardOf(broker', server', up')
  <2>1. ASSUME NEW t \in Live(later), t \notin DOMAIN server.positions
        PROVE  \E m \in ToSet(up') : m.kind \in {"OPENED", "STILL_OPEN"} /\ m.ticket = t
    <3>1. CASE t \in Live(broker)
      <4>1. PICK m \in ToSet(up) : m.kind \in {"OPENED", "STILL_OPEN"} /\ m.ticket = t
        BY <1>2, <2>1, <3>1 DEF HeardOf
      <4> QED
        BY <1>20, <1>22, <4>1
    <3>2. CASE t \notin Live(broker)
      <4>1. PICK i \in DOMAIN said : said[i].kind = "OPENED" /\ said[i].ticket = t
        BY <1>4, <3>2
      <4>2. said[i] \in ToSet(said)
        BY DEF ToSet
      <4> QED
        BY <1>20, <1>22, <4>1, <4>2
    <3> QED
      BY <3>1, <3>2
  <2> QED
    BY <1>1, <2>1 DEF HeardOf
<1>31. LinkType'
  <2>1. settled' \in SUBSET Command
    BY <1>2, <1>3, <1>7
  <2> QED
    BY <1>1, <1>2, <1>4, <1>22, <2>1 DEF LinkType
<1>32. Waits'
  <2>1. Poll(TRUE) \notin ToSet(up')
    BY <1>2, <1>3, <1>5, <1>20, <1>22 DEF Waits
  <2> QED
    BY <1>1, <2>1 DEF Waits
<1>33. ServerOK(server', clock', Len(broker'))
  <2>1. ServerOK(server, clock, Len(later))
    BY <1>2, <1>9, ServerGrows
  <2> QED
    BY <1>1, <2>1
<1>34. LineOK(up', broker')
  BY <1>1, <1>22
<1> QED
  BY <1>24, <1>25, <1>28, <1>29, <1>30, <1>31, <1>32, <1>33, <1>34 DEF LinkInv

LEMMA TurnWithAnswerKeeps ==
  ASSUME LinkInv, TurnWithAnswer
  PROVE  LinkInv'
<1>1. PICK cmds \in Seq(Command) : down = <<cmds>> /\ Distinct(cmds)
  BY DEF TurnWithAnswer, LinkInv, Waits
<1>2. Head(down) = cmds
  BY <1>1, AnsweredFacts
<1>3. PICK lucks \in [DOMAIN cmds -> Luck], gain \in BOOLEAN : Receive(cmds, lucks, gain)
  BY <1>2 DEF TurnWithAnswer
<1> QED
  BY <1>1, <1>3, ReceiveKeeps DEF TurnWithAnswer

-----------------------------------------------------------------------------
(* The theorems.                                                           *)

LEMMA StepKeeps == LinkInv /\ [Next]_vars => LinkInv'
<1> SUFFICES ASSUME LinkInv, [Next]_vars
             PROVE  LinkInv'
  OBVIOUS
<1>1. CASE UNCHANGED vars
  <2>1. /\ Claims' = Claims /\ Answered' = Answered /\ LinkType' /\ Waits'
    BY <1>1 DEF vars, Claims, Answered, LinkInv, LinkType, Waits
  <2>2. HandedOut'
    BY <1>1, <2>1 DEF vars, LinkInv, HandedOut
  <2> QED
    BY <1>1, <2>1, <2>2 DEF vars, LinkInv
<1>2. CASE \E side \in Sides, entry, exit \in BOOLEAN : CloseCandle(side, entry, exit)
  BY <1>2, CloseCandleKeeps
<1>3. CASE AnswerPoll
  BY <1>3, AnswerPollKeeps
<1>4. CASE TakeStatus
  BY <1>4, TakeStatusKeeps
<1>5. CASE \E gain \in BOOLEAN : SendPoll(gain)
  BY <1>5, SendPollKeeps
<1>6. CASE TurnWithAnswer
  BY <1>6, TurnWithAnswerKeeps
<1>7. CASE TurnWithoutAnswer
  BY <1>7, TurnWithoutAnswerKeeps
<1>8. CASE GiveUp
  BY <1>8, GiveUpKeeps
<1>9. CASE Restart
  BY <1>9, RestartKeeps
<1>10. ASSUME NEW t \in Live(broker), HitStop(t) \/ CloseByHand(t)
       PROVE  LinkInv'
  <2>1. CASE HitStop(t)
    BY <2>1, ClosedKeeps DEF HitStop
  <2>2. CASE CloseByHand(t)
    BY <2>2, ClosedKeeps DEF CloseByHand
  <2> QED
    BY <1>10, <2>1, <2>2
<1> QED
  BY <1>1, <1>2, <1>3, <1>4, <1>5, <1>6, <1>7, <1>8, <1>9, <1>10 DEF Next

(* The messages between server and terminal, the commands of the server,    *)
(* the positions of the terminal and those of the broker fit together, for  *)
(* any number of candles, retries, polls given up and restarts.             *)
THEOREM LinkInvariant == Spec => []LinkInv
<1>1. Init => LinkInv
  BY InitKeeps
<1>2. LinkInv /\ [Next]_vars => LinkInv'
  BY StepKeeps
<1> QED
  BY <1>1, <1>2, PTL DEF Spec

(* A command the server counts as sent waits in its queue, and is in the    *)
(* answer the terminal waits for, or in a lost answer, or its status is on  *)
(* its way: the server, which decides nothing meanwhile, is never waiting   *)
(* for a status nobody will send, but for those of lost answers.            *)
THEOREM SentStaysUnderWay == Spec => []SentIsUnderWay
<1>1. ASSUME LinkInv
      PROVE  SentIsUnderWay
  <2>1. server.sent \subseteq ToSet(server.pending)
    BY <1>1 DEF LinkInv, ServerOK
  <2>2. ASSUME NEW c \in server.sent, NEW m \in ToSet(up), Answers(m, c)
        PROVE  \E i \in DOMAIN up : Answers(up[i], c)
    BY <2>2 DEF ToSet
  <2>3. \A c \in server.sent : c \in Answered \union lost \/ \E m \in ToSet(up) : Answers(m, c)
    BY <1>1 DEF LinkInv, UnderWay
  <2> QED
    BY <2>1, <2>2, <2>3 DEF SentIsUnderWay
<1> QED
  BY <1>1, LinkInvariant, PTL

(* A request that was executed or refused for good is never on its way to   *)
(* the terminal again and never waits to be sent, however often its trigger *)
(* is evaluated again, the terminal restarts, or statuses arrive late.      *)
THEOREM NothingIsRetried == Spec => []NoSecondAttempt
<1>1. ASSUME LinkInv
      PROVE  NoSecondAttempt
  <2>1. settled \intersect Answered = {} /\ \A c \in settled : Withheld(server, c)
    BY <1>1 DEF LinkInv, HandedOut
  <2>2. server.completed \intersect ToSet(server.pending) = {}
    BY <1>1 DEF LinkInv, ServerOK
  <2>3. ASSUME NEW c \in ToSet(server.pending), c \in settled
        PROVE  c \in server.sent
    BY <2>1, <2>2, <2>3 DEF Withheld
  <2> QED
    BY <2>1, <2>3 DEF NoSecondAttempt
<1> QED
  BY <1>1, LinkInvariant, PTL

(* The open position at the broker is in the server's book, or a status     *)
(* that brings it there is on its way.                                      *)
THEOREM BrokerStaysKnown == Spec => []BrokerKnown
<1>1. ASSUME LinkInv
      PROVE  BrokerKnown
  <2>1. ASSUME NEW t \in Live(broker), t \notin DOMAIN server.positions
        PROVE  \E i \in DOMAIN up : up[i].kind \in {"OPENED", "STILL_OPEN"} /\ up[i].ticket = t
    <3>1. PICK m \in ToSet(up) : m.kind \in {"OPENED", "STILL_OPEN"} /\ m.ticket = t
      BY <1>1, <2>1 DEF LinkInv, HeardOf
    <3>2. PICK i \in DOMAIN up : m = up[i]
      BY DEF ToSet
    <3> QED
      BY <3>1, <3>2
  <2> QED
    BY <2>1 DEF BrokerKnown
<1> QED
  BY <1>1, LinkInvariant, PTL
=============================================================================
