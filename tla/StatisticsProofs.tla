-------------------------- MODULE StatisticsProofs --------------------------
(***************************************************************************)
(* The statistics of a pump add up for words of any width, any number of   *)
(* connections and messages of any size, however the counting threads and  *)
(* the printing thread interleave.                                         *)
(***************************************************************************)
EXTENDS TransferStatistics, TLAPS

Limit(k) == IF k = "engine" THEN EngineConnections ELSE MaxPublishers

(* What connection i has really counted, t[i], and the first i together,   *)
(* p[i]: the counters are t modulo 2^64.                                   *)
TrueCounts(k, x, t, p) ==
    /\ p[0] = 0 /\ p[Limit(k)] = counted[k][x]
    /\ \A i \in 1..Limit(k) : p[i] = p[i - 1] + t[i] /\ stats[<<k, i>>][x] = t[i] % Word
    /\ \A i \in 0..Limit(k) :
         p[i] <= counted[k][x] /\ (k = "publisher" /\ i >= size => p[i] = counted[k][x])

Position(x) == CHOOSE i \in DOMAIN CounterOrder : CounterOrder[i] = x

(* How many connections the walk has read counter x of. *)
ReadSoFar(x) == IF Position(x) < at[2] THEN at[1] ELSE at[1] - 1

(* The walk has found w, which is at least what the connections it has     *)
(* read had counted when it began, and at most what they have now.         *)
WalkedSum(k, x, q, w) ==
    /\ q[0] = 0 /\ q[upto] = before[k][x]
    /\ sum[k][x] = w % Word
    /\ ReadSoFar(x) \in 0..upto
    /\ q[ReadSoFar(x)] <= w

Walking(k, x, t, p) ==
    \E q \in [0..Limit(k) -> Nat], w \in Nat :
      /\ WalkedSum(k, x, q, w)
      /\ \A i \in 1..Limit(k) : q[i] <= q[i - 1] + t[i]
      /\ w <= p[ReadSoFar(x)]

CountsAreTrue(k, x) ==
    \E t \in [1..Limit(k) -> Nat], p \in [0..Limit(k) -> Nat] :
      TrueCounts(k, x, t, p) /\ (printer = k => Walking(k, x, t, p))

AllTrue == \A k \in Kinds, x \in Counters : CountsAreTrue(k, x)

(* The walk over the engines is over, or the next one has not begun. *)
WalksInOrder ==
    /\ printer = "engine" =>
         upto = EngineConnections /\ \A x \in Counters : sum["publisher"][x] = 0
    /\ printer = "publisher" =>
         /\ upto <= size
         /\ \A x \in Counters : \E w \in Nat :
              /\ before["engine"][x] <= w /\ w <= counted["engine"][x]
              /\ sum["engine"][x] = w % Word

(* What was reported is what previous remembers of it. *)
Remembering ==
    \A k \in Kinds, x \in Counters :
      /\ previous[k][x] = reported[k][x] % Word
      /\ printer = k \/ printer = "publisher" => reported[k][x] <= before[k][x]

(* The bound: no counter grows by 2^64 between two prints. *)
Unwrapped ==
    /\ \A k \in Kinds, x \in Counters : counted[k][x] - reported[k][x] < Word
    /\ \A k \in Kinds : counting[k] # None =>
         /\ counting[k][1][1] = k
         /\ k = "publisher" => counting[k][1][2] <= size
         /\ GrowsBy(k, Messages(counting[k][2]), 1)

StatsInv ==
    /\ StatsTypeOK /\ AllTrue /\ WalksInOrder /\ Remembering /\ Unwrapped
    /\ TrafficIsReportedOnce

----------------------------------------------------------------------------
(* Arithmetic of words. *)

(* Division leaves a remainder. *)
LEMMA Division ==
    ASSUME NEW a \in Int
    PROVE  /\ a \div Word \in Int /\ a % Word \in Word64
           /\ a = Word * (a \div Word) + (a % Word)
  BY StatisticsAssumption DEF Word64

(* No multiple of a word but 0 is smaller than a word. *)
LEMMA NoMultiple ==
    ASSUME NEW d \in Int, -Word < Word * d, Word * d < Word
    PROVE  d = 0
<1>1. CASE d >= 1
  BY <1>1, StatisticsAssumption
<1>2. CASE d <= -1
  BY <1>2, StatisticsAssumption
<1> QED
  BY <1>1, <1>2

(* So the remainder is known by any way of dividing. *)
LEMMA Remainder ==
    ASSUME NEW q \in Int, NEW r \in Word64
    PROVE  (Word * q + r) % Word = r
<1> DEFINE a == Word * q + r
           d == (a \div Word) - q
<1>1. a \in Int /\ Word * q \in Int
  BY StatisticsAssumption DEF Word64
<1>2. /\ a \div Word \in Int /\ a % Word \in Word64
      /\ a = Word * (a \div Word) + (a % Word)
  BY <1>1, Division
<1>3. d \in Int /\ Word * d = Word * (a \div Word) - Word * q
  BY <1>2, StatisticsAssumption
<1>4. Word * d = r - (a % Word)
  BY <1>1, <1>2, <1>3, StatisticsAssumption DEF Word64
<1>5. d = 0
  BY <1>2, <1>3, <1>4, NoMultiple, StatisticsAssumption DEF Word64
<1>6. a \div Word = q
  BY <1>2, <1>5
<1> QED
  BY <1>1, <1>2, <1>6 DEF Word64

(* Adding to a counter that wraps is adding to what it stands for ... *)
LEMMA AddsModulo ==
    ASSUME NEW a \in Nat, NEW b \in Nat
    PROVE  /\ ((a % Word) + b) % Word = (a + b) % Word
           /\ ((a % Word) + (b % Word)) % Word = (a + b) % Word
           /\ a % Word \in Word64 /\ 0 % Word = 0
<1> DEFINE Q(u) == u \div Word
           R(u) == u % Word
           c == R(a) + b
           e == R(a) + R(b)
<1>1. \A u \in Int : Q(u) \in Int /\ R(u) \in Word64 /\ u = Word * Q(u) + R(u)
  BY Division
<1>2. R(a) \in Nat /\ R(b) \in Nat /\ c \in Nat /\ e \in Nat
  BY <1>1 DEF Word64
<1>3. /\ Q(a) \in Int /\ Q(b) \in Int /\ Q(c) \in Int /\ Q(e) \in Int
      /\ R(c) \in Word64 /\ R(e) \in Word64
      /\ a = Word * Q(a) + R(a) /\ b = Word * Q(b) + R(b)
      /\ c = Word * Q(c) + R(c) /\ e = Word * Q(e) + R(e)
  BY <1>1, <1>2
<1>4. a + b = Word * (Q(a) + Q(c)) + R(c)
  <2>1. a + b = Word * Q(a) + c
    BY <1>2, <1>3, StatisticsAssumption
  <2>2. Word * (Q(a) + Q(c)) = Word * Q(a) + Word * Q(c)
    BY <1>3, StatisticsAssumption
  <2> QED
    BY <1>2, <1>3, <2>1, <2>2, StatisticsAssumption DEF Word64
<1>5. a + b = Word * (Q(a) + Q(b) + Q(e)) + R(e)
  <2>1. a + b = Word * Q(a) + Word * Q(b) + e
    BY <1>2, <1>3, StatisticsAssumption
  <2>2. Word * (Q(a) + Q(b) + Q(e)) = Word * Q(a) + Word * Q(b) + Word * Q(e)
    BY <1>3, StatisticsAssumption
  <2> QED
    BY <1>2, <1>3, <2>1, <2>2, StatisticsAssumption DEF Word64
<1>6. Q(a) + Q(c) \in Int /\ Q(a) + Q(b) + Q(e) \in Int
  BY <1>3
<1>7. 0 % Word = 0
  <2>1. 0 \in Word64 /\ Word * 0 + 0 = 0
    BY StatisticsAssumption DEF Word64
  <2> QED
    BY <2>1, Remainder
<1> HIDE DEF Q, R
<1>8. R(c) = (a + b) % Word /\ R(e) = (a + b) % Word
  BY <1>3, <1>4, <1>5, <1>6, Remainder
<1> QED
  BY <1>1, <1>7, <1>8 DEF Q, R

(* ... and the difference of two counters less than a word apart is theirs. *)
LEMMA GrowthIsTrue ==
    ASSUME NEW r \in Nat, NEW w \in Nat, r <= w, w - r < Word
    PROVE  ((w % Word) - (r % Word) + Word) % Word = w - r
<1>1. /\ w \div Word \in Int /\ w % Word \in Word64 /\ w = Word * (w \div Word) + (w % Word)
      /\ r \div Word \in Int /\ r % Word \in Word64 /\ r = Word * (r \div Word) + (r % Word)
  BY Division
<1> DEFINE q == (r \div Word) - (w \div Word) + 1
<1>2. q \in Int /\ Word * q = Word * (r \div Word) - Word * (w \div Word) + Word
  BY <1>1, StatisticsAssumption
<1>3. (w % Word) - (r % Word) + Word = Word * q + (w - r)
  BY <1>1, <1>2, StatisticsAssumption DEF Word64
<1>4. w - r \in Word64
  BY StatisticsAssumption DEF Word64
<1> QED
  BY <1>2, <1>3, <1>4, Remainder

----------------------------------------------------------------------------
(* The counters and the connections. *)

(* The four counters are read in their order. *)
LEMMA CounterFacts ==
    /\ DOMAIN CounterOrder = 1..4 /\ Len(CounterOrder) = 4
    /\ \A i \in 1..4 : CounterOrder[i] \in Counters /\ Position(CounterOrder[i]) = i
    /\ \A x \in Counters : Position(x) \in 1..4 /\ CounterOrder[Position(x)] = x
    /\ \A way : Bytes(way) \in Counters /\ Messages(way) \in Counters
                  /\ Bytes(way) # Messages(way)
<1>1. /\ DOMAIN CounterOrder = 1..4 /\ Len(CounterOrder) = 4
      /\ CounterOrder[1] = "bytes_sent" /\ CounterOrder[2] = "bytes_received"
      /\ CounterOrder[3] = "messages_sent" /\ CounterOrder[4] = "messages_received"
  BY DEF CounterOrder
<1>2. Counters = {CounterOrder[i] : i \in 1..4}
  BY <1>1 DEF Counters
<1>3. \A x \in Counters : Position(x) \in 1..4 /\ CounterOrder[Position(x)] = x
  BY <1>1, <1>2 DEF Position
<1>4. \A i, j \in 1..4 : CounterOrder[i] = CounterOrder[j] => i = j
  BY <1>1
<1>5. {"bytes_sent", "bytes_received", "messages_sent", "messages_received"} \subseteq Counters
  BY <1>1, <1>2
<1> QED
  BY <1>1, <1>2, <1>3, <1>4, <1>5 DEF Bytes, Messages

(* The connections of a kind are numbered from 1. *)
LEMMA ConnectionForm ==
    /\ \A c \in Connections : c = <<c[1], c[2]>> /\ c[1] \in Kinds /\ c[2] \in 1..Limit(c[1])
    /\ \A k \in Kinds : \A i \in 1..Limit(k) : <<k, i>> \in Connections
    /\ \A k \in Kinds : Limit(k) \in Nat
  BY StatisticsAssumption DEF Connections, Kinds, Limit

(* What t and p become when connection j counts n more. *)
CountedMore(t, j, n) == [t EXCEPT ![j] = @ + n]
Totals(p, j, n) == [i \in DOMAIN p |-> IF i >= j THEN p[i] + n ELSE p[i]]

AddsUp(L, t, p, j, n, T, P) ==
    /\ T \in [1..L -> Nat] /\ P \in [0..L -> Nat]
    /\ \A i \in 1..L : T[i] = IF i = j THEN t[i] + n ELSE t[i]
    /\ \A i \in 0..L : P[i] = IF i >= j THEN p[i] + n ELSE p[i]
    /\ \A i \in 1..L : p[i] = p[i - 1] + t[i] => P[i] = P[i - 1] + T[i]

(* They still are counts and what they add up to. *)
LEMMA CountedMoreForm ==
    ASSUME NEW L \in Nat, NEW t \in [1..L -> Nat], NEW p \in [0..L -> Nat],
           NEW j \in 1..L, NEW n \in Nat
    PROVE  AddsUp(L, t, p, j, n, CountedMore(t, j, n), Totals(p, j, n))
<1>1. \A i \in 1..L : t[i] \in Nat /\ i \in Nat /\ i \in 0..L /\ i - 1 \in 0..L
  OBVIOUS
<1>2. \A i \in 0..L : p[i] \in Nat /\ i \in Nat
  OBVIOUS
<1>3. /\ CountedMore(t, j, n) \in [1..L -> Nat]
      /\ \A i \in 1..L : CountedMore(t, j, n)[i] = IF i = j THEN t[i] + n ELSE t[i]
  BY <1>1 DEF CountedMore
<1>4. /\ \A i \in 0..L : (IF i >= j THEN p[i] + n ELSE p[i]) \in Nat
      /\ DOMAIN p = 0..L
  BY <1>2
<1>5. /\ Totals(p, j, n) \in [0..L -> Nat]
      /\ \A i \in 0..L : Totals(p, j, n)[i] = IF i >= j THEN p[i] + n ELSE p[i]
  BY <1>4 DEF Totals
<1>6. ASSUME NEW i \in 1..L, p[i] = p[i - 1] + t[i]
      PROVE  Totals(p, j, n)[i] = Totals(p, j, n)[i - 1] + CountedMore(t, j, n)[i]
  <2>1. /\ Totals(p, j, n)[i] = (IF i >= j THEN p[i] + n ELSE p[i])
        /\ Totals(p, j, n)[i - 1] = (IF i - 1 >= j THEN p[i - 1] + n ELSE p[i - 1])
        /\ CountedMore(t, j, n)[i] = (IF i = j THEN t[i] + n ELSE t[i])
    BY <1>1, <1>3, <1>5
  <2>2. t[i] \in Nat /\ p[i] \in Nat /\ p[i - 1] \in Nat /\ i \in Nat /\ j \in Nat
    BY <1>1, <1>2
  <2> QED
    BY <1>6, <2>1, <2>2, SMTT(30)
<1> QED
  BY <1>3, <1>5, <1>6 DEF AddsUp
(* A connection that counts n more of x leaves true counts true. *)
LEMMA CountingKeeps ==
    ASSUME StatsTypeOK, WalksInOrder, NEW k \in Kinds, NEW j \in 1..Limit(k),
           k = "publisher" => j <= size,
           NEW y \in Counters, NEW n \in Nat, AllTrue,
           stats' = [stats EXCEPT ![<<k, j>>] = Add(@, y, n)],
           counted' = [counted EXCEPT ![k][y] = @ + n],
           UNCHANGED <<size, walk>>
    PROVE  AllTrue'
<1> SUFFICES ASSUME NEW m \in Kinds, NEW x \in Counters PROVE CountsAreTrue(m, x)'
  BY DEF AllTrue
<1>1. PICK t \in [1..Limit(m) -> Nat], p \in [0..Limit(m) -> Nat] :
        TrueCounts(m, x, t, p) /\ (printer = m => Walking(m, x, t, p))
  BY DEF AllTrue, CountsAreTrue
<1>0. /\ Limit(m) \in Nat /\ Limit(k) \in Nat /\ <<k, j>> \in Connections
      /\ \A i \in 1..Limit(m) : <<m, i>> \in Connections
      /\ stats \in [Connections -> [Counters -> Word64]]
      /\ counted \in [Kinds -> [Counters -> Nat]]
  BY ConnectionForm DEF StatsTypeOK
<1>2. CASE ~(m = k /\ x = y)
  <2>1. counted'[m][x] = counted[m][x]
    BY <1>0, <1>2
  <2>2. ASSUME NEW i \in 1..Limit(m) PROVE stats'[<<m, i>>][x] = stats[<<m, i>>][x]
    <3>1. CASE <<m, i>> = <<k, j>>
      BY <1>0, <1>2, <3>1 DEF Add
    <3>2. CASE <<m, i>> # <<k, j>>
      BY <1>0, <3>2
    <3> QED
      BY <3>1, <3>2
  <2>3. TrueCounts(m, x, t, p)'
    BY <1>1, <2>1, <2>2 DEF TrueCounts
  <2>4. printer' = m => Walking(m, x, t, p)'
    BY <1>1 DEF walk, Walking, WalkedSum, ReadSoFar
  <2> QED
    BY <2>3, <2>4 DEF CountsAreTrue
<1>3. CASE m = k /\ x = y
  <2> DEFINE T == CountedMore(t, j, n)
             P == Totals(p, j, n)
  <2>0. /\ T \in [1..Limit(m) -> Nat] /\ P \in [0..Limit(m) -> Nat]
        /\ \A i \in 1..Limit(m) : T[i] = IF i = j THEN t[i] + n ELSE t[i]
        /\ \A i \in 0..Limit(m) : P[i] = IF i >= j THEN p[i] + n ELSE p[i]
        /\ \A i \in 1..Limit(m) : p[i] = p[i - 1] + t[i] => P[i] = P[i - 1] + T[i]
    <3>1. Limit(m) \in Nat /\ j \in 1..Limit(m)
      BY <1>0, <1>3
    <3>2. AddsUp(Limit(m), t, p, j, n, T, P)
      BY <3>1, CountedMoreForm
    <3> QED
      BY <3>2 DEF AddsUp
  <2> HIDE DEF T, P
  <2>1. \A i \in 0..Limit(m) : p[i] \in Nat /\ i \in Nat /\ P[i] \in Nat
    <3>1. \A i \in 0..Limit(m) : P[i] \in Nat
      BY <2>0
    <3> QED
      BY <1>0, <3>1
  <2>2. /\ j \in 1..Limit(m) /\ j \in Nat /\ 0 \in 0..Limit(m) /\ Limit(m) \in 0..Limit(m)
        /\ counted'[m][x] = counted[m][x] + n /\ counted[m][x] \in Nat
    BY <1>0, <1>3
  <2>3. ASSUME NEW i \in 1..Limit(m) PROVE stats'[<<m, i>>][x] = T[i] % Word
    <3>0. stats[<<m, i>>][x] = t[i] % Word /\ t[i] \in Nat
      BY <1>1 DEF TrueCounts
    <3>1. CASE i = j
      <4>1. stats'[<<m, i>>][x] = (stats[<<m, i>>][x] + n) % Word
        BY <1>0, <1>3, <3>1 DEF Add
      <4>2. T[i] = t[i] + n
        BY <2>0, <3>1
      <4> QED
        BY <3>0, <4>1, <4>2, AddsModulo
    <3>2. CASE i # j
      <4>1. stats'[<<m, i>>][x] = stats[<<m, i>>][x]
        BY <1>0, <3>2
      <4>2. T[i] = t[i]
        BY <2>0, <3>2
      <4> QED
        BY <3>0, <4>1, <4>2
    <3> QED
      BY <3>1, <3>2
  <2>4. TrueCounts(m, x, T, P)'
    <3>1. P[0] = 0 /\ P[Limit(m)] = counted'[m][x]
      <4>1. p[0] = 0 /\ p[Limit(m)] = counted[m][x]
        BY <1>1 DEF TrueCounts
      <4>2. P[0] = (IF 0 >= j THEN p[0] + n ELSE p[0])
            /\ P[Limit(m)] = (IF Limit(m) >= j THEN p[Limit(m)] + n ELSE p[Limit(m)])
        BY <2>0, <2>2
      <4>3. Limit(m) >= j /\ ~(0 >= j)
        BY <1>0, <2>2
      <4> QED
        BY <2>2, <4>1, <4>2, <4>3
    <3>2. \A i \in 1..Limit(m) : P[i] = P[i - 1] + T[i]
      BY <1>1, <2>0 DEF TrueCounts
    <3>3. ASSUME NEW i \in 0..Limit(m)
          PROVE  /\ P[i] <= counted'[m][x]
                 /\ m = "publisher" /\ i >= size => P[i] = counted'[m][x]
      <4>1. /\ p[i] <= counted[m][x]
            /\ m = "publisher" /\ i >= size => p[i] = counted[m][x]
        BY <1>1 DEF TrueCounts
      <4>2. P[i] = (IF i >= j THEN p[i] + n ELSE p[i])
        BY <2>0
      <4>3. p[i] \in Nat /\ i \in Nat /\ size \in Nat
        BY <2>1 DEF StatsTypeOK
      <4>4. m = "publisher" => j <= size
        BY <1>3
      <4> QED
        BY <2>2, <4>1, <4>2, <4>3, <4>4
    <3>4. size' = size
      OBVIOUS
    <3> QED
      BY <2>3, <3>1, <3>2, <3>3, <3>4 DEF TrueCounts
  <2>5. ASSUME printer' = m PROVE Walking(m, x, T, P)'
    <3>1. PICK q \in [0..Limit(m) -> Nat], w \in Nat :
            /\ WalkedSum(m, x, q, w)
            /\ \A i \in 1..Limit(m) : q[i] <= q[i - 1] + t[i]
            /\ w <= p[ReadSoFar(x)]
      BY <1>1, <2>5 DEF walk, Walking
    <3>2. WalkedSum(m, x, q, w)' /\ ReadSoFar(x)' = ReadSoFar(x)
      BY <3>1 DEF walk, WalkedSum, ReadSoFar
    <3>3. ASSUME NEW i \in 1..Limit(m) PROVE q[i] <= q[i - 1] + T[i]
      <4>1. q[i] <= q[i - 1] + t[i] /\ q[i] \in Nat /\ q[i - 1] \in Nat /\ t[i] \in Nat
        BY <1>0, <3>1, SMTT(30)
      <4>2. T[i] = t[i] + n \/ T[i] = t[i]
        BY <2>0
      <4> QED
        BY <4>1, <4>2
    <3>4. ReadSoFar(x) \in 0..Limit(m)
      <4>1. upto \in Nat /\ upto <= Limit(m)
        <5>1. printer = m /\ upto \in Nat /\ size \in Nat /\ size <= MaxPublishers
          BY <2>5, StatisticsAssumption DEF walk, StatsTypeOK
        <5> QED
          BY <5>1, StatisticsAssumption DEF WalksInOrder, Limit, Kinds
      <4>2. ReadSoFar(x) \in 0..upto
        BY <3>1 DEF WalkedSum
      <4> QED
        BY <1>0, <4>1, <4>2
    <3>5. w <= P[ReadSoFar(x)]
      <4>1. w <= p[ReadSoFar(x)] /\ p[ReadSoFar(x)] \in Nat
        BY <2>1, <3>1, <3>4
      <4>2. P[ReadSoFar(x)] = p[ReadSoFar(x)] + n \/ P[ReadSoFar(x)] = p[ReadSoFar(x)]
        BY <2>0, <3>4
      <4> QED
        BY <4>1, <4>2
    <3> QED
      BY <2>0, <3>2, <3>3, <3>5 DEF Walking
  <2> QED
    BY <2>0, <2>4, <2>5 DEF CountsAreTrue
<1> QED
  BY <1>2, <1>3

----------------------------------------------------------------------------
(* The steps. *)

(* A step that neither counts nor walks leaves true counts true. *)
LEMMA TrueStays ==
    ASSUME AllTrue, UNCHANGED <<stats, counted, walk>>, size \in Nat, size' \in Nat,
           size' >= size
    PROVE  AllTrue'
<1> SUFFICES ASSUME NEW k \in Kinds, NEW x \in Counters PROVE CountsAreTrue(k, x)'
  BY DEF AllTrue
<1>1. PICK t \in [1..Limit(k) -> Nat], p \in [0..Limit(k) -> Nat] :
        TrueCounts(k, x, t, p) /\ (printer = k => Walking(k, x, t, p))
  BY DEF AllTrue, CountsAreTrue
<1>2. TrueCounts(k, x, t, p)'
  <2>1. Limit(k) \in Nat
    BY ConnectionForm
  <2> QED
    BY <1>1, <2>1 DEF TrueCounts
<1>3. printer' = k => Walking(k, x, t, p)'
  BY <1>1 DEF walk, Walking, WalkedSum, ReadSoFar
<1> QED
  BY <1>2, <1>3 DEF CountsAreTrue

(* A thread that counts keeps the invariant. *)
LEMMA CountKeeps ==
    ASSUME StatsInv, NEW k \in Kinds, NEW j \in 1..Limit(k),
           k = "publisher" => j <= size,
           NEW y \in Counters, NEW n \in Nat, GrowsBy(k, y, n),
           stats' = [stats EXCEPT ![<<k, j>>] = Add(@, y, n)],
           counted' = [counted EXCEPT ![k][y] = @ + n],
           UNCHANGED <<size, constructed, running, walk>>
    PROVE  /\ AllTrue' /\ WalksInOrder' /\ Remembering' /\ TrafficIsReportedOnce'
           /\ stats' \in [Connections -> [Counters -> Word64]]
           /\ counted' \in [Kinds -> [Counters -> Nat]]
           /\ \A m \in Kinds, x \in Counters : counted'[m][x] - reported'[m][x] < Word
<1>0. /\ StatsTypeOK /\ AllTrue /\ WalksInOrder /\ Remembering /\ Unwrapped
      /\ TrafficIsReportedOnce
  BY DEF StatsInv
<1>1. AllTrue'
  BY <1>0, CountingKeeps
<1>2. /\ stats \in [Connections -> [Counters -> Word64]]
      /\ counted \in [Kinds -> [Counters -> Nat]] /\ reported \in [Kinds -> [Counters -> Nat]]
      /\ <<k, j>> \in Connections /\ stats[<<k, j>>][y] \in Nat
  BY <1>0, ConnectionForm DEF StatsTypeOK, Word64
<1>3. \A m \in Kinds, x \in Counters :
        /\ counted'[m][x] = IF m = k /\ x = y THEN counted[m][x] + n ELSE counted[m][x]
        /\ counted[m][x] \in Nat /\ reported[m][x] \in Nat
  BY <1>2
<1>4. counted' \in [Kinds -> [Counters -> Nat]]
  BY <1>2
<1>5. stats' \in [Connections -> [Counters -> Word64]]
  <2>1. (stats[<<k, j>>][y] + n) % Word \in Word64
    BY <1>2, Division
  <2> QED
    BY <1>2, <2>1 DEF Add
<1>6. WalksInOrder'
  <2>1. "engine" \in Kinds /\ \A x \in Counters : counted["engine"][x] <= counted'["engine"][x]
    BY <1>3 DEF Kinds
  <2>2. \A x \in Counters : counted["engine"][x] \in Nat /\ counted'["engine"][x] \in Nat
                             /\ before["engine"][x] \in Nat
    BY <1>0, <1>2, <1>4, <2>1 DEF StatsTypeOK
  <2> QED
    BY <1>0, <2>1, <2>2 DEF WalksInOrder, walk
<1>7. Remembering'
  BY <1>0 DEF Remembering, walk
<1>8. \A m \in Kinds, x \in Counters : counted'[m][x] - reported'[m][x] < Word
  BY <1>0, <1>3 DEF Unwrapped, GrowsBy, walk
<1>9. TrafficIsReportedOnce'
  BY <1>0, <1>3 DEF TrafficIsReportedOnce, walk
<1> QED
  BY <1>1, <1>4, <1>5, <1>6, <1>7, <1>8, <1>9

(* Both steps of counting keep the invariant. *)
LEMMA CountBytesKeeps ==
    ASSUME StatsInv, NEW c \in Connections, NEW way \in {"sent", "received"},
           NEW n \in Sizes, CountBytes(c, way, n)
    PROVE  StatsInv'
<1> DEFINE k == c[1]
           j == c[2]
<1>0. StatsTypeOK /\ Unwrapped
  BY DEF StatsInv
<1>1. /\ c = <<k, j>> /\ k \in Kinds /\ j \in 1..Limit(k)
      /\ n \in Nat /\ Bytes(way) \in Counters /\ Messages(way) \in Counters
      /\ Bytes(way) # Messages(way)
  BY ConnectionForm, CounterFacts, StatisticsAssumption
<1>2. /\ k = "publisher" => j <= size
      /\ GrowsBy(k, Bytes(way), n) /\ GrowsBy(k, Messages(way), 1)
      /\ stats' = [stats EXCEPT ![<<k, j>>] = Add(@, Bytes(way), n)]
      /\ counted' = [counted EXCEPT ![k][Bytes(way)] = @ + n]
      /\ counting' = [counting EXCEPT ![k] = <<c, way>>]
      /\ UNCHANGED <<size, constructed, running, walk>>
  BY <1>1 DEF CountBytes
<1>3. /\ AllTrue' /\ WalksInOrder' /\ Remembering' /\ TrafficIsReportedOnce'
      /\ stats' \in [Connections -> [Counters -> Word64]]
      /\ counted' \in [Kinds -> [Counters -> Nat]]
      /\ \A m \in Kinds, x \in Counters : counted'[m][x] - reported'[m][x] < Word
  BY <1>1, <1>2, CountKeeps
<1>4. StatsTypeOK'
  BY <1>0, <1>1, <1>2, <1>3 DEF StatsTypeOK, walk
<1>5. ASSUME NEW m \in Kinds, counting'[m] # None
      PROVE  /\ counting'[m][1][1] = m
             /\ m = "publisher" => counting'[m][1][2] <= size'
             /\ GrowsBy(m, Messages(counting[m][2]), 1)'
  <2>1. CASE m = k
    <3>1. counting'[m] = <<c, way>> /\ counting'[m][1] = c /\ counting'[m][2] = way
      BY <1>0, <1>1, <1>2, <2>1 DEF StatsTypeOK
    <3>2. counted'[k][Messages(way)] = counted[k][Messages(way)]
      BY <1>0, <1>1, <1>2 DEF StatsTypeOK
    <3> QED
      BY <1>1, <1>2, <2>1, <3>1, <3>2 DEF GrowsBy, walk
  <2>2. CASE m # k
    <3>1. counting'[m] = counting[m] /\ counted'[m] = counted[m]
      BY <1>0, <1>1, <1>2, <2>2 DEF StatsTypeOK
    <3> QED
      BY <1>0, <1>2, <1>5, <3>1 DEF Unwrapped, GrowsBy, walk
  <2> QED
    BY <2>1, <2>2
<1>6. Unwrapped'
  BY <1>3, <1>5 DEF Unwrapped
<1> QED
  BY <1>3, <1>4, <1>6 DEF StatsInv

(* And so does the second. *)
LEMMA CountMessageKeeps ==
    ASSUME StatsInv, NEW k \in Kinds, CountMessage(k)
    PROVE  StatsInv'
<1> DEFINE c == counting[k][1]
           j == c[2]
           y == Messages(counting[k][2])
<1>0. StatsTypeOK /\ Unwrapped /\ counting[k] # None
  BY DEF StatsInv, CountMessage
<1>1. /\ c \in Connections /\ c = <<k, j>> /\ j \in 1..Limit(k) /\ y \in Counters
      /\ k = "publisher" => j <= size
      /\ GrowsBy(k, y, 1)
  <2>1. counting[k] \in Connections \X {"sent", "received"}
    BY <1>0 DEF StatsTypeOK
  <2>2. c[1] = k
    BY <1>0 DEF Unwrapped
  <2> QED
    BY <1>0, <2>1, <2>2, ConnectionForm, CounterFacts DEF Unwrapped
<1>2. /\ stats' = [stats EXCEPT ![<<k, j>>] = Add(@, y, 1)]
      /\ counted' = [counted EXCEPT ![k][y] = @ + 1]
      /\ counting' = [counting EXCEPT ![k] = None]
      /\ UNCHANGED <<size, constructed, running, walk>>
  BY <1>1 DEF CountMessage
<1> HIDE DEF c, j, y
<1>3. /\ AllTrue' /\ WalksInOrder' /\ Remembering' /\ TrafficIsReportedOnce'
      /\ stats' \in [Connections -> [Counters -> Word64]]
      /\ counted' \in [Kinds -> [Counters -> Nat]]
      /\ \A m \in Kinds, x \in Counters : counted'[m][x] - reported'[m][x] < Word
  BY <1>1, <1>2, CountKeeps
<1>4. StatsTypeOK'
  BY <1>0, <1>2, <1>3 DEF StatsTypeOK, walk
<1>5. ASSUME NEW m \in Kinds, counting'[m] # None
      PROVE  /\ counting'[m][1][1] = m
             /\ m = "publisher" => counting'[m][1][2] <= size'
             /\ GrowsBy(m, Messages(counting[m][2]), 1)'
  <2>1. m # k
    BY <1>0, <1>2, <1>5 DEF StatsTypeOK
  <2>2. counting'[m] = counting[m] /\ counted'[m] = counted[m]
    BY <1>0, <1>2, <2>1 DEF StatsTypeOK
  <2> QED
    BY <1>0, <1>2, <1>5, <2>2 DEF Unwrapped, GrowsBy, walk
<1>6. Unwrapped'
  BY <1>3, <1>5 DEF Unwrapped
<1> QED
  BY <1>3, <1>4, <1>6 DEF StatsInv

(* What is left as it is: everything the counting threads keep, but for    *)
(* publishers accepted.                                                    *)
LEMMA AcceptKeeps ==
    ASSUME StatsInv, UNCHANGED <<traffic, walk>>,
           \/ GrowPublishers \/ ConstructPublisher
           \/ size' = size /\ constructed' = constructed /\ running' \in BOOLEAN
    PROVE  StatsInv'
<1>0. /\ StatsTypeOK /\ AllTrue /\ WalksInOrder /\ Remembering /\ Unwrapped
      /\ TrafficIsReportedOnce
  BY DEF StatsInv
<1>1. /\ size' \in 0..MaxPublishers /\ constructed' \in 0..size' /\ size' >= size
      /\ running' \in BOOLEAN
  <2>1. size \in 0..MaxPublishers /\ constructed \in 0..size /\ running \in BOOLEAN
    BY <1>0 DEF StatsTypeOK
  <2> QED
    BY <2>1, StatisticsAssumption DEF GrowPublishers, ConstructPublisher
<1>2. size \in Nat /\ size' \in Nat
  BY <1>0, <1>1, StatisticsAssumption DEF StatsTypeOK
<1>3. AllTrue'
  BY <1>0, <1>1, <1>2, TrueStays DEF traffic
<1>4. StatsTypeOK'
  BY <1>0, <1>1 DEF StatsTypeOK, traffic, walk
<1>5. WalksInOrder'
  <2>1. upto \in Nat
    BY <1>0 DEF StatsTypeOK
  <2> QED
    BY <1>0, <1>1, <1>2, <2>1 DEF WalksInOrder, traffic, walk
<1>6. Unwrapped'
  <2>1. ASSUME NEW k \in Kinds, counting[k] # None, k = "publisher"
        PROVE  counting[k][1][2] <= size'
    <3>1. counting[k] \in Connections \X {"sent", "received"} /\ counting[k][1][1] = k
      BY <1>0, <2>1 DEF StatsTypeOK, Unwrapped
    <3>2. counting[k][1][2] \in 1..Limit(k) /\ Limit(k) \in Nat
      BY <3>1, ConnectionForm
    <3>3. counting[k][1][2] <= size
      BY <1>0, <2>1 DEF Unwrapped
    <3> QED
      BY <1>1, <1>2, <3>2, <3>3
  <2> QED
    BY <1>0, <2>1 DEF Unwrapped, GrowsBy, traffic, walk
<1> QED
  BY <1>0, <1>3, <1>4, <1>5, <1>6 DEF StatsInv, Remembering, TrafficIsReportedOnce, traffic,
                                      walk

(* A walk that begins is true: it has read nothing. *)
LEMMA WalkBegins ==
    ASSUME AllTrue, NEW k \in Kinds, UNCHANGED <<stats, counted, size>>, size \in Nat,
           printer' = k, at' = <<1, 1>>, upto' \in 0..Limit(k),
           k = "publisher" => upto' = size, k = "engine" => upto' = Limit(k),
           \A x \in Counters : sum'[k][x] = 0 /\ before'[k][x] = counted[k][x]
    PROVE  AllTrue'
<1> SUFFICES ASSUME NEW m \in Kinds, NEW x \in Counters PROVE CountsAreTrue(m, x)'
  BY DEF AllTrue
<1>1. PICK t \in [1..Limit(m) -> Nat], p \in [0..Limit(m) -> Nat] : TrueCounts(m, x, t, p)
  BY DEF AllTrue, CountsAreTrue
<1>2. TrueCounts(m, x, t, p)'
  BY <1>1 DEF TrueCounts
<1>3. ASSUME m = k PROVE Walking(m, x, t, p)'
  <2>1. ReadSoFar(x)' = 0
    BY CounterFacts DEF ReadSoFar
  <2>2. Limit(m) \in Nat
    BY ConnectionForm
  <2>3. p[0] = 0 /\ p[upto'] = before'[m][x]
    <3>1. upto' >= size \/ upto' = Limit(m)
      BY <1>3 DEF Kinds
    <3> QED
      BY <1>1, <1>3, <2>2, <3>1 DEF TrueCounts, Kinds
  <2>4. ASSUME NEW i \in 1..Limit(m) PROVE p[i] <= p[i - 1] + t[i]
    <3>1. p[i] = p[i - 1] + t[i]
      BY <1>1 DEF TrueCounts
    <3>2. i \in 0..Limit(m)
      BY <2>2
    <3>3. p[i] \in Nat
      BY <3>2
    <3> QED
      BY <3>1, <3>3
  <2>5. sum'[m][x] = 0 % Word
    BY <1>3, AddsModulo
  <2>6. WalkedSum(m, x, p, 0)'
    BY <1>3, <2>1, <2>2, <2>3, <2>5 DEF WalkedSum
  <2>7. 0 <= p[ReadSoFar(x)']
    BY <2>1, <2>3
  <2> QED
    BY <2>4, <2>6, <2>7 DEF Walking
<1> QED
  BY <1>2, <1>3 DEF CountsAreTrue

(* A walk over kind k that has come to its end has found at least what was *)
(* counted before it, and nothing else than what is counted.               *)
LEMMA WalkEnds ==
    ASSUME StatsInv, NEW k \in Kinds, printer = k, at[1] > upto, NEW x \in Counters
    PROVE  \E w \in Nat :
             before[k][x] <= w /\ w <= counted[k][x] /\ sum[k][x] = w % Word
<1>1. PICK t \in [1..Limit(k) -> Nat], p \in [0..Limit(k) -> Nat] :
        TrueCounts(k, x, t, p) /\ Walking(k, x, t, p)
  BY DEF StatsInv, AllTrue, CountsAreTrue
<1>2. PICK q \in [0..Limit(k) -> Nat], w \in Nat :
        WalkedSum(k, x, q, w) /\ w <= p[ReadSoFar(x)]
  BY <1>1 DEF Walking
<1>3. at[1] \in Nat /\ upto \in Nat
  BY DEF StatsInv, StatsTypeOK
<1>4. ReadSoFar(x) = upto
  BY <1>2, <1>3 DEF WalkedSum, ReadSoFar
<1>5. upto \in 0..Limit(k)
  <2>1. size \in Nat /\ size <= MaxPublishers
    BY StatisticsAssumption DEF StatsInv, StatsTypeOK
  <2> QED
    BY <1>3, <2>1, StatisticsAssumption DEF StatsInv, WalksInOrder, Limit, Kinds
<1>6. p[upto] <= counted[k][x] /\ p[upto] \in Nat /\ counted[k][x] \in Nat
  <2>1. p[upto] \in Nat
    BY <1>5
  <2>2. counted[k][x] \in Nat
    BY DEF StatsInv, StatsTypeOK
  <2> QED
    BY <1>1, <1>5, <2>1, <2>2 DEF TrueCounts
<1>7. before[k][x] <= w /\ w <= p[upto] /\ sum[k][x] = w % Word
  BY <1>2, <1>4 DEF WalkedSum
<1> QED
  BY <1>6, <1>7

(* A counter read once its element exists keeps the walk true. *)
LEMMA ReadKeepsTrue ==
    ASSUME StatsInv, NEW k \in Kinds, printer = k, at[1] <= upto, NEW j \in 1..4,
           at[2] = j, at' = NextAt,
           sum' = [sum EXCEPT ![k] = Add(@, CounterOrder[j], stats[<<k, at[1]>>][CounterOrder[j]])],
           UNCHANGED <<stats, counted, size, printer, upto, before>>
    PROVE  AllTrue' /\ at[1] \in 1..Limit(k)
<1>0. StatsTypeOK /\ AllTrue /\ WalksInOrder
  BY DEF StatsInv
<1>1. /\ at \in (Nat \ {0}) \X (1..4) /\ upto \in Nat /\ upto <= Limit(k) /\ Limit(k) \in Nat
      /\ sum \in [Kinds -> [Counters -> Word64]]
  <2>1. size \in Nat /\ size <= MaxPublishers
    BY <1>0, StatisticsAssumption DEF StatsTypeOK
  <2> QED
    BY <1>0, <2>1, CounterFacts, ConnectionForm, StatisticsAssumption
    DEF StatsTypeOK, WalksInOrder, Limit, Kinds
<1> DEFINE a == at[1]
           y == CounterOrder[j]
<1>2. a \in 1..Limit(k) /\ a \in 1..upto /\ a \in Nat
  BY <1>1
<1>3. y \in Counters /\ Position(y) = j
  BY CounterFacts
<1>4. at' = IF j = 4 THEN <<a + 1, 1>> ELSE <<a, j + 1>>
  BY CounterFacts DEF NextAt
<1>5. ASSUME NEW x \in Counters
      PROVE  /\ ReadSoFar(x) = IF Position(x) < j THEN a ELSE a - 1
             /\ ReadSoFar(x)' = IF Position(x) <= j THEN a ELSE a - 1
  <2>1. Position(x) \in 1..4
    BY CounterFacts
  <2>2. CASE j = 4
    <3>1. at'[1] = a + 1 /\ at'[2] = 1
      BY <1>4, <2>2
    <3> QED
      BY <1>2, <2>1, <2>2, <3>1 DEF ReadSoFar
  <2>3. CASE j # 4
    <3>1. at'[1] = a /\ at'[2] = j + 1
      BY <1>4, <2>3
    <3> QED
      BY <1>2, <2>1, <2>3, <3>1 DEF ReadSoFar
  <2> QED
    BY <2>2, <2>3
<1> HIDE DEF y
<1>6. SUFFICES ASSUME NEW m \in Kinds, NEW x \in Counters PROVE CountsAreTrue(m, x)'
  BY <1>2 DEF AllTrue
<1>7. PICK t \in [1..Limit(m) -> Nat], p \in [0..Limit(m) -> Nat] :
        TrueCounts(m, x, t, p) /\ (printer = m => Walking(m, x, t, p))
  BY <1>0 DEF AllTrue, CountsAreTrue
<1>8. TrueCounts(m, x, t, p)'
  BY <1>7 DEF TrueCounts
<1>9. ASSUME m = k PROVE Walking(m, x, t, p)'
  <2>1. PICK q \in [0..Limit(m) -> Nat], w \in Nat :
          /\ WalkedSum(m, x, q, w)
          /\ \A i \in 1..Limit(m) : q[i] <= q[i - 1] + t[i]
          /\ w <= p[ReadSoFar(x)]
    BY <1>7, <1>9 DEF Walking
  <2>2. CASE x # y
    <3>1. Position(x) \in 1..4 /\ Position(x) # j
      BY <1>3, <2>2, CounterFacts
    <3>2. ReadSoFar(x)' = ReadSoFar(x)
      BY <1>5, <3>1
    <3>3. sum'[m][x] = sum[m][x]
      BY <1>1, <1>3, <1>9, <2>2 DEF Add, y
    <3>4. WalkedSum(m, x, q, w)'
      BY <2>1, <3>2, <3>3 DEF WalkedSum
    <3> QED
      BY <2>1, <3>2, <3>4 DEF Walking
  <2>3. CASE x = y
    <3>1. ReadSoFar(x) = a - 1 /\ ReadSoFar(x)' = a
      BY <1>3, <1>5, <2>3
    <3>2. /\ a \in 1..Limit(m) /\ a - 1 \in 0..Limit(m) /\ a \in 0..Limit(m) /\ a \in 0..upto
      BY <1>1, <1>2, <1>9
    <3>3. /\ stats[<<m, a>>][x] = t[a] % Word /\ p[a] = p[a - 1] + t[a]
          /\ q[a] <= q[a - 1] + t[a] /\ q[a - 1] <= w /\ w <= p[a - 1]
          /\ sum[m][x] = w % Word
      BY <1>7, <2>1, <3>1, <3>2 DEF TrueCounts, WalkedSum
    <3>4. t[a] \in Nat /\ q[a] \in Nat /\ q[a - 1] \in Nat /\ p[a] \in Nat /\ p[a - 1] \in Nat
      BY <3>2
    <3>5. sum'[m][x] = (sum[m][x] + stats[<<m, a>>][x]) % Word
      BY <1>1, <1>3, <1>9, <2>3 DEF Add, y
    <3>6. sum'[m][x] = (w + t[a]) % Word
      BY <3>3, <3>4, <3>5, AddsModulo
    <3> HIDE DEF a
    <3>7. PICK v \in Nat : v = w + t[a] /\ q[a] <= v /\ v <= p[a]
      <4>1. PICK n \in Nat, u \in Nat, r \in Nat, g \in Nat, h \in Nat :
              n = t[a] /\ u = q[a - 1] /\ r = q[a] /\ g = p[a - 1] /\ h = p[a]
        BY <3>4
      <4>2. h = g + n /\ r <= u + n /\ u <= w /\ w <= g
        BY <3>3, <4>1
      <4>3. w + n \in Nat /\ r <= w + n /\ w + n <= h
        BY <4>2
      <4> QED
        BY <4>1, <4>3
    <3>8. q[0] = 0 /\ q[upto] = before[m][x]
      BY <2>1 DEF WalkedSum
    <3>9. WalkedSum(m, x, q, v)'
      BY <3>1, <3>2, <3>6, <3>7, <3>8 DEF WalkedSum
    <3> QED
      BY <2>1, <3>1, <3>7, <3>9 DEF Walking
  <2> QED
    BY <2>2, <2>3
<1> QED
  BY <1>7, <1>8, <1>9 DEF CountsAreTrue

(* The printing thread's steps keep the invariant: it wakes, ... *)
LEMMA WakeKeeps == ASSUME StatsInv, Wake PROVE StatsInv'
<1>0. /\ StatsTypeOK /\ AllTrue /\ WalksInOrder /\ Remembering /\ Unwrapped
      /\ TrafficIsReportedOnce
  BY DEF StatsInv
<1>1. /\ printer' = "engine" /\ at' = <<1, 1>> /\ upto' = EngineConnections
      /\ sum' = [k \in Kinds |-> Zeros]
      /\ before' = [before EXCEPT !["engine"] = counted["engine"]]
      /\ UNCHANGED <<size, constructed, previous, running, reported, stats, counting, counted>>
  BY DEF Wake, traffic
<1>2. /\ "engine" \in Kinds /\ "publisher" \in Kinds /\ Limit("engine") = EngineConnections
      /\ EngineConnections \in Nat /\ 0 \in Word64
      /\ \A x \in Counters : Zeros[x] = 0 /\ Zeros \in [Counters -> Word64]
  BY StatisticsAssumption DEF Kinds, Limit, Word64, Zeros
<1>3. StatsTypeOK'
  <2>1. /\ sum' \in [Kinds -> [Counters -> Word64]] /\ at' \in (Nat \ {0}) \X DOMAIN CounterOrder
    <3>1. Zeros \in [Counters -> Word64] /\ 1 \in DOMAIN CounterOrder
      BY <1>2, CounterFacts DEF Zeros
    <3> QED
      BY <1>1, <3>1
  <2> QED
    BY <1>0, <1>1, <1>2, <2>1 DEF StatsTypeOK, Kinds
<1>4. \A x \in Counters : before'["engine"][x] = counted["engine"][x]
  BY <1>0, <1>1, <1>2 DEF StatsTypeOK
<1>5. AllTrue'
  <2>1. size \in Nat
    BY <1>0, StatisticsAssumption DEF StatsTypeOK
  <2>2. \A x \in Counters : sum'["engine"][x] = 0
    BY <1>1, <1>2
  <2> QED
    BY <1>0, <1>1, <1>2, <1>4, <2>1, <2>2, WalkBegins
<1>6. WalksInOrder'
  BY <1>1, <1>2 DEF WalksInOrder
<1>7. Remembering'
  BY <1>0, <1>1, <1>2, <1>4 DEF Remembering, TrafficIsReportedOnce
<1>8. Unwrapped' /\ TrafficIsReportedOnce'
  BY <1>0, <1>1 DEF Unwrapped, TrafficIsReportedOnce, GrowsBy
<1> QED
  BY <1>3, <1>5, <1>6, <1>7, <1>8 DEF StatsInv

(* ... reads, ... *)
LEMMA ReadKeeps == ASSUME StatsInv, ReadCounter PROVE StatsInv'
<1>0. /\ StatsTypeOK /\ AllTrue /\ WalksInOrder /\ Remembering /\ Unwrapped
      /\ TrafficIsReportedOnce
  BY DEF StatsInv
<1>1. /\ printer \in Kinds /\ at[1] <= upto
      /\ UNCHANGED <<size, constructed, printer, upto, previous, before, reported, traffic>>
  BY <1>0 DEF ReadCounter, StatsTypeOK
<1>2. CASE UNCHANGED <<sum, at>> /\ running' = FALSE
  BY <1>1, <1>2, AcceptKeeps DEF walk
<1>3. ASSUME NEW k \in Kinds, NEW j \in 1..4, k = printer, j = at[2], at' = NextAt, running' = running,
             sum' = [sum EXCEPT ![k] = Add(@, CounterOrder[j], stats[<<k, at[1]>>][CounterOrder[j]])]
      PROVE  StatsInv'
  <2>1. AllTrue' /\ at[1] \in 1..Limit(k)
    BY <1>1, <1>3, ReadKeepsTrue DEF traffic
  <2>2. CounterOrder[j] \in Counters
    BY CounterFacts
  <2>3. /\ sum \in [Kinds -> [Counters -> Word64]] /\ stats[<<k, at[1]>>][CounterOrder[j]] \in Nat
        /\ sum[k][CounterOrder[j]] \in Nat
    BY <1>0, <2>1, <2>2, ConnectionForm DEF StatsTypeOK, Word64
  <2>4. /\ sum' \in [Kinds -> [Counters -> Word64]]
        /\ \A m \in Kinds, x \in Counters : m # k => sum'[m][x] = sum[m][x]
    <3>1. (sum[k][CounterOrder[j]] + stats[<<k, at[1]>>][CounterOrder[j]]) % Word \in Word64
      BY <2>3, Division
    <3> QED
      BY <1>3, <2>2, <2>3, <3>1 DEF Add
  <2>5. at' \in (Nat \ {0}) \X DOMAIN CounterOrder
    BY <1>0, <1>3, CounterFacts DEF StatsTypeOK, NextAt
  <2>6. StatsTypeOK'
    BY <1>0, <1>1, <1>3, <2>4, <2>5 DEF StatsTypeOK, traffic
  <2>7. WalksInOrder'
    <3>1. k = "engine" => \A x \in Counters : sum'["publisher"][x] = sum["publisher"][x]
      BY <2>4 DEF Kinds
    <3>2. k = "publisher" => \A x \in Counters : sum'["engine"][x] = sum["engine"][x]
      BY <2>4 DEF Kinds
    <3> QED
      BY <1>0, <1>1, <1>3, <3>1, <3>2 DEF WalksInOrder, traffic
  <2> QED
    BY <1>0, <1>1, <2>1, <2>6, <2>7
    DEF StatsInv, Remembering, Unwrapped, TrafficIsReportedOnce, GrowsBy, traffic
<1>4. at[2] \in 1..4
  BY <1>0, CounterFacts DEF StatsTypeOK
<1>5. CASE Constructed(<<printer, at[1]>>)
  <2>1. /\ sum' = [sum EXCEPT ![printer] =
                     Add(@, CounterOrder[at[2]], stats[<<printer, at[1]>>][CounterOrder[at[2]]])]
        /\ at' = NextAt /\ running' = running
    BY <1>5 DEF ReadCounter
  <2> QED
    BY <1>1, <1>3, <1>4, <2>1
<1>6. CASE ~Constructed(<<printer, at[1]>>)
  BY <1>2, <1>6 DEF ReadCounter
<1> QED
  BY <1>5, <1>6

(* ... turns to the publishers, ... *)
LEMMA WalkPublishersKeeps == ASSUME StatsInv, WalkPublishers PROVE StatsInv'
<1>0. /\ StatsTypeOK /\ AllTrue /\ WalksInOrder /\ Remembering /\ Unwrapped
      /\ TrafficIsReportedOnce
  BY DEF StatsInv
<1>1. /\ printer = "engine" /\ at[1] > upto
      /\ printer' = "publisher" /\ at' = <<1, 1>> /\ upto' = size
      /\ before' = [before EXCEPT !["publisher"] = counted["publisher"]]
      /\ UNCHANGED <<size, constructed, sum, previous, running, reported, stats, counting,
                     counted>>
  BY DEF WalkPublishers, traffic
<1>2. /\ "engine" \in Kinds /\ "publisher" \in Kinds /\ Limit("publisher") = MaxPublishers
      /\ MaxPublishers \in Nat /\ size \in 0..MaxPublishers /\ size \in Nat
  BY <1>0, StatisticsAssumption DEF Kinds, Limit, StatsTypeOK
<1>3. /\ \A x \in Counters : before'["publisher"][x] = counted["publisher"][x]
      /\ \A x \in Counters : before'["engine"][x] = before["engine"][x]
      /\ before' \in [Kinds -> [Counters -> Nat]]
  BY <1>0, <1>1, <1>2 DEF StatsTypeOK
<1>4. StatsTypeOK'
  <2>1. at' \in (Nat \ {0}) \X DOMAIN CounterOrder
    BY <1>1, CounterFacts
  <2> QED
    BY <1>0, <1>1, <1>2, <1>3, <2>1 DEF StatsTypeOK, Kinds
<1>5. AllTrue'
  <2>1. \A x \in Counters : sum'["publisher"][x] = 0
    BY <1>0, <1>1 DEF WalksInOrder
  <2> QED
    BY <1>0, <1>1, <1>2, <1>3, <2>1, WalkBegins
<1>6. WalksInOrder'
  <2>1. \A x \in Counters : \E w \in Nat :
          before["engine"][x] <= w /\ w <= counted["engine"][x] /\ sum["engine"][x] = w % Word
    BY <1>1, <1>2, WalkEnds
  <2> QED
    BY <1>1, <1>2, <1>3, <2>1 DEF WalksInOrder
<1>7. Remembering'
  BY <1>0, <1>1, <1>3 DEF Remembering, TrafficIsReportedOnce, Kinds
<1>8. Unwrapped' /\ TrafficIsReportedOnce'
  BY <1>0, <1>1 DEF Unwrapped, TrafficIsReportedOnce, GrowsBy
<1> QED
  BY <1>4, <1>5, <1>6, <1>7, <1>8 DEF StatsInv

(* ... and reports what it has found, which is all that had grown. *)
LEMMA ReportKeeps == ASSUME StatsInv, Report PROVE StatsInv'
<1>0. /\ StatsTypeOK /\ AllTrue /\ WalksInOrder /\ Remembering /\ Unwrapped
      /\ TrafficIsReportedOnce
  BY DEF StatsInv
<1>1. /\ printer = "publisher" /\ at[1] > upto
      /\ previous' = [k \in Kinds |-> Remembered(k)]
      /\ reported' = [k \in Kinds |-> [x \in Counters |-> reported[k][x] + Growth(k)[x]]]
      /\ printer' = "sleeping"
      /\ UNCHANGED <<size, constructed, at, upto, sum, running, before, stats, counting, counted>>
  BY DEF Report, traffic
<1>2. ASSUME NEW k \in Kinds, NEW x \in Counters
      PROVE  /\ reported'[k][x] \in Nat /\ previous'[k][x] \in Word64
             /\ previous'[k][x] = reported'[k][x] % Word
             /\ before[k][x] <= reported'[k][x] /\ reported'[k][x] <= counted[k][x]
             /\ reported[k][x] <= reported'[k][x]
  <2>1. PICK w \in Nat :
          before[k][x] <= w /\ w <= counted[k][x] /\ sum[k][x] = w % Word
    <3>1. CASE k = "engine"
      BY <1>0, <1>1, <3>1 DEF WalksInOrder
    <3>2. CASE k = "publisher"
      BY <1>1, <3>2, WalkEnds
    <3> QED
      BY <3>1, <3>2 DEF Kinds
  <2>2. /\ reported[k][x] \in Nat /\ counted[k][x] \in Nat /\ before[k][x] \in Nat
        /\ reported[k][x] <= before[k][x] /\ previous[k][x] = reported[k][x] % Word
        /\ counted[k][x] - reported[k][x] < Word
    BY <1>0, <1>1 DEF StatsTypeOK, Remembering, Unwrapped
  <2>3. Growth(k)[x] = w - reported[k][x]
    <3>1. Growth(k)[x] = ((w % Word) - (reported[k][x] % Word) + Word) % Word
      BY <2>1, <2>2 DEF Growth, MinusAssign
    <3>2. w - reported[k][x] < Word /\ reported[k][x] <= w
      BY <2>1, <2>2, StatisticsAssumption
    <3> QED
      BY <2>2, <3>1, <3>2, GrowthIsTrue
  <2>4. reported'[k][x] = w
    BY <1>1, <2>2, <2>3
  <2>5. previous'[k][x] = w % Word
    <3>1. previous'[k][x] = (previous[k][x] + Growth(k)[x]) % Word
      BY <1>1 DEF Remembered, Assign, Plus
    <3>2. w - reported[k][x] \in Nat /\ reported[k][x] + (w - reported[k][x]) = w
      BY <2>1, <2>2
    <3> QED
      BY <2>2, <2>3, <3>1, <3>2, AddsModulo
  <2> QED
    BY <2>1, <2>2, <2>4, <2>5, AddsModulo
<1>3. /\ previous' \in [Kinds -> [Counters -> Word64]]
      /\ reported' \in [Kinds -> [Counters -> Nat]]
  <2>1. \A k \in Kinds : reported'[k] = [x \in Counters |-> reported[k][x] + Growth(k)[x]]
    BY <1>1
  <2>2. \A k \in Kinds : reported'[k] \in [Counters -> Nat]
    BY <1>2, <2>1
  <2>3. \A k \in Kinds : previous'[k] = [x \in Counters |-> (previous[k][x] + Growth(k)[x]) % Word]
    BY <1>1 DEF Remembered, Assign, Plus
  <2>4. \A k \in Kinds : previous'[k] \in [Counters -> Word64]
    BY <1>2, <2>3
  <2> QED
    BY <1>1, <2>2, <2>4
<1>4. StatsTypeOK'
  BY <1>0, <1>1, <1>3 DEF StatsTypeOK
<1>5. AllTrue'
  <2> SUFFICES ASSUME NEW k \in Kinds, NEW x \in Counters PROVE CountsAreTrue(k, x)'
    BY DEF AllTrue
  <2>1. PICK t \in [1..Limit(k) -> Nat], p \in [0..Limit(k) -> Nat] : TrueCounts(k, x, t, p)
    BY <1>0 DEF AllTrue, CountsAreTrue
  <2>2. TrueCounts(k, x, t, p)'
    BY <1>1, <2>1 DEF TrueCounts
  <2>3. printer' # k
    BY <1>1 DEF Kinds
  <2> QED
    BY <2>2, <2>3 DEF CountsAreTrue
<1>6. WalksInOrder' /\ Remembering' /\ TrafficIsReportedOnce'
  BY <1>1, <1>2 DEF WalksInOrder, Remembering, TrafficIsReportedOnce, Kinds
<1>7. Unwrapped'
  <2>1. ASSUME NEW k \in Kinds, NEW x \in Counters
        PROVE  counted'[k][x] - reported'[k][x] <= counted[k][x] - reported[k][x]
    <3>1. counted[k][x] \in Nat /\ reported[k][x] \in Nat
      BY <1>0 DEF StatsTypeOK
    <3> QED
      BY <1>1, <1>2, <3>1
  <2>2. \A k \in Kinds, x \in Counters :
          counted[k][x] - reported[k][x] \in Int /\ counted'[k][x] - reported'[k][x] \in Int
    BY <1>0, <1>4 DEF StatsTypeOK
  <2>3. ASSUME NEW k \in Kinds, counting[k] # None
        PROVE  Messages(counting[k][2]) \in Counters
    BY CounterFacts
  <2> QED
    BY <1>0, <1>1, <2>1, <2>2, <2>3, StatisticsAssumption DEF Unwrapped, GrowsBy
<1> QED
  BY <1>4, <1>5, <1>6, <1>7 DEF StatsInv

----------------------------------------------------------------------------
(* The theorems. *)

(* The invariant holds from the start on. *)
LEMMA StatsInvariant == Spec => []StatsInv
<1>1. Init => StatsInv
  <2> SUFFICES ASSUME Init PROVE StatsInv
    OBVIOUS
  <2>0. /\ 0 \in Word64 /\ 0 % Word = 0 /\ Word > 0
        /\ \A x \in Counters : Zeros[x] = 0
        /\ Zeros \in [Counters -> Word64] /\ Zeros \in [Counters -> Nat]
    BY AddsModulo, StatisticsAssumption DEF Word64, Zeros
  <2>1. StatsTypeOK
    <3>1. <<1, 1>> \in (Nat \ {0}) \X DOMAIN CounterOrder
      BY CounterFacts
    <3>2. 0 \in 0..MaxPublishers /\ 0 \in 0..0
      BY StatisticsAssumption
    <3> QED
      BY <2>0, <3>1, <3>2 DEF Init, StatsTypeOK
  <2>2. AllTrue
    <3> SUFFICES ASSUME NEW k \in Kinds, NEW x \in Counters PROVE CountsAreTrue(k, x)
      BY DEF AllTrue
    <3> DEFINE t == [i \in 1..Limit(k) |-> 0]
               p == [i \in 0..Limit(k) |-> 0]
    <3>1. Limit(k) \in Nat /\ \A i \in 1..Limit(k) : <<k, i>> \in Connections
      BY ConnectionForm
    <3>2. t \in [1..Limit(k) -> Nat] /\ p \in [0..Limit(k) -> Nat]
      OBVIOUS
    <3>3. counted[k][x] = 0 /\ \A i \in 1..Limit(k) : stats[<<k, i>>][x] = 0
      BY <2>0, <3>1 DEF Init
    <3>4. \A i \in 1..Limit(k) : t[i] = 0 /\ p[i] = 0 /\ p[i - 1] = 0
      BY <3>1
    <3>5. p[0] = 0 /\ p[Limit(k)] = 0 /\ \A i \in 0..Limit(k) : p[i] = 0
      BY <3>1
    <3> HIDE DEF t, p
    <3>6. TrueCounts(k, x, t, p)
      BY <2>0, <3>3, <3>4, <3>5 DEF TrueCounts
    <3>7. printer # k
      BY DEF Init, Kinds
    <3> QED
      BY <3>2, <3>6, <3>7 DEF CountsAreTrue
  <2>3. WalksInOrder
    BY DEF Init, WalksInOrder
  <2>4. Remembering /\ TrafficIsReportedOnce
    BY <2>0 DEF Init, Remembering, TrafficIsReportedOnce, Kinds
  <2>5. Unwrapped
    BY <2>0 DEF Init, Unwrapped
  <2> QED
    BY <2>1, <2>2, <2>3, <2>4, <2>5 DEF StatsInv
<1>2. StatsInv /\ [Next]_vars => StatsInv'
  <2> SUFFICES ASSUME StatsInv, [Next]_vars PROVE StatsInv'
    OBVIOUS
  <2>1. CASE UNCHANGED vars
    <3>1. running \in BOOLEAN
      BY DEF StatsInv, StatsTypeOK
    <3> QED
      BY <2>1, <3>1, AcceptKeeps DEF vars, traffic, walk
  <2>2. CASE GrowPublishers \/ ConstructPublisher
    BY <2>2, AcceptKeeps DEF GrowPublishers, ConstructPublisher
  <2> QED
    BY <2>1, <2>2, CountBytesKeeps, CountMessageKeeps, WakeKeeps, ReadKeeps,
       WalkPublishersKeeps, ReportKeeps
    DEF Next
<1> QED
  BY <1>1, <1>2, PTL DEF Spec

(* The counters, the sums and what is remembered of them stay words, and   *)
(* what is counted and reported stays a number of bytes or messages.       *)
THEOREM StatsTypeCorrect == Spec => []StatsTypeOK
  BY StatsInvariant, PTL DEF StatsInv

(* What networkPrintThread reports adds up to what the network threads     *)
(* counted: each byte and message once, although it reads counters that    *)
(* grow and wrap, one by one, and connection_stats' = adds.                *)
THEOREM TrafficIsAlwaysReportedOnce == Spec => []TrafficIsReportedOnce
  BY StatsInvariant, PTL DEF StatsInv
=============================================================================
