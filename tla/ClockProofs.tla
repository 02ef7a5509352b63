----------------------------- MODULE ClockProofs -----------------------------
(***************************************************************************)
(* The sliding windows hold what they should for windows and integers of   *)
(* any width, and the estimates made from them are sound for any clocks    *)
(* within the range of the integers.                                       *)
(***************************************************************************)
EXTENDS ClockSync, FiniteSetTheorems, FunctionTheorems, SequenceTheorems,
        WellFoundedInduction, TLAPS

Occurrences(s, v) == {i \in DOMAIN s : s[i] = v}
Count(s, v) == Cardinality(Occurrences(s, v))

----------------------------------------------------------------------------
(* Counting the samples of a sequence. *)

(* The occurrences of a value are finitely many. *)
LEMMA CountType ==
    ASSUME NEW s \in Seq(Int64), NEW v
    PROVE  /\ IsFiniteSet(Occurrences(s, v)) /\ Count(s, v) \in Nat
           /\ Count(s, v) > 0 <=> \E i \in DOMAIN s : s[i] = v
<1>1. IsFiniteSet(1..Len(s))
  BY FS_Interval
<1>2. IsFiniteSet(Occurrences(s, v))
  <2>1. Occurrences(s, v) \subseteq 1..Len(s)
    BY DEF Occurrences
  <2> QED
    BY <1>1, <2>1, FS_Subset
<1>3. Count(s, v) \in Nat /\ (Count(s, v) = 0 <=> Occurrences(s, v) = {})
  BY <1>2, FS_CardinalityType, FS_EmptySet DEF Count
<1> QED
  BY <1>2, <1>3 DEF Occurrences

(* A sample appended is counted once more ... *)
LEMMA AppendCount ==
    ASSUME NEW s \in Seq(Int64), NEW x \in Int64, NEW v
    PROVE  Count(Append(s, x), v) = Count(s, v) + (IF v = x THEN 1 ELSE 0)
<1>1. IsFiniteSet(Occurrences(s, v)) /\ Count(s, v) \in Nat
  BY CountType
<1>2. CASE v = x
  <2>1. Occurrences(Append(s, x), v) = Occurrences(s, v) \cup {Len(s) + 1}
    BY <1>2 DEF Occurrences
  <2>2. Len(s) + 1 \notin Occurrences(s, v)
    BY DEF Occurrences
  <2> QED
    BY <1>1, <1>2, <2>1, <2>2, FS_AddElement DEF Count
<1>3. CASE v # x
  <2>1. Occurrences(Append(s, x), v) = Occurrences(s, v)
    BY <1>3 DEF Occurrences
  <2> QED
    BY <1>1, <1>3, <2>1 DEF Count
<1> QED
  BY <1>2, <1>3

(* ... and the oldest, once it has left, once less. *)
LEMMA TailCount ==
    ASSUME NEW s \in Seq(Int64), s # << >>, NEW v
    PROVE  Count(s, v) = Count(Tail(s), v) + (IF v = Head(s) THEN 1 ELSE 0)
<1> DEFINE T == Occurrences(Tail(s), v)
           U == Occurrences(s, v) \ {1}
           f == [i \in T |-> i + 1]
<1>0. /\ Tail(s) \in Seq(Int64) /\ Len(s) \in Nat \ {0} /\ Head(s) = s[1]
      /\ Len(Tail(s)) = Len(s) - 1 /\ DOMAIN s = 1..Len(s)
      /\ \A i \in 1..(Len(s) - 1) : Tail(s)[i] = s[i + 1]
      /\ DOMAIN Tail(s) = 1..(Len(s) - 1)
  OBVIOUS
<1>1. IsFiniteSet(T) /\ Count(Tail(s), v) \in Nat
  BY <1>0, CountType
<1>2. f \in Bijection(T, U)
  <2>1. \A i \in T : i \in Nat \ {0} /\ i + 1 \in U
    BY <1>0 DEF Occurrences
  <2>2. \A j \in U : j - 1 \in T /\ j \in Nat
    BY <1>0 DEF Occurrences
  <2>3. f \in [T -> U]
    BY <2>1
  <2>4. \A i, j \in T : f[i] = f[j] => i = j
    BY <2>1
  <2>5. \A j \in U : \E i \in T : f[i] = j
    <3> SUFFICES ASSUME NEW j \in U PROVE \E i \in T : f[i] = j
      OBVIOUS
    <3>1. j - 1 \in T /\ f[j - 1] = j
      BY <2>2
    <3> QED
      BY <3>1
  <2> QED
    BY <2>3, <2>4, <2>5, Fun_IsBij
<1>3. IsFiniteSet(U) /\ Cardinality(U) = Count(Tail(s), v)
  BY <1>1, <1>2, FS_Bijection DEF ExistsBijection, Count
<1>4. CASE v = Head(s)
  <2>1. Occurrences(s, v) = U \cup {1}
    BY <1>0, <1>4 DEF Occurrences
  <2>2. 1 \notin U
    OBVIOUS
  <2> HIDE DEF U
  <2>3. Cardinality(U \cup {1}) = Cardinality(U) + 1
    BY <1>3, <2>2, FS_AddElement
  <2> QED
    BY <1>1, <1>3, <1>4, <2>1, <2>3 DEF Count
<1>5. CASE v # Head(s)
  <2>1. Occurrences(s, v) = U
    BY <1>0, <1>5 DEF Occurrences
  <2> HIDE DEF U
  <2> QED
    BY <1>1, <1>3, <1>5, <2>1 DEF Count
<1> QED
  BY <1>4, <1>5

----------------------------------------------------------------------------
(* The order statistics tree. *)

(* A sample comes back from a uint64_t as it went. *)
LEMMA ThereAndBack ==
    ASSUME NEW i \in Int64
    PROVE  AsUint64(i) \in Uint64 /\ AsInt64(AsUint64(i)) = i
  BY WindowAssumption DEF AsUint64, AsInt64, Int64, Uint64, INT64_MAX

(* Every set of samples has a least one: the sets of what is less than one *)
(* of them are ordered by inclusion.                                       *)
LEMMA LeastOfSamples ==
    ASSUME NEW S \in SUBSET Int64, S # {}
    PROVE  First(S) \in S /\ \A u \in S : First(S) <= u
<1> DEFINE Below(x) == {w \in Int64 : w < x}
           T == {Below(v) : v \in S}
<1>1. Int64 \subseteq Int /\ IsFiniteSet(Int64)
  BY WindowAssumption, FS_Interval DEF Int64, INT64_MAX
<1>2. IsWellFoundedOn(StrictSubsetOrdering(Int64), SUBSET Int64)
  BY <1>1, FS_FiniteSubsetsOfFinite, FS_StrictSubsetOrderingWellFounded
<1>3. T \subseteq SUBSET Int64 /\ T # {}
  OBVIOUS
<1> HIDE DEF T
<1>4. PICK B \in T : \A C \in T : ~(<<C, B>> \in StrictSubsetOrdering(Int64))
  BY <1>2, <1>3, WFMin
<1>5. PICK v \in S : B = Below(v)
  BY <1>4 DEF T
<1>6. ASSUME NEW u \in S PROVE v <= u
  <2> SUFFICES ASSUME u < v PROVE FALSE
    BY <1>1
  <2>0. u \in Int /\ v \in Int /\ \A w \in Int64 : w \in Int
    BY <1>1
  <2>1. u \in Below(v) /\ u \notin Below(u)
    BY <2>0
  <2>3. \A w \in Int64 : w < u => w < v
    BY <2>0
  <2>4. Below(u) \subseteq Below(v)
    BY <2>3
  <2>2. <<Below(u), Below(v)>> \in StrictSubsetOrdering(Int64)
    BY <2>1, <2>4 DEF StrictSubsetOrdering
  <2>5. Below(u) \in T
    BY DEF T
  <2> QED
    BY <1>4, <1>5, <2>2, <2>5
<1> QED
  BY <1>6 DEF First

(* The tree that lists the samples of q, one of which is being removed,    *)
(* finds that sample: nothing else lies between it and itself.             *)
LEMMA OldestIsErased ==
    ASSUME NEW oms \in [Int64 -> Int], NEW oldest \in Int64, oms[oldest] > 0
    PROVE  Erased(oms, AsUint64(oldest)) = [oms EXCEPT ![oldest] = @ - 1]
<1> DEFINE found == UpperBound(oms, AsUint64(oldest))
<1>0. Int64 \subseteq Int
  BY WindowAssumption DEF Int64, INT64_MAX
<1>1. oldest \in found /\ found \subseteq Int64 /\ \A u \in found : oldest <= u
  BY <1>0, ThereAndBack DEF UpperBound
<1>2. First(found) \in found /\ \A u \in found : First(found) <= u
  BY <1>1, LeastOfSamples
<1>3. First(found) = oldest
  <2> HIDE DEF found
  <2>1. First(found) \in Int /\ oldest \in Int
    BY <1>0, <1>1, <1>2
  <2>2. First(found) <= oldest /\ oldest <= First(found)
    BY <1>1, <1>2
  <2> QED
    BY <2>1, <2>2
<1> QED
  BY <1>1, <1>3 DEF Erased

(* insert() keeps the list and the tree in agreement, and forgets nothing  *)
(* but the oldest sample.                                                  *)
LEMMA InsertAgrees ==
    ASSUME NEW w \in Windows, AgreeingWindow(w), NEW x \in Int64
    PROVE  /\ Insert(w, x) \in Windows /\ AgreeingWindow(Insert(w, x))
           /\ Insert(w, x).q # << >>
           /\ \A i \in DOMAIN Insert(w, x).q :
                \/ Insert(w, x).q[i] = x
                \/ \E j \in DOMAIN w.q : Insert(w, x).q[i] = w.q[j]
           /\ Insert(w, x).q = IF Len(w.q) = window_size THEN Tail(Append(w.q, x))
                               ELSE Append(w.q, x)
<1> DEFINE q == Append(w.q, x)
           oms == [w.oms EXCEPT ![x] = @ + 1]
<1>1. /\ w.q \in Seq(Int64) /\ w.oms \in [Int64 -> Int]
      /\ Len(w.q) \in Nat /\ Len(w.q) <= window_size /\ window_size \in Nat \ {0}
      /\ \A v \in Int64 : w.oms[v] = Count(w.q, v)
  BY WindowAssumption DEF Windows, AgreeingWindow, Count, Occurrences
<1>2. /\ q \in Seq(Int64) /\ Len(q) = Len(w.q) + 1 /\ oms \in [Int64 -> Int]
      /\ \A i \in DOMAIN q : q[i] = x \/ \E j \in DOMAIN w.q : q[i] = w.q[j]
  BY <1>1, WindowAssumption DEF Int64, INT64_MAX
<1>3. \A v \in Int64 : oms[v] = Count(q, v) /\ Count(q, v) \in Nat
  BY <1>1, <1>2, AppendCount, CountType
<1>0. Insert(w, x) = IF Len(q) > window_size
                     THEN [q |-> Tail(q), oms |-> Erased(oms, AsUint64(Head(q)))]
                     ELSE [q |-> q, oms |-> oms]
  BY DEF Insert
<1> HIDE DEF q, oms
<1>4. CASE Len(w.q) # window_size
  <2>1. Insert(w, x) = [q |-> q, oms |-> oms] /\ Len(q) <= window_size
    BY <1>0, <1>1, <1>2, <1>4
  <2>2. AgreeingWindow([q |-> q, oms |-> oms]) /\ [q |-> q, oms |-> oms] \in Windows
    BY <1>2, <1>3, <2>1 DEF AgreeingWindow, Windows, Count, Occurrences
  <2>3. q # << >>
    BY <1>1, <1>2
  <2> QED
    BY <1>2, <1>4, <2>1, <2>2, <2>3 DEF q
<1>5. CASE Len(w.q) = window_size
  <2>1. q # << >> /\ Head(q) \in Int64 /\ Tail(q) \in Seq(Int64)
        /\ Len(Tail(q)) = window_size /\ Head(q) = q[1] /\ 1 \in DOMAIN q
        /\ \A i \in DOMAIN Tail(q) : i + 1 \in DOMAIN q /\ Tail(q)[i] = q[i + 1]
    <3>1. q \in Seq(Int64) /\ Len(q) = window_size + 1 /\ window_size \in Nat \ {0}
      BY <1>1, <1>2, <1>5
    <3>2. q # << >> /\ 1 \in DOMAIN q
      BY <3>1
    <3>3. Head(q) = q[1] /\ Head(q) \in Int64
      BY <3>1, <3>2
    <3>4. Tail(q) \in Seq(Int64) /\ Len(Tail(q)) = window_size
      BY <3>1, <3>2
    <3>5. \A i \in DOMAIN Tail(q) : i + 1 \in DOMAIN q /\ Tail(q)[i] = q[i + 1]
      BY <3>1, <3>2
    <3> QED
      BY <3>2, <3>3, <3>4, <3>5
  <2>2. oms[Head(q)] > 0
    BY <1>2, <1>3, <2>1, CountType
  <2>3. PICK oldest \in Int64 : oldest = Head(q)
    BY <2>1
  <2> DEFINE rest == [oms EXCEPT ![oldest] = @ - 1]
             result == [q |-> Tail(q), oms |-> rest]
  <2>4. Insert(w, x) = result
    <3>1. Erased(oms, AsUint64(oldest)) = rest
      BY <1>2, <2>2, <2>3, OldestIsErased
    <3>2. Len(q) > window_size
      BY <1>1, <1>2, <1>5
    <3> QED
      BY <1>0, <2>3, <3>1, <3>2
  <2>5. rest \in [Int64 -> Int] /\ \A v \in Int64 : rest[v] = Count(Tail(q), v)
    <3>1. \A v \in Int64 : Count(q, v) = Count(Tail(q), v) + (IF v = oldest THEN 1 ELSE 0)
      BY <1>2, <2>1, <2>3, TailCount
    <3>2. \A v \in Int64 : Count(Tail(q), v) \in Nat
      BY <2>1, CountType
    <3>3. rest \in [Int64 -> Int]
      BY <1>2
    <3>4. \A v \in Int64 : rest[v] = oms[v] - (IF v = oldest THEN 1 ELSE 0)
      BY <1>2, <1>3
    <3> QED
      BY <1>3, <3>1, <3>2, <3>3, <3>4
  <2> HIDE DEF rest
  <2>6. result \in Windows /\ AgreeingWindow(result)
    <3>1. result.q = Tail(q) /\ result.oms = rest
      OBVIOUS
    <3>2. result \in Windows
      BY <2>1, <2>5 DEF Windows
    <3>3. \A v \in Int64 :
            result.oms[v] = Cardinality({i \in DOMAIN result.q : result.q[i] = v})
      BY <2>5, <3>1 DEF Count, Occurrences
    <3>4. Len(result.q) <= window_size
      BY <1>1, <2>1, <3>1
    <3> QED
      BY <3>2, <3>3, <3>4 DEF AgreeingWindow
  <2>7. Tail(q) # << >>
    BY <1>1, <2>1
  <2>8. \A i \in DOMAIN Tail(q) : Tail(q)[i] = x \/ \E j \in DOMAIN w.q : Tail(q)[i] = w.q[j]
    BY <1>2, <2>1
  <2> QED
    BY <1>5, <2>4, <2>6, <2>7, <2>8 DEF q
<1> QED
  BY <1>4, <1>5

(* get_min() is one of the samples, and none is less. *)
LEMMA MinimumOfWindow ==
    ASSUME NEW w \in Windows, AgreeingWindow(w), w.q # << >>
    PROVE  /\ GetMin(w) \in Int64
           /\ \E i \in DOMAIN w.q : w.q[i] = GetMin(w)
           /\ \A i \in DOMAIN w.q : GetMin(w) <= w.q[i]
<1> DEFINE S == {v \in Int64 : w.oms[v] > 0}
<1>1. w.q \in Seq(Int64)
  BY DEF Windows
<1>2. \A v \in Int64 : v \in S <=> \E i \in DOMAIN w.q : w.q[i] = v
  <2>1. \A v \in Int64 : w.oms[v] = Count(w.q, v)
    BY DEF AgreeingWindow, Count, Occurrences
  <2> QED
    BY <1>1, <2>1, CountType
<1>3. \A i \in DOMAIN w.q : w.q[i] \in S
  BY <1>1, <1>2
<1>4. S # {} /\ S \in SUBSET Int64
  BY <1>1, <1>3
<1>5. First(S) \in S /\ \A u \in S : First(S) <= u
  BY <1>4, LeastOfSamples
<1> QED
  BY <1>2, <1>3, <1>5 DEF GetMin

----------------------------------------------------------------------------
(* What the estimates rest on. *)

(* How far the clock of x is ahead of its peer's. *)
Ahead(x) == offset[x] - offset[Peer(x)]

(* A message is stamped before it arrives and a pre-header read before its *)
(* header.                                                                 *)
Causal ==
    \A x \in Ends :
      /\ \A i \in DOMAIN wire[x] : wire[x][i].stamp <= Now(Peer(x))
      /\ rx_begin[x] <= MaxTime + MaxOffset
      /\ reading[x] => wire[x] # << >> /\ rx_begin[x] - Head(wire[x]).stamp >= Ahead(x)

(* No message has been seen to take less than no time: the samples of each *)
(* window, and what is on its way to one, are as far from zero as the      *)
(* clocks are apart.                                                       *)
Bounded ==
    \A x \in Ends :
      /\ \A i \in DOMAIN local_tracker[x].q : local_tracker[x].q[i] >= Ahead(x)
      /\ \A i \in DOMAIN remote_tracker[x].q : remote_tracker[x].q[i] >= Ahead(Peer(x))
      /\ \A i \in DOMAIN wire[x] : AsInt64(wire[x][i].local_delta) >= Ahead(Peer(x))
      /\ local_delta[x] >= Ahead(x)
      /\ remote_delta[x] >= Ahead(Peer(x))

(* The window of an end's own differences holds the last that it has seen. *)
WindowIsRecent ==
    \A x \in Ends :
      /\ local_tracker[x].q = Recent(samples[x])
      /\ samples[x] # << >> => local_delta[x] = GetMin(local_tracker[x])

ClockInv == ClockTypeOK /\ WindowsAgree /\ Causal /\ Bounded /\ WindowIsRecent

(* The ranges of the clocks. *)
LEMMA ClockRanges ==
    ASSUME ClockTypeOK, NEW x \in Ends
    PROVE  /\ Peer(x) \in Ends /\ Peer(Peer(x)) = x /\ Peer(x) # x
           /\ MaxTime \in Nat /\ MaxOffset \in Nat /\ INT64_MAX \in Nat
           /\ 2 * (MaxTime + MaxOffset) < INT64_MAX
           /\ offset[x] \in Nat /\ offset[x] <= MaxOffset /\ time \in Nat
           /\ Now(x) \in Nat /\ Now(x) <= MaxTime + MaxOffset /\ Now(x) \in Uint64
           /\ Now(x) = time + offset[x]
           /\ Ahead(x) \in Int /\ Ahead(x) <= INT64_MAX /\ Ahead(Peer(x)) = -Ahead(x)
           /\ Ahead(x) = offset[x] - offset[Peer(x)]
<1>1. /\ MaxTime \in Nat /\ MaxOffset \in Nat /\ Half \in Nat \ {0}
      /\ 2 * (MaxTime + MaxOffset) < INT64_MAX /\ INT64_MAX = Half - 1
  BY ClockAssumption, WindowAssumption DEF INT64_MAX
<1>2. Peer(x) \in Ends /\ Peer(Peer(x)) = x /\ Peer(x) # x
  BY DEF Ends, Peer
<1>3. /\ offset[x] \in Nat /\ offset[x] <= MaxOffset
      /\ offset[Peer(x)] \in Nat /\ offset[Peer(x)] <= MaxOffset
      /\ time \in Nat /\ time <= MaxTime
  BY <1>1, <1>2 DEF ClockTypeOK
<1>4. Ahead(Peer(x)) = -Ahead(x) /\ Ahead(x) = offset[x] - offset[Peer(x)]
  BY <1>2, <1>3 DEF Ahead
<1> QED
  BY <1>1, <1>2, <1>3, <1>4 DEF Now, Uint64

(* The difference of two times of day comes out as it is. *)
LEMMA DifferenceFits ==
    ASSUME NEW a \in Uint64, NEW b \in Uint64,
           a <= MaxTime + MaxOffset, b <= MaxTime + MaxOffset
    PROVE  AsInt64(Minus64(a, b)) \in Int64 /\ AsInt64(Minus64(a, b)) = a - b
<1>1. /\ MaxTime \in Nat /\ MaxOffset \in Nat /\ Half \in Nat \ {0}
      /\ 2 * (MaxTime + MaxOffset) < Half - 1
  BY ClockAssumption, WindowAssumption DEF INT64_MAX
<1>2. a \in Nat /\ b \in Nat
  BY <1>1 DEF Uint64
<1> QED
  BY <1>1, <1>2 DEF AsInt64, Minus64, Int64, INT64_MAX

(* A sample no less than a bound leaves the window, and its minimum, no    *)
(* less than it.                                                           *)
LEMMA InsertBounded ==
    ASSUME NEW w \in Windows, AgreeingWindow(w), NEW x \in Int64, NEW b \in Int,
           \A i \in DOMAIN w.q : w.q[i] >= b, x >= b
    PROVE  /\ Insert(w, x) \in Windows /\ AgreeingWindow(Insert(w, x))
           /\ \A i \in DOMAIN Insert(w, x).q : Insert(w, x).q[i] >= b
           /\ GetMin(Insert(w, x)) \in Int64 /\ GetMin(Insert(w, x)) >= b
<1> DEFINE v == Insert(w, x)
<1>1. v \in Windows /\ AgreeingWindow(v) /\ v.q # << >>
  BY InsertAgrees
<1>2. \A i \in DOMAIN v.q : v.q[i] = x \/ \E j \in DOMAIN w.q : v.q[i] = w.q[j]
  BY InsertAgrees
<1> HIDE DEF v
<1>3. \A i \in DOMAIN v.q : v.q[i] >= b
  BY <1>2
<1>4. GetMin(v) \in Int64 /\ \E i \in DOMAIN v.q : v.q[i] = GetMin(v)
  BY <1>1, MinimumOfWindow
<1> QED
  BY <1>1, <1>3, <1>4 DEF v

(* The last samples, once there is one more. *)
LEMMA RecentAppend ==
    ASSUME NEW s \in Seq(Int64), NEW x \in Int64
    PROVE  Recent(Append(s, x)) =
             IF Len(Recent(s)) = window_size THEN Tail(Append(Recent(s), x))
             ELSE Append(Recent(s), x)
<1> DEFINE n == Len(s)
<1>0. window_size \in Nat \ {0} /\ n \in Nat /\ Append(s, x) \in Seq(Int64)
        /\ Len(Append(s, x)) = n + 1 /\ DOMAIN s = 1..n
        /\ \A i \in 1..n : Append(s, x)[i] = s[i]
        /\ Append(s, x)[n + 1] = x
  BY WindowAssumption
<1>1. CASE n < window_size
  <2>1. Recent(s) = s /\ Len(Recent(s)) # window_size
    <3>0. ~(Len(s) > window_size)
      BY <1>0, <1>1
    <3>1. Recent(s) = SubSeq(s, 1, Len(s))
      BY <3>0, Zenon DEF Recent
    <3>2. SubSeq(s, 1, Len(s)) = s
      BY SubSeqFull
    <3>3. Recent(s) = s
      BY <3>1, <3>2
    <3>4. Len(s) # window_size
      <4>1. n \in Nat /\ window_size \in Nat
        BY <1>0
      <4> QED
        BY <1>1, <4>1
    <3> QED
      BY <3>3, <3>4, Zenon
  <2>2. Recent(Append(s, x)) = Append(s, x)
    <3>1. Recent(Append(s, x)) = SubSeq(Append(s, x), 1, Len(Append(s, x)))
      BY <1>0, <1>1 DEF Recent
    <3> QED
      BY <1>0, <3>1, SubSeqFull
  <2> QED
    BY <2>1, <2>2
<1>2. CASE n >= window_size
  <2> DEFINE m == n - window_size
             r == Recent(s)
             t == Tail(Append(r, x))
             u == Recent(Append(s, x))
  <2>1. /\ r \in Seq(Int64) /\ Len(r) = window_size
        /\ \A i \in 1..window_size : r[i] = s[m + i]
    BY <1>0, <1>2 DEF Recent
  <2>2. /\ u \in Seq(Int64) /\ Len(u) = window_size
        /\ \A i \in 1..window_size : u[i] = Append(s, x)[m + 1 + i]
    BY <1>0, <1>2 DEF Recent
  <2> HIDE DEF r, u
  <2>3. /\ t \in Seq(Int64) /\ Len(t) = window_size
        /\ \A i \in 1..window_size : t[i] = Append(r, x)[i + 1]
    BY <1>0, <2>1, SMTT(30)
  <2>4. \A i \in 1..window_size : t[i] = u[i]
    <3> SUFFICES ASSUME NEW i \in 1..window_size PROVE t[i] = u[i]
      OBVIOUS
    <3>1. t[i] = Append(r, x)[i + 1] /\ u[i] = Append(s, x)[m + 1 + i]
      BY <2>2, <2>3
    <3>2. CASE i = window_size
      BY <1>0, <1>2, <2>1, <3>1, <3>2
    <3>3. CASE i # window_size
      <4>1. i + 1 \in 1..window_size /\ m + 1 + i \in 1..n
        BY <1>0, <1>2, <3>3
      <4>2. Append(r, x)[i + 1] = r[i + 1]
        BY <2>1, <4>1
      <4> QED
        BY <1>0, <2>1, <3>1, <4>1, <4>2
    <3> QED
      BY <3>2, <3>3
  <2> HIDE DEF t
  <2>5. t = u
    BY <2>2, <2>3, <2>4, SeqEqual
  <2> QED
    BY <2>1, <2>5 DEF r, t, u
<1> QED
  BY <1>0, <1>1, <1>2

----------------------------------------------------------------------------
(* The invariant is inductive. *)

(* The constructors: both windows empty, both minima INT64_MAX.            *)
LEMMA InitClock == Init => ClockInv
<1> SUFFICES ASSUME Init PROVE ClockInv
  OBVIOUS
<1>1. /\ window_size \in Nat \ {0} /\ INT64_MAX \in Int64 /\ Half \in Nat \ {0}
      /\ MaxTime \in Nat /\ MaxOffset \in Nat /\ MaxMessages \in Nat
  BY WindowAssumption, ClockAssumption DEF Int64, INT64_MAX
<1>2. EmptyWindow \in Windows /\ EmptyWindow.q = << >> /\ EmptyWindow.oms = [v \in Int64 |-> 0]
  BY DEF EmptyWindow, Windows
<1>3. ClockTypeOK
  BY <1>1, <1>2 DEF Init, ClockTypeOK, Uint64
<1>4. AgreeingWindow(EmptyWindow)
  <2>1. \A v \in Int64 : {i \in DOMAIN EmptyWindow.q : EmptyWindow.q[i] = v} = {}
    BY <1>2
  <2> QED
    BY <1>1, <1>2, <2>1, FS_EmptySet DEF AgreeingWindow
<1>5. WindowsAgree
  BY <1>4 DEF Init, WindowsAgree
<1>6. Causal
  BY <1>1 DEF Init, Causal
<1>7. Bounded
  <2>1. \A x \in Ends : Ahead(x) <= INT64_MAX /\ Ahead(Peer(x)) <= INT64_MAX /\ Peer(x) \in Ends
    BY <1>3, ClockRanges
  <2>2. \A x \in Ends : Ahead(x) \in Int /\ Ahead(Peer(x)) \in Int
    BY <1>3, ClockRanges
  <2>3. \A x \in Ends : INT64_MAX >= Ahead(x) /\ INT64_MAX >= Ahead(Peer(x))
    BY <1>1, <1>3, <2>1, <2>2, ClockRanges
  <2> QED
    BY <1>2, <2>3 DEF Init, Bounded
<1>8. Recent(<< >>) = << >>
  BY <1>1, SubSeqFull DEF Recent
<1>9. WindowIsRecent
  BY <1>2, <1>8 DEF Init, WindowIsRecent
<1> QED
  BY <1>3, <1>5, <1>6, <1>7, <1>9 DEF ClockInv

(* The clocks run on. *)
LEMMA TickClock == ClockInv /\ Tick => ClockInv'
<1> SUFFICES ASSUME ClockInv, Tick PROVE ClockInv'
  OBVIOUS
<1> USE DEF ClockInv
<1>1. ClockTypeOK'
  BY ClockAssumption DEF Tick, ClockTypeOK
<1>2. \A x \in Ends : Ahead(x)' = Ahead(x) /\ Ahead(Peer(x))' = Ahead(Peer(x))
  BY DEF Tick, Ahead
<1>3. Causal'
  <2>1. \A x \in Ends : Now(Peer(x)) \in Nat /\ Now(Peer(x))' \in Nat
                        /\ Now(Peer(x)) <= Now(Peer(x))'
    <3> SUFFICES ASSUME NEW x \in Ends
                 PROVE  Now(Peer(x)) \in Nat /\ Now(Peer(x))' \in Nat
                        /\ Now(Peer(x)) <= Now(Peer(x))'
      OBVIOUS
    <3>1. Now(Peer(x)) = time + offset[Peer(x)] /\ Now(Peer(x))' = time + 1 + offset[Peer(x)]
      BY DEF Tick, Now
    <3>2. Peer(x) \in Ends
      BY ClockRanges
    <3>3. time \in Nat /\ offset[Peer(x)] \in Nat
      BY <3>2, ClockRanges
    <3> QED
      BY <3>1, <3>3
  <2>2. \A x \in Ends : \A i \in DOMAIN wire[x] : wire[x][i].stamp \in Int
    <3>1. \A m \in PreHeaders : m.stamp \in Int
      BY WindowAssumption DEF PreHeaders, Uint64
    <3> QED
      BY <3>1 DEF ClockTypeOK
  <2>3. /\ UNCHANGED <<wire, rx_begin, reading>>
        /\ \A x \in Ends : \A i \in DOMAIN wire[x] : wire[x][i].stamp <= Now(Peer(x))
    BY DEF Tick, Causal
  <2>4. \A x \in Ends : \A i \in DOMAIN wire'[x] : wire'[x][i].stamp <= Now(Peer(x))'
    BY <2>1, <2>2, <2>3
  <2> QED
    BY <1>2, <2>3, <2>4 DEF Causal
<1>4. WindowsAgree' /\ Bounded' /\ WindowIsRecent'
  BY <1>2 DEF Tick, WindowsAgree, Bounded, WindowIsRecent
<1> QED
  BY <1>1, <1>3, <1>4

(* handle_pre_read() notes when the pre-header arrived. *)
LEMMA HandlePreReadClock ==
    ASSUME ClockInv, NEW x \in Ends, HandlePreRead(x)
    PROVE  ClockInv'
<1> USE DEF ClockInv
<1>1. Now(x) \in Uint64 /\ Now(x) <= MaxTime + MaxOffset
  BY ClockRanges
<1>2. ClockTypeOK'
  BY <1>1 DEF HandlePreRead, ClockTypeOK
<1>3. Causal'
  <2> SUFFICES ASSUME NEW y \in Ends
               PROVE  /\ \A i \in DOMAIN wire'[y] : wire'[y][i].stamp <= Now(Peer(y))'
                      /\ rx_begin'[y] <= MaxTime + MaxOffset
                      /\ reading'[y] => /\ wire'[y] # << >>
                                        /\ rx_begin'[y] - Head(wire'[y]).stamp >= Ahead(y)'
    BY DEF Causal
  <2>1. CASE y # x
    BY <2>1 DEF HandlePreRead, Causal, Now, Ahead, ClockTypeOK
  <2>2. CASE y = x
    <3>1. rx_begin'[x] = Now(x) /\ wire' = wire /\ Ahead(x)' = Ahead(x)
            /\ Now(Peer(x))' = Now(Peer(x)) /\ wire[x] # << >>
      BY DEF HandlePreRead, Now, Ahead, ClockTypeOK
    <3>2. wire[x] \in Seq(PreHeaders)
      BY DEF ClockTypeOK
    <3>3. Head(wire[x]).stamp <= Now(Peer(x)) /\ Head(wire[x]).stamp \in Int
      <4>1. 1 \in DOMAIN wire[x] /\ Head(wire[x]) = wire[x][1] /\ wire[x][1] \in PreHeaders
        BY <3>1, <3>2
      <4> QED
        BY <4>1, WindowAssumption DEF Causal, PreHeaders, Uint64
    <3>4. Now(x) - Now(Peer(x)) = Ahead(x) /\ Now(x) \in Int /\ Now(Peer(x)) \in Int
            /\ Ahead(x) \in Int
      BY ClockRanges
    <3>5. Now(x) - Head(wire[x]).stamp >= Ahead(x)
      BY <3>3, <3>4
    <3> QED
      BY <1>1, <2>2, <3>1, <3>5 DEF Causal
  <2> QED
    BY <2>1, <2>2
<1>4. WindowsAgree' /\ Bounded' /\ WindowIsRecent'
  BY DEF HandlePreRead, WindowsAgree, Bounded, WindowIsRecent, Ahead
<1> QED
  BY <1>2, <1>3, <1>4

(* start_send() stamps a message and tells the peer local_delta_. *)
LEMMA StartSendClock ==
    ASSUME ClockInv, NEW x \in Ends, StartSend(x)
    PROVE  ClockInv'
<1> DEFINE y == Peer(x)
           m == PreHeader(x)
<1> USE DEF ClockInv
<1>1. y \in Ends /\ Peer(y) = x /\ Now(x) \in Uint64 /\ Now(x) \in Nat
        /\ local_delta[x] \in Int64
  BY ClockRanges DEF ClockTypeOK
<1>2. /\ m \in PreHeaders /\ m.stamp = Now(x) /\ AsInt64(m.local_delta) = local_delta[x]
  BY <1>1, ThereAndBack DEF PreHeader, PreHeaders
<1>3. \A z \in Ends : wire[z] \in Seq(PreHeaders)
  BY DEF ClockTypeOK
<1> HIDE DEF m
<1>4. /\ \A z \in Ends : z # y => wire'[z] = wire[z]
      /\ wire'[y] = Append(wire[y], m)
      /\ UNCHANGED <<time, offset, reading, rx_begin, local_tracker, remote_tracker,
                     local_delta, remote_delta, samples>>
  BY <1>1 DEF StartSend, ClockTypeOK, m
<1> HIDE DEF y
<1>5. ClockTypeOK'
  <2>1. wire' \in [Ends -> Seq(PreHeaders)]
    BY <1>1, <1>2, <1>3, <1>4 DEF StartSend, ClockTypeOK
  <2>2. sent' \in [Ends -> 0..MaxMessages]
    BY ClockAssumption DEF StartSend, ClockTypeOK
  <2> QED
    BY <1>4, <2>1, <2>2 DEF ClockTypeOK
<1>6. \A z \in Ends : \A i \in DOMAIN wire'[z] :
        \/ i \in DOMAIN wire[z] /\ wire'[z][i] = wire[z][i]
        \/ z = y /\ wire'[z][i] = m
  <2> SUFFICES ASSUME NEW z \in Ends, NEW i \in DOMAIN wire'[z]
               PROVE  \/ i \in DOMAIN wire[z] /\ wire'[z][i] = wire[z][i]
                      \/ z = y /\ wire'[z][i] = m
    OBVIOUS
  <2>1. CASE z # y
    BY <1>4, <2>1
  <2>2. CASE z = y
    <3>1. wire'[z] = Append(wire[z], m) /\ wire[z] \in Seq(PreHeaders)
      BY <1>3, <1>4, <2>2
    <3>2. i \in 1..(Len(wire[z]) + 1) /\ Len(wire[z]) \in Nat
      BY <1>2, <3>1
    <3>3. CASE i = Len(wire[z]) + 1
      BY <1>2, <2>2, <3>1, <3>3
    <3>4. CASE i # Len(wire[z]) + 1
      BY <1>2, <3>1, <3>2, <3>4
    <3> QED
      BY <3>3, <3>4
  <2> QED
    BY <2>1, <2>2
<1>7. \A z \in Ends : wire[z] # << >> => wire'[z] # << >> /\ Head(wire'[z]) = Head(wire[z])
  <2> SUFFICES ASSUME NEW z \in Ends, wire[z] # << >>
               PROVE  wire'[z] # << >> /\ Head(wire'[z]) = Head(wire[z])
    OBVIOUS
  <2>1. CASE z # y
    BY <1>4, <2>1
  <2>2. CASE z = y
    <3>1. wire'[z] = Append(wire[z], m) /\ wire[z] \in Seq(PreHeaders)
      BY <1>3, <1>4, <2>2
    <3> QED
      BY <1>2, <3>1
  <2> QED
    BY <2>1, <2>2
<1>8. \A z \in Ends : Ahead(z)' = Ahead(z) /\ Ahead(Peer(z))' = Ahead(Peer(z))
                      /\ Now(Peer(z))' = Now(Peer(z))
  BY <1>4 DEF Ahead, Now
<1>9. Causal'
  <2>1. \A z \in Ends : \A i \in DOMAIN wire'[z] : wire'[z][i].stamp <= Now(Peer(z))
    BY <1>1, <1>2, <1>6 DEF Causal
  <2> QED
    BY <1>4, <1>7, <1>8, <2>1 DEF Causal
<1>10. Bounded'
  <2>1. local_delta[x] >= Ahead(Peer(y))
    BY <1>1 DEF Bounded
  <2>2. \A z \in Ends : \A i \in DOMAIN wire'[z] :
          AsInt64(wire'[z][i].local_delta) >= Ahead(Peer(z))
    BY <1>2, <1>6, <2>1 DEF Bounded
  <2> QED
    BY <1>4, <1>8, <2>2 DEF Bounded
<1>11. WindowsAgree' /\ WindowIsRecent'
  BY <1>4 DEF WindowsAgree, WindowIsRecent
<1> QED
  BY <1>5, <1>9, <1>10, <1>11

(* What the end that handles a header puts into its windows. *)
LEMMA HeaderSamples ==
    ASSUME ClockInv, NEW x \in Ends, reading[x]
    PROVE  LET remote == AsInt64(Head(wire[x]).local_delta) IN
           /\ Delta(x) \in Int64 /\ Delta(x) >= Ahead(x)
           /\ remote \in Int64 /\ remote >= Ahead(Peer(x))
           /\ wire[x] \in Seq(PreHeaders) /\ wire[x] # << >>
<1> USE DEF ClockInv
<1>1. wire[x] \in Seq(PreHeaders) /\ wire[x] # << >>
  BY DEF ClockTypeOK, Causal
<1>2. 1 \in DOMAIN wire[x] /\ Head(wire[x]) = wire[x][1] /\ Head(wire[x]) \in PreHeaders
  BY <1>1
<1> DEFINE h == Head(wire[x])
<1>3. /\ h.stamp \in Uint64 /\ h.local_delta \in Uint64
      /\ h.stamp <= Now(Peer(x)) /\ AsInt64(h.local_delta) >= Ahead(Peer(x))
      /\ rx_begin[x] \in Uint64 /\ rx_begin[x] <= MaxTime + MaxOffset
      /\ rx_begin[x] - h.stamp >= Ahead(x)
  BY <1>2 DEF PreHeaders, Causal, Bounded, ClockTypeOK
<1>4. h.stamp <= MaxTime + MaxOffset
  <2>1. Now(Peer(x)) <= MaxTime + MaxOffset /\ Now(Peer(x)) \in Nat
          /\ MaxTime \in Nat /\ MaxOffset \in Nat
    BY ClockRanges
  <2>2. h.stamp \in Nat
    BY <1>3, WindowAssumption DEF Uint64
  <2> QED
    BY <1>3, <2>1, <2>2
<1>5. AsInt64(h.local_delta) \in Int64
  BY <1>3, WindowAssumption DEF AsInt64, Int64, Uint64, INT64_MAX
<1>6. Delta(x) \in Int64 /\ Delta(x) >= Ahead(x)
  BY <1>3, <1>4, DifferenceFits DEF Delta
<1> QED
  BY <1>1, <1>3, <1>5, <1>6

(* handle_header_read() puts both differences into their windows. *)
LEMMA HandleHeaderReadClock ==
    ASSUME ClockInv, NEW x \in Ends, HandleHeaderRead(x)
    PROVE  ClockInv'
<1> DEFINE d == Delta(x)
           remote == AsInt64(Head(wire[x]).local_delta)
           L == Insert(local_tracker[x], d)
           R == Insert(remote_tracker[x], remote)
<1> USE DEF ClockInv
<1>1. /\ d \in Int64 /\ d >= Ahead(x) /\ remote \in Int64 /\ remote >= Ahead(Peer(x))
      /\ wire[x] \in Seq(PreHeaders) /\ wire[x] # << >>
  BY HeaderSamples DEF HandleHeaderRead, Synchronize
<1>2. /\ local_tracker[x] \in Windows /\ AgreeingWindow(local_tracker[x])
      /\ remote_tracker[x] \in Windows /\ AgreeingWindow(remote_tracker[x])
      /\ samples[x] \in Seq(Int64)
  BY DEF ClockTypeOK, WindowsAgree
<1>3. Ahead(x) \in Int /\ Ahead(Peer(x)) \in Int
  BY ClockRanges
<1>4. /\ L \in Windows /\ AgreeingWindow(L)
      /\ \A i \in DOMAIN L.q : L.q[i] >= Ahead(x)
      /\ GetMin(L) \in Int64 /\ GetMin(L) >= Ahead(x)
  BY <1>1, <1>2, <1>3, InsertBounded DEF Bounded
<1>5. /\ R \in Windows /\ AgreeingWindow(R)
      /\ \A i \in DOMAIN R.q : R.q[i] >= Ahead(Peer(x))
      /\ GetMin(R) \in Int64 /\ GetMin(R) >= Ahead(Peer(x))
  BY <1>1, <1>2, <1>3, InsertBounded DEF Bounded
<1>6. L.q = Recent(Append(samples[x], d))
  <2>1. local_tracker[x].q = Recent(samples[x])
    BY DEF WindowIsRecent
  <2>2. L.q = IF Len(local_tracker[x].q) = window_size
              THEN Tail(Append(local_tracker[x].q, d))
              ELSE Append(local_tracker[x].q, d)
    BY <1>1, <1>2, InsertAgrees
  <2> HIDE DEF d, L
  <2>3. Recent(Append(samples[x], d)) = IF Len(Recent(samples[x])) = window_size
                                        THEN Tail(Append(Recent(samples[x]), d))
                                        ELSE Append(Recent(samples[x]), d)
    BY <1>1, <1>2, RecentAppend
  <2> QED
    BY <2>1, <2>2, <2>3
<1> HIDE DEF L, R, d
<1>7. /\ local_tracker' = [local_tracker EXCEPT ![x] = L]
      /\ remote_tracker' = [remote_tracker EXCEPT ![x] = R]
      /\ samples' = [samples EXCEPT ![x] = Append(@, d)]
      /\ wire' = [wire EXCEPT ![x] = Tail(@)]
      /\ reading' = [reading EXCEPT ![x] = FALSE]
      /\ UNCHANGED <<time, offset, sent, rx_begin>>
  BY DEF HandleHeaderRead, Synchronize, L, R, d
<1>8. /\ local_delta' = [local_delta EXCEPT ![x] = GetMin(L)]
      /\ remote_delta' = [remote_delta EXCEPT ![x] = GetMin(R)]
  <2>1. local_tracker'[x] = L /\ remote_tracker'[x] = R
    BY <1>7 DEF ClockTypeOK
  <2> QED
    BY <2>1 DEF HandleHeaderRead, Synchronize
<1> HIDE DEF remote
<1>9. \A z \in Ends : z # x =>
        /\ local_tracker'[z] = local_tracker[z] /\ remote_tracker'[z] = remote_tracker[z]
        /\ local_delta'[z] = local_delta[z] /\ remote_delta'[z] = remote_delta[z]
        /\ samples'[z] = samples[z] /\ wire'[z] = wire[z] /\ reading'[z] = reading[z]
  BY <1>7, <1>8 DEF ClockTypeOK
<1>10. /\ local_tracker'[x] = L /\ remote_tracker'[x] = R
       /\ local_delta'[x] = GetMin(L) /\ remote_delta'[x] = GetMin(R)
       /\ samples'[x] = Append(samples[x], d) /\ wire'[x] = Tail(wire[x])
       /\ reading'[x] = FALSE
  BY <1>7, <1>8 DEF ClockTypeOK
<1>11. /\ Tail(wire[x]) \in Seq(PreHeaders)
       /\ \A i \in DOMAIN Tail(wire[x]) :
            i + 1 \in DOMAIN wire[x] /\ Tail(wire[x])[i] = wire[x][i + 1]
  BY <1>1
<1>12. \A z \in Ends : \A i \in DOMAIN wire'[z] :
         \E j \in DOMAIN wire[z] : wire'[z][i] = wire[z][j]
  <2> SUFFICES ASSUME NEW z \in Ends, NEW i \in DOMAIN wire'[z]
               PROVE  \E j \in DOMAIN wire[z] : wire'[z][i] = wire[z][j]
    OBVIOUS
  <2>1. CASE z = x
    BY <1>10, <1>11, <2>1
  <2>2. CASE z # x
    BY <1>9, <2>2
  <2> QED
    BY <2>1, <2>2
<1>13. \A z \in Ends : Ahead(z)' = Ahead(z) /\ Ahead(Peer(z))' = Ahead(Peer(z))
                       /\ Now(Peer(z))' = Now(Peer(z))
  BY <1>7 DEF Ahead, Now
<1>14. ClockTypeOK'
  <2>1. /\ local_tracker' \in [Ends -> Windows] /\ remote_tracker' \in [Ends -> Windows]
        /\ local_delta' \in [Ends -> Int64] /\ remote_delta' \in [Ends -> Int64]
    BY <1>4, <1>5, <1>7, <1>8 DEF ClockTypeOK
  <2>2. wire' \in [Ends -> Seq(PreHeaders)] /\ reading' \in [Ends -> BOOLEAN]
    BY <1>7, <1>11 DEF ClockTypeOK
  <2>3. samples' \in [Ends -> Seq(Int64)]
    <3>1. Append(samples[x], d) \in Seq(Int64)
      BY <1>1, <1>2
    <3> QED
      BY <1>7, <3>1 DEF ClockTypeOK
  <2> QED
    BY <1>7, <2>1, <2>2, <2>3 DEF ClockTypeOK
<1>15. WindowsAgree'
  BY <1>4, <1>5, <1>9, <1>10 DEF WindowsAgree
<1>16. Causal'
  <2>1. \A z \in Ends : \A i \in DOMAIN wire'[z] : wire'[z][i].stamp <= Now(Peer(z))
    BY <1>12 DEF Causal
  <2>2. \A z \in Ends : reading'[z] => z # x
    BY <1>10
  <2> QED
    BY <1>7, <1>9, <1>13, <2>1, <2>2 DEF Causal
<1>17. Bounded'
  <2>1. \A z \in Ends : \A i \in DOMAIN wire'[z] :
          AsInt64(wire'[z][i].local_delta) >= Ahead(Peer(z))
    BY <1>12 DEF Bounded
  <2> QED
    BY <1>4, <1>5, <1>9, <1>10, <1>13, <2>1 DEF Bounded
<1>18. WindowIsRecent'
  BY <1>6, <1>9, <1>10 DEF WindowIsRecent
<1> QED
  BY <1>14, <1>15, <1>16, <1>17, <1>18

(* Every step of either end keeps the clock invariant. *)
LEMMA NextClock == ClockInv /\ [Next]_vars => ClockInv'
<1> SUFFICES ASSUME ClockInv, [Next]_vars PROVE ClockInv'
  OBVIOUS
<1>1. CASE Next
  BY <1>1, TickClock, StartSendClock, HandlePreReadClock, HandleHeaderReadClock DEF Next
<1>2. CASE UNCHANGED vars
  BY <1>2 DEF vars, ClockInv, ClockTypeOK, WindowsAgree, Causal, Bounded, WindowIsRecent,
              Ahead, Now
<1> QED
  BY <1>1, <1>2

(* So synchronize() keeps it for ever. *)
LEMMA ClockInvAlways == Spec => []ClockInv
  BY InitClock, NextClock, PTL DEF Spec

----------------------------------------------------------------------------
(* The theorems. *)

(* Every variable stays in its type: no difference of two clocks leaves    *)
(* the range of int64_t, and no window loses its minimum.                  *)
THEOREM ClockTypes == Spec => []ClockTypeOK
<1>1. ClockInv => ClockTypeOK
  BY DEF ClockInv
<1> QED
  BY <1>1, ClockInvAlways, PTL

(* The two structures of every SlidingWindowT hold the same samples, for   *)
(* any window size and any width of integers: insert() erases the oldest   *)
(* sample from the tree although it looks it up through a uint64_t.        *)
THEOREM WindowsAlwaysAgree == Spec => []WindowsAgree
<1>1. ClockInv => WindowsAgree
  BY DEF ClockInv
<1> QED
  BY <1>1, ClockInvAlways, PTL

(* local_delta_ is the least of the last window_size differences seen, for *)
(* every window size and history.                                          *)
THEOREM MinimumIsAlwaysRecent == Spec => []MinimumIsRecent
<1>1. ClockInv => MinimumIsRecent
  <2> SUFFICES ASSUME ClockInv, NEW x \in Ends, samples[x] # << >>
               PROVE  LET recent == Recent(samples[x]) IN
                      /\ \E i \in DOMAIN recent : recent[i] = local_delta[x]
                      /\ \A i \in DOMAIN recent : recent[i] >= local_delta[x]
    BY DEF MinimumIsRecent
  <2> DEFINE w == local_tracker[x]
  <2>1. /\ w \in Windows /\ AgreeingWindow(w) /\ w.q = Recent(samples[x])
        /\ local_delta[x] = GetMin(w) /\ w.q \in Seq(Int64) /\ samples[x] \in Seq(Int64)
    BY DEF ClockInv, ClockTypeOK, WindowsAgree, WindowIsRecent, Windows
  <2>2. w.q # << >>
    <3>1. window_size \in Nat \ {0} /\ Len(samples[x]) \in Nat \ {0}
      BY <2>1, WindowAssumption
    <3>2. Len(Recent(samples[x])) # 0
      BY <2>1, <3>1 DEF Recent
    <3> QED
      BY <2>1, <3>2
  <2>3. /\ \E i \in DOMAIN w.q : w.q[i] = GetMin(w)
        /\ \A i \in DOMAIN w.q : GetMin(w) <= w.q[i]
    BY <2>1, <2>2, MinimumOfWindow
  <2>4. GetMin(w) \in Int /\ \A i \in DOMAIN w.q : w.q[i] \in Int
    BY <2>1, <2>2, MinimumOfWindow, WindowAssumption DEF Int64, INT64_MAX
  <2> QED
    BY <2>1, <2>3, <2>4
<1> QED
  BY <1>1, ClockInvAlways, PTL

(* The sum of an end's two minima is at least the sum of two offsets that  *)
(* cancel out: estimate_rtt() is never negative.                           *)
THEOREM RttIsNeverNegative == Spec => []RttIsNotNegative
<1>1. ClockInv => RttIsNotNegative
  <2> SUFFICES ASSUME ClockInv, NEW x \in Ends PROVE EstimateRtt(x) >= 0
    BY DEF RttIsNotNegative
  <2>1. /\ local_delta[x] >= Ahead(x) /\ remote_delta[x] >= Ahead(Peer(x))
        /\ Ahead(x) \in Int /\ Ahead(Peer(x)) = -Ahead(x)
    BY ClockRanges DEF ClockInv, Bounded
  <2>2. local_delta[x] \in Int /\ remote_delta[x] \in Int
    BY WindowAssumption DEF ClockInv, ClockTypeOK, Int64, INT64_MAX
  <2> QED
    BY <2>1, <2>2 DEF EstimateRtt
<1> QED
  BY <1>1, ClockInvAlways, PTL

(* estimate_clock_delta() is off by at most half of estimate_rtt(),        *)
(* however far the clocks are apart and whatever the delays are.           *)
THEOREM ClockDeltaIsAlwaysAccurate == Spec => []ClockDeltaIsAccurate
<1>1. ClockInv => ClockDeltaIsAccurate
  <2> SUFFICES ASSUME ClockInv, NEW x \in Ends, remote_delta[x] # INT64_MAX
               PROVE  LET error == 2 * (EstimateClockDelta(x) - (offset[x] - offset[Peer(x)]))
                      IN  -(EstimateRtt(x) + 1) <= error /\ error <= EstimateRtt(x) + 1
    BY DEF ClockDeltaIsAccurate
  <2> DEFINE a == Ahead(x)
             l == local_delta[x]
             r == remote_delta[x]
  <2>1. l >= a /\ r >= -a /\ a \in Int /\ a = offset[x] - offset[Peer(x)]
    BY ClockRanges DEF ClockInv, Bounded
  <2>2. l \in Int /\ r \in Int
    BY WindowAssumption DEF ClockInv, ClockTypeOK, Int64, INT64_MAX
  <2>3. EstimateClockDelta(x) = Halved(l - r) /\ EstimateRtt(x) = l + r
    BY DEF EstimateClockDelta, EstimateRtt
  <2>4. ASSUME NEW v \in Int
        PROVE  Halved(v) \in Int /\ 2 * Halved(v) <= v + 1 /\ v <= 2 * Halved(v) + 1
    BY SMT DEF Halved
  <2>5. l - r \in Int
    BY <2>2
  <2>6. PICK h \in Int : h = Halved(l - r) /\ 2 * h <= l - r + 1 /\ l - r <= 2 * h + 1
    BY <2>4, <2>5
  <2> HIDE DEF a, l, r
  <2>7. -(l + r + 1) <= 2 * (h - a) /\ 2 * (h - a) <= l + r + 1
    BY <2>1, <2>2, <2>6
  <2> QED
    BY <2>1, <2>3, <2>6, <2>7
<1> QED
  BY <1>1, ClockInvAlways, PTL
=============================================================================
