---------------------------- MODULE SlidingWindow ----------------------------
(***************************************************************************)
(* SlidingWindowT<int64_t>: the last window_size samples, kept twice.  q   *)
(* lists them in the order of arrival, so that the oldest is known; oms is *)
(* an order statistics tree over the same samples, so that the least is    *)
(* known.  The tree allows duplicates and is modelled by the multiplicity  *)
(* of each value.                                                          *)
(***************************************************************************)
EXTENDS Integers, Sequences, FiniteSets

CONSTANTS
    Half,        \* 2^63: integers are int64_t or uint64_t
    window_size  \* 1024 in message_handler

ASSUME WindowAssumption ==
    /\ Half \in Nat \ {0}
    /\ window_size \in Nat \ {0}

INT64_MAX == Half - 1
Int64 == (-Half)..INT64_MAX
Uint64 == 0..(2 * Half - 1)

(* The conversions between the two types, and subtraction in uint64_t. *)
AsUint64Unchanged(i) == i
AsUint64(i) == IF i < 0 THEN i + 2 * Half ELSE i
AsInt64(u) == IF u < Half THEN u ELSE u - 2 * Half
Minus64(a, b) == IF a >= b THEN a - b ELSE a - b + 2 * Half

Windows == [q : Seq(Int64), oms : [Int64 -> Int]]

EmptyWindow == [q |-> << >>, oms |-> [v \in Int64 |-> 0]]

(* The first value of a set in the order of the tree. *)
First(S) == CHOOSE v \in S : \A u \in S : v <= u

UpperBoundUnsigned(oms, oldest) ==
    {v \in Int64 : oms[v] > 0 /\ oldest <= v}

(* upper_bound() finds the first value that the comparison orders after    *)
(* the key: with less_equal, the first one not less than it.               *)
UpperBound(oms, oldest) ==
    {v \in Int64 : oms[v] > 0 /\ AsInt64(oldest) <= v}

(* erase(end()) is left without effect: AgreeingWindow shows that the      *)
(* oldest sample is always found.                                          *)
Erased(oms, oldest) ==
    LET found == UpperBound(oms, oldest)
    IN  IF found = {} THEN oms ELSE [oms EXCEPT ![First(found)] = @ - 1]

InsertLate(window, latest) ==
    LET q == Append(window.q, latest)
        oms == [window.oms EXCEPT ![latest] = @ + 1]
    IN  IF Len(q) > window_size + 1
        THEN [q |-> Tail(q), oms |-> Erased(oms, AsUint64(Head(q)))]
        ELSE [q |-> q, oms |-> oms]

(* insert(): the oldest sample, which passes through a uint64_t, leaves    *)
(* both structures once there are more than window_size.                   *)
Insert(window, latest) ==
    LET q == Append(window.q, latest)
        oms == [window.oms EXCEPT ![latest] = @ + 1]
    IN  IF Len(q) > window_size
        THEN [q |-> Tail(q), oms |-> Erased(oms, AsUint64(Head(q)))]
        ELSE [q |-> q, oms |-> oms]

(* get_min(): the value of rank 0. *)
GetMin(window) == First({v \in Int64 : window.oms[v] > 0})

(* The two invariants util.h states: the tree holds exactly the listed     *)
(* samples, and there are never more than window_size.                     *)
AgreeingWindow(window) ==
    /\ \A v \in Int64 :
         window.oms[v] = Cardinality({i \in DOMAIN window.q : window.q[i] = v})
    /\ Len(window.q) <= window_size
=============================================================================
