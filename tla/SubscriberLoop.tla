--------------------------- MODULE SubscriberLoop ---------------------------
(***************************************************************************)
(* "for (auto x : subscriptions[topic]) x->send(request)": the loop that   *)
(* the engine's pump thread runs over nuzzles and the nuzzle's engine      *)
(* thread over consumers.  Another thread of the process may insert into   *)
(* or erase from the vector while the loop runs; nothing locks it.         *)
(***************************************************************************)
EXTENDS Transport, SequencesExt

CONSTANT Idle  \* no loop in progress

LoopOver(S) == [request : RequestPublish, range : Seq(S), next : Nat \ {0}]

ASSUME IdleAssumption == \A S \in {Nuzzles, Consumers} : Idle \notin LoopOver(S)

(* erase(find(begin, end, x)) on a vector that contains x. *)
Erased(vector, x) ==
    [i \in 1..(Len(vector) - 1) |->
        IF \E j \in 1..i : vector[j] = x THEN vector[i + 1] ELSE vector[i]]

BeginLoopShort(request, range) ==
    IF Len(range) <= 1 THEN Idle
    ELSE [request |-> request, range |-> range, next |-> 1]

(* begin() and end() are read once, when the loop starts. *)
BeginLoop(request, range) ==
    IF range = << >> THEN Idle
    ELSE [request |-> request, range |-> range, next |-> 1]

AdvanceLoopPast(loop) ==
    IF loop.next > Len(loop.range) THEN Idle
    ELSE [loop EXCEPT !.next = @ + 1]

AdvanceLoop(loop) ==
    IF loop.next = Len(loop.range) THEN Idle
    ELSE [loop EXCEPT !.next = @ + 1]

(* What the loop's current element may read as: the element the vector had *)
(* when the loop began (its old block of memory) or the one it has now     *)
(* (shifted in place).                                                     *)
LoopReads(loop, vector) ==
    {loop.range[loop.next]}
      \cup (IF loop.next <= Len(vector) THEN {vector[loop.next]} ELSE {})
=============================================================================
