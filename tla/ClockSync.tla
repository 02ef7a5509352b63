------------------------------ MODULE ClockSync ------------------------------
(***************************************************************************)
(* The clock synchronisation that the two ends of a connection carry on in *)
(* the pre-headers of their messages.  Each message is stamped with the    *)
(* sender's clock and carries the sender's local_delta_, the least         *)
(* difference it has seen between its own clock and the stamps of its      *)
(* peer; a receiver keeps the least of its own differences and of those it *)
(* is told, over a sliding window, and estimates the round trip and the    *)
(* offset of the two clocks from them.                                     *)
(***************************************************************************)
EXTENDS SlidingWindow

CONSTANTS
    MaxTime,     \* bound on the true time
    MaxOffset,   \* bound on how far a clock is ahead of it
    MaxMessages  \* bound: messages sent by each end

ASSUME ClockAssumption ==
    /\ MaxTime \in Nat
    /\ MaxOffset \in Nat
    /\ MaxMessages \in Nat
    /\ 2 * (MaxTime + MaxOffset) < INT64_MAX

Ends == {"client", "server"}
Peer(x) == IF x = "client" THEN "server" ELSE "client"

VARIABLES
    time,            \* true time, which no program sees
    offset,          \* offset[x]: how far the clock of x is ahead of it
    wire,            \* wire[x]: the messages on their way to x
    sent,            \* sent[x]: how many x has sent
    reading,         \* whether x has read a pre-header but not the header
    rx_begin,        \* when it did, by its clock
    local_tracker, remote_tracker,  \* the two windows of each end
    local_delta, remote_delta,      \* their minima
    samples          \* samples[x]: all differences x has seen (history)

vars == <<time, offset, wire, sent, reading, rx_begin, local_tracker,
          remote_tracker, local_delta, remote_delta, samples>>

(* The two words of a pre-header that the synchronisation uses. *)
PreHeaders == [stamp : Uint64, local_delta : Uint64]

ClockTypeOK ==
    /\ time \in 0..MaxTime
    /\ offset \in [Ends -> 0..MaxOffset]
    /\ wire \in [Ends -> Seq(PreHeaders)]
    /\ sent \in [Ends -> 0..MaxMessages]
    /\ reading \in [Ends -> BOOLEAN]
    /\ rx_begin \in [Ends -> Uint64]
    /\ local_tracker \in [Ends -> Windows]
    /\ remote_tracker \in [Ends -> Windows]
    /\ local_delta \in [Ends -> Int64]
    /\ remote_delta \in [Ends -> Int64]
    /\ samples \in [Ends -> Seq(Int64)]

(* util::now() at x, in nanoseconds. *)
Now(x) == time + offset[x]

Init ==
    /\ time = 0
    /\ offset \in [Ends -> 0..MaxOffset]
    /\ wire = [x \in Ends |-> << >>]
    /\ sent = [x \in Ends |-> 0]
    /\ reading = [x \in Ends |-> FALSE]
    /\ rx_begin = [x \in Ends |-> 0]
    /\ local_tracker = [x \in Ends |-> EmptyWindow]
    /\ remote_tracker = [x \in Ends |-> EmptyWindow]
    /\ local_delta = [x \in Ends |-> INT64_MAX]
    /\ remote_delta = [x \in Ends |-> INT64_MAX]
    /\ samples = [x \in Ends |-> << >>]

Tick ==
    /\ time < MaxTime
    /\ time' = time + 1
    /\ UNCHANGED <<offset, wire, sent, reading, rx_begin, local_tracker,
                   remote_tracker, local_delta, remote_delta, samples>>

PreHeader(x) == [stamp |-> Now(x), local_delta |-> AsUint64(local_delta[x])]

StartSend(x) ==
    /\ sent[x] < MaxMessages
    /\ sent' = [sent EXCEPT ![x] = @ + 1]
    /\ wire' = [wire EXCEPT ![Peer(x)] = Append(@, PreHeader(x))]
    /\ UNCHANGED <<time, offset, reading, rx_begin, local_tracker,
                   remote_tracker, local_delta, remote_delta, samples>>

HandlePreRead(x) ==
    /\ wire[x] # << >>
    /\ ~reading[x]
    /\ reading' = [reading EXCEPT ![x] = TRUE]
    /\ rx_begin' = [rx_begin EXCEPT ![x] = Now(x)]
    /\ UNCHANGED <<time, offset, wire, sent, local_tracker, remote_tracker,
                   local_delta, remote_delta, samples>>

DeltaReversed(x) == AsInt64(Minus64(Head(wire[x]).stamp, rx_begin[x]))

(* The difference of two uint64_t clocks, taken as an int64_t. *)
Delta(x) == AsInt64(Minus64(rx_begin[x], Head(wire[x]).stamp))

Synchronize(x, local, remote) ==
    /\ local_tracker' = [local_tracker EXCEPT ![x] = Insert(@, local)]
    /\ remote_tracker' = [remote_tracker EXCEPT ![x] = Insert(@, remote)]
    /\ local_delta' = [local_delta EXCEPT ![x] = GetMin(local_tracker'[x])]
    /\ remote_delta' = [remote_delta EXCEPT ![x] = GetMin(remote_tracker'[x])]

(* The header has been read: synchronize(), and the message is handled. *)
HandleHeaderRead(x) ==
    /\ reading[x]
    /\ Synchronize(x, Delta(x), AsInt64(Head(wire[x]).local_delta))
    /\ samples' = [samples EXCEPT ![x] = Append(@, Delta(x))]
    /\ wire' = [wire EXCEPT ![x] = Tail(@)]
    /\ reading' = [reading EXCEPT ![x] = FALSE]
    /\ UNCHANGED <<time, offset, sent, rx_begin>>

Next ==
    \/ Tick
    \/ \E x \in Ends : StartSend(x) \/ HandlePreRead(x) \/ HandleHeaderRead(x)

Spec == Init /\ [][Next]_vars

----------------------------------------------------------------------------
(* The estimates. *)

(* Division in C++ rounds towards zero. *)
Halved(v) == IF v >= 0 THEN v \div 2 ELSE -((-v) \div 2)

EstimateClockDelta(x) ==
    IF remote_delta[x] = INT64_MAX THEN 0
    ELSE Halved(local_delta[x] - remote_delta[x])

EstimateRttUnguarded(x) == AsInt64((local_delta[x] + remote_delta[x]) % (2 * Half))

EstimateRtt(x) ==
    IF remote_delta[x] = INT64_MAX THEN 0
    ELSE local_delta[x] + remote_delta[x]

----------------------------------------------------------------------------
(* Properties. *)

(* In both windows of both ends the list and the tree hold the same        *)
(* samples, negative ones included, and at most window_size of them        *)
(* (util.h, invariants 1 and 2 of SlidingWindowT).                         *)
WindowsAgree ==
    \A x \in Ends :
      AgreeingWindow(local_tracker[x]) /\ AgreeingWindow(remote_tracker[x])

Recent(s) == SubSeq(s, IF Len(s) > window_size THEN Len(s) - window_size + 1 ELSE 1,
                    Len(s))

(* local_delta_ is the least of the last window_size differences seen:     *)
(* synchronize() forgets an old minimum when it leaves the window.         *)
MinimumIsRecent ==
    \A x \in Ends :
      samples[x] # << >> =>
        /\ \E i \in DOMAIN Recent(samples[x]) : Recent(samples[x])[i] = local_delta[x]
        /\ \A i \in DOMAIN Recent(samples[x]) : Recent(samples[x])[i] >= local_delta[x]

(* The estimated round trip is never negative, however far the clocks are  *)
(* apart and however old the two minima it adds up: estimate_rtt().        *)
RttIsNotNegative == \A x \in Ends : EstimateRtt(x) >= 0

(* Once an end knows both minima its estimate of the clocks' offset is     *)
(* wrong by at most half the estimated round trip (and the rounding):      *)
(* estimate_clock_delta().                                                 *)
ClockDeltaIsAccurate ==
    \A x \in Ends : remote_delta[x] # INT64_MAX =>
      LET error == 2 * (EstimateClockDelta(x) - (offset[x] - offset[Peer(x)]))
      IN  -(EstimateRtt(x) + 1) <= error /\ error <= EstimateRtt(x) + 1
=============================================================================
