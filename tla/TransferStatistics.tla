-------------------------- MODULE TransferStatistics --------------------------
(***************************************************************************)
(* The traffic counters of a pump's connections and the thread that prints *)
(* what they have grown by.  The two network threads count a message in    *)
(* two steps, its bytes and then the message; networkPrintThread walks     *)
(* over the connections and reads four counters of each, one at a time,    *)
(* while they grow and while publishers are still being accepted.          *)
(***************************************************************************)
EXTENDS Integers, Sequences

CONSTANTS
    Word,              \* 2^64: counters wrap
    EngineConnections, \* how many main has made before it calls join()
    MaxPublishers,     \* bound: publishers accepted
    Sizes,             \* the sizes of messages, in bytes
    MaxMessages        \* bound: messages counted

ASSUME StatisticsAssumption ==
    /\ Word \in Nat \ {0}
    /\ EngineConnections \in Nat /\ MaxPublishers \in Nat
    /\ Sizes \subseteq 1..(Word - 1)
    /\ MaxMessages \in Nat

Kinds == {"engine", "publisher"}
Connections == {"engine"} \X (1..EngineConnections)
                 \cup {"publisher"} \X (1..MaxPublishers)

(* The counters of connection_stats, in the order in which += reads them. *)
CounterOrder == <<"bytes_sent", "bytes_received", "messages_sent",
                  "messages_received">>
Counters == {CounterOrder[i] : i \in DOMAIN CounterOrder}
Bytes(way) == IF way = "sent" THEN "bytes_sent" ELSE "bytes_received"
Messages(way) == IF way = "sent" THEN "messages_sent" ELSE "messages_received"

None == <<>>
Word64 == 0..(Word - 1)

VARIABLES
    stats,       \* stats[c]: the counters of connection c
    counting,    \* counting[k]: the message whose bytes a thread has counted
    size,        \* size of publisher_connections
    constructed, \* how many of its elements have been constructed
    printer,     \* the kind the printer is walking over, or "sleeping"
    at,          \* the connection and the counter it reads next
    upto,        \* the end of the walk, fixed when it began
    sum,         \* engine_stats and publisher_stats
    previous,    \* engine_previous_stats and publisher_previous_stats
    running,     \* whether the pump is running
    counted,     \* all that has been counted, by kind (history)
    before,      \* the same when the walk over the kind began (history)
    reported     \* all growths so far (history)

vars == <<stats, counting, size, constructed, printer, at, upto, sum, previous,
          running, counted, before, reported>>
traffic == <<stats, counting, counted>>
walk == <<printer, at, upto, sum, previous, before, reported>>

Zeros == [x \in Counters |-> 0]

StatsTypeOK ==
    /\ stats \in [Connections -> [Counters -> Word64]]
    /\ counting \in [Kinds -> {None} \cup (Connections \X {"sent", "received"})]
    /\ size \in 0..MaxPublishers /\ constructed \in 0..size
    /\ printer \in Kinds \cup {"sleeping"}
    /\ at \in (Nat \ {0}) \X DOMAIN CounterOrder
    /\ upto \in Nat
    /\ sum \in [Kinds -> [Counters -> Word64]]
    /\ previous \in [Kinds -> [Counters -> Word64]]
    /\ running \in BOOLEAN
    /\ counted \in [Kinds -> [Counters -> Nat]]
    /\ before \in [Kinds -> [Counters -> Nat]]
    /\ reported \in [Kinds -> [Counters -> Nat]]

Init ==
    /\ stats = [c \in Connections |-> Zeros]
    /\ counting = [k \in Kinds |-> None]
    /\ size = 0 /\ constructed = 0
    /\ printer = "sleeping" /\ at = <<1, 1>> /\ upto = 0
    /\ sum = [k \in Kinds |-> Zeros]
    /\ previous = [k \in Kinds |-> Zeros]
    /\ running = TRUE
    /\ counted = [k \in Kinds |-> Zeros]
    /\ before = [k \in Kinds |-> Zeros]
    /\ reported = [k \in Kinds |-> Zeros]

----------------------------------------------------------------------------
(* connection_stats: -= subtracts in uint64_t; = adds, as += does. *)

Plus(s, t) == [x \in Counters |-> (s[x] + t[x]) % Word]
MinusAssign(s, t) == [x \in Counters |-> (s[x] - t[x] + Word) % Word]
AssignCopy(s, t) == t
Assign(s, t) == Plus(s, t)

AddWide(counter, x, n) == [counter EXCEPT ![x] = @ + n]
Add(counter, x, n) == [counter EXCEPT ![x] = (@ + n) % Word]

(* A bound: a counter does not grow by 2^64 from one print to the next.    *)
GrowsBy(k, x, n) == counted[k][x] - reported[k][x] + n < Word

(* message_sent() and message_received(), first step, in the one network   *)
(* thread that serves the connections of this kind.  A publisher counts    *)
(* once it has been pushed; pumps send nothing to publishers.              *)
CountBytes(c, way, n) ==
    /\ running
    /\ counting[c[1]] = None
    /\ c[1] = "publisher" => way = "received" /\ size = constructed /\ c[2] <= size
    /\ counted["engine"]["messages_sent"] + counted["engine"]["messages_received"]
         + counted["publisher"]["messages_received"] < MaxMessages
    /\ GrowsBy(c[1], Bytes(way), n) /\ GrowsBy(c[1], Messages(way), 1)
    /\ stats' = [stats EXCEPT ![c] = Add(@, Bytes(way), n)]
    /\ counted' = [counted EXCEPT ![c[1]][Bytes(way)] = @ + n]
    /\ counting' = [counting EXCEPT ![c[1]] = <<c, way>>]
    /\ UNCHANGED <<size, constructed, running, walk>>

CountMessage(k) ==
    /\ running
    /\ counting[k] # None
    /\ LET c == counting[k][1]
           x == Messages(counting[k][2])
       IN  /\ stats' = [stats EXCEPT ![c] = Add(@, x, 1)]
           /\ counted' = [counted EXCEPT ![k][x] = @ + 1]
    /\ counting' = [counting EXCEPT ![k] = None]
    /\ UNCHANGED <<size, constructed, running, walk>>

(* push_back() of an accepted publisher: the vector grows, and then the    *)
(* element is constructed.                                                 *)
GrowPublishers ==
    /\ running
    /\ counting["publisher"] = None
    /\ size = constructed
    /\ size < MaxPublishers
    /\ size' = size + 1
    /\ UNCHANGED <<constructed, running, traffic, walk>>

ConstructPublisher ==
    /\ running
    /\ constructed < size
    /\ constructed' = size
    /\ UNCHANGED <<size, running, traffic, walk>>

----------------------------------------------------------------------------
(* networkPrintThread. *)

(* A second or more has passed since the last print. *)
Wake ==
    /\ running
    /\ printer = "sleeping"
    /\ printer' = "engine"
    /\ at' = <<1, 1>>
    /\ upto' = EngineConnections
    /\ sum' = [k \in Kinds |-> Zeros]
    /\ before' = [before EXCEPT !["engine"] = counted["engine"]]
    /\ UNCHANGED <<size, constructed, previous, running, reported, traffic>>

Constructed(c) == c[1] = "engine" \/ c[2] <= constructed

NextAt == IF at[2] = Len(CounterOrder) THEN <<at[1] + 1, 1>> ELSE <<at[1], at[2] + 1>>

(* One load of +=, or a crash on an element not yet constructed. *)
ReadCounter ==
    /\ running
    /\ printer # "sleeping"
    /\ at[1] <= upto
    /\ LET c == <<printer, at[1]>>
           x == CounterOrder[at[2]]
       IN  IF Constructed(c)
           THEN /\ sum' = [sum EXCEPT ![printer] = Add(@, x, stats[c][x])]
                /\ at' = NextAt
                /\ UNCHANGED running
           ELSE /\ running' = FALSE
                /\ UNCHANGED <<sum, at>>
    /\ UNCHANGED <<size, constructed, printer, upto, previous, before, reported, traffic>>

WalkPublishers ==
    /\ running
    /\ printer = "engine"
    /\ at[1] > upto
    /\ printer' = "publisher"
    /\ at' = <<1, 1>>
    /\ upto' = size
    /\ before' = [before EXCEPT !["publisher"] = counted["publisher"]]
    /\ UNCHANGED <<size, constructed, sum, previous, running, reported, traffic>>

Growth(k) == MinusAssign(sum[k], previous[k])

(* What the next growth is measured from is set from this growth, before   *)
(* the growth is divided by the duration.                                  *)
Remembered(k) == Assign(previous[k], Growth(k))

(* The rates printed are this growth over the duration.                    *)
Report ==
    /\ running
    /\ printer = "publisher"
    /\ at[1] > upto
    /\ previous' = [k \in Kinds |-> Remembered(k)]
    /\ reported' = [k \in Kinds |-> [x \in Counters |-> reported[k][x] + Growth(k)[x]]]
    /\ printer' = "sleeping"
    /\ UNCHANGED <<size, constructed, at, upto, sum, running, before, traffic>>

Next ==
    \/ \E c \in Connections, way \in {"sent", "received"}, n \in Sizes :
         CountBytes(c, way, n)
    \/ \E k \in Kinds : CountMessage(k)
    \/ GrowPublishers \/ ConstructPublisher
    \/ Wake \/ ReadCounter \/ WalkPublishers \/ Report

Spec == Init /\ [][Next]_vars

----------------------------------------------------------------------------
(* Properties. *)

(* The growths printed add up: whatever was counted before the thread      *)
(* began to walk is in them after the walk, once, and nothing that was not *)
(* counted is, however the threads interleave and counters wrap, and       *)
(* although = adds instead of copying (network.h).                         *)
TrafficIsReportedOnce ==
    \A k \in Kinds, x \in Counters :
      /\ reported[k][x] <= counted[k][x]
      /\ printer = "sleeping" => before[k][x] <= reported[k][x]
=============================================================================
