------------------------ MODULE FirehoseRegistration ------------------------
(***************************************************************************)
(* Types of a deployment: each variable keeps its own, no process is sent  *)
(* a message its reader does not support, and what is delivered was        *)
(* published.  Registration: while an engine holds registrations for a     *)
(* nuzzle's clients it publishes to that nuzzle, and to none twice if no   *)
(* nuzzle is asked twice; the two agree on how many consumers the nuzzle   *)
(* has once all has been handled.                                          *)
(***************************************************************************)
EXTENDS Firehose, Integers, TLAPS

----------------------------------------------------------------------------
(* Types. *)

(* What the operators of Transport and SubscriberLoop preserve. *)

Queues == [Links -> Seq(Messages)]

(* All that travels on a set of queues is supported by its reader. *)
AllSupported(n) == \A l \in Links : \A i \in DOMAIN n[l] : Supports(l, n[l][i])

(* Sending a message keeps the queues queues of messages. *)
LEMMA PostedQueues ==
    ASSUME NEW n \in Queues, NEW a, NEW B, NEW m \in Messages
    PROVE  Posted(n, a, B, m) \in Queues
  BY DEF Queues, Posted

(* ... and of supported messages, if the receivers support it. *)
LEMMA PostedSupported ==
    ASSUME NEW n \in Queues, AllSupported(n), NEW a, NEW B, NEW m \in Messages,
           \A l \in Links : l[1] = a /\ l[2] \in B => Supports(l, m)
    PROVE  AllSupported(Posted(n, a, B, m))
<1> SUFFICES ASSUME NEW l \in Links, NEW i \in DOMAIN Posted(n, a, B, m)[l]
             PROVE  Supports(l, Posted(n, a, B, m)[l][i])
  BY DEF AllSupported
<1>1. CASE l[1] = a /\ l[2] \in B \cap up
  <2>1. Posted(n, a, B, m)[l] = Append(n[l], m)
    BY <1>1 DEF Posted
  <2>2. n[l] \in Seq(Messages)
    BY DEF Queues
  <2>3. CASE i = Len(n[l]) + 1
    BY <1>1, <2>1, <2>2, <2>3
  <2>4. CASE i # Len(n[l]) + 1
    <3>1. i \in DOMAIN n[l] /\ Append(n[l], m)[i] = n[l][i]
      BY <2>1, <2>2, <2>4
    <3> QED
      BY <2>1, <3>1 DEF AllSupported
  <2> QED
    BY <2>3, <2>4
<1>2. CASE ~(l[1] = a /\ l[2] \in B \cap up)
  <2>1. Posted(n, a, B, m)[l] = n[l]
    BY <1>2 DEF Posted
  <2> QED
    BY <2>1 DEF AllSupported
<1> QED
  BY <1>1, <1>2

(* The message that has arrived on a link is its oldest, of that type. *)
LEMMA ArrivedMessage ==
    ASSUME net \in Queues, NEW a, NEW b, <<a, b>> \in Links, NEW type,
           Arrived(a, b, type)
    PROVE  /\ Head(net[<<a, b>>]) \in Messages
           /\ Head(net[<<a, b>>]).type = type
           /\ 1 \in DOMAIN net[<<a, b>>]
           /\ Head(net[<<a, b>>]) = net[<<a, b>>][1]
           /\ Tail(net[<<a, b>>]) \in Seq(Messages)
  <1>1. net[<<a, b>>] \in Seq(Messages) /\ net[<<a, b>>] # << >>
    BY DEF Queues, Arrived
  <1> QED
    BY <1>1 DEF Arrived

(* Taking the oldest message of a link leaves queues of messages. *)
LEMMA TakenQueues ==
    ASSUME net \in Queues, NEW l \in Links, net[l] # << >>
    PROVE  Taken(l) \in Queues
  <1>1. Tail(net[l]) \in Seq(Messages)
    BY DEF Queues
  <1> QED
    BY <1>1 DEF Taken, Queues

(* ... and of supported messages. *)
LEMMA TakenSupported ==
    ASSUME net \in Queues, AllSupported(net), NEW l \in Links, net[l] # << >>
    PROVE  AllSupported(Taken(l))
<1> SUFFICES ASSUME NEW k \in Links, NEW i \in DOMAIN Taken(l)[k]
             PROVE  Supports(k, Taken(l)[k][i])
  BY DEF AllSupported
<1>1. CASE k = l
  <2>1. net[l] \in Seq(Messages) /\ Taken(l)[k] = Tail(net[l])
    BY <1>1 DEF Taken, Queues
  <2>2. i + 1 \in DOMAIN net[l] /\ Taken(l)[k][i] = net[l][i + 1]
    BY <2>1
  <2> QED
    BY <1>1, <2>2 DEF AllSupported
<1>2. CASE k # l
  BY <1>2 DEF Taken, AllSupported, Queues
<1> QED
  BY <1>1, <1>2

(* Sending and connecting keep the states of the streams. *)
LEMMA StreamsTyped ==
    ASSUME stream \in [Links -> StreamStates], NEW a, NEW b, NEW B
    PROVE  /\ Touched(a, B) \in [Links -> StreamStates]
           /\ Connected(a, b) \in [Links -> StreamStates]
  BY DEF Touched, Connected, StreamStates

(* The exit of a process keeps the transport typed and its queues supported. *)
LEMMA ExitTyped ==
    ASSUME TransportTypeOK, AllSupported(net), NEW d, Exit(d)
    PROVE  /\ up' \subseteq Processes
           /\ net' \in Queues
           /\ AllSupported(net')
           /\ stream' \in [Links -> StreamStates]
<1>1. net' \in Queues
  BY DEF Exit, TransportTypeOK, Queues
<1>2. AllSupported(net')
  BY DEF Exit, AllSupported
<1>3. up' \subseteq Processes
  BY DEF Exit, TransportTypeOK
<1>4. stream' \in [Links -> StreamStates]
  BY DEF Exit, TransportTypeOK, StreamStates
<1> QED
  BY <1>1, <1>2, <1>3, <1>4

(* The links between processes that may be connected. *)
LEMMA LinkEnds ==
    /\ \A b \in Publishers, p \in Pumps : <<b, p>> \in Links /\ <<p, b>> \in Links
    /\ \A p \in Pumps, e \in Engines : <<p, e>> \in Links /\ <<e, p>> \in Links
    /\ \A n \in Nuzzles, e \in Engines : <<n, e>> \in Links /\ <<e, n>> \in Links
    /\ \A c \in Consumers, n \in Nuzzles : <<c, n>> \in Links /\ <<n, c>> \in Links
  BY DEF Links, Connections

----------------------------------------------------------------------------
(* Loops over subscribers. *)

Loops(S) == LoopOver(S) \cup {Idle}

InRange(loop) == loop # Idle => loop.next <= Len(loop.range)

(* A loop that begins is at the first element of a nonempty range. *)
LEMMA BeginLoopTyped ==
    ASSUME NEW S \in {Nuzzles, Consumers}, NEW request \in RequestPublish,
           NEW range \in Seq(S)
    PROVE  /\ BeginLoop(request, range) \in Loops(S)
           /\ InRange(BeginLoop(request, range))
<1>1. CASE range = << >>
  BY <1>1 DEF BeginLoop, Loops, InRange
<1>2. CASE range # << >>
  <2>1. Len(range) \in Nat /\ 1 <= Len(range)
    BY <1>2
  <2> QED
    BY <1>2, <2>1 DEF BeginLoop, Loops, InRange, LoopOver
<1> QED
  BY <1>1, <1>2

(* A loop that advances stays within its range. *)
LEMMA AdvanceLoopTyped ==
    ASSUME NEW S \in {Nuzzles, Consumers}, NEW loop \in LoopOver(S),
           loop.next <= Len(loop.range)
    PROVE  /\ AdvanceLoop(loop) \in Loops(S)
           /\ InRange(AdvanceLoop(loop))
<1>1. loop.range \in Seq(S) /\ loop.next \in Nat \ {0} /\ Len(loop.range) \in Nat
  BY DEF LoopOver
<1>2. CASE loop.next = Len(loop.range)
  BY <1>2 DEF AdvanceLoop, Loops, InRange
<1>3. CASE loop.next # Len(loop.range)
  <2> DEFINE next == [loop EXCEPT !.next = @ + 1]
  <2>1. next \in LoopOver(S) /\ next.next = loop.next + 1 /\ next.range = loop.range
    BY <1>1 DEF LoopOver
  <2> QED
    BY <1>1, <1>3, <2>1 DEF AdvanceLoop, Loops, InRange
<1> QED
  BY <1>2, <1>3

(* Whatever a loop reads is a subscriber, even when the vector has changed. *)
LEMMA LoopReadsTyped ==
    ASSUME NEW S, NEW loop \in LoopOver(S), loop.next <= Len(loop.range),
           NEW vector \in Seq(S)
    PROVE  LoopReads(loop, vector) \subseteq S
<1>1. loop.range \in Seq(S) /\ loop.next \in Nat \ {0}
  BY DEF LoopOver
<1>2. loop.range[loop.next] \in S
  BY <1>1
<1>3. ASSUME loop.next <= Len(vector) PROVE vector[loop.next] \in S
  BY <1>1, <1>3
<1> QED
  BY <1>2, <1>3 DEF LoopReads

(* Erasing one element of a vector leaves a vector of the same elements, *)
(* empty only if that was its only one.                                  *)
LEMMA ErasedTyped ==
    ASSUME NEW S, NEW vector \in Seq(S), NEW x, Contains(vector, x)
    PROVE  /\ Erased(vector, x) \in Seq(S)
           /\ Len(Erased(vector, x)) = Len(vector) - 1
           /\ Erased(vector, x) = << >> => Len(vector) = 1
<1>1. Len(vector) \in Nat /\ Len(vector) >= 1
  BY DEF Contains
<1>2. \A i \in 1..(Len(vector) - 1) : vector[i] \in S /\ vector[i + 1] \in S
  BY <1>1
<1>3. Erased(vector, x) \in [1..(Len(vector) - 1) -> S]
  BY <1>2 DEF Erased
<1>4. Erased(vector, x) \in Seq(S) /\ Len(Erased(vector, x)) = Len(vector) - 1
  BY <1>1, <1>3
<1> HIDE DEF Erased
<1>5. Erased(vector, x) = << >> => Len(vector) = 1
  BY <1>1, <1>4
<1> QED
  BY <1>4, <1>5

----------------------------------------------------------------------------
(* The deployment. *)

(* Neither part is inductive alone: an engine reads sender_id from what a  *)
(* nuzzle sent, so the shape of its tables rests on what links carry.      *)
Typed == TypeOK /\ SupportedOnly

TransportTyped == TransportTypeOK /\ SupportedOnly

(* The transport's part of Typed, in the form the transport lemmas use. *)
LEMMA TransportForm ==
    /\ TransportTyped <=>
         /\ up \subseteq Processes /\ failed \subseteq Processes
         /\ net \in Queues /\ AllSupported(net)
         /\ stream \in [Links -> StreamStates]
    /\ TransportTyped' <=>
         /\ up' \subseteq Processes /\ failed' \subseteq Processes
         /\ net' \in Queues /\ AllSupported(net')
         /\ stream' \in [Links -> StreamStates]
  BY DEF TransportTyped, TransportTypeOK, SupportedOnly, Queues, AllSupported

(* A component whose variables do not change stays typed. *)
LEMMA Unchanged ==
    /\ TransportTyped /\ UNCHANGED transportVars => TransportTyped'
    /\ PublisherTypeOK /\ UNCHANGED publisherVars => PublisherTypeOK'
    /\ PumpTypeOK /\ UNCHANGED pumpVars => PumpTypeOK'
    /\ EngineTypeOK /\ UNCHANGED engineVars => EngineTypeOK'
    /\ NuzzleTypeOK /\ UNCHANGED nuzzleVars => NuzzleTypeOK'
    /\ ConsumerTypeOK /\ UNCHANGED consumerVars => ConsumerTypeOK'
<1>1. TransportTyped /\ UNCHANGED transportVars => TransportTyped'
  BY DEF TransportTyped, TransportTypeOK, SupportedOnly, transportVars
<1>2. PublisherTypeOK /\ UNCHANGED publisherVars => PublisherTypeOK'
  BY DEF PublisherTypeOK, publisherVars
<1>3. PumpTypeOK /\ UNCHANGED pumpVars => PumpTypeOK'
  BY DEF PumpTypeOK, pumpVars
<1>4. EngineTypeOK /\ UNCHANGED engineVars => EngineTypeOK'
  BY DEF EngineTypeOK, engineVars
<1>5. NuzzleTypeOK /\ UNCHANGED nuzzleVars => NuzzleTypeOK'
  BY DEF NuzzleTypeOK, nuzzleVars
<1>6. ConsumerTypeOK /\ UNCHANGED consumerVars => ConsumerTypeOK'
  BY DEF ConsumerTypeOK, consumerVars
<1> QED
  BY <1>1, <1>2, <1>3, <1>4, <1>5, <1>6

(* A process that exits or crashes leaves the transport typed. *)
LEMMA ExitKeepsTransport ==
    ASSUME TransportTyped, NEW d, Exit(d), failed' \subseteq Processes
    PROVE  TransportTyped'
  <1>1. TransportTypeOK /\ AllSupported(net)
    BY TransportForm DEF TransportTyped
  <1> QED
    BY <1>1, ExitTyped, TransportForm

(* Sending one supported message, after taking one or not. *)
LEMMA SendKeepsTransport ==
    ASSUME TransportTyped, UNCHANGED <<up, failed>>, NEW n \in Queues, AllSupported(n),
           NEW a, NEW B, NEW m \in Messages,
           \A l \in Links : l[1] = a /\ l[2] \in B => Supports(l, m),
           net' = Posted(n, a, B, m), stream' = Touched(a, B)
    PROVE  TransportTyped'
  <1>1. net' \in Queues /\ AllSupported(net')
    BY PostedQueues, PostedSupported
  <1>2. stream' \in [Links -> StreamStates]
    BY TransportForm, StreamsTyped
  <1> QED
    BY <1>1, <1>2, TransportForm

(* Only taking one. *)
LEMMA TakeKeepsTransport ==
    ASSUME TransportTyped, UNCHANGED <<up, failed, stream>>, NEW l \in Links,
           net[l] # << >>, net' = Taken(l)
    PROVE  TransportTyped'
  <1>1. net' \in Queues /\ AllSupported(net')
    BY TransportForm, TakenQueues, TakenSupported
  <1> QED
    BY <1>1, TransportForm

(* Connecting, or exiting because the connection is refused. *)
LEMMA ConnectKeepsTransport ==
    ASSUME TransportTyped, UNCHANGED <<up, failed, net>>, NEW a, NEW b,
           stream' = Connected(a, b)
    PROVE  TransportTyped'
  BY TransportForm, StreamsTyped

----------------------------------------------------------------------------
(* Publishers. *)

(* Counting modulo the number of ids, as 64-bit counters do. *)
LEMMA IdsWrap == \A k \in Nat : k % IdSpace \in GlobalIds
  BY NumbersAssumption DEF GlobalIds

(* A publication goes to one of the publisher's pumps. *)
LEMMA PublishTyped ==
    ASSUME Typed, NEW b \in Publishers, Publish(b)
    PROVE  TransportTyped' /\ PublisherTypeOK'
<1> USE DEF Typed, TypeOK
<1>1. /\ PumpConnections[b] \in Seq(Pumps) /\ Len(PumpConnections[b]) \in Nat \ {0}
      /\ pump_index[b] \in Nat /\ pump_index[b] < Len(PumpConnections[b])
  BY PublisherAssumption DEF PublisherTypeOK
<1>2. NextPump(b) \in Pumps
  BY <1>1 DEF NextPump
<1>3. NextPumpIndex(b) \in Nat /\ NextPumpIndex(b) < Len(PumpConnections[b])
  BY <1>1 DEF NextPumpIndex
<1>4. /\ request_id[b] \in Nat /\ request_id[b] + 1 \in 1..MaxPublish
      /\ topic_id[b] \in Topics
  BY NumbersAssumption DEF Publish, PublisherTypeOK
<1>5. Publication(b) \in RequestPublish
  <2>1. (request_id[b] + 1) % IdSpace \in GlobalIds
    BY <1>4, IdsWrap
  <2> QED
    BY <1>4, <2>1 DEF Publication, RequestPublish, Publications
<1>6. TransportTyped'
  <2>1. \A l \in Links : l[1] = b /\ l[2] \in {NextPump(b)} => Supports(l, Publication(b))
    BY <1>2, <1>5 DEF Links, Connections, Supports
  <2>2. TransportTyped /\ net \in Queues /\ AllSupported(net)
    BY TransportForm DEF TransportTyped
  <2> QED
    BY <1>5, <2>1, <2>2, SendKeepsTransport DEF Publish, Messages
<1>7. NextTopic(b) \in Topics /\ NextTopic(b) \in PublishRange[b][1]..PublishRange[b][2]
  BY PublisherAssumption DEF PublisherTypeOK, NextTopic
<1>8. PublisherTypeOK'
  <2>1. pump_index' \in [Publishers -> Nat]
        /\ \A d \in Publishers : pump_index'[d] < Len(PumpConnections[d])
    BY <1>3 DEF Publish, PublisherTypeOK
  <2>2. request_id' \in [Publishers -> 0..MaxPublish]
    BY <1>4 DEF Publish, PublisherTypeOK
  <2>3. /\ topic_id' \in [Publishers -> Topics]
        /\ \A d \in Publishers : topic_id'[d] \in PublishRange[d][1]..PublishRange[d][2]
    BY <1>7 DEF Publish, PublisherTypeOK
  <2>4. published' \subseteq Topics \X Publications
    BY <1>4 DEF Publish, PublisherTypeOK, Publications
  <2> QED
    BY <2>1, <2>2, <2>3, <2>4 DEF PublisherTypeOK
<1> QED
  BY <1>6, <1>8

----------------------------------------------------------------------------
(* Pumps. *)

(* The pump's connections are made or end it. *)
LEMMA PumpConnectTyped ==
    ASSUME Typed, NEW p \in Pumps, NEW e \in Engines, PumpConnectToEngine(p, e)
    PROVE  TransportTyped' /\ PumpTypeOK'
<1> USE DEF Typed, TypeOK
<1>0. TransportTyped /\ failed \subseteq Processes
  BY DEF TransportTyped, TransportTypeOK
<1>1. CASE e \in up
  <2>1. TransportTyped'
    BY <1>0, <1>1, ConnectKeepsTransport DEF PumpConnectToEngine
  <2> QED
    BY <1>1, <2>1 DEF PumpConnectToEngine, PumpTypeOK
<1>2. CASE e \notin up
  <2>1. TransportTyped'
    BY <1>0, <1>2, ExitKeepsTransport DEF PumpConnectToEngine
  <2> QED
    BY <1>2, <2>1 DEF PumpConnectToEngine, PumpTypeOK
<1> QED
  BY <1>1, <1>2

(* A publication is numbered and goes to engines. *)
LEMMA OnPublishReceiveTyped ==
    ASSUME Typed, NEW p \in Pumps, NEW b \in Publishers, OnPublishReceive(p, b)
    PROVE  TransportTyped' /\ PumpTypeOK'
<1> USE DEF Typed, TypeOK
<1> DEFINE request == Head(net[<<b, p>>])
           B == engine_connections[p]
<1>1. TransportTyped /\ net \in Queues /\ AllSupported(net)
  BY TransportForm DEF TransportTyped
<1>2. <<b, p>> \in Links /\ net[<<b, p>>] # << >>
  BY LinkEnds DEF OnPublishReceive, Arrived
<1>3. request \in RequestPublish
  <2>1. request \in Messages /\ request.type = "req_publish"
    BY <1>1, <1>2, ArrivedMessage DEF OnPublishReceive
  <2> QED
    BY <2>1 DEF Messages, RequestPublish, RequestPrepare, ResponsePrepare,
                RequestUpdateSubscription, ForwardedUpdate
<1>4. global_request_id_seed[p] \in GlobalIds /\ B \subseteq Engines
  BY DEF PumpTypeOK
<1>5. Prepare(p, request) \in RequestPrepare
  BY <1>3, <1>4 DEF Prepare, RequestPublish, RequestPrepare
<1>6. TransportTyped'
  <2>1. \A l \in Links : l[1] = p /\ l[2] \in B => Supports(l, Prepare(p, request))
    BY <1>4, <1>5 DEF Links, Connections, Supports
  <2>2. Taken(<<b, p>>) \in Queues /\ AllSupported(Taken(<<b, p>>))
    BY <1>1, <1>2, TakenQueues, TakenSupported
  <2> QED
    BY <1>1, <1>5, <2>1, <2>2, SendKeepsTransport DEF OnPublishReceive, Messages
<1>7. NextSeed(p) \in GlobalIds
  <2>1. global_request_id_seed[p] + 1 \in Nat
    BY <1>4 DEF GlobalIds
  <2> QED
    BY <2>1, IdsWrap DEF NextSeed
<1>8. PumpTypeOK'
  BY <1>7 DEF OnPublishReceive, PumpTypeOK
<1> QED
  BY <1>6, <1>8

(* An acknowledgement is dropped. *)
LEMMA OnPrepareAckReceiveTyped ==
    ASSUME Typed, NEW p \in Pumps, NEW e \in Engines, OnPrepareAckReceive(p, e)
    PROVE  TransportTyped' /\ PumpTypeOK'
<1> USE DEF Typed, TypeOK
<1>1. TransportTyped /\ <<e, p>> \in Links /\ net[<<e, p>>] # << >>
  BY LinkEnds DEF TransportTyped, OnPrepareAckReceive, Arrived
<1>2. TransportTyped'
  BY <1>1, TakeKeepsTransport DEF OnPrepareAckReceive
<1> QED
  BY <1>2, Unchanged DEF OnPrepareAckReceive

(* A process that crashes leaves the transport typed. *)
LEMMA CrashTyped ==
    ASSUME Typed, NEW d \in Processes, Crash(d)
    PROVE  TransportTyped'
<1>1. TransportTyped /\ failed \subseteq Processes
  BY DEF Typed, TypeOK, TransportTyped, TransportTypeOK
<1> QED
  BY <1>1, ExitKeepsTransport DEF Crash

----------------------------------------------------------------------------
(* Engines. *)

(* A loop of the right kind, over nuzzles or over consumers. *)
LEMMA EngineLoops ==
    ASSUME Typed, NEW e \in Engines
    PROVE  /\ fan_out[e] \in Loops(Nuzzles) /\ InRange(fan_out[e])
           /\ fan_out[e] # Idle => /\ fan_out[e] \in LoopOver(Nuzzles)
                                   /\ fan_out[e].request \in RequestPublish
  BY DEF Typed, TypeOK, EngineTypeOK, Loops, InRange, LoopOver

(* Storing keeps a buffer of stored publications. *)
LEMMA StoreTyped ==
    ASSUME NEW buffer \in SUBSET Stored, NEW request \in RequestPrepare
    PROVE  Store(buffer, request) \in SUBSET Stored
  BY DEF Store, StoredOf, Stored, RequestPrepare

(* The oldest message from a pump to an engine is a prepare. *)
LEMMA PrepareArrived ==
    ASSUME Typed, NEW e \in Engines, NEW p \in Pumps, Arrived(p, e, "req_prepare")
    PROVE  /\ <<p, e>> \in Links /\ net[<<p, e>>] # << >>
           /\ net \in Queues /\ AllSupported(net)
           /\ Head(net[<<p, e>>]) \in RequestPrepare
<1>1. <<p, e>> \in Links /\ net \in Queues /\ AllSupported(net)
  BY LinkEnds, TransportForm DEF Typed, TypeOK, TransportTyped
<1>2. Head(net[<<p, e>>]) \in Messages /\ Head(net[<<p, e>>]).type = "req_prepare"
  BY <1>1, ArrivedMessage
<1> QED
  BY <1>1, <1>2 DEF Arrived, Messages, RequestPublish, RequestPrepare,
                    ResponsePrepare, RequestUpdateSubscription, ForwardedUpdate

(* A prepared publication is stored and acknowledged and its loop begins. *)
LEMMA OnPrepareReceiveTyped ==
    ASSUME Typed, NEW e \in Engines, NEW p \in Pumps, OnPrepareReceive(e, p)
    PROVE  TransportTyped' /\ EngineTypeOK'
<1> DEFINE request == Head(net[<<p, e>>])
           loop == BeginLoop(PublishOf(request), subscriptions[e][request.topic_id])
<1>1. /\ <<p, e>> \in Links /\ net[<<p, e>>] # << >>
      /\ net \in Queues /\ AllSupported(net)
      /\ request \in RequestPrepare
  BY PrepareArrived DEF OnPrepareReceive
<1>2. PrepareAck(request) \in ResponsePrepare /\ PublishOf(request) \in RequestPublish
  BY <1>1 DEF PrepareAck, PublishOf, RequestPrepare, ResponsePrepare, RequestPublish
<1>3. TransportTyped'
  <2>1. Taken(<<p, e>>) \in Queues /\ AllSupported(Taken(<<p, e>>))
    BY <1>1, TakenQueues, TakenSupported
  <2>2. \A l \in Links : l[1] = e /\ l[2] \in {p} => Supports(l, PrepareAck(request))
    BY <1>2 DEF Links, Connections, Supports
  <2> QED
    BY <1>2, <2>1, <2>2, SendKeepsTransport
    DEF OnPrepareReceive, Messages, Typed, TypeOK, TransportTyped
<1>4. message_buffer' \in [Engines -> SUBSET Stored]
  <2>1. Store(message_buffer[e], request) \in SUBSET Stored
    BY <1>1, StoreTyped DEF Typed, TypeOK, EngineTypeOK
  <2> QED
    BY <2>1 DEF OnPrepareReceive, Typed, TypeOK, EngineTypeOK
<1>5. loop \in Loops(Nuzzles) /\ InRange(loop)
  <2>1. subscriptions[e][request.topic_id] \in Seq(Nuzzles)
    BY <1>1 DEF Typed, TypeOK, EngineTypeOK, RequestPrepare
  <2> QED
    BY <1>2, <2>1, BeginLoopTyped
<1>6. fan_out' = [fan_out EXCEPT ![e] = loop]
  BY DEF OnPrepareReceive
<1>7. EngineTypeOK'
  BY <1>4, <1>5, <1>6 DEF OnPrepareReceive, Typed, TypeOK, EngineTypeOK, Loops, InRange
<1> QED
  BY <1>3, <1>7

(* The loop sends its request to a nuzzle. *)
LEMMA FanOutPublishTyped ==
    ASSUME Typed, NEW e \in Engines, FanOutPublish(e)
    PROVE  TransportTyped' /\ EngineTypeOK'
<1> DEFINE request == fan_out[e].request
           vector == subscriptions[e][request.topic_id]
<1>1. fan_out[e] \in LoopOver(Nuzzles) /\ request \in RequestPublish
      /\ fan_out[e].next <= Len(fan_out[e].range)
  BY EngineLoops DEF FanOutPublish, InRange
<1>2. vector \in Seq(Nuzzles)
  BY <1>1 DEF Typed, TypeOK, EngineTypeOK, RequestPublish
<1>3. PICK n \in LoopReads(fan_out[e], vector) :
        net' = Posted(net, e, {n}, request) /\ stream' = Touched(e, {n})
  BY DEF FanOutPublish
<1>4. n \in Nuzzles
  BY <1>1, <1>2, LoopReadsTyped
<1>5. TransportTyped'
  <2>1. \A l \in Links : l[1] = e /\ l[2] \in {n} => Supports(l, request)
    BY <1>1, <1>4 DEF Links, Connections, Supports
  <2>2. TransportTyped /\ net \in Queues /\ AllSupported(net)
    BY TransportForm DEF Typed, TypeOK, TransportTyped
  <2> QED
    BY <1>1, <1>3, <2>1, <2>2, SendKeepsTransport DEF FanOutPublish, Messages
<1>6. AdvanceLoop(fan_out[e]) \in Loops(Nuzzles) /\ InRange(AdvanceLoop(fan_out[e]))
  BY <1>1, AdvanceLoopTyped
<1>7. fan_out' = [fan_out EXCEPT ![e] = AdvanceLoop(fan_out[e])]
  BY DEF FanOutPublish
<1>8. EngineTypeOK'
  BY <1>6, <1>7 DEF FanOutPublish, Typed, TypeOK, EngineTypeOK, Loops, InRange
<1> QED
  BY <1>5, <1>8

(* The oldest message from a nuzzle to an engine is a forwarded update. *)
LEMMA UpdateArrived ==
    ASSUME Typed, NEW e \in Engines, NEW n \in Nuzzles,
           Arrived(n, e, "req_update_subscription")
    PROVE  /\ <<n, e>> \in Links /\ net[<<n, e>>] # << >>
           /\ Head(net[<<n, e>>]) \in ForwardedUpdate
<1>1. /\ <<n, e>> \in Links /\ net \in Queues /\ AllSupported(net)
      /\ net[<<n, e>>] # << >>
  BY LinkEnds, TransportForm DEF Typed, TypeOK, TransportTyped, Arrived
<1>2. 1 \in DOMAIN net[<<n, e>>] /\ Head(net[<<n, e>>]) = net[<<n, e>>][1]
  BY <1>1, ArrivedMessage
<1>3. Supports(<<n, e>>, Head(net[<<n, e>>]))
  BY <1>1, <1>2 DEF AllSupported
<1> QED
  BY <1>1, <1>3, ProcessesDisjoint DEF Supports

(* A registration is added to both tables. *)
LEMMA EngineSubscribeTyped ==
    ASSUME Typed, NEW e \in Engines, NEW n \in Nuzzles, EngineSubscribe(e, n)
    PROVE  TransportTyped' /\ EngineTypeOK'
<1> DEFINE request == Head(net[<<n, e>>])
           t == request.topic_id
<1>1. /\ <<n, e>> \in Links /\ net[<<n, e>>] # << >>
      /\ t \in Topics /\ request.sender_id \in SenderIds
  BY UpdateArrived DEF EngineSubscribe, ForwardedUpdate
<1>2. TransportTyped'
  BY <1>1, TakeKeepsTransport DEF EngineSubscribe, Typed, TypeOK, TransportTyped
<1>3. subscriptions' \in [Engines -> [Topics -> Seq(Nuzzles)]]
  BY <1>1 DEF EngineSubscribe, Typed, TypeOK, EngineTypeOK
<1>4. client_subscriptions' \in [Engines -> [Topics -> [Nuzzles -> Seq(SenderIds)]]]
  <2> DEFINE clients == Append(client_subscriptions[e][t][n], request.sender_id)
  <2>1. clients \in Seq(SenderIds)
    BY <1>1 DEF Typed, TypeOK, EngineTypeOK
  <2>2. client_subscriptions' = [client_subscriptions EXCEPT ![e][t][n] = clients]
    BY DEF EngineSubscribe
  <2> HIDE DEF clients
  <2> QED
    BY <1>1, <2>1, <2>2 DEF Typed, TypeOK, EngineTypeOK
<1> QED
  BY <1>2, <1>3, <1>4 DEF EngineSubscribe, Typed, TypeOK, EngineTypeOK

(* ... and removed from them. *)
LEMMA EngineUnsubscribeTyped ==
    ASSUME Typed, NEW e \in Engines, NEW n \in Nuzzles, EngineUnsubscribe(e, n)
    PROVE  TransportTyped' /\ EngineTypeOK'
<1> DEFINE request == Head(net[<<n, e>>])
           t == request.topic_id
           clients == Erased(client_subscriptions[e][t][n], request.sender_id)
           fed == FedAfter(subscriptions[e][t], n, clients)
<1>1. /\ <<n, e>> \in Links /\ net[<<n, e>>] # << >>
      /\ t \in Topics /\ request.sender_id \in SenderIds
  BY UpdateArrived DEF EngineUnsubscribe, ForwardedUpdate
<1>2. /\ client_subscriptions[e][t][n] \in Seq(SenderIds)
      /\ subscriptions[e][t] \in Seq(Nuzzles)
  BY <1>1 DEF Typed, TypeOK, EngineTypeOK
<1>3. /\ clients \in Seq(SenderIds)
      /\ clients = << >> => Len(client_subscriptions[e][t][n]) = 1
  <2>1. Contains(client_subscriptions[e][t][n], request.sender_id)
    BY DEF EngineUnsubscribe, FindsRegistration
  <2> QED
    BY <1>2, <2>1, ErasedTyped
<1>4. fed \in Seq(Nuzzles)
  <2>1. CASE clients = << >>
    <3>1. Contains(subscriptions[e][t], n)
      BY <1>3, <2>1 DEF EngineUnsubscribe, FindsRegistration
    <3> QED
      BY <1>2, <2>1, <3>1, ErasedTyped DEF FedAfter
  <2>2. CASE clients # << >>
    BY <1>2, <2>2 DEF FedAfter
  <2> QED
    BY <2>1, <2>2
<1>5. TransportTyped'
  BY <1>1, TakeKeepsTransport DEF EngineUnsubscribe, Typed, TypeOK, TransportTyped
<1>6. /\ client_subscriptions' = [client_subscriptions EXCEPT ![e][t][n] = clients]
      /\ subscriptions' = [subscriptions EXCEPT ![e][t] = fed]
  BY DEF EngineUnsubscribe
<1>7. subscriptions' \in [Engines -> [Topics -> Seq(Nuzzles)]]
  BY <1>1, <1>4, <1>6 DEF Typed, TypeOK, EngineTypeOK
<1>8. client_subscriptions' \in [Engines -> [Topics -> [Nuzzles -> Seq(SenderIds)]]]
  BY <1>1, <1>3, <1>6 DEF Typed, TypeOK, EngineTypeOK
<1> QED
  BY <1>5, <1>7, <1>8 DEF EngineUnsubscribe, Typed, TypeOK, EngineTypeOK

----------------------------------------------------------------------------
(* Nuzzles. *)

(* The nuzzle's connections are made or end it. *)
LEMMA NuzzleConnectTyped ==
    ASSUME Typed, NEW n \in Nuzzles, NEW e \in Engines, NuzzleConnectToEngine(n, e)
    PROVE  TransportTyped' /\ NuzzleTypeOK'
<1>0. TransportTyped /\ failed \subseteq Processes /\ NuzzleTypeOK
  BY DEF Typed, TypeOK, TransportTyped, TransportTypeOK
<1>1. CASE e \in up
  <2>1. TransportTyped'
    BY <1>0, <1>1, ConnectKeepsTransport DEF NuzzleConnectToEngine
  <2> QED
    BY <1>0, <1>1, <2>1, ZenonT(60) DEF NuzzleConnectToEngine, NuzzleTypeOK
<1>2. CASE e \notin up
  <2>1. TransportTyped'
    BY <1>0, <1>2, ExitKeepsTransport DEF NuzzleConnectToEngine
  <2> QED
    BY <1>0, <1>2, <2>1 DEF NuzzleConnectToEngine, NuzzleTypeOK
<1> QED
  BY <1>1, <1>2

(* The oldest message from an engine to a nuzzle is a publication. *)
LEMMA CopyArrived ==
    ASSUME Typed, NEW n \in Nuzzles, NEW e \in Engines, Arrived(e, n, "req_publish")
    PROVE  /\ <<e, n>> \in Links /\ net[<<e, n>>] # << >>
           /\ Head(net[<<e, n>>]) \in RequestPublish
<1>1. <<e, n>> \in Links /\ net \in Queues
  BY LinkEnds, TransportForm DEF Typed, TypeOK, TransportTyped
<1>2. Head(net[<<e, n>>]) \in Messages /\ Head(net[<<e, n>>]).type = "req_publish"
  BY <1>1, ArrivedMessage
<1> QED
  BY <1>1, <1>2 DEF Arrived, Messages, RequestPublish, RequestPrepare,
                    ResponsePrepare, RequestUpdateSubscription, ForwardedUpdate

(* A copy is counted, and the loop begins with the one that completes the  *)
(* majority.                                                               *)
LEMMA OnPublishReceivedTyped ==
    ASSUME Typed, NEW n \in Nuzzles, NEW e \in Engines, OnPublishReceived(n, e)
    PROVE  TransportTyped' /\ NuzzleTypeOK'
<1> DEFINE request == Head(net[<<e, n>>])
           key == <<request.topic_id, request.global_id>>
           received == Append(copies[n][key], e)
           loop == BeginLoop(request, consumer_subscriptions[n][request.topic_id])
<1>1. /\ <<e, n>> \in Links /\ net[<<e, n>>] # << >>
      /\ request \in RequestPublish /\ request.topic_id \in Topics
      /\ key \in Keys
  BY CopyArrived DEF OnPublishReceived, RequestPublish, Keys
<1>2. TransportTyped'
  BY <1>1, TakeKeepsTransport DEF OnPublishReceived, Typed, TypeOK, TransportTyped
<1>3. Forgotten(received) \in Seq(Engines)
  <2>1. received \in Seq(Engines)
    BY <1>1 DEF Typed, TypeOK, NuzzleTypeOK
  <2> HIDE DEF received
  <2> QED
    BY <2>1 DEF Forgotten
<1>4. loop \in Loops(Consumers) /\ InRange(loop)
  <2>1. consumer_subscriptions[n][request.topic_id] \in Seq(Consumers)
    BY <1>1 DEF Typed, TypeOK, NuzzleTypeOK
  <2> QED
    BY <1>1, <2>1, BeginLoopTyped
<1>5. /\ copies' = [copies EXCEPT ![n][key] = Forgotten(received)]
      /\ delivery' = delivery \/ delivery' = [delivery EXCEPT ![n] = loop]
  BY DEF OnPublishReceived
<1>6. copies' \in [Nuzzles -> [Keys -> Seq(Engines)]]
  <2> HIDE DEF key, received
  <2> QED
    BY <1>1, <1>3, <1>5 DEF Typed, TypeOK, NuzzleTypeOK
<1>7. /\ delivery' \in [Nuzzles -> Loops(Consumers)]
      /\ \A m \in Nuzzles : InRange(delivery'[m])
  <2> HIDE DEF loop
  <2> QED
    BY <1>4, <1>5 DEF Typed, TypeOK, NuzzleTypeOK, Loops, InRange
<1>8. NuzzleTypeOK'
  BY <1>6, <1>7 DEF OnPublishReceived, Typed, TypeOK, NuzzleTypeOK, Loops, InRange
<1> QED
  BY <1>2, <1>8

(* The loop sends its request to a consumer. *)
LEMMA DeliverTyped ==
    ASSUME Typed, NEW n \in Nuzzles, Deliver(n)
    PROVE  TransportTyped' /\ NuzzleTypeOK'
<1> DEFINE request == delivery[n].request
           vector == consumer_subscriptions[n][request.topic_id]
<1>1. delivery[n] \in LoopOver(Consumers) /\ request \in RequestPublish
      /\ delivery[n].next <= Len(delivery[n].range)
  BY DEF Deliver, Typed, TypeOK, NuzzleTypeOK, LoopOver
<1>2. vector \in Seq(Consumers)
  BY <1>1 DEF Typed, TypeOK, NuzzleTypeOK, RequestPublish
<1>3. PICK c \in LoopReads(delivery[n], vector) :
        net' = Posted(net, n, {c}, request) /\ stream' = Touched(n, {c})
  BY DEF Deliver
<1>4. c \in Consumers
  BY <1>1, <1>2, LoopReadsTyped
<1>5. TransportTyped'
  <2>1. \A l \in Links : l[1] = n /\ l[2] \in {c} => Supports(l, request)
    BY <1>1, <1>4 DEF Links, Connections, Supports
  <2>2. TransportTyped /\ net \in Queues /\ AllSupported(net)
    BY TransportForm DEF Typed, TypeOK, TransportTyped
  <2> QED
    BY <1>1, <1>3, <2>1, <2>2, SendKeepsTransport DEF Deliver, Messages
<1>6. AdvanceLoop(delivery[n]) \in Loops(Consumers) /\ InRange(AdvanceLoop(delivery[n]))
  BY <1>1, AdvanceLoopTyped
<1>7. delivery' = [delivery EXCEPT ![n] = AdvanceLoop(delivery[n])]
  BY DEF Deliver
<1>8. NuzzleTypeOK'
  BY <1>6, <1>7 DEF Deliver, Typed, TypeOK, NuzzleTypeOK, Loops, InRange
<1> QED
  BY <1>5, <1>8

(* The oldest message from a consumer to a nuzzle is an update. *)
LEMMA RequestArrived ==
    ASSUME Typed, NEW n \in Nuzzles, NEW c \in Consumers,
           Arrived(c, n, "req_update_subscription")
    PROVE  /\ <<c, n>> \in Links /\ net[<<c, n>>] # << >>
           /\ Taken(<<c, n>>) \in Queues /\ AllSupported(Taken(<<c, n>>))
           /\ Head(net[<<c, n>>]) \in RequestUpdateSubscription
<1>1. /\ <<c, n>> \in Links /\ net \in Queues /\ AllSupported(net)
      /\ net[<<c, n>>] # << >>
  BY LinkEnds, TransportForm DEF Typed, TypeOK, TransportTyped, Arrived
<1>2. 1 \in DOMAIN net[<<c, n>>] /\ Head(net[<<c, n>>]) = net[<<c, n>>][1]
  BY <1>1, ArrivedMessage
<1>3. Supports(<<c, n>>, Head(net[<<c, n>>]))
  BY <1>1, <1>2 DEF AllSupported
<1> QED
  BY <1>1, <1>3, ProcessesDisjoint, TakenQueues, TakenSupported DEF Supports

(* Passing an update on to engines, after taking it from its consumer. *)
LEMMA ForwardKeepsTransport ==
    ASSUME Typed, NEW n \in Nuzzles, NEW c \in Consumers,
           Arrived(c, n, "req_update_subscription"),
           UNCHANGED <<up, failed>>, NEW sender_id \in SenderIds,
           net' = Posted(Taken(<<c, n>>), n, nuzzle_engines[n],
                         Forward(Head(net[<<c, n>>]), sender_id)),
           stream' = Touched(n, nuzzle_engines[n])
    PROVE  TransportTyped'
<1> DEFINE m == Forward(Head(net[<<c, n>>]), sender_id)
<1>1. m \in ForwardedUpdate
  BY RequestArrived DEF Forward, RequestUpdateSubscription, ForwardedUpdate
<1>2. \A l \in Links : l[1] = n /\ l[2] \in nuzzle_engines[n] => Supports(l, m)
  <2>1. nuzzle_engines[n] \subseteq Engines
    BY DEF Typed, TypeOK, NuzzleTypeOK
  <2> QED
    BY <1>1, <2>1 DEF Links, Connections, Supports
<1>3. TransportTyped /\ m \in Messages
  BY <1>1 DEF Typed, TypeOK, TransportTyped, Messages
<1> HIDE DEF m
<1> QED
  BY <1>2, <1>3, RequestArrived, SendKeepsTransport DEF m

(* A subscription is passed on and remembered ... *)
LEMMA NuzzleSubscribeTyped ==
    ASSUME Typed, NEW n \in Nuzzles, NEW c \in Consumers, NuzzleSubscribe(n, c)
    PROVE  TransportTyped' /\ NuzzleTypeOK'
<1>1. TransportTyped'
  BY ForwardKeepsTransport DEF NuzzleSubscribe
<1>2. Head(net[<<c, n>>]).topic_id \in Topics
  BY RequestArrived DEF NuzzleSubscribe, RequestUpdateSubscription
<1>3. joining' \in [Nuzzles -> (Consumers \X Topics) \cup {Idle}]
  BY <1>2 DEF NuzzleSubscribe, Typed, TypeOK, NuzzleTypeOK
<1> QED
  BY <1>1, <1>3 DEF NuzzleSubscribe, Typed, TypeOK, NuzzleTypeOK

(* ... and its consumer added to the vector. *)
LEMMA NuzzleSubscribedTyped ==
    ASSUME Typed, NEW n \in Nuzzles, NuzzleSubscribed(n)
    PROVE  TransportTyped' /\ NuzzleTypeOK'
<1>1. TransportTyped'
  BY Unchanged DEF NuzzleSubscribed, Typed, TypeOK, TransportTyped
<1>2. joining[n] \in Consumers \X Topics
  BY DEF NuzzleSubscribed, Typed, TypeOK, NuzzleTypeOK
<1>3. consumer_subscriptions' \in [Nuzzles -> [Topics -> Seq(Consumers)]]
  <2> DEFINE t == joining[n][2]
             vector == Append(consumer_subscriptions[n][t], joining[n][1])
  <2>1. t \in Topics /\ joining[n][1] \in Consumers
    BY <1>2
  <2>2. vector \in Seq(Consumers)
    BY <2>1 DEF Typed, TypeOK, NuzzleTypeOK
  <2>3. consumer_subscriptions' = [consumer_subscriptions EXCEPT ![n][t] = vector]
    BY DEF NuzzleSubscribed
  <2> HIDE DEF t, vector
  <2> QED
    BY <2>1, <2>2, <2>3 DEF Typed, TypeOK, NuzzleTypeOK
<1>4. joining' \in [Nuzzles -> (Consumers \X Topics) \cup {Idle}]
  BY DEF NuzzleSubscribed, Typed, TypeOK, NuzzleTypeOK
<1> QED
  BY <1>1, <1>3, <1>4 DEF NuzzleSubscribed, Typed, TypeOK, NuzzleTypeOK

(* A consumer is removed from the vector and the engines are told. *)
LEMMA NuzzleUnsubscribeTyped ==
    ASSUME Typed, NEW n \in Nuzzles, NEW c \in Consumers, NuzzleUnsubscribe(n, c)
    PROVE  TransportTyped' /\ NuzzleTypeOK'
<1> DEFINE t == Head(net[<<c, n>>]).topic_id
           vector == Erased(consumer_subscriptions[n][t], c)
<1>1. TransportTyped'
  BY ForwardKeepsTransport DEF NuzzleUnsubscribe
<1>2. t \in Topics
  BY RequestArrived DEF NuzzleUnsubscribe, RequestUpdateSubscription
<1>3. vector \in Seq(Consumers)
  <2>1. consumer_subscriptions[n][t] \in Seq(Consumers)
        /\ Contains(consumer_subscriptions[n][t], c)
    BY <1>2 DEF NuzzleUnsubscribe, Typed, TypeOK, NuzzleTypeOK
  <2> QED
    BY <2>1, ErasedTyped
<1>4. consumer_subscriptions' = [consumer_subscriptions EXCEPT ![n][t] = vector]
  BY DEF NuzzleUnsubscribe
<1>5. consumer_subscriptions' \in [Nuzzles -> [Topics -> Seq(Consumers)]]
  <2> HIDE DEF t, vector
  <2> QED
    BY <1>2, <1>3, <1>4 DEF Typed, TypeOK, NuzzleTypeOK
<1> QED
  BY <1>1, <1>5 DEF NuzzleUnsubscribe, Typed, TypeOK, NuzzleTypeOK

----------------------------------------------------------------------------
(* Consumers. *)

(* A consumer's next request goes to its nuzzle. *)
LEMMA ConsumerUpdateTyped ==
    ASSUME Typed, NEW c \in Consumers, ConsumerUpdateSubscription(c)
    PROVE  TransportTyped' /\ ConsumerTypeOK'
<1> DEFINE m == UpdateRequest(Head(requests[c]))
<1>1. /\ requests[c] \in Seq(Topics \X {0, 1}) /\ requests[c] # << >>
      /\ NuzzleConnection[c] \in Nuzzles
  BY ConsumerAssumption
  DEF ConsumerUpdateSubscription, Typed, TypeOK, ConsumerTypeOK, Scripts
<1>2. Head(requests[c]) \in Topics \X {0, 1} /\ Tail(requests[c]) \in Scripts
  BY <1>1 DEF Scripts
<1>3. m \in RequestUpdateSubscription
  BY <1>2 DEF UpdateRequest, RequestUpdateSubscription
<1>4. \A l \in Links : l[1] = c /\ l[2] \in {NuzzleConnection[c]} => Supports(l, m)
  BY <1>1, <1>3 DEF Links, Connections, Supports
<1>5. TransportTyped'
  <2>1. TransportTyped /\ net \in Queues /\ AllSupported(net) /\ m \in Messages
    BY <1>3, TransportForm DEF Typed, TypeOK, TransportTyped, Messages
  <2> HIDE DEF m
  <2> QED
    BY <1>4, <2>1, SendKeepsTransport DEF ConsumerUpdateSubscription, m
<1>6. requests' \in [Consumers -> Scripts]
  BY <1>2 DEF ConsumerUpdateSubscription, Typed, TypeOK, ConsumerTypeOK
<1> QED
  BY <1>5, <1>6 DEF ConsumerUpdateSubscription, Typed, TypeOK, ConsumerTypeOK

(* The oldest message from a nuzzle to a consumer is a publication. *)
LEMMA DeliveryArrived ==
    ASSUME Typed, NEW c \in Consumers, NEW n \in Nuzzles, Arrived(n, c, "req_publish")
    PROVE  /\ <<n, c>> \in Links /\ net[<<n, c>>] # << >>
           /\ Head(net[<<n, c>>]) \in RequestPublish
<1>1. <<n, c>> \in Links /\ net \in Queues
  BY LinkEnds, TransportForm DEF Typed, TypeOK, TransportTyped
<1>2. Head(net[<<n, c>>]) \in Messages /\ Head(net[<<n, c>>]).type = "req_publish"
  BY <1>1, ArrivedMessage
<1> QED
  BY <1>1, <1>2 DEF Arrived, Messages, RequestPublish, RequestPrepare,
                    ResponsePrepare, RequestUpdateSubscription, ForwardedUpdate

(* What arrives is logged. *)
LEMMA OnPublishLoggedTyped ==
    ASSUME Typed, NEW c \in Consumers, NEW n \in Nuzzles, OnPublishLogged(c, n)
    PROVE  TransportTyped' /\ ConsumerTypeOK'
<1>1. /\ <<n, c>> \in Links /\ net[<<n, c>>] # << >>
      /\ Head(net[<<n, c>>]) \in RequestPublish
  BY DeliveryArrived DEF OnPublishLogged
<1>2. TransportTyped'
  BY <1>1, TakeKeepsTransport DEF OnPublishLogged, Typed, TypeOK, TransportTyped
<1>3. log_buffer' \in [Consumers -> Seq(RequestPublish)]
  BY <1>1 DEF OnPublishLogged, Typed, TypeOK, ConsumerTypeOK
<1> QED
  BY <1>2, <1>3 DEF OnPublishLogged, Typed, TypeOK, ConsumerTypeOK

----------------------------------------------------------------------------
(* The network, the operating system, and the start. *)

(* What happens to a process or a link from outside keeps them typed. *)
LEMMA TransportStepTyped ==
    ASSUME Typed, TransportStep
    PROVE  TransportTyped'
<1>0. TransportTyped /\ TransportTypeOK /\ failed \subseteq Processes
  BY DEF Typed, TypeOK, TransportTyped, TransportTypeOK
<1>1. ASSUME NEW d \in Processes, Kill(d) PROVE TransportTyped'
  BY <1>1, CrashTyped DEF Kill
<1>2. ASSUME NEW l \in Links, LoseInFlight(l) PROVE TransportTyped'
  <2>1. net' \in Queues /\ AllSupported(net')
    BY <1>0, <1>2, TransportForm DEF LoseInFlight, Queues, AllSupported
  <2> QED
    BY <1>0, <1>2, <2>1, TransportForm DEF LoseInFlight
<1>3. ASSUME NEW l \in Links, PeerClosed(l[1], l[2]) PROVE TransportTyped'
  <2>1. stream' \in [Links -> StreamStates]
    BY <1>0, <1>3 DEF PeerClosed, TransportTypeOK, StreamStates
  <2> QED
    BY <1>0, <1>3, <2>1, TransportForm DEF PeerClosed
<1>4. ASSUME NEW l \in Links, PeerReset(l[1], l[2]) PROVE TransportTyped'
  BY <1>0, <1>4, ExitKeepsTransport DEF PeerReset
<1> QED
  BY <1>1, <1>2, <1>3, <1>4 DEF TransportStep

(* A publisher begins with its first pump and the first topic of its range. *)
LEMMA PublisherInitTyped == PublisherInit => PublisherTypeOK
<1>1. \A b \in Publishers : PublishRange[b][1] \in PublishRange[b][1]..PublishRange[b][2]
  BY PublisherAssumption
<1>2. \A b \in Publishers : PublishRange[b][1] \in Topics
  BY <1>1, PublisherAssumption
<1>3. \A b \in Publishers : 0 < Len(PumpConnections[b])
  BY PublisherAssumption
<1>4. MaxPublish \in Nat
  BY NumbersAssumption
<1> QED
  BY <1>1, <1>2, <1>3, <1>4 DEF PublisherInit, PublisherTypeOK

(* A deployment starts typed. *)
LEMMA InitTyped == Init => Typed
<1> SUFFICES ASSUME Init PROVE Typed
  OBVIOUS
<1> USE DEF Init
<1>1. TransportTypeOK /\ SupportedOnly
  BY DEF TransportInit, TransportTypeOK, SupportedOnly, StreamStates
<1>2. PublisherTypeOK
  BY PublisherInitTyped
<1>3. PumpTypeOK
  BY DEF PumpInit, PumpTypeOK
<1>4. EngineTypeOK
  BY DEF EngineInit, EngineTypeOK
<1>5. NuzzleTypeOK
  BY DEF NuzzleInit, NuzzleTypeOK
<1>6. ConsumerTypeOK
  BY ConsumerAssumption DEF ConsumerInit, ConsumerTypeOK
<1> QED
  BY <1>1, <1>2, <1>3, <1>4, <1>5, <1>6 DEF Typed, TypeOK

----------------------------------------------------------------------------
(* The theorems. *)

(* Publishers, pumps and what a pump's bad pointer does keep Typed. *)
LEMMA PublisherPumpTyped ==
    ASSUME Typed, PublisherStep \/ PumpStep
    PROVE  Typed'
<1>0. TransportTyped
  BY DEF Typed, TypeOK, TransportTyped
<1>1. CASE PublisherStep
  <2>1. TransportTyped' /\ PublisherTypeOK'
    BY <1>1, PublishTyped DEF PublisherStep
  <2> QED
    BY <1>1, <2>1, Unchanged
    DEF PublisherStep, PublisherFrame, Typed, TypeOK, TransportTyped
<1>2. CASE PumpStep
  <2>1. PICK p \in Pumps :
          \/ \E e \in Engines : PumpConnectToEngine(p, e)
          \/ \E b \in Publishers : OnPublishReceive(p, b)
          \/ \E b \in Publishers : OnPublishReceiveWild(p, b)
          \/ \E e \in Engines : OnPrepareAckReceive(p, e)
    BY <1>2 DEF PumpStep
  <2>2. ASSUME NEW b \in Publishers, OnPublishReceiveWild(p, b)
        PROVE  TransportTyped' /\ PumpTypeOK'
    <3>1. p \in Processes
      BY DEF Processes
    <3>2. TransportTyped'
      BY <2>2, <3>1, CrashTyped DEF OnPublishReceiveWild
    <3> QED
      BY <2>2, <3>2, Unchanged DEF OnPublishReceiveWild, Typed, TypeOK
  <2>3. TransportTyped' /\ PumpTypeOK'
    BY <2>1, <2>2, PumpConnectTyped, OnPublishReceiveTyped, OnPrepareAckReceiveTyped
  <2> QED
    BY <1>2, <2>3, Unchanged DEF PumpStep, PumpFrame, Typed, TypeOK, TransportTyped
<1> QED
  BY <1>1, <1>2

(* Engines keep Typed. *)
LEMMA EngineTyped ==
    ASSUME Typed, EngineStep
    PROVE  Typed'
<1>1. PICK e \in Engines :
        \/ \E p \in Pumps : OnPrepareReceive(e, p)
        \/ FanOutPublish(e)
        \/ \E n \in Nuzzles : EngineSubscribe(e, n)
        \/ \E n \in Nuzzles : EngineUnsubscribe(e, n)
        \/ \E n \in Nuzzles : EngineUnsubscribeUnknown(e, n)
        \/ \E n \in Nuzzles : EngineRaceCrash(e, n)
  BY DEF EngineStep
<1>2. ASSUME Crash(e), UNCHANGED engineVars PROVE TransportTyped' /\ EngineTypeOK'
  <2>1. e \in Processes
    BY DEF Processes
  <2> QED
    BY <1>2, <2>1, CrashTyped, Unchanged DEF Typed, TypeOK
<1>3. ASSUME NEW n \in Nuzzles,
             EngineUnsubscribeUnknown(e, n) \/ EngineRaceCrash(e, n)
      PROVE  TransportTyped' /\ EngineTypeOK'
  BY <1>2, <1>3 DEF EngineUnsubscribeUnknown, EngineRaceCrash
<1>4. TransportTyped' /\ EngineTypeOK'
  BY <1>1, <1>3, OnPrepareReceiveTyped, FanOutPublishTyped, EngineSubscribeTyped,
     EngineUnsubscribeTyped
<1> QED
  BY <1>4, Unchanged DEF EngineStep, EngineFrame, Typed, TypeOK, TransportTyped

(* Nuzzles keep Typed. *)
LEMMA NuzzleTyped ==
    ASSUME Typed, NuzzleStep
    PROVE  Typed'
<1>1. PICK n \in Nuzzles :
        \/ \E e \in Engines : NuzzleConnectToEngine(n, e)
        \/ \E e \in Engines : OnPublishReceived(n, e)
        \/ Deliver(n)
        \/ \E c \in Consumers : NuzzleSubscribe(n, c)
        \/ NuzzleSubscribed(n)
        \/ \E c \in Consumers : NuzzleUnsubscribe(n, c)
        \/ \E c \in Consumers : NuzzleUnsubscribeUnknown(n, c)
        \/ NuzzleRaceCrash(n)
  BY DEF NuzzleStep
<1>2. ASSUME Crash(n), UNCHANGED nuzzleVars PROVE TransportTyped' /\ NuzzleTypeOK'
  <2>1. n \in Processes
    BY DEF Processes
  <2> QED
    BY <1>2, <2>1, CrashTyped, Unchanged DEF Typed, TypeOK
<1>3. ASSUME NEW c \in Consumers, NuzzleUnsubscribeUnknown(n, c)
      PROVE  TransportTyped' /\ NuzzleTypeOK'
  BY <1>2, <1>3 DEF NuzzleUnsubscribeUnknown
<1>4. ASSUME NuzzleRaceCrash(n) PROVE TransportTyped' /\ NuzzleTypeOK'
  BY <1>2, <1>4 DEF NuzzleRaceCrash
<1>5. TransportTyped' /\ NuzzleTypeOK'
  BY <1>1, <1>3, <1>4, NuzzleConnectTyped, OnPublishReceivedTyped, DeliverTyped,
     NuzzleSubscribeTyped, NuzzleSubscribedTyped, NuzzleUnsubscribeTyped
<1> QED
  BY <1>5, Unchanged DEF NuzzleStep, NuzzleFrame, Typed, TypeOK, TransportTyped

(* Consumers, the network and the operating system keep Typed. *)
LEMMA OthersTyped ==
    ASSUME Typed, ConsumerStep \/ TransportStep
    PROVE  Typed'
<1>1. CASE ConsumerStep
  <2>1. TransportTyped' /\ ConsumerTypeOK'
    BY <1>1, ConsumerUpdateTyped, OnPublishLoggedTyped DEF ConsumerStep
  <2> QED
    BY <1>1, <2>1, Unchanged
    DEF ConsumerStep, ConsumerFrame, Typed, TypeOK, TransportTyped
<1>2. CASE TransportStep
  BY <1>2, TransportStepTyped, Unchanged
  DEF TransportStep, ProcessFrame, Typed, TypeOK, TransportTyped
<1> QED
  BY <1>1, <1>2

(* Typed is inductive. *)
LEMMA NextTyped == Typed /\ [Next]_vars => Typed'
<1> SUFFICES ASSUME Typed, [Next]_vars PROVE Typed'
  OBVIOUS
<1>1. CASE Next
  BY <1>1, PublisherPumpTyped, EngineTyped, NuzzleTyped, OthersTyped DEF Next
<1>2. CASE UNCHANGED vars
  BY <1>2, Unchanged DEF vars, Typed, TypeOK, TransportTyped
<1> QED
  BY <1>1, <1>2

(* Typed holds throughout. *)
THEOREM TypedAlways == Spec => []Typed
  BY InitTyped, NextTyped, PTL DEF Spec

(* The tables, buffers, loops and counters of every process keep their     *)
(* shape: in particular no loop over subscribers runs past the end of the  *)
(* vector it began on, however subscriptions come and go.                  *)
THEOREM TypeCorrect == Spec => []TypeOK
<1>1. Typed => TypeOK
  BY DEF Typed
<1> QED
  BY <1>1, TypedAlways, PTL

(* No process is sent a message its new_rx_message() has no case for, so   *)
(* no reader is left with the null pointer it would then use.              *)
THEOREM ReadersAreSupported == Spec => []SupportedOnly
<1>1. Typed => SupportedOnly
  BY DEF Typed
<1> QED
  BY <1>1, TypedAlways, PTL

----------------------------------------------------------------------------
(***************************************************************************)
(* What a consumer is delivered was published, on that topic, whatever is  *)
(* lost or raced for on the way.                                           *)
(***************************************************************************)

FromPublished(r, P) == <<r.topic_id, r.message>> \in P

CarriesPublication(m) == m.type \in {"req_publish", "req_prepare"}

QueuesFrom(n, P) ==
    \A l \in Links : \A i \in DOMAIN n[l] :
      CarriesPublication(n[l][i]) => FromPublished(n[l][i], P)

LoopFrom(loop, P) == loop # Idle => FromPublished(loop.request, P)

(* DeliveredWasPublished is not inductive: what a consumer is delivered    *)
(* rests on what every queue and loop before it holds.                     *)
Integrity ==
    /\ QueuesFrom(net, published)
    /\ \A e \in Engines : LoopFrom(fan_out[e], published)
    /\ \A n \in Nuzzles : LoopFrom(delivery[n], published)
    /\ \A c \in Consumers : \A i \in DOMAIN log_buffer[c] :
         FromPublished(log_buffer[c][i], published)

----------------------------------------------------------------------------
(* Queues. *)

(* Sending what was published keeps the queues from what was published. *)
LEMMA PostedFrom ==
    ASSUME NEW P, NEW n \in Queues, QueuesFrom(n, P), NEW a, NEW B,
           NEW m \in Messages, CarriesPublication(m) => FromPublished(m, P)
    PROVE  QueuesFrom(Posted(n, a, B, m), P)
<1> SUFFICES ASSUME NEW l \in Links, NEW i \in DOMAIN Posted(n, a, B, m)[l]
             PROVE  CarriesPublication(Posted(n, a, B, m)[l][i])
                      => FromPublished(Posted(n, a, B, m)[l][i], P)
  BY DEF QueuesFrom
<1>1. CASE l[1] = a /\ l[2] \in B \cap up
  <2>1. Posted(n, a, B, m)[l] = Append(n[l], m) /\ n[l] \in Seq(Messages)
    BY <1>1 DEF Posted, Queues
  <2>2. CASE i = Len(n[l]) + 1
    BY <2>1, <2>2
  <2>3. CASE i # Len(n[l]) + 1
    <3>1. i \in DOMAIN n[l] /\ Append(n[l], m)[i] = n[l][i]
      BY <2>1, <2>3
    <3> QED
      BY <2>1, <3>1 DEF QueuesFrom
  <2> QED
    BY <2>2, <2>3
<1>2. CASE ~(l[1] = a /\ l[2] \in B \cap up)
  <2>1. Posted(n, a, B, m)[l] = n[l]
    BY <1>2 DEF Posted
  <2> QED
    BY <2>1 DEF QueuesFrom
<1> QED
  BY <1>1, <1>2

(* So does taking a message. *)
LEMMA TakenFrom ==
    ASSUME NEW P, net \in Queues, QueuesFrom(net, P), NEW l \in Links, net[l] # << >>
    PROVE  QueuesFrom(Taken(l), P)
<1> SUFFICES ASSUME NEW k \in Links, NEW i \in DOMAIN Taken(l)[k]
             PROVE  CarriesPublication(Taken(l)[k][i])
                      => FromPublished(Taken(l)[k][i], P)
  BY DEF QueuesFrom
<1>1. CASE k = l
  <2>1. net[l] \in Seq(Messages) /\ Taken(l)[k] = Tail(net[l])
    BY <1>1 DEF Taken, Queues
  <2>2. i + 1 \in DOMAIN net[l] /\ Taken(l)[k][i] = net[l][i + 1]
    BY <2>1
  <2> QED
    BY <2>2 DEF QueuesFrom
<1>2. CASE k # l
  BY <1>2 DEF Taken, QueuesFrom, Queues
<1> QED
  BY <1>1, <1>2

(* So does the exit of a process. *)
LEMMA ExitFrom ==
    ASSUME NEW P, QueuesFrom(net, P), NEW d, Exit(d)
    PROVE  QueuesFrom(net', P)
  BY DEF Exit, QueuesFrom

(* The oldest message of a link that carries a publication is from one. *)
LEMMA ArrivedFrom ==
    ASSUME Typed, Integrity, NEW a, NEW b, <<a, b>> \in Links,
           Arrived(a, b, "req_publish") \/ Arrived(a, b, "req_prepare")
    PROVE  /\ FromPublished(Head(net[<<a, b>>]), published)
           /\ QueuesFrom(Taken(<<a, b>>), published)
<1>1. net \in Queues /\ net[<<a, b>>] # << >>
  BY TransportForm DEF Typed, TypeOK, TransportTyped, Arrived
<1>2. /\ 1 \in DOMAIN net[<<a, b>>] /\ Head(net[<<a, b>>]) = net[<<a, b>>][1]
      /\ CarriesPublication(Head(net[<<a, b>>]))
  BY <1>1, ArrivedMessage DEF CarriesPublication
<1>3. FromPublished(Head(net[<<a, b>>]), published)
  BY <1>2 DEF Integrity, QueuesFrom
<1> QED
  BY <1>1, <1>3, TakenFrom DEF Integrity

----------------------------------------------------------------------------
(* The steps of each kind of process. *)

(* A publication is recorded as it is sent. *)
LEMMA PublisherIntegrity ==
    ASSUME Typed, Integrity, PublisherStep
    PROVE  Integrity'
<1>1. PICK b \in Publishers : Publish(b)
  BY DEF PublisherStep
<1>2. /\ published \subseteq published' /\ FromPublished(Publication(b), published')
      /\ net' = Posted(net, b, {NextPump(b)}, Publication(b))
  BY <1>1 DEF Publish, FromPublished, Publication
<1>3. Publication(b) \in Messages
  <2>1. /\ request_id[b] + 1 \in 1..MaxPublish /\ topic_id[b] \in Topics
    BY <1>1, NumbersAssumption DEF Publish, Typed, TypeOK, PublisherTypeOK
  <2>2. (request_id[b] + 1) % IdSpace \in GlobalIds
    BY <2>1, IdsWrap
  <2> QED
    BY <2>1, <2>2 DEF Publication, Messages, RequestPublish, Publications
<1>4. QueuesFrom(net', published')
  <2>1. net \in Queues
    BY TransportForm DEF Typed, TypeOK, TransportTyped
  <2>2. QueuesFrom(net, published')
    BY <1>2 DEF Integrity, QueuesFrom, FromPublished
  <2> QED
    BY <1>2, <1>3, <2>1, <2>2, PostedFrom
<1>5. UNCHANGED <<fan_out, delivery, log_buffer>>
  BY DEF PublisherStep, PublisherFrame, engineVars, nuzzleVars, consumerVars
<1> QED
  BY <1>2, <1>4, <1>5 DEF Integrity, LoopFrom, FromPublished

(* A pump changes the id of a publication and nothing else. *)
LEMMA PumpIntegrity ==
    ASSUME Typed, Integrity, PumpStep
    PROVE  Integrity'
<1>0. UNCHANGED <<published, fan_out, delivery, log_buffer>>
  BY DEF PumpStep, PumpFrame, publisherVars, engineVars, nuzzleVars, consumerVars
<1>1. PICK p \in Pumps :
        \/ \E e \in Engines : PumpConnectToEngine(p, e)
        \/ \E b \in Publishers : OnPublishReceive(p, b)
        \/ \E b \in Publishers : OnPublishReceiveWild(p, b)
        \/ \E e \in Engines : OnPrepareAckReceive(p, e)
  BY DEF PumpStep
<1>2. QueuesFrom(net, published) /\ net \in Queues
  BY TransportForm DEF Integrity, Typed, TypeOK, TransportTyped
<1>3. ASSUME NEW e \in Engines, PumpConnectToEngine(p, e)
      PROVE  QueuesFrom(net', published)
  BY <1>2, <1>3, ExitFrom DEF PumpConnectToEngine
<1>4. ASSUME NEW b \in Publishers, OnPublishReceive(p, b)
      PROVE  QueuesFrom(net', published)
  <2> DEFINE request == Head(net[<<b, p>>])
  <2>1. /\ <<b, p>> \in Links /\ net[<<b, p>>] # << >>
        /\ request \in Messages /\ request.type = "req_publish"
    BY <1>2, <1>4, LinkEnds, ArrivedMessage DEF OnPublishReceive, Arrived
  <2>2. request \in RequestPublish
    BY <2>1 DEF Messages, RequestPublish, RequestPrepare, ResponsePrepare,
                RequestUpdateSubscription, ForwardedUpdate
  <2>3. FromPublished(request, published) /\ QueuesFrom(Taken(<<b, p>>), published)
    BY <1>4, <2>1, ArrivedFrom DEF OnPublishReceive
  <2>4. Prepare(p, request) \in Messages /\ FromPublished(Prepare(p, request), published)
    BY <2>2, <2>3
    DEF Prepare, FromPublished, Messages, RequestPublish, RequestPrepare,
        Typed, TypeOK, PumpTypeOK
  <2>5. Taken(<<b, p>>) \in Queues
    BY <1>2, <2>1, TakenQueues
  <2> QED
    BY <1>4, <2>3, <2>4, <2>5, PostedFrom DEF OnPublishReceive
<1>5. ASSUME NEW b \in Publishers, OnPublishReceiveWild(p, b)
      PROVE  QueuesFrom(net', published)
  BY <1>2, <1>5, ExitFrom DEF OnPublishReceiveWild, Crash
<1>6. ASSUME NEW e \in Engines, OnPrepareAckReceive(p, e)
      PROVE  QueuesFrom(net', published)
  BY <1>2, <1>6, LinkEnds, TakenFrom DEF OnPrepareAckReceive, Arrived
<1>7. QueuesFrom(net', published)
  BY <1>1, <1>3, <1>4, <1>5, <1>6
<1> QED
  BY <1>0, <1>7 DEF Integrity

(* An engine passes on what it was sent, to whomever its loop reads. *)
LEMMA EngineIntegrity ==
    ASSUME Typed, Integrity, EngineStep
    PROVE  Integrity'
<1>0. UNCHANGED <<published, delivery, log_buffer>>
  BY DEF EngineStep, EngineFrame, publisherVars, nuzzleVars, consumerVars
<1> DEFINE Kept == /\ QueuesFrom(net', published)
                   /\ \A e \in Engines : LoopFrom(fan_out'[e], published)
<1>1. PICK e \in Engines :
        \/ \E p \in Pumps : OnPrepareReceive(e, p)
        \/ FanOutPublish(e)
        \/ \E n \in Nuzzles : EngineSubscribe(e, n)
        \/ \E n \in Nuzzles : EngineUnsubscribe(e, n)
        \/ \E n \in Nuzzles : EngineUnsubscribeUnknown(e, n)
        \/ \E n \in Nuzzles : EngineRaceCrash(e, n)
  BY DEF EngineStep
<1>2. /\ QueuesFrom(net, published) /\ net \in Queues
      /\ \A d \in Engines : LoopFrom(fan_out[d], published)
      /\ fan_out \in [Engines -> Loops(Nuzzles)]
  BY TransportForm DEF Integrity, Typed, TypeOK, TransportTyped, EngineTypeOK, Loops
<1>3. ASSUME NEW p \in Pumps, OnPrepareReceive(e, p)
      PROVE  Kept
  <2> DEFINE request == Head(net[<<p, e>>])
  <2>1. /\ <<p, e>> \in Links /\ net[<<p, e>>] # << >>
        /\ request \in RequestPrepare
    BY <1>3, PrepareArrived DEF OnPrepareReceive
  <2>2. FromPublished(request, published) /\ QueuesFrom(Taken(<<p, e>>), published)
    BY <1>3, <2>1, ArrivedFrom DEF OnPrepareReceive
  <2>3. PrepareAck(request) \in Messages /\ ~CarriesPublication(PrepareAck(request))
    BY <2>1
    DEF PrepareAck, CarriesPublication, Messages, RequestPrepare, ResponsePrepare
  <2>4. QueuesFrom(net', published)
    <3>1. Taken(<<p, e>>) \in Queues
      BY <1>2, <2>1, TakenQueues
    <3> QED
      BY <1>3, <2>2, <2>3, <3>1, PostedFrom DEF OnPrepareReceive
  <2>5. fan_out' = [fan_out EXCEPT ![e] =
              BeginLoop(PublishOf(request), subscriptions[e][request.topic_id])]
    BY <1>3 DEF OnPrepareReceive
  <2>6. LoopFrom(BeginLoop(PublishOf(request), subscriptions[e][request.topic_id]),
                 published)
    BY <2>2 DEF LoopFrom, BeginLoop, PublishOf, FromPublished
  <2> QED
    BY <1>2, <2>4, <2>5, <2>6
<1>4. ASSUME FanOutPublish(e)
      PROVE  Kept
  <2>1. fan_out[e] # Idle /\ FromPublished(fan_out[e].request, published)
    BY <1>2, <1>4 DEF FanOutPublish, LoopFrom
  <2>2. fan_out[e].request \in Messages
    BY <2>1, EngineLoops DEF Messages
  <2>3. PICK n : net' = Posted(net, e, {n}, fan_out[e].request)
    BY <1>4 DEF FanOutPublish
  <2>4. QueuesFrom(net', published)
    BY <1>2, <2>1, <2>2, <2>3, PostedFrom
  <2>5. LoopFrom(AdvanceLoop(fan_out[e]), published)
    <3>1. fan_out[e] \in LoopOver(Nuzzles)
      BY <2>1, EngineLoops
    <3>2. AdvanceLoop(fan_out[e]) = Idle
            \/ AdvanceLoop(fan_out[e]).request = fan_out[e].request
      BY <3>1 DEF AdvanceLoop, LoopOver
    <3> QED
      BY <2>1, <3>2 DEF LoopFrom
  <2> QED
    BY <1>2, <1>4, <2>4, <2>5 DEF FanOutPublish
<1>5. ASSUME NEW n \in Nuzzles, EngineSubscribe(e, n) \/ EngineUnsubscribe(e, n)
      PROVE  Kept
  <2>1. /\ <<n, e>> \in Links /\ net[<<n, e>>] # << >>
        /\ net' = Taken(<<n, e>>) /\ fan_out' = fan_out
    BY <1>5, UpdateArrived DEF EngineSubscribe, EngineUnsubscribe
  <2> QED
    BY <1>2, <2>1, TakenFrom
<1>6. ASSUME NEW n \in Nuzzles,
             EngineUnsubscribeUnknown(e, n) \/ EngineRaceCrash(e, n)
      PROVE  Kept
  <2>1. Exit(e) /\ fan_out' = fan_out
    BY <1>6 DEF EngineUnsubscribeUnknown, EngineRaceCrash, Crash, engineVars
  <2> QED
    BY <1>2, <2>1, ExitFrom
<1>7. Kept
  BY <1>1, <1>3, <1>4, <1>5, <1>6
<1> QED
  BY <1>0, <1>7 DEF Integrity

(* A nuzzle delivers the copy it has just counted. *)
LEMMA NuzzleIntegrity ==
    ASSUME Typed, Integrity, NuzzleStep
    PROVE  Integrity'
<1>0. UNCHANGED <<published, fan_out, log_buffer>>
  BY DEF NuzzleStep, NuzzleFrame, publisherVars, engineVars, consumerVars
<1> DEFINE Kept == /\ QueuesFrom(net', published)
                   /\ \A n \in Nuzzles : LoopFrom(delivery'[n], published)
<1>1. PICK n \in Nuzzles :
        \/ \E e \in Engines : NuzzleConnectToEngine(n, e)
        \/ \E e \in Engines : OnPublishReceived(n, e)
        \/ Deliver(n)
        \/ \E c \in Consumers : NuzzleSubscribe(n, c)
        \/ NuzzleSubscribed(n)
        \/ \E c \in Consumers : NuzzleUnsubscribe(n, c)
        \/ \E c \in Consumers : NuzzleUnsubscribeUnknown(n, c)
        \/ NuzzleRaceCrash(n)
  BY DEF NuzzleStep
<1>2. /\ QueuesFrom(net, published) /\ net \in Queues
      /\ \A m \in Nuzzles : LoopFrom(delivery[m], published)
      /\ delivery \in [Nuzzles -> Loops(Consumers)]
  BY TransportForm DEF Integrity, Typed, TypeOK, TransportTyped, NuzzleTypeOK, Loops
<1>3. ASSUME NEW e \in Engines, NuzzleConnectToEngine(n, e)
      PROVE  Kept
  BY <1>2, <1>3, ExitFrom DEF NuzzleConnectToEngine
<1>4. ASSUME NEW e \in Engines, OnPublishReceived(n, e)
      PROVE  Kept
  <2> DEFINE request == Head(net[<<e, n>>])
             range == consumer_subscriptions[n][request.topic_id]
  <2>1. <<e, n>> \in Links
    BY LinkEnds
  <2>2. FromPublished(request, published) /\ QueuesFrom(Taken(<<e, n>>), published)
    BY <1>4, <2>1, ArrivedFrom DEF OnPublishReceived
  <2>3. LoopFrom(BeginLoop(request, range), published)
    BY <2>2 DEF LoopFrom, BeginLoop
  <2>4. delivery' = delivery
          \/ delivery' = [delivery EXCEPT ![n] = BeginLoop(request, range)]
    BY <1>4 DEF OnPublishReceived
  <2>5. net' = Taken(<<e, n>>)
    BY <1>4 DEF OnPublishReceived
  <2> QED
    BY <1>2, <2>2, <2>3, <2>4, <2>5
<1>5. ASSUME Deliver(n)
      PROVE  Kept
  <2>1. delivery[n] # Idle /\ FromPublished(delivery[n].request, published)
    BY <1>2, <1>5 DEF Deliver, LoopFrom
  <2>2. delivery[n] \in LoopOver(Consumers) /\ delivery[n].request \in Messages
    BY <1>2, <2>1 DEF Loops, LoopOver, Messages
  <2>3. PICK c : net' = Posted(net, n, {c}, delivery[n].request)
    BY <1>5 DEF Deliver
  <2>4. QueuesFrom(net', published)
    BY <1>2, <2>1, <2>2, <2>3, PostedFrom
  <2>5. LoopFrom(AdvanceLoop(delivery[n]), published)
    <3>1. AdvanceLoop(delivery[n]) = Idle
            \/ AdvanceLoop(delivery[n]).request = delivery[n].request
      BY <2>2 DEF AdvanceLoop, LoopOver
    <3> QED
      BY <2>1, <3>1 DEF LoopFrom
  <2> QED
    BY <1>2, <1>5, <2>4, <2>5 DEF Deliver
<1>6. ASSUME NEW c \in Consumers, NuzzleSubscribe(n, c) \/ NuzzleUnsubscribe(n, c)
      PROVE  Kept
  <2> DEFINE request == Head(net[<<c, n>>])
  <2>1. Arrived(c, n, "req_update_subscription") /\ delivery' = delivery
    BY <1>6 DEF NuzzleSubscribe, NuzzleUnsubscribe
  <2>2. /\ <<c, n>> \in Links /\ net[<<c, n>>] # << >>
        /\ Taken(<<c, n>>) \in Queues
        /\ request \in RequestUpdateSubscription
    BY <2>1, RequestArrived
  <2>3. PICK sender_id \in SenderIds :
          net' = Posted(Taken(<<c, n>>), n, nuzzle_engines[n],
                        Forward(request, sender_id))
    BY <1>6 DEF NuzzleSubscribe, NuzzleUnsubscribe
  <2>4. /\ Forward(request, sender_id) \in Messages
        /\ ~CarriesPublication(Forward(request, sender_id))
    BY <2>2 DEF Forward, CarriesPublication, Messages, ForwardedUpdate,
                RequestUpdateSubscription
  <2>5. QueuesFrom(Taken(<<c, n>>), published)
    BY <1>2, <2>2, TakenFrom
  <2>6. QueuesFrom(net', published)
    BY <2>2, <2>3, <2>4, <2>5, PostedFrom
  <2> QED
    BY <1>2, <2>1, <2>6
<1>7. ASSUME NuzzleSubscribed(n)
      PROVE  Kept
  BY <1>2, <1>7 DEF NuzzleSubscribed, transportVars
<1>8. ASSUME Exit(n), delivery' = delivery
      PROVE  Kept
  BY <1>2, <1>8, ExitFrom
<1>9. ASSUME NEW c \in Consumers, NuzzleUnsubscribeUnknown(n, c)
      PROVE  Kept
  BY <1>8, <1>9 DEF NuzzleUnsubscribeUnknown, Crash, nuzzleVars
<1>10. ASSUME NuzzleRaceCrash(n)
       PROVE  Kept
  BY <1>8, <1>10 DEF NuzzleRaceCrash, Crash, nuzzleVars
<1>11. Kept
  BY <1>1, <1>3, <1>4, <1>5, <1>6, <1>7, <1>9, <1>10
<1> QED
  BY <1>0, <1>11 DEF Integrity

(* A consumer logs what it is delivered. *)
LEMMA ConsumerIntegrity ==
    ASSUME Typed, Integrity, ConsumerStep
    PROVE  Integrity'
<1>0. UNCHANGED <<published, fan_out, delivery>>
  BY DEF ConsumerStep, ConsumerFrame, publisherVars, engineVars, nuzzleVars
<1>1. PICK c \in Consumers :
        \/ ConsumerUpdateSubscription(c)
        \/ \E n \in Nuzzles : OnPublishLogged(c, n)
  BY DEF ConsumerStep
<1>2. QueuesFrom(net, published) /\ net \in Queues
  BY TransportForm DEF Integrity, Typed, TypeOK, TransportTyped
<1>3. CASE ConsumerUpdateSubscription(c)
  <2> DEFINE m == UpdateRequest(Head(requests[c]))
  <2>1. requests[c] \in Seq(Topics \X {0, 1}) /\ requests[c] # << >>
    BY <1>3
    DEF ConsumerUpdateSubscription, Typed, TypeOK, ConsumerTypeOK, Scripts
  <2>2. Head(requests[c]) \in Topics \X {0, 1}
    BY <2>1
  <2>3. m \in Messages /\ ~CarriesPublication(m)
    BY <2>2 DEF UpdateRequest, CarriesPublication, Messages, RequestUpdateSubscription
  <2>4. net' = Posted(net, c, {NuzzleConnection[c]}, m)
    BY <1>3 DEF ConsumerUpdateSubscription
  <2> HIDE DEF m
  <2>5. QueuesFrom(net', published)
    BY <1>2, <2>3, <2>4, PostedFrom
  <2> QED
    BY <1>0, <1>3, <2>5 DEF ConsumerUpdateSubscription, Integrity
<1>4. ASSUME NEW n \in Nuzzles, OnPublishLogged(c, n)
      PROVE  Integrity'
  <2> DEFINE request == Head(net[<<n, c>>])
  <2>1. <<n, c>> \in Links
    BY LinkEnds
  <2>2. FromPublished(request, published) /\ QueuesFrom(Taken(<<n, c>>), published)
    BY <1>4, <2>1, ArrivedFrom DEF OnPublishLogged
  <2>3. request \in RequestPublish
    BY <1>4, DeliveryArrived DEF OnPublishLogged
  <2>4. ASSUME NEW d \in Consumers, NEW i \in DOMAIN log_buffer'[d]
        PROVE  FromPublished(log_buffer'[d][i], published)
    <3>1. log_buffer \in [Consumers -> Seq(RequestPublish)]
      BY DEF Typed, TypeOK, ConsumerTypeOK
    <3>2. CASE d # c
      <4>1. log_buffer'[d] = log_buffer[d]
        BY <1>4, <3>1, <3>2 DEF OnPublishLogged
      <4> QED
        BY <2>4, <4>1 DEF Integrity
    <3>3. CASE d = c
      <4>1. log_buffer'[d] = Append(log_buffer[d], request)
        BY <1>4, <3>1, <3>3 DEF OnPublishLogged
      <4>2. log_buffer[d] \in Seq(RequestPublish)
        BY <3>1
      <4>3. CASE i = Len(log_buffer[d]) + 1
        BY <2>2, <4>1, <4>2, <4>3
      <4>4. CASE i # Len(log_buffer[d]) + 1
        <5>1. i \in DOMAIN log_buffer[d] /\ log_buffer'[d][i] = log_buffer[d][i]
          BY <2>3, <4>1, <4>2, <4>4
        <5> QED
          BY <5>1 DEF Integrity
      <4> QED
        BY <4>3, <4>4
    <3> QED
      BY <3>2, <3>3
  <2>5. net' = Taken(<<n, c>>)
    BY <1>4 DEF OnPublishLogged
  <2> QED
    BY <1>0, <2>2, <2>4, <2>5 DEF Integrity
<1> QED
  BY <1>1, <1>3, <1>4

(* The network only loses messages. *)
LEMMA TransportIntegrity ==
    ASSUME Integrity, TransportStep
    PROVE  Integrity'
<1>0. UNCHANGED <<published, fan_out, delivery, log_buffer>>
  BY DEF TransportStep, ProcessFrame, publisherVars, engineVars, nuzzleVars,
         consumerVars
<1>1. QueuesFrom(net, published)
  BY DEF Integrity
<1>2. ASSUME NEW d, Exit(d) PROVE QueuesFrom(net', published)
  BY <1>1, <1>2, ExitFrom
<1>3. ASSUME NEW l \in Links, LoseInFlight(l) PROVE QueuesFrom(net', published)
  BY <1>1, <1>3 DEF LoseInFlight, QueuesFrom
<1>4. QueuesFrom(net', published)
  BY <1>1, <1>2, <1>3 DEF TransportStep, Kill, Crash, PeerClosed, PeerReset
<1> QED
  BY <1>0, <1>4 DEF Integrity

----------------------------------------------------------------------------
(* The theorem. *)

(* Integrity is inductive, given Typed. *)
LEMMA NextIntegrity == Typed /\ Integrity /\ [Next]_vars => Integrity'
<1> SUFFICES ASSUME Typed, Integrity, [Next]_vars PROVE Integrity'
  OBVIOUS
<1>1. CASE Next
  BY <1>1, PublisherIntegrity, PumpIntegrity, EngineIntegrity, NuzzleIntegrity,
     ConsumerIntegrity, TransportIntegrity DEF Next
<1>2. CASE UNCHANGED vars
  BY <1>2 DEF Integrity, vars, transportVars, publisherVars, engineVars, nuzzleVars,
              consumerVars
<1> QED
  BY <1>1, <1>2

(* What is delivered was published, on the topic it is delivered on: the   *)
(* copying of requests from type to type, the numbering, the buffers and   *)
(* the unlocked loops never put one publication's data under another's     *)
(* topic, with any failures and whatever the pump's counter starts from.   *)
THEOREM DeliveredIsGenuine == Spec => []DeliveredWasPublished
<1>1. Init => Integrity
  BY DEF Init, TransportInit, EngineInit, NuzzleInit, ConsumerInit, Integrity,
         QueuesFrom, LoopFrom
<1>2. Typed /\ Integrity => DeliveredWasPublished
  <2> SUFFICES ASSUME Typed, Integrity, NEW r, r \in Delivered
               PROVE  <<r.topic_id, r.message>> \in published
    BY DEF DeliveredWasPublished
  <2>1. CASE \E c \in Consumers : r \in Range(log_buffer[c])
    BY <2>1 DEF Range, Integrity, FromPublished
  <2>2. CASE \E l \in Nuzzles \X Consumers : r \in Range(net[l])
    <3>1. PICK l \in Nuzzles \X Consumers : r \in Range(net[l])
      BY <2>2
    <3>2. PICK i \in DOMAIN net[l] : r = net[l][i]
      BY <3>1 DEF Range
    <3>3. l \in Links
      <4>1. PICK n \in Nuzzles, c \in Consumers : l = <<n, c>>
        BY <3>1
      <4> QED
        BY <4>1, LinkEnds
    <3>4. r \in RequestPublish
      BY <3>2, <3>3, ProcessesDisjoint DEF Typed, SupportedOnly, Supports
    <3> QED
      BY <3>2, <3>3, <3>4
      DEF Integrity, QueuesFrom, CarriesPublication, RequestPublish, FromPublished
  <2>3. CASE \E n \in Nuzzles : delivery[n] # Idle /\ r = delivery[n].request
    BY <2>3 DEF Integrity, LoopFrom, FromPublished
  <2> DEFINE Logs == UNION { Range(log_buffer[c]) : c \in Consumers }
             Queued == UNION { Range(net[l]) : l \in Nuzzles \X Consumers }
             Looping == { delivery[n].request : n \in { m \in Nuzzles : delivery[m] # Idle } }
  <2>0. Delivered = Logs \cup Queued \cup Looping
    BY Zenon DEF Delivered
  <2>5. r \in Logs => \E c \in Consumers : r \in Range(log_buffer[c])
    OBVIOUS
  <2>6. r \in Queued => \E l \in Nuzzles \X Consumers : r \in Range(net[l])
    OBVIOUS
  <2>7. r \in Looping => \E n \in Nuzzles : delivery[n] # Idle /\ r = delivery[n].request
    OBVIOUS
  <2> HIDE DEF Logs, Queued, Looping
  <2>4. r \in Logs \/ r \in Queued \/ r \in Looping
    BY <2>0
  <2> QED
    BY <2>1, <2>2, <2>3, <2>4, <2>5, <2>6, <2>7
<1> QED
  BY <1>1, <1>2, NextIntegrity, TypedAlways, PTL DEF Spec

----------------------------------------------------------------------------
(* Registration. *)

(* Erasing one value of a vector keeps every other. *)
LEMMA ErasedKeeps ==
    ASSUME NEW S, NEW vector \in Seq(S), NEW x, NEW y,
           Contains(vector, x), Contains(vector, y), x # y
    PROVE  Contains(Erased(vector, x), y)
<1>1. PICK k \in 1..Len(vector) : vector[k] = y
  BY DEF Contains
<1>2. Len(vector) \in Nat /\ Len(Erased(vector, x)) = Len(vector) - 1
  BY ErasedTyped
<1>3. CASE \E j \in 1..k : vector[j] = x
  <2>1. PICK j \in 1..k : vector[j] = x
    BY <1>3
  <2>2. j \in 1..(k - 1) /\ k - 1 \in 1..(Len(vector) - 1)
    BY <1>1, <1>2, <2>1
  <2>3. Erased(vector, x)[k - 1] = vector[k]
    BY <1>1, <1>2, <2>1, <2>2 DEF Erased
  <2> QED
    BY <1>1, <1>2, <2>2, <2>3 DEF Contains
<1>4. CASE ~\E j \in 1..k : vector[j] = x
  <2>1. PICK j \in 1..Len(vector) : vector[j] = x
    BY DEF Contains
  <2>2. k \in 1..(Len(vector) - 1)
    BY <1>1, <1>2, <1>4, <2>1
  <2>3. Erased(vector, x)[k] = vector[k]
    BY <1>4, <2>2 DEF Erased
  <2> QED
    BY <1>1, <1>2, <2>2, <2>3 DEF Contains
<1> QED
  BY <1>3, <1>4

(* Adding one keeps all, and adds it. *)
LEMMA AppendContains ==
    ASSUME NEW S, NEW vector \in Seq(S), NEW x \in S
    PROVE  /\ Contains(Append(vector, x), x)
           /\ \A y : Contains(vector, y) => Contains(Append(vector, x), y)
<1>1. /\ Len(vector) \in Nat /\ Len(Append(vector, x)) = Len(vector) + 1
      /\ Append(vector, x)[Len(vector) + 1] = x
      /\ \A i \in 1..Len(vector) : Append(vector, x)[i] = vector[i]
  OBVIOUS
<1>2. Contains(Append(vector, x), x)
  <2>1. Len(vector) + 1 \in 1..Len(Append(vector, x))
    BY <1>1
  <2> QED
    BY <1>1, <2>1 DEF Contains
<1>3. ASSUME NEW y, Contains(vector, y) PROVE Contains(Append(vector, x), y)
  <2>1. PICK i \in 1..Len(vector) : vector[i] = y
    BY <1>3 DEF Contains
  <2>2. i \in 1..Len(Append(vector, x)) /\ Append(vector, x)[i] = y
    BY <1>1, <2>1
  <2> QED
    BY <2>2 DEF Contains
<1> QED
  BY <1>2, <1>3

(* A subscription registers a client and feeds its nuzzle. *)
LEMMA SubscribeFeeds ==
    ASSUME Typed, RegisteredIsFed, NEW e \in Engines, NEW n \in Nuzzles,
           EngineSubscribe(e, n)
    PROVE  RegisteredIsFed'
<1> DEFINE u == Head(net[<<n, e>>]).topic_id
<1>1. u \in Topics
  BY UpdateArrived DEF EngineSubscribe, ForwardedUpdate
<1>2. /\ subscriptions \in [Engines -> [Topics -> Seq(Nuzzles)]]
      /\ client_subscriptions \in [Engines -> [Topics -> [Nuzzles -> Seq(SenderIds)]]]
  BY DEF Typed, TypeOK, EngineTypeOK
<1> SUFFICES ASSUME NEW d \in Engines, NEW t \in Topics, NEW m \in Nuzzles,
                    client_subscriptions'[d][t][m] # << >>
             PROVE  Contains(subscriptions'[d][t], m)
  BY DEF RegisteredIsFed
<1>3. CASE d = e /\ t = u
  <2>1. subscriptions'[d][t] = Append(subscriptions[e][u], n)
    BY <1>1, <1>2, <1>3 DEF EngineSubscribe
  <2>2. subscriptions[e][u] \in Seq(Nuzzles)
    BY <1>1, <1>2
  <2>3. CASE m = n
    BY <2>1, <2>2, <2>3, AppendContains
  <2>4. CASE m # n
    <3>1. client_subscriptions'[d][t][m] = client_subscriptions[e][u][m]
      BY <1>1, <1>2, <1>3, <2>4 DEF EngineSubscribe
    <3>2. Contains(subscriptions[e][u], m)
      BY <1>1, <3>1 DEF RegisteredIsFed
    <3> QED
      BY <2>1, <2>2, <3>2, AppendContains
  <2> QED
    BY <2>3, <2>4
<1>4. CASE ~(d = e /\ t = u)
  <2>1. /\ subscriptions'[d][t] = subscriptions[d][t]
        /\ client_subscriptions'[d][t][m] = client_subscriptions[d][t][m]
    BY <1>1, <1>2, <1>4 DEF EngineSubscribe
  <2> QED
    BY <2>1 DEF RegisteredIsFed
<1> QED
  BY <1>3, <1>4

(* An unsubscription stops feeding the nuzzle only with its last client. *)
LEMMA UnsubscribeFeeds ==
    ASSUME Typed, RegisteredIsFed, NEW e \in Engines, NEW n \in Nuzzles,
           EngineUnsubscribe(e, n)
    PROVE  RegisteredIsFed'
<1> DEFINE request == Head(net[<<n, e>>])
           u == request.topic_id
           vector == subscriptions[e][u]
           clients == Erased(client_subscriptions[e][u][n], request.sender_id)
<1>1. u \in Topics
  BY UpdateArrived DEF EngineUnsubscribe, ForwardedUpdate
<1>2. /\ subscriptions \in [Engines -> [Topics -> Seq(Nuzzles)]]
      /\ client_subscriptions \in [Engines -> [Topics -> [Nuzzles -> Seq(SenderIds)]]]
  BY DEF Typed, TypeOK, EngineTypeOK
<1>3. /\ client_subscriptions' = [client_subscriptions EXCEPT ![e][u][n] = clients]
      /\ subscriptions' = [subscriptions EXCEPT ![e][u] = FedAfter(vector, n, clients)]
      /\ client_subscriptions[e][u][n] # << >>
  <2>1. Contains(client_subscriptions[e][u][n], request.sender_id)
    BY DEF EngineUnsubscribe, FindsRegistration
  <2> QED
    BY <2>1 DEF EngineUnsubscribe, Contains
<1> HIDE DEF request, u, vector, clients
<1> SUFFICES ASSUME NEW d \in Engines, NEW t \in Topics, NEW m \in Nuzzles,
                    client_subscriptions'[d][t][m] # << >>
             PROVE  Contains(subscriptions'[d][t], m)
  BY DEF RegisteredIsFed
<1>4. CASE d = e /\ t = u
  <2>1. subscriptions'[d][t] = FedAfter(vector, n, clients)
    BY <1>1, <1>2, <1>3, <1>4
  <2>2. vector \in Seq(Nuzzles) /\ Contains(vector, n)
    BY <1>1, <1>2, <1>3 DEF RegisteredIsFed, vector
  <2>3. CASE m = n
    <3>1. clients # << >>
      BY <1>1, <1>2, <1>3, <1>4, <2>3
    <3> QED
      BY <2>1, <2>2, <2>3, <3>1 DEF FedAfter
  <2>4. CASE m # n
    <3>1. client_subscriptions'[d][t][m] = client_subscriptions[e][u][m]
      BY <1>1, <1>2, <1>3, <1>4, <2>4
    <3>2. Contains(vector, m)
      BY <1>1, <3>1 DEF RegisteredIsFed, vector
    <3> QED
      BY <2>1, <2>2, <2>4, <3>2, ErasedKeeps DEF FedAfter
  <2> QED
    BY <2>3, <2>4
<1>5. CASE ~(d = e /\ t = u)
  <2>1. /\ subscriptions'[d][t] = subscriptions[d][t]
        /\ client_subscriptions'[d][t][m] = client_subscriptions[d][t][m]
    BY <1>1, <1>2, <1>3, <1>5
  <2> QED
    BY <2>1 DEF RegisteredIsFed
<1> QED
  BY <1>4, <1>5

(* Nothing else writes the two tables. *)
LEMMA NextFeeds == Typed /\ RegisteredIsFed /\ [Next]_vars => RegisteredIsFed'
<1> SUFFICES ASSUME Typed, RegisteredIsFed, [Next]_vars PROVE RegisteredIsFed'
  OBVIOUS
<1>1. ASSUME UNCHANGED <<subscriptions, client_subscriptions>> PROVE RegisteredIsFed'
  BY <1>1 DEF RegisteredIsFed
<1>2. CASE EngineStep
  <2>1. PICK e \in Engines :
          \/ \E p \in Pumps : OnPrepareReceive(e, p)
          \/ FanOutPublish(e)
          \/ \E n \in Nuzzles : EngineSubscribe(e, n)
          \/ \E n \in Nuzzles : EngineUnsubscribe(e, n)
          \/ \E n \in Nuzzles : EngineUnsubscribeUnknown(e, n)
          \/ \E n \in Nuzzles : EngineRaceCrash(e, n)
    BY <1>2 DEF EngineStep
  <2>2. CASE \E p \in Pumps : OnPrepareReceive(e, p)
    BY <1>1, <2>2 DEF OnPrepareReceive
  <2>3. CASE FanOutPublish(e)
    BY <1>1, <2>3 DEF FanOutPublish
  <2>4. CASE \E n \in Nuzzles : EngineUnsubscribeUnknown(e, n) \/ EngineRaceCrash(e, n)
    BY <1>1, <2>4 DEF EngineUnsubscribeUnknown, EngineRaceCrash, engineVars
  <2> QED
    BY <2>1, <2>2, <2>3, <2>4, SubscribeFeeds, UnsubscribeFeeds
<1>3. CASE PublisherStep \/ PumpStep \/ NuzzleStep \/ ConsumerStep \/ TransportStep
  BY <1>1, <1>3
  DEF PublisherStep, PumpStep, NuzzleStep, ConsumerStep, TransportStep,
      PublisherFrame, PumpFrame, NuzzleFrame, ConsumerFrame, ProcessFrame, engineVars
<1>4. CASE UNCHANGED vars
  BY <1>1, <1>4 DEF vars, engineVars
<1> QED
  BY <1>2, <1>3, <1>4 DEF Next

(* However subscriptions interleave with publications, failures and late    *)
(* connections, an engine that has a registration for a nuzzle has that     *)
(* nuzzle in the vector it publishes to.                                    *)
THEOREM RegisteredAreFed == Spec => []RegisteredIsFed
<1>1. Init => RegisteredIsFed
  BY DEF Init, EngineInit, RegisteredIsFed
<1> QED
  BY <1>1, NextFeeds, TypedAlways, PTL DEF Spec

----------------------------------------------------------------------------
(* Consumers that subscribe once. *)

(* A condition on the constants that the consumer program meets when no    *)
(* two consumers use one nuzzle: it never asks for a topic twice (MainScript)*)
(* and never leaves one.                                                   *)
SubscribesOnce ==
    /\ \A c, d \in Consumers : NuzzleConnection[c] = NuzzleConnection[d] => c = d
    /\ \A scripts \in RequestScripts, c \in Consumers : \A i, j \in DOMAIN scripts[c] :
         /\ scripts[c][i][2] = 1
         /\ scripts[c][i][1] = scripts[c][j][1] => i = j

(* No topic's vector has a nuzzle twice, and no nuzzle is leaving one. *)
RegisteredOnce ==
    /\ \A e \in Engines, t \in Topics : \A i, j \in DOMAIN subscriptions[e][t] :
         subscriptions[e][t][i] = subscriptions[e][t][j] => i = j
    /\ \A l \in Nuzzles \X Engines : \A i \in DOMAIN net[l] : net[l][i].action = 1

RequestLinks == Consumers \X Nuzzles
UpdateLinks == Nuzzles \X Engines

HasTopic(s, t) == \E i \in DOMAIN s : s[i].topic_id = t

TopicsOnce(s) ==
    \A i, j \in DOMAIN s : s[i].action = 1 /\ (s[i].topic_id = s[j].topic_id => i = j)

Asks(c, t) == \E i \in DOMAIN requests[c] : requests[c][i][1] = t

(* A topic is asked for in one place: what a consumer has yet to request,  *)
(* its link to its nuzzle, the nuzzle's link to an engine, the vector.     *)
AskedOnce ==
    /\ \A c \in Consumers : \A i, j \in DOMAIN requests[c] :
         requests[c][i][2] = 1 /\ (requests[c][i][1] = requests[c][j][1] => i = j)
    /\ \A l \in RequestLinks \cup UpdateLinks : TopicsOnce(net[l])
    /\ \A c \in Consumers, n \in Nuzzles :
         n # NuzzleConnection[c] => net[<<c, n>>] = << >>
    /\ \A e \in Engines, t \in Topics : \A i, j \in DOMAIN subscriptions[e][t] :
         subscriptions[e][t][i] = subscriptions[e][t][j] => i = j
    /\ \A c \in Consumers, t \in Topics : LET n == NuzzleConnection[c] IN
         /\ Asks(c, t) => ~HasTopic(net[<<c, n>>], t)
         /\ Asks(c, t) \/ HasTopic(net[<<c, n>>], t) => \A e \in Engines :
              ~HasTopic(net[<<n, e>>], t) /\ ~Contains(subscriptions[e][t], n)
    /\ \A n \in Nuzzles, e \in Engines, t \in Topics :
         HasTopic(net[<<n, e>>], t) => ~Contains(subscriptions[e][t], n)

(* Taking the oldest request, and adding one. *)
LEMMA TakenTopics ==
    ASSUME NEW s \in Seq(Messages), s # << >>, TopicsOnce(s)
    PROVE  /\ TopicsOnce(Tail(s)) /\ ~HasTopic(Tail(s), Head(s).topic_id)
           /\ Head(s).action = 1 /\ HasTopic(s, Head(s).topic_id)
           /\ \A t : HasTopic(Tail(s), t) => HasTopic(s, t)
<1>1. \A i \in DOMAIN Tail(s) :
        i \in Nat \ {0} /\ i + 1 \in DOMAIN s /\ Tail(s)[i] = s[i + 1]
  OBVIOUS
<1>2. 1 \in DOMAIN s /\ Head(s) = s[1]
  OBVIOUS
<1>3. TopicsOnce(Tail(s))
  <2> SUFFICES ASSUME NEW i \in DOMAIN Tail(s), NEW j \in DOMAIN Tail(s)
               PROVE  /\ Tail(s)[i].action = 1
                      /\ Tail(s)[i].topic_id = Tail(s)[j].topic_id => i = j
    BY DEF TopicsOnce
  <2>1. /\ s[i + 1].action = 1
        /\ s[i + 1].topic_id = s[j + 1].topic_id => i + 1 = j + 1
    BY <1>1 DEF TopicsOnce
  <2> QED
    BY <1>1, <2>1
<1>4. ~HasTopic(Tail(s), Head(s).topic_id)
  <2> SUFFICES ASSUME NEW i \in DOMAIN Tail(s), Tail(s)[i].topic_id = Head(s).topic_id
               PROVE  FALSE
    BY DEF HasTopic
  <2>1. i \in Nat \ {0} /\ i + 1 \in DOMAIN s /\ s[i + 1].topic_id = s[1].topic_id
    BY <1>1, <1>2
  <2>2. i + 1 = 1
    BY <1>2, <2>1 DEF TopicsOnce
  <2> QED
    BY <2>1, <2>2
<1>5. ASSUME NEW t, HasTopic(Tail(s), t) PROVE HasTopic(s, t)
  BY <1>1, <1>5 DEF HasTopic
<1> QED
  BY <1>2, <1>3, <1>4, <1>5 DEF TopicsOnce, HasTopic

(* A request that is sent adds its topic and no other. *)
LEMMA SentTopics ==
    ASSUME NEW s \in Seq(Messages), NEW m \in Messages
    PROVE  /\ \A t : HasTopic(Append(s, m), t) => HasTopic(s, t) \/ t = m.topic_id
           /\ TopicsOnce(s) /\ ~HasTopic(s, m.topic_id) /\ m.action = 1
                => TopicsOnce(Append(s, m))
<1>1. \A i \in DOMAIN Append(s, m) :
        \/ i \in DOMAIN s /\ Append(s, m)[i] = s[i]
        \/ i = Len(s) + 1 /\ Append(s, m)[i] = m
  OBVIOUS
<1>2. \A t : HasTopic(Append(s, m), t) => HasTopic(s, t) \/ t = m.topic_id
  BY <1>1 DEF HasTopic
<1>3. ASSUME TopicsOnce(s), ~HasTopic(s, m.topic_id), m.action = 1
      PROVE  TopicsOnce(Append(s, m))
  BY <1>1, <1>3 DEF HasTopic, TopicsOnce
<1> QED
  BY <1>2, <1>3

(* The links that carry requests, and what they carry. *)
LEMMA UpdateForm ==
    ASSUME Typed
    PROVE  /\ net \in Queues
           /\ RequestLinks \subseteq Links /\ UpdateLinks \subseteq Links
           /\ \A l \in RequestLinks : l[1] \in Consumers /\ l[2] \in Nuzzles /\ l = <<l[1], l[2]>>
           /\ \A l \in UpdateLinks : l[1] \in Nuzzles /\ l[2] \in Engines /\ l = <<l[1], l[2]>>
           /\ \A c \in Consumers, n \in Nuzzles : <<c, n>> \in RequestLinks
           /\ \A n \in Nuzzles, e \in Engines : <<n, e>> \in UpdateLinks
           /\ \A l \in RequestLinks \cup UpdateLinks : net[l] \in Seq(Messages)
           /\ requests \in [Consumers -> Seq(Topics \X {0, 1})]
           /\ subscriptions \in [Engines -> [Topics -> Seq(Nuzzles)]]
           /\ \A n \in Nuzzles : nuzzle_engines[n] \subseteq Engines
           /\ \A c \in Consumers : NuzzleConnection[c] \in Nuzzles
<1>1. net \in Queues
  BY TransportForm DEF Typed, TypeOK, TransportTyped
<1>2. RequestLinks \subseteq Links /\ UpdateLinks \subseteq Links
  BY DEF RequestLinks, UpdateLinks, Links, Connections
<1>3. /\ requests \in [Consumers -> Seq(Topics \X {0, 1})]
      /\ subscriptions \in [Engines -> [Topics -> Seq(Nuzzles)]]
      /\ \A n \in Nuzzles : nuzzle_engines[n] \subseteq Engines
  BY DEF Typed, TypeOK, EngineTypeOK, NuzzleTypeOK, ConsumerTypeOK, Scripts
<1>4. \A l \in RequestLinks \cup UpdateLinks : net[l] \in Seq(Messages)
  BY <1>1, <1>2 DEF Queues
<1> QED
  BY <1>1, <1>2, <1>3, <1>4, ConsumerAssumption DEF RequestLinks, UpdateLinks

(* A step that asks for nothing. *)
NothingAsked ==
    /\ \A l \in RequestLinks \cup UpdateLinks : net'[l] = net[l] \/ net'[l] = << >>
    /\ UNCHANGED <<requests, subscriptions>>

(* Such a step keeps every topic asked for once. *)
LEMMA NothingAskedOnce ==
    ASSUME Typed, AskedOnce, NothingAsked
    PROVE  AskedOnce'
<1>1. \A l \in RequestLinks \cup UpdateLinks :
        TopicsOnce(net'[l]) /\ \A t : HasTopic(net'[l], t) => HasTopic(net[l], t)
  BY DEF AskedOnce, NothingAsked, TopicsOnce, HasTopic
<1>2. \A c \in Consumers, n \in Nuzzles :
        net[<<c, n>>] = << >> => net'[<<c, n>>] = << >>
  BY UpdateForm DEF NothingAsked
<1>3. \A c \in Consumers : \A t : Asks(c, t)' <=> Asks(c, t)
  BY DEF NothingAsked, Asks
<1>4. ASSUME NEW c \in Consumers, NEW t \in Topics, NEW n, n = NuzzleConnection[c]
      PROVE  /\ Asks(c, t)' => ~HasTopic(net'[<<c, n>>], t)
             /\ Asks(c, t)' \/ HasTopic(net'[<<c, n>>], t) => \A e \in Engines :
                  ~HasTopic(net'[<<n, e>>], t) /\ ~Contains(subscriptions'[e][t], n)
  <2>1. /\ HasTopic(net'[<<c, n>>], t) => HasTopic(net[<<c, n>>], t)
        /\ \A e \in Engines : HasTopic(net'[<<n, e>>], t) => HasTopic(net[<<n, e>>], t)
    BY <1>1, <1>4, UpdateForm
  <2> QED
    BY <1>3, <1>4, <2>1 DEF NothingAsked, AskedOnce
<1>5. ASSUME NEW n \in Nuzzles, NEW e \in Engines, NEW t \in Topics,
             HasTopic(net'[<<n, e>>], t)
      PROVE  ~Contains(subscriptions'[e][t], n)
  BY <1>1, <1>5, UpdateForm DEF NothingAsked, AskedOnce
<1>6. /\ \A c \in Consumers : \A i, j \in DOMAIN requests'[c] :
           requests'[c][i][2] = 1 /\ (requests'[c][i][1] = requests'[c][j][1] => i = j)
      /\ \A e \in Engines, t \in Topics : \A i, j \in DOMAIN subscriptions'[e][t] :
           subscriptions'[e][t][i] = subscriptions'[e][t][j] => i = j
  BY DEF NothingAsked, AskedOnce
<1>7. \A c \in Consumers, n \in Nuzzles :
        n # NuzzleConnection[c] => net'[<<c, n>>] = << >>
  BY <1>2 DEF AskedOnce
<1> QED
  BY <1>1, <1>4, <1>5, <1>6, <1>7 DEF AskedOnce

AskLinks == RequestLinks \cup UpdateLinks

AskKept == \A l \in AskLinks : net'[l] = net[l] \/ net'[l] = << >>

(* Who writes and who reads the links that carry requests. *)
LEMMA AskEnds ==
    /\ \A l \in AskLinks : l \in Links
    /\ \A l \in AskLinks :
         \/ l[1] \in Consumers /\ l[2] \in Nuzzles
         \/ l[1] \in Nuzzles /\ l[2] \in Engines
    /\ \A l \in AskLinks, b \in Publishers \cup Pumps \cup Engines : l[1] # b
    /\ \A l \in AskLinks :
         /\ \A p \in Pumps, e \in Engines : l # <<p, e>> /\ l # <<e, p>>
         /\ \A b \in Publishers, p \in Pumps : l # <<b, p>>
         /\ \A e \in Engines, n \in Nuzzles : l # <<e, n>>
         /\ \A n \in Nuzzles, c \in Consumers : l # <<n, c>>
<1>1. \A l \in AskLinks :
        \/ l[1] \in Consumers /\ l[2] \in Nuzzles
        \/ l[1] \in Nuzzles /\ l[2] \in Engines
  BY DEF AskLinks, RequestLinks, UpdateLinks
<1>2. \A l \in AskLinks : l \in Links
  BY DEF AskLinks, RequestLinks, UpdateLinks, Links, Connections
<1>3. ASSUME NEW l \in AskLinks, NEW b \in Publishers \cup Pumps \cup Engines
      PROVE  l[1] # b
  BY <1>1, ProcessesDisjoint
<1>4. ASSUME NEW l \in AskLinks, NEW p \in Pumps, NEW e \in Engines
      PROVE  l # <<p, e>> /\ l # <<e, p>>
  BY <1>3
<1>5. ASSUME NEW l \in AskLinks, NEW b \in Publishers, NEW p \in Pumps
      PROVE  l # <<b, p>>
  BY <1>3
<1>6. ASSUME NEW l \in AskLinks, NEW e \in Engines, NEW n \in Nuzzles
      PROVE  l # <<e, n>>
  BY <1>3
<1>7. ASSUME NEW l \in AskLinks, NEW n \in Nuzzles, NEW c \in Consumers
      PROVE  l # <<n, c>>
  BY <1>1, ProcessesDisjoint
<1> QED
  BY <1>1, <1>2, <1>3, <1>4, <1>5, <1>6, <1>7

(* Sending and taking change the links they are about, exits only empty some. *)
LEMMA AskLinksLeftAlone ==
    /\ \A n, a, B, m : \A l \in AskLinks : l[1] # a => Posted(n, a, B, m)[l] = n[l]
    /\ net \in Queues => \A k : \A l \in AskLinks : l # k => Taken(k)[l] = net[l]
    /\ \A d : Exit(d) => AskKept
<1>1. \A n, a, B, m : \A l \in AskLinks : l[1] # a => Posted(n, a, B, m)[l] = n[l]
  BY AskEnds DEF Posted
<1>2. net \in Queues => \A k : \A l \in AskLinks : l # k => Taken(k)[l] = net[l]
  BY AskEnds DEF Taken, Queues
<1>3. \A d : Exit(d) => AskKept
  BY AskEnds DEF AskKept, Exit
<1> QED
  BY <1>1, <1>2, <1>3

(* Publishers and pumps ask for nothing. *)
LEMMA ForwardersAskNothing ==
    ASSUME Typed, PublisherStep \/ PumpStep
    PROVE  NothingAsked
<1>0. UNCHANGED <<requests, subscriptions>> /\ net \in Queues
  BY UpdateForm DEF PublisherStep, PublisherFrame, PumpStep, PumpFrame, engineVars, consumerVars
<1>1. CASE PublisherStep
  <2>1. PICK b \in Publishers : net' = Posted(net, b, {NextPump(b)}, Publication(b))
    BY <1>1 DEF PublisherStep, Publish
  <2> QED
    BY <1>0, <2>1, AskEnds, AskLinksLeftAlone DEF NothingAsked, AskLinks
<1>2. CASE PumpStep
  <2>1. PICK p \in Pumps :
          \/ \E e \in Engines : PumpConnectToEngine(p, e)
          \/ \E b \in Publishers : OnPublishReceive(p, b)
          \/ \E b \in Publishers : OnPublishReceiveWild(p, b)
          \/ \E e \in Engines : OnPrepareAckReceive(p, e)
    BY <1>2 DEF PumpStep
  <2>2. ASSUME NEW e \in Engines, PumpConnectToEngine(p, e) PROVE AskKept
    BY <2>2, AskLinksLeftAlone DEF PumpConnectToEngine, AskKept
  <2>3. ASSUME NEW b \in Publishers, OnPublishReceive(p, b) PROVE AskKept
    <3>1. net' = Posted(Taken(<<b, p>>), p, engine_connections[p],
                        Prepare(p, Head(net[<<b, p>>])))
      BY <2>3 DEF OnPublishReceive
    <3>2. \A l \in AskLinks : l[1] # p /\ l # <<b, p>>
      BY AskEnds
    <3> QED
      BY <1>0, <3>1, <3>2, AskLinksLeftAlone DEF AskKept
  <2>4. ASSUME NEW b \in Publishers, OnPublishReceiveWild(p, b) PROVE AskKept
    BY <2>4, AskLinksLeftAlone DEF OnPublishReceiveWild, Crash
  <2>5. ASSUME NEW e \in Engines, OnPrepareAckReceive(p, e) PROVE AskKept
    <3>1. net' = Taken(<<e, p>>)
      BY <2>5 DEF OnPrepareAckReceive
    <3>2. \A l \in AskLinks : l # <<e, p>>
      BY AskEnds
    <3> QED
      BY <1>0, <3>1, <3>2, AskLinksLeftAlone DEF AskKept
  <2> QED
    BY <1>0, <2>1, <2>2, <2>3, <2>4, <2>5 DEF NothingAsked, AskLinks, AskKept
<1> QED
  BY <1>1, <1>2

(* A request that has arrived subscribes. *)
LEMMA ArrivedSubscribes ==
    ASSUME Typed, AskedOnce, NEW l \in AskLinks, net[l] # << >>
    PROVE  Head(net[l]).action = 1
  BY TakenTopics, UpdateForm DEF AskedOnce, AskLinks

(* Engines ask for nothing; they are never left. *)
LEMMA EngineAsksNothing ==
    ASSUME Typed, AskedOnce, EngineStep,
           ~(\E e \in Engines, n \in Nuzzles : EngineSubscribe(e, n))
    PROVE  NothingAsked
<1>0. UNCHANGED requests /\ net \in Queues
  BY UpdateForm DEF EngineStep, EngineFrame, consumerVars
<1>1. PICK e \in Engines :
        \/ \E p \in Pumps : OnPrepareReceive(e, p)
        \/ FanOutPublish(e)
        \/ \E n \in Nuzzles : EngineUnsubscribe(e, n)
        \/ \E n \in Nuzzles : EngineUnsubscribeUnknown(e, n) \/ EngineRaceCrash(e, n)
  BY DEF EngineStep
<1>2. ASSUME NEW p \in Pumps, OnPrepareReceive(e, p)
      PROVE  AskKept /\ UNCHANGED subscriptions
  <2>1. PICK B, m : net' = Posted(Taken(<<p, e>>), e, B, m)
    BY <1>2 DEF OnPrepareReceive
  <2>2. \A l \in AskLinks : l[1] # e /\ l # <<p, e>>
    BY AskEnds
  <2>3. AskKept
    BY <1>0, <2>1, <2>2, AskLinksLeftAlone DEF AskKept
  <2> QED
    BY <1>2, <2>3 DEF OnPrepareReceive
<1>3. ASSUME FanOutPublish(e) PROVE AskKept /\ UNCHANGED subscriptions
  <2>1. PICK B, m : net' = Posted(net, e, B, m)
    BY <1>3 DEF FanOutPublish
  <2>2. \A l \in AskLinks : l[1] # e
    BY AskEnds
  <2>3. AskKept
    BY <2>1, <2>2, AskLinksLeftAlone DEF AskKept
  <2> QED
    BY <1>3, <2>3 DEF FanOutPublish
<1>4. ASSUME NEW n \in Nuzzles, EngineUnsubscribe(e, n) PROVE FALSE
  <2>1. net[<<n, e>>] # << >> /\ Head(net[<<n, e>>]).action = 0
    BY <1>4 DEF EngineUnsubscribe, Arrived
  <2> QED
    BY <2>1, ArrivedSubscribes, UpdateForm DEF AskLinks
<1>5. ASSUME NEW n \in Nuzzles, EngineUnsubscribeUnknown(e, n) \/ EngineRaceCrash(e, n)
      PROVE  AskKept /\ UNCHANGED subscriptions
  BY <1>5, AskLinksLeftAlone DEF EngineUnsubscribeUnknown, EngineRaceCrash, Crash, engineVars
<1> QED
  BY <1>0, <1>1, <1>2, <1>3, <1>4, <1>5 DEF NothingAsked, AskLinks, AskKept

(* A nuzzle only passes requests on. *)
LEMMA NuzzleAsksNothing ==
    ASSUME Typed, AskedOnce, NuzzleStep,
           ~(\E n \in Nuzzles, c \in Consumers : NuzzleSubscribe(n, c))
    PROVE  NothingAsked
<1>0. UNCHANGED <<requests, subscriptions>> /\ net \in Queues
  BY UpdateForm DEF NuzzleStep, NuzzleFrame, engineVars, consumerVars
<1>1. PICK n \in Nuzzles :
        \/ \E e \in Engines : NuzzleConnectToEngine(n, e)
        \/ \E e \in Engines : OnPublishReceived(n, e)
        \/ Deliver(n)
        \/ NuzzleSubscribed(n)
        \/ \E c \in Consumers : NuzzleUnsubscribe(n, c)
        \/ \E c \in Consumers : NuzzleUnsubscribeUnknown(n, c)
        \/ NuzzleRaceCrash(n)
  BY DEF NuzzleStep
<1>2. ASSUME NEW e \in Engines, NuzzleConnectToEngine(n, e) PROVE AskKept
  BY <1>2, AskLinksLeftAlone DEF NuzzleConnectToEngine, AskKept
<1>3. ASSUME NEW e \in Engines, OnPublishReceived(n, e) PROVE AskKept
  <2>1. net' = Taken(<<e, n>>)
    BY <1>3 DEF OnPublishReceived
  <2>2. \A l \in AskLinks : l # <<e, n>>
    BY AskEnds
  <2> QED
    BY <1>0, <2>1, <2>2, AskLinksLeftAlone DEF AskKept
<1>4. ASSUME Deliver(n) PROVE AskKept
  <2>0. /\ delivery[n] \in LoopOver(Consumers) /\ delivery[n].next <= Len(delivery[n].range)
        /\ consumer_subscriptions[n][delivery[n].request.topic_id] \in Seq(Consumers)
    BY <1>4 DEF Deliver, Typed, TypeOK, NuzzleTypeOK, LoopOver, RequestPublish
  <2>1. PICK c \in Consumers : net' = Posted(net, n, {c}, delivery[n].request)
    BY <1>4, <2>0, LoopReadsTyped DEF Deliver
  <2>2. \A l \in AskLinks : l[1] = n => l[2] \in Engines /\ l[2] # c
    BY AskEnds, ProcessesDisjoint
  <2> QED
    BY <2>1, <2>2, AskEnds DEF AskKept, Posted
<1>5. ASSUME NEW c \in Consumers, NuzzleUnsubscribe(n, c) PROVE FALSE
  <2>1. net[<<c, n>>] # << >> /\ Head(net[<<c, n>>]).action = 0
    BY <1>5 DEF NuzzleUnsubscribe, Arrived
  <2> QED
    BY <2>1, ArrivedSubscribes, UpdateForm DEF AskLinks
<1>6. ASSUME \E c \in Consumers : NuzzleUnsubscribeUnknown(n, c) PROVE AskKept
  BY <1>6, AskLinksLeftAlone DEF NuzzleUnsubscribeUnknown, Crash
<1>7. ASSUME NuzzleSubscribed(n) \/ NuzzleRaceCrash(n) PROVE AskKept
  BY <1>7, AskLinksLeftAlone DEF NuzzleSubscribed, NuzzleRaceCrash, Crash, transportVars, AskKept
<1> QED
  BY <1>0, <1>1, <1>2, <1>3, <1>4, <1>5, <1>6, <1>7 DEF NothingAsked, AskLinks, AskKept

(* Logging, losses, closes and exits ask for nothing. *)
LEMMA OthersAskNothing ==
    ASSUME Typed, ConsumerStep \/ TransportStep,
           ~(\E c \in Consumers : ConsumerUpdateSubscription(c))
    PROVE  NothingAsked
<1>0. UNCHANGED subscriptions /\ net \in Queues
  BY UpdateForm DEF ConsumerStep, ConsumerFrame, TransportStep, ProcessFrame, engineVars
<1>1. CASE ConsumerStep
  <2>1. PICK c \in Consumers, n \in Nuzzles : OnPublishLogged(c, n)
    BY <1>1 DEF ConsumerStep
  <2>2. net' = Taken(<<n, c>>) /\ UNCHANGED requests
    BY <2>1 DEF OnPublishLogged
  <2>3. \A l \in AskLinks : l # <<n, c>>
    BY AskEnds
  <2> QED
    BY <1>0, <2>2, <2>3, AskLinksLeftAlone DEF NothingAsked, AskLinks
<1>2. CASE TransportStep
  <2>1. ASSUME NEW l \in Links, LoseInFlight(l) PROVE AskKept
    BY <1>0, <2>1, AskEnds DEF LoseInFlight, Queues, AskKept
  <2>2. AskKept
    BY <1>2, <2>1, AskLinksLeftAlone
    DEF TransportStep, Kill, Crash, PeerClosed, PeerReset, AskKept
  <2> QED
    BY <1>0, <1>2, <2>2
    DEF NothingAsked, AskKept, AskLinks, TransportStep, ProcessFrame, consumerVars
<1> QED
  BY <1>1, <1>2

----------------------------------------------------------------------------
(* A request goes from a consumer to its nuzzle, to the engines, and into  *)
(* their vectors.                                                          *)

(* A consumer's request leaves what it has yet to request. *)
LEMMA ConsumerAsksOnce ==
    ASSUME Typed, AskedOnce, SubscribesOnce, NEW c \in Consumers,
           ConsumerUpdateSubscription(c), ConsumerFrame
    PROVE  AskedOnce'
<1> DEFINE n == NuzzleConnection[c]
           link == <<c, n>>
           r == Head(requests[c])
           t == r[1]
<1>1. /\ requests[c] \in Seq(Topics \X {0, 1}) /\ requests[c] # << >>
      /\ requests' = [requests EXCEPT ![c] = Tail(requests[c])]
      /\ net' = Posted(net, c, {n}, UpdateRequest(r))
      /\ subscriptions' = subscriptions
      /\ n \in Nuzzles /\ link \in AskLinks /\ net[link] \in Seq(Messages)
      /\ requests \in [Consumers -> Seq(Topics \X {0, 1})]
  BY UpdateForm DEF ConsumerUpdateSubscription, ConsumerFrame, engineVars, AskLinks
<1>2. /\ 1 \in DOMAIN requests[c] /\ r = requests[c][1] /\ r \in Topics \X {0, 1}
      /\ \A i \in DOMAIN Tail(requests[c]) :
           i \in Nat \ {0} /\ i + 1 \in DOMAIN requests[c]
             /\ Tail(requests[c])[i] = requests[c][i + 1]
  BY <1>1
<1>3. /\ r[2] = 1 /\ t \in Topics /\ Asks(c, t)
      /\ UpdateRequest(r) \in Messages /\ UpdateRequest(r).action = 1
      /\ UpdateRequest(r).topic_id = t
  <2>1. r[2] = 1
    BY <1>2 DEF AskedOnce
  <2> QED
    BY <1>2, <2>1 DEF Asks, UpdateRequest, Messages, RequestUpdateSubscription
<1>4. /\ requests'[c] = Tail(requests[c])
      /\ \A d \in Consumers : d # c => requests'[d] = requests[d]
  BY <1>1
<1>5. \A u : Asks(c, u)' => Asks(c, u) /\ u # t
  <2> SUFFICES ASSUME NEW u, NEW i \in DOMAIN Tail(requests[c]),
                      Tail(requests[c])[i][1] = u
               PROVE  Asks(c, u) /\ u # t
    BY <1>4 DEF Asks
  <2>1. i \in Nat \ {0} /\ i + 1 \in DOMAIN requests[c] /\ requests[c][i + 1][1] = u
    BY <1>2
  <2>2. u = t => i + 1 = 1
    BY <1>2, <2>1 DEF AskedOnce
  <2> QED
    BY <2>1, <2>2 DEF Asks
<1>6. \A d \in Consumers : \A i, j \in DOMAIN requests'[d] :
        requests'[d][i][2] = 1 /\ (requests'[d][i][1] = requests'[d][j][1] => i = j)
  <2>1. ASSUME NEW i \in DOMAIN Tail(requests[c]), NEW j \in DOMAIN Tail(requests[c])
        PROVE  /\ Tail(requests[c])[i][2] = 1
               /\ Tail(requests[c])[i][1] = Tail(requests[c])[j][1] => i = j
    <3>1. /\ requests[c][i + 1][2] = 1
          /\ requests[c][i + 1][1] = requests[c][j + 1][1] => i + 1 = j + 1
      BY <1>2 DEF AskedOnce
    <3> QED
      BY <1>2, <3>1
  <2>2. \A i, j \in DOMAIN requests'[c] :
          requests'[c][i][2] = 1 /\ (requests'[c][i][1] = requests'[c][j][1] => i = j)
    BY <1>4, <2>1
  <2>3. ASSUME NEW d \in Consumers, d # c
        PROVE  \A i, j \in DOMAIN requests'[d] :
          requests'[d][i][2] = 1 /\ (requests'[d][i][1] = requests'[d][j][1] => i = j)
    <3>1. requests'[d] = requests[d]
      BY <1>4, <2>3
    <3> QED
      BY <3>1 DEF AskedOnce
  <2> QED
    BY <2>2, <2>3
<1>7. /\ \A l \in AskLinks : l # link => net'[l] = net[l]
      /\ net'[link] = net[link] \/ net'[link] = Append(net[link], UpdateRequest(r))
  <2>1. \A l \in AskLinks : l[1] = c /\ l[2] = n => l = link
    BY DEF AskLinks, RequestLinks, UpdateLinks
  <2> HIDE DEF n, link, r
  <2> QED
    BY <1>1, <2>1, AskEnds DEF Posted
<1>8. /\ \A u : HasTopic(net'[link], u) => HasTopic(net[link], u) \/ u = t
      /\ TopicsOnce(net'[link])
  <2>1. TopicsOnce(net[link]) /\ ~HasTopic(net[link], t)
    BY <1>1, <1>3 DEF AskedOnce, AskLinks
  <2> HIDE DEF r, link, n
  <2> QED
    BY <1>1, <1>3, <1>7, <2>1, SentTopics
<1>9. \A l \in RequestLinks \cup UpdateLinks : TopicsOnce(net'[l])
  BY <1>7, <1>8 DEF AskedOnce, AskLinks
<1>10. \A d \in Consumers, m \in Nuzzles :
         m # NuzzleConnection[d] => net'[<<d, m>>] = << >>
  <2> SUFFICES ASSUME NEW d \in Consumers, NEW m \in Nuzzles, m # NuzzleConnection[d]
               PROVE  net'[<<d, m>>] = << >>
    OBVIOUS
  <2>1. <<d, m>> # link /\ <<d, m>> \in AskLinks
    BY UpdateForm DEF AskLinks
  <2> QED
    BY <1>7, <2>1 DEF AskedOnce
<1>11. ASSUME NEW m \in Nuzzles, NEW e \in Engines PROVE net'[<<m, e>>] = net[<<m, e>>]
  <2>1. <<m, e>> # link /\ <<m, e>> \in AskLinks
    BY UpdateForm, ProcessesDisjoint DEF AskLinks
  <2> QED
    BY <1>7, <2>1
<1>12. ASSUME NEW d \in Consumers, NEW u \in Topics, NEW m, m = NuzzleConnection[d]
       PROVE  /\ Asks(d, u)' => ~HasTopic(net'[<<d, m>>], u)
              /\ Asks(d, u)' \/ HasTopic(net'[<<d, m>>], u) => \A e \in Engines :
                   ~HasTopic(net'[<<m, e>>], u) /\ ~Contains(subscriptions'[e][u], m)
  <2>0. m \in Nuzzles
    BY <1>12, UpdateForm
  <2>1. /\ Asks(d, u) => ~HasTopic(net[<<d, m>>], u)
        /\ Asks(d, u) \/ HasTopic(net[<<d, m>>], u) => \A e \in Engines :
             ~HasTopic(net'[<<m, e>>], u) /\ ~Contains(subscriptions'[e][u], m)
    BY <1>1, <1>11, <1>12, <2>0 DEF AskedOnce
  <2>2. CASE d = c
    BY <1>3, <1>5, <1>8, <1>12, <2>1, <2>2
  <2>3. CASE d # c
    <3>1. <<d, m>> # link /\ <<d, m>> \in AskLinks /\ (Asks(d, u)' <=> Asks(d, u))
      BY <1>4, <2>0, <2>3, UpdateForm DEF AskLinks, Asks
    <3> QED
      BY <1>7, <2>1, <3>1
  <2> QED
    BY <2>2, <2>3
<1>13. \A m \in Nuzzles, e \in Engines, u \in Topics :
         HasTopic(net'[<<m, e>>], u) => ~Contains(subscriptions'[e][u], m)
  BY <1>1, <1>11 DEF AskedOnce
<1>14. \A e \in Engines, u \in Topics : \A i, j \in DOMAIN subscriptions'[e][u] :
         subscriptions'[e][u][i] = subscriptions'[e][u][j] => i = j
  BY <1>1 DEF AskedOnce
<1> QED
  BY <1>6, <1>9, <1>10, <1>12, <1>13, <1>14 DEF AskedOnce

(* A nuzzle's link to an engine gets a topic its consumer's link loses. *)
LEMMA NuzzleAsksOnce ==
    ASSUME Typed, AskedOnce, SubscribesOnce, NEW n \in Nuzzles, NEW c \in Consumers,
           NuzzleSubscribe(n, c), NuzzleFrame
    PROVE  AskedOnce'
<1> DEFINE link == <<c, n>>
           t == Head(net[link]).topic_id
<1>1. /\ net \in Queues /\ net[link] \in Seq(Messages) /\ net[link] # << >>
      /\ link \in AskLinks /\ nuzzle_engines[n] \subseteq Engines
      /\ UNCHANGED <<requests, subscriptions>>
  BY UpdateForm
  DEF NuzzleSubscribe, NuzzleFrame, engineVars, consumerVars, AskLinks, Arrived
<1>2. n = NuzzleConnection[c]
  BY <1>1 DEF AskedOnce
<1>3. t \in Topics /\ Head(net[link]).action = 1
  BY RequestArrived DEF NuzzleSubscribe, RequestUpdateSubscription
<1>4. PICK m \in Messages :
        /\ net' = Posted(Taken(link), n, nuzzle_engines[n], m)
        /\ m.topic_id = t /\ m.action = 1
  <2>1. PICK sender_id \in SenderIds :
          net' = Posted(Taken(link), n, nuzzle_engines[n],
                        Forward(Head(net[link]), sender_id))
    BY DEF NuzzleSubscribe
  <2> QED
    BY <1>3, <2>1 DEF Forward, Messages, ForwardedUpdate
<1>5. /\ TopicsOnce(net[link]) /\ TopicsOnce(Tail(net[link]))
      /\ HasTopic(net[link], t) /\ ~HasTopic(Tail(net[link]), t)
      /\ \A u : HasTopic(Tail(net[link]), u) => HasTopic(net[link], u)
  <2>1. TopicsOnce(net[link])
    BY <1>1 DEF AskedOnce, AskLinks
  <2> QED
    BY <1>1, <2>1, TakenTopics
<1>6. \A e \in Engines : ~HasTopic(net[<<n, e>>], t) /\ ~Contains(subscriptions[e][t], n)
  BY <1>2, <1>3, <1>5 DEF AskedOnce
<1>7. ~Asks(c, t)
  BY <1>2, <1>3, <1>5 DEF AskedOnce
<1> HIDE DEF link, t
<1>8. net'[link] = Tail(net[link])
  BY <1>1, <1>4, AskEnds, ProcessesDisjoint DEF link, Posted, Taken, Queues
<1>9. \A l \in AskLinks : l # link /\ l[1] # n => net'[l] = net[l]
  BY <1>1, <1>4, AskEnds DEF Posted, Taken, Queues
<1>10. \A e \in Engines :
         net'[<<n, e>>] = net[<<n, e>>] \/ net'[<<n, e>>] = Append(net[<<n, e>>], m)
  <2> SUFFICES ASSUME NEW e \in Engines
               PROVE  net'[<<n, e>>] = net[<<n, e>>] \/ net'[<<n, e>>] = Append(net[<<n, e>>], m)
    OBVIOUS
  <2>1. <<n, e>> # link /\ <<n, e>> \in Links
    BY ProcessesDisjoint, UpdateForm, LinkEnds DEF link
  <2>2. Taken(link)[<<n, e>>] = net[<<n, e>>]
    BY <1>1, <2>1 DEF Taken, Queues
  <2> QED
    BY <1>4, <2>1, <2>2 DEF Posted
<1>11. \A e \in Engines :
         /\ TopicsOnce(net'[<<n, e>>])
         /\ \A u : HasTopic(net'[<<n, e>>], u) => HasTopic(net[<<n, e>>], u) \/ u = t
  <2> SUFFICES ASSUME NEW e \in Engines
               PROVE  /\ TopicsOnce(net'[<<n, e>>])
                      /\ \A u : HasTopic(net'[<<n, e>>], u) => HasTopic(net[<<n, e>>], u) \/ u = t
    OBVIOUS
  <2>1. TopicsOnce(net[<<n, e>>]) /\ net[<<n, e>>] \in Seq(Messages)
    BY UpdateForm DEF AskedOnce
  <2> QED
    BY <1>4, <1>6, <1>10, <2>1, SentTopics
<1>12. \A l \in RequestLinks \cup UpdateLinks : TopicsOnce(net'[l])
  <2> SUFFICES ASSUME NEW l \in AskLinks PROVE TopicsOnce(net'[l])
    BY DEF AskLinks
  <2>1. CASE l = link
    BY <1>5, <1>8, <2>1
  <2>2. CASE l # link /\ l[1] # n
    BY <1>9, <2>2 DEF AskedOnce, AskLinks
  <2>3. CASE l[1] = n
    <3>1. l[2] \in Engines /\ l = <<n, l[2]>>
      BY <2>3, AskEnds, UpdateForm, ProcessesDisjoint DEF AskLinks
    <3> QED
      BY <1>11, <3>1
  <2> QED
    BY <2>1, <2>2, <2>3
<1>13. ASSUME NEW d \in Consumers, NEW k \in Nuzzles, <<d, k>> # link
       PROVE  net'[<<d, k>>] = net[<<d, k>>]
  <2>1. <<d, k>> \in AskLinks /\ <<d, k>>[1] # n
    BY UpdateForm, ProcessesDisjoint DEF AskLinks
  <2> QED
    BY <1>9, <1>13, <2>1
<1>14. ASSUME NEW k \in Nuzzles, NEW e \in Engines, k # n
       PROVE  net'[<<k, e>>] = net[<<k, e>>]
  <2>1. <<k, e>> \in AskLinks /\ <<k, e>>[1] # n /\ <<k, e>> # link
    BY <1>14, UpdateForm, ProcessesDisjoint DEF AskLinks, link
  <2> QED
    BY <1>9, <2>1
<1>15. \A d \in Consumers, k \in Nuzzles :
         k # NuzzleConnection[d] => net'[<<d, k>>] = << >>
  <2> SUFFICES ASSUME NEW d \in Consumers, NEW k \in Nuzzles, k # NuzzleConnection[d]
               PROVE  net'[<<d, k>>] = << >>
    OBVIOUS
  <2>1. <<d, k>> # link
    BY <1>2 DEF link
  <2>2. net'[<<d, k>>] = net[<<d, k>>]
    BY <1>13, <2>1
  <2> QED
    BY <2>2 DEF AskedOnce
<1>16. ASSUME NEW d \in Consumers, NEW u \in Topics, NEW k, k = NuzzleConnection[d]
       PROVE  /\ Asks(d, u)' => ~HasTopic(net'[<<d, k>>], u)
              /\ Asks(d, u)' \/ HasTopic(net'[<<d, k>>], u) => \A e \in Engines :
                   ~HasTopic(net'[<<k, e>>], u) /\ ~Contains(subscriptions'[e][u], k)
  <2>1. k \in Nuzzles /\ (Asks(d, u)' <=> Asks(d, u))
    BY <1>1, <1>16, UpdateForm DEF Asks
  <2>2. /\ Asks(d, u) => ~HasTopic(net[<<d, k>>], u)
        /\ Asks(d, u) \/ HasTopic(net[<<d, k>>], u) => \A e \in Engines :
             ~HasTopic(net[<<k, e>>], u) /\ ~Contains(subscriptions'[e][u], k)
    BY <1>1, <1>16, <2>1 DEF AskedOnce
  <2>3. CASE d = c
    <3>1. k = n /\ <<d, k>> = link
      BY <1>2, <1>16, <2>3 DEF link
    <3>2. HasTopic(net'[<<d, k>>], u) => HasTopic(net[<<d, k>>], u) /\ u # t
      BY <1>5, <1>8, <3>1
    <3>3. Asks(d, u) => u # t
      BY <1>7, <2>3
    <3>4. \A e \in Engines : HasTopic(net'[<<k, e>>], u) => HasTopic(net[<<k, e>>], u) \/ u = t
      BY <1>11, <3>1
    <3> QED
      BY <2>1, <2>2, <3>2, <3>3, <3>4
  <2>4. CASE d # c
    <3>1. k # n /\ <<d, k>> # link
      BY <1>2, <1>16, <2>4 DEF SubscribesOnce, link
    <3> QED
      BY <1>13, <1>14, <2>1, <2>2, <3>1
  <2> QED
    BY <2>3, <2>4
<1>17. \A k \in Nuzzles, e \in Engines, u \in Topics :
         HasTopic(net'[<<k, e>>], u) => ~Contains(subscriptions'[e][u], k)
  BY <1>1, <1>6, <1>11, <1>14 DEF AskedOnce
<1>18. /\ \A d \in Consumers : \A i, j \in DOMAIN requests'[d] :
           requests'[d][i][2] = 1 /\ (requests'[d][i][1] = requests'[d][j][1] => i = j)
       /\ \A e \in Engines, u \in Topics : \A i, j \in DOMAIN subscriptions'[e][u] :
           subscriptions'[e][u][i] = subscriptions'[e][u][j] => i = j
  BY <1>1 DEF AskedOnce
<1> QED
  BY <1>12, <1>15, <1>16, <1>17, <1>18 DEF AskedOnce

(* An engine's vector gets a nuzzle whose request its link loses. *)
LEMMA EngineAsksOnce ==
    ASSUME Typed, AskedOnce, NEW e \in Engines, NEW n \in Nuzzles,
           EngineSubscribe(e, n), EngineFrame
    PROVE  AskedOnce'
<1> DEFINE link == <<n, e>>
           t == Head(net[link]).topic_id
           vector == subscriptions[e][t]
<1>1. /\ net \in Queues /\ net[link] \in Seq(Messages) /\ net[link] # << >>
      /\ link \in AskLinks /\ net' = Taken(link)
      /\ subscriptions' = [subscriptions EXCEPT ![e][t] = Append(vector, n)]
      /\ UNCHANGED requests
  BY UpdateForm DEF EngineSubscribe, EngineFrame, consumerVars, AskLinks, Arrived
<1>2. t \in Topics
  BY UpdateArrived DEF EngineSubscribe, ForwardedUpdate
<1>3. vector \in Seq(Nuzzles)
  BY <1>2, UpdateForm
<1>4. /\ TopicsOnce(Tail(net[link]))
      /\ HasTopic(net[link], t) /\ ~HasTopic(Tail(net[link]), t)
      /\ \A u : HasTopic(Tail(net[link]), u) => HasTopic(net[link], u)
  <2>1. TopicsOnce(net[link])
    BY <1>1 DEF AskedOnce, AskLinks
  <2> QED
    BY <1>1, <2>1, TakenTopics
<1>5. ~Contains(vector, n)
  BY <1>2, <1>4 DEF AskedOnce
<1> HIDE DEF t
<1>6. /\ subscriptions'[e][t] = Append(vector, n)
      /\ \A f \in Engines, u \in Topics :
           f # e \/ u # t => subscriptions'[f][u] = subscriptions[f][u]
  BY <1>1, <1>2, UpdateForm
<1>7. /\ net'[link] = Tail(net[link])
      /\ \A l \in AskLinks : l # link => net'[l] = net[l]
  BY <1>1, AskEnds DEF Taken, Queues
<1>8. \A l \in AskLinks :
        TopicsOnce(net'[l]) /\ \A u : HasTopic(net'[l], u) => HasTopic(net[l], u)
  BY <1>4, <1>7 DEF AskedOnce, AskLinks
<1>9. \A i \in DOMAIN Append(vector, n) :
        \/ i \in DOMAIN vector /\ Append(vector, n)[i] = vector[i]
        \/ i = Len(vector) + 1 /\ Append(vector, n)[i] = n
  BY <1>3
<1>10. \A f \in Engines, u \in Topics : \A i, j \in DOMAIN subscriptions'[f][u] :
         subscriptions'[f][u][i] = subscriptions'[f][u][j] => i = j
  <2>1. \A i, j \in DOMAIN vector : vector[i] = vector[j] => i = j
    BY <1>2 DEF AskedOnce
  <2>2. \A i \in DOMAIN vector : vector[i] # n
    BY <1>3, <1>5 DEF Contains
  <2> HIDE DEF vector
  <2>3. \A i, j \in DOMAIN Append(vector, n) :
          Append(vector, n)[i] = Append(vector, n)[j] => i = j
    BY <1>9, <2>1, <2>2
  <2>4. \A i, j \in DOMAIN subscriptions'[e][t] :
          subscriptions'[e][t][i] = subscriptions'[e][t][j] => i = j
    BY <1>6, <2>3
  <2> QED
    BY <1>6, <2>4 DEF AskedOnce
<1>11. \A f \in Engines, u \in Topics, m \in Nuzzles :
         Contains(subscriptions'[f][u], m) =>
           Contains(subscriptions[f][u], m) \/ (f = e /\ u = t /\ m = n)
  <2>1. \A m : Contains(Append(vector, n), m) => Contains(vector, m) \/ m = n
    <3> HIDE DEF vector
    <3> SUFFICES ASSUME NEW m, Contains(Append(vector, n), m)
                 PROVE  Contains(vector, m) \/ m = n
      OBVIOUS
    <3>1. PICK i \in DOMAIN Append(vector, n) : Append(vector, n)[i] = m
      BY <1>3 DEF Contains
    <3>2. DOMAIN vector = 1..Len(vector)
      BY <1>3
    <3> QED
      BY <1>9, <3>1, <3>2 DEF Contains
  <2> QED
    BY <1>6, <2>1
<1>12. \A d \in Consumers, m \in Nuzzles : net'[<<d, m>>] = net[<<d, m>>]
  <2> SUFFICES ASSUME NEW d \in Consumers, NEW m \in Nuzzles
               PROVE  net'[<<d, m>>] = net[<<d, m>>]
    OBVIOUS
  <2>1. <<d, m>> # link /\ <<d, m>> \in AskLinks
    BY UpdateForm, ProcessesDisjoint DEF AskLinks
  <2> QED
    BY <1>7, <2>1
<1>13. \A m \in Nuzzles, f \in Engines : \A u :
         HasTopic(net'[<<m, f>>], u) =>
           HasTopic(net[<<m, f>>], u) /\ ~(m = n /\ f = e /\ u = t)
  <2>1. \A m \in Nuzzles, f \in Engines : <<m, f>> \in AskLinks
    BY UpdateForm DEF AskLinks
  <2> QED
    BY <1>4, <1>7, <1>8, <2>1
<1>14. ASSUME NEW d \in Consumers, NEW u \in Topics, NEW m, m = NuzzleConnection[d]
       PROVE  /\ Asks(d, u)' => ~HasTopic(net'[<<d, m>>], u)
              /\ Asks(d, u)' \/ HasTopic(net'[<<d, m>>], u) => \A f \in Engines :
                   ~HasTopic(net'[<<m, f>>], u) /\ ~Contains(subscriptions'[f][u], m)
  <2>1. m \in Nuzzles /\ (Asks(d, u)' <=> Asks(d, u))
    BY <1>1, <1>14, UpdateForm DEF Asks
  <2>2. /\ Asks(d, u) => ~HasTopic(net[<<d, m>>], u)
        /\ Asks(d, u) \/ HasTopic(net[<<d, m>>], u) => \A f \in Engines :
             ~HasTopic(net[<<m, f>>], u) /\ ~Contains(subscriptions[f][u], m)
    BY <1>14 DEF AskedOnce
  <2>3. ASSUME Asks(d, u) \/ HasTopic(net[<<d, m>>], u), NEW f \in Engines
        PROVE  ~(f = e /\ u = t /\ m = n)
    BY <1>4, <2>2, <2>3
  <2> QED
    BY <1>11, <1>12, <1>13, <2>1, <2>2, <2>3
<1>15. \A m \in Nuzzles, f \in Engines, u \in Topics :
         HasTopic(net'[<<m, f>>], u) => ~Contains(subscriptions'[f][u], m)
  BY <1>11, <1>13 DEF AskedOnce
<1>16. /\ \A d \in Consumers : \A i, j \in DOMAIN requests'[d] :
           requests'[d][i][2] = 1 /\ (requests'[d][i][1] = requests'[d][j][1] => i = j)
       /\ \A d \in Consumers, m \in Nuzzles :
           m # NuzzleConnection[d] => net'[<<d, m>>] = << >>
  BY <1>1, <1>12 DEF AskedOnce
<1> QED
  BY <1>8, <1>10, <1>14, <1>15, <1>16 DEF AskedOnce, AskLinks

(* Every step keeps each topic asked for in one place. *)
LEMMA NextAskedOnce ==
    ASSUME Typed, SubscribesOnce, AskedOnce, [Next]_vars
    PROVE  AskedOnce'
<1>1. CASE PublisherStep \/ PumpStep
  BY <1>1, ForwardersAskNothing, NothingAskedOnce
<1>2. CASE EngineStep
  BY <1>2, EngineAsksNothing, EngineAsksOnce, NothingAskedOnce DEF EngineStep
<1>3. CASE NuzzleStep
  BY <1>3, NuzzleAsksNothing, NuzzleAsksOnce, NothingAskedOnce DEF NuzzleStep
<1>4. CASE ConsumerStep \/ TransportStep
  <2>1. ASSUME NEW c \in Consumers, ConsumerUpdateSubscription(c) PROVE ConsumerFrame
    BY <1>4, <2>1 DEF ConsumerStep, TransportStep, ProcessFrame, ConsumerFrame
  <2> QED
    BY <1>4, <2>1, OthersAskNothing, ConsumerAsksOnce, NothingAskedOnce
<1>5. CASE UNCHANGED vars
  BY <1>5, NothingAskedOnce DEF NothingAsked, vars, transportVars, engineVars, consumerVars
<1> QED
  BY <1>1, <1>2, <1>3, <1>4, <1>5 DEF Next

(* It begins so, with what the consumer program requests. *)
LEMMA InitAskedOnce == SubscribesOnce /\ Init => AskedOnce
<1> SUFFICES ASSUME SubscribesOnce, Init PROVE AskedOnce
  OBVIOUS
<1>1. /\ \A l \in AskLinks : net[l] = << >>
      /\ \A e \in Engines, t \in Topics : subscriptions[e][t] = << >>
      /\ requests \in RequestScripts
  BY AskEnds DEF Init, TransportInit, EngineInit, ConsumerInit
<1>2. /\ \A c \in Consumers, n \in Nuzzles : net[<<c, n>>] = << >>
      /\ \A n \in Nuzzles, e \in Engines : net[<<n, e>>] = << >>
  BY <1>1 DEF AskLinks, RequestLinks, UpdateLinks
<1>3. \A t : ~HasTopic(<< >>, t) /\ ~Contains(<< >>, t)
  BY DEF HasTopic, Contains
<1>4. \A c \in Consumers : NuzzleConnection[c] \in Nuzzles
  BY ConsumerAssumption
<1> QED
  BY <1>1, <1>2, <1>3, <1>4 DEF AskedOnce, SubscribesOnce, TopicsOnce, AskLinks

(* In a deployment whose consumers are the repository's consumer program,  *)
(* each at a nuzzle of its own, no engine ever has a nuzzle twice in the   *)
(* vector it publishes a topic to, whatever is lost or exits on the way.   *)
THEOREM RegisteredAtMostOnce ==
    ASSUME SubscribesOnce
    PROVE  Spec => []RegisteredOnce
<1>1. Init => AskedOnce
  BY InitAskedOnce
<1>2. Typed /\ AskedOnce /\ [Next]_vars => AskedOnce'
  BY NextAskedOnce
<1>3. AskedOnce => RegisteredOnce
  BY DEF AskedOnce, RegisteredOnce, TopicsOnce, UpdateLinks
<1> QED
  BY <1>1, <1>2, <1>3, TypedAlways, PTL DEF Spec

----------------------------------------------------------------------------
(***************************************************************************)
(* In a deployment whose servers have made their connections, a nuzzle and *)
(* an engine that both run disagree about a topic's registrations by what  *)
(* is still on the link between them, and by nothing else.                 *)
(***************************************************************************)

(* What handling an update will add to an engine's registrations. *)
Change(m, t) == IF m.topic_id # t THEN 0 ELSE IF m.action = 1 THEN 1 ELSE -1

(* Handling queue q takes a count of topic t's registrations from one      *)
(* number to another: w[i] is the count after i of its messages.           *)
Takes(q, t, from, to) ==
    \E w \in [0..Len(q) -> Int] :
      /\ w[0] = from /\ w[Len(q)] = to
      /\ \A i \in 1..Len(q) : w[i] = w[i - 1] + Change(q[i], t)

(* The consumer that a nuzzle has told the engines of but not yet added. *)
Adding(n, t) == IF joining[n] # Idle /\ joining[n][2] = t THEN 1 ELSE 0

(* RegistrationsAgree is the end of this, when the link is empty. *)
Agreement ==
    /\ \A n \in Nuzzles : nuzzle_engines[n] = Engines
    /\ \A e \in Engines \cap up, n \in Nuzzles \cap up, t \in Topics :
         Takes(net[<<n, e>>], t, Len(client_subscriptions[e][t][n]),
               Len(consumer_subscriptions[n][t]) + Adding(n, t))

(* An empty queue takes a count nowhere. *)
LEMMA EmptyTakes ==
    ASSUME NEW t, NEW from \in Int, NEW to \in Int
    PROVE  Takes(<< >>, t, from, to) <=> from = to
<1>1. Len(<< >>) = 0
  OBVIOUS
<1>2. ASSUME from = to PROVE Takes(<< >>, t, from, to)
  <2>1. PICK w : w = [i \in 0..Len(<< >>) |-> from]
    OBVIOUS
  <2>2. w \in [0..Len(<< >>) -> Int] /\ w[0] = from /\ w[Len(<< >>)] = from
    BY <1>1, <2>1
  <2>3. \A i \in 1..Len(<< >>) : FALSE
    BY <1>1
  <2> QED
    BY <1>2, <2>2, <2>3 DEF Takes
<1> QED
  BY <1>1, <1>2 DEF Takes

(* One more message takes it further, *)
LEMMA SentTakes ==
    ASSUME NEW S, NEW q \in Seq(S), NEW m \in S, NEW t, NEW from \in Int, NEW to \in Int,
           Takes(q, t, from, to)
    PROVE  Takes(Append(q, m), t, from, to + Change(m, t))
<1> DEFINE r == Append(q, m)
<1>1. PICK w \in [0..Len(q) -> Int] :
        /\ w[0] = from /\ w[Len(q)] = to
        /\ \A i \in 1..Len(q) : w[i] = w[i - 1] + Change(q[i], t)
  BY DEF Takes
<1>2. /\ Len(q) \in Nat /\ Len(r) = Len(q) + 1 /\ r[Len(q) + 1] = m
      /\ \A i \in 1..Len(q) : r[i] = q[i]
  OBVIOUS
<1> HIDE DEF r
<1>3. Change(m, t) \in Int
  BY DEF Change
<1>4. PICK v : v = [i \in 0..Len(r) |-> IF i = Len(r) THEN to + Change(m, t) ELSE w[i]]
  OBVIOUS
<1>5. v \in [0..Len(r) -> Int]
  BY <1>1, <1>2, <1>3, <1>4
<1>6. v[Len(r)] = to + Change(m, t) /\ \A i \in 0..Len(q) : v[i] = w[i]
  BY <1>2, <1>4
<1>7. ASSUME NEW i \in 1..Len(r) PROVE v[i] = v[i - 1] + Change(r[i], t)
  <2>1. CASE i = Len(r)
    <3>1. i - 1 = Len(q) /\ v[i - 1] = to
      BY <1>1, <1>2, <1>6, <2>1
    <3> QED
      BY <1>2, <1>6, <2>1, <3>1
  <2>2. CASE i # Len(r)
    <3>1. i \in 1..Len(q) /\ i \in 0..Len(q) /\ i - 1 \in 0..Len(q)
      BY <1>2, <2>2
    <3> QED
      BY <1>1, <1>2, <1>6, <3>1
  <2> QED
    BY <2>1, <2>2
<1>8. v[0] = from
  BY <1>1, <1>2, <1>6
<1> QED
  BY <1>5, <1>6, <1>7, <1>8 DEF Takes, r

(* ... and the oldest one, handled, is no longer ahead. *)
LEMMA HandledTakes ==
    ASSUME NEW S, NEW q \in Seq(S), q # << >>, NEW t, NEW from \in Int, NEW to \in Int,
           Takes(q, t, from, to)
    PROVE  Takes(Tail(q), t, from + Change(Head(q), t), to)
<1> DEFINE r == Tail(q)
<1>1. PICK w \in [0..Len(q) -> Int] :
        /\ w[0] = from /\ w[Len(q)] = to
        /\ \A i \in 1..Len(q) : w[i] = w[i - 1] + Change(q[i], t)
  BY DEF Takes
<1>2. /\ Len(q) \in Nat \ {0} /\ Len(r) = Len(q) - 1 /\ Head(q) = q[1]
      /\ \A i \in 1..Len(r) : r[i] = q[i + 1]
  OBVIOUS
<1> HIDE DEF r
<1>3. PICK v : v = [i \in 0..Len(r) |-> w[i + 1]]
  OBVIOUS
<1>4. v \in [0..Len(r) -> Int] /\ \A i \in 0..Len(r) : v[i] = w[i + 1]
  BY <1>1, <1>2, <1>3
<1>5. v[0] = from + Change(Head(q), t) /\ v[Len(r)] = to
  BY <1>1, <1>2, <1>4
<1>6. ASSUME NEW i \in 1..Len(r) PROVE v[i] = v[i - 1] + Change(r[i], t)
  <2>1. i \in 0..Len(r) /\ i - 1 \in 0..Len(r) /\ i + 1 \in 1..Len(q) /\ (i + 1) - 1 = i
    BY <1>2
  <2>2. v[i] = w[i + 1] /\ v[i - 1] = w[i]
    BY <1>4, <2>1
  <2>3. w[i + 1] = w[i] + Change(q[i + 1], t)
    BY <1>1, <2>1
  <2> QED
    BY <1>2, <2>2, <2>3
<1> QED
  BY <1>4, <1>5, <1>6 DEF Takes, r

----------------------------------------------------------------------------
(* Steps. *)

(* What the tables of registrations are. *)
LEMMA TableForm ==
    ASSUME Typed
    PROVE  /\ client_subscriptions \in [Engines -> [Topics -> [Nuzzles -> Seq(SenderIds)]]]
           /\ consumer_subscriptions \in [Nuzzles -> [Topics -> Seq(Consumers)]]
           /\ joining \in [Nuzzles -> (Consumers \X Topics) \cup {Idle}]
           /\ \A e \in Engines, t \in Topics, n \in Nuzzles :
                Len(client_subscriptions[e][t][n]) \in Nat
           /\ \A n \in Nuzzles, t \in Topics :
                /\ Len(consumer_subscriptions[n][t]) \in Nat /\ Adding(n, t) \in Nat
                /\ Len(consumer_subscriptions[n][t]) + Adding(n, t) \in Int
           /\ \A m : \A t : Change(m, t) \in Int
<1>1. /\ client_subscriptions \in [Engines -> [Topics -> [Nuzzles -> Seq(SenderIds)]]]
      /\ consumer_subscriptions \in [Nuzzles -> [Topics -> Seq(Consumers)]]
      /\ joining \in [Nuzzles -> (Consumers \X Topics) \cup {Idle}]
  BY DEF Typed, TypeOK, EngineTypeOK, NuzzleTypeOK
<1>2. \A n \in Nuzzles, t \in Topics : Adding(n, t) \in Nat
  BY DEF Adding
<1>3. \A e \in Engines, t \in Topics, n \in Nuzzles : Len(client_subscriptions[e][t][n]) \in Nat
  BY <1>1
<1>4. \A n \in Nuzzles, t \in Topics : Len(consumer_subscriptions[n][t]) \in Nat
  BY <1>1
<1> QED
  BY <1>1, <1>2, <1>3, <1>4 DEF Change

(* A step that neither sends nor handles an update: the ends that still    *)
(* run find the link between them as it was.                               *)
UpdatesLeft ==
    /\ up' \subseteq up
    /\ \A n \in Nuzzles \cap up', e \in Engines \cap up' : net'[<<n, e>>] = net[<<n, e>>]
    /\ UNCHANGED <<client_subscriptions, consumer_subscriptions, joining, nuzzle_engines>>

(* Such a step keeps the agreement. *)
LEMMA LeftAgree ==
    ASSUME Agreement, UpdatesLeft
    PROVE  Agreement'
<1>1. \A n \in Nuzzles, t \in Topics : Adding(n, t)' = Adding(n, t)
  BY DEF UpdatesLeft, Adding
<1>2. ASSUME NEW e \in Engines \cap up', NEW n \in Nuzzles \cap up', NEW t \in Topics
      PROVE  Takes(net'[<<n, e>>], t, Len(client_subscriptions'[e][t][n]),
                   Len(consumer_subscriptions'[n][t]) + Adding(n, t)')
  BY <1>1 DEF UpdatesLeft, Agreement
<1> QED
  BY <1>2 DEF UpdatesLeft, Agreement

(* What is sent by others than nuzzles, taken from other links, or lost    *)
(* with a process that ends.                                               *)
LEMMA UpdateLinksLeft ==
    /\ \A q, a, B, m : a \notin Nuzzles =>
         \A n \in Nuzzles, e \in Engines : Posted(q, a, B, m)[<<n, e>>] = q[<<n, e>>]
    /\ \A q, a, B, m : B \cap Engines = {} =>
         \A n \in Nuzzles, e \in Engines : Posted(q, a, B, m)[<<n, e>>] = q[<<n, e>>]
    /\ net \in Queues => \A a, b : a \notin Nuzzles \/ b \notin Engines =>
         \A n \in Nuzzles, e \in Engines : Taken(<<a, b>>)[<<n, e>>] = net[<<n, e>>]
    /\ \A d : Exit(d) =>
         /\ up' \subseteq up
         /\ \A n \in Nuzzles \cap up', e \in Engines \cap up' : net'[<<n, e>>] = net[<<n, e>>]
<1>1. \A n \in Nuzzles, e \in Engines : <<n, e>> \in Links
  BY DEF Links, Connections
<1> QED
  BY <1>1 DEF Posted, Taken, Queues, Exit

(* Publishers, pumps, consumers and the network. *)
LEMMA OthersLeaveUpdates ==
    ASSUME Typed, PublisherStep \/ PumpStep \/ ConsumerStep \/ TransportStep
    PROVE  UpdatesLeft
<1> DEFINE Left == /\ up' \subseteq up
                   /\ \A n \in Nuzzles \cap up', e \in Engines \cap up' :
                        net'[<<n, e>>] = net[<<n, e>>]
<1>0. /\ UNCHANGED <<client_subscriptions, consumer_subscriptions, joining, nuzzle_engines>>
      /\ net \in Queues
  BY UpdateForm
  DEF PublisherStep, PublisherFrame, PumpStep, PumpFrame, ConsumerStep, ConsumerFrame,
      TransportStep, ProcessFrame, engineVars, nuzzleVars
<1> SUFFICES Left
  BY <1>0 DEF UpdatesLeft
<1>1. CASE PublisherStep
  <2>1. PICK b \in Publishers : Publish(b)
    BY <1>1 DEF PublisherStep
  <2>2. b \notin Nuzzles /\ UNCHANGED up /\ \E B, m : net' = Posted(net, b, B, m)
    BY <2>1, ProcessesDisjoint DEF Publish
  <2> QED
    BY <2>2, UpdateLinksLeft
<1>2. CASE PumpStep
  <2>1. PICK p \in Pumps :
          \/ \E e \in Engines : PumpConnectToEngine(p, e)
          \/ \E b \in Publishers : OnPublishReceive(p, b)
          \/ \E b \in Publishers : OnPublishReceiveWild(p, b)
          \/ \E e \in Engines : OnPrepareAckReceive(p, e)
    BY <1>2 DEF PumpStep
  <2>2. ASSUME NEW e \in Engines, PumpConnectToEngine(p, e) PROVE Left
    BY <2>2, UpdateLinksLeft DEF PumpConnectToEngine
  <2>3. ASSUME NEW b \in Publishers, OnPublishReceive(p, b) PROVE Left
    <3>1. UNCHANGED up /\ \E B, m : net' = Posted(Taken(<<b, p>>), p, B, m)
      BY <2>3 DEF OnPublishReceive
    <3>2. p \notin Nuzzles /\ b \notin Nuzzles
      BY ProcessesDisjoint
    <3> QED
      BY <1>0, <3>1, <3>2, UpdateLinksLeft
  <2>4. ASSUME NEW b \in Publishers, OnPublishReceiveWild(p, b) PROVE Left
    BY <2>4, UpdateLinksLeft DEF OnPublishReceiveWild, Crash
  <2>5. ASSUME NEW e \in Engines, OnPrepareAckReceive(p, e) PROVE Left
    <3>1. UNCHANGED up /\ net' = Taken(<<e, p>>) /\ e \notin Nuzzles
      BY <2>5, ProcessesDisjoint DEF OnPrepareAckReceive
    <3> QED
      BY <1>0, <3>1, UpdateLinksLeft
  <2> QED
    BY <2>1, <2>2, <2>3, <2>4, <2>5
<1>3. CASE ConsumerStep
  <2>1. PICK c \in Consumers :
          ConsumerUpdateSubscription(c) \/ \E n \in Nuzzles : OnPublishLogged(c, n)
    BY <1>3 DEF ConsumerStep
  <2>2. c \notin Nuzzles /\ c \notin Engines
    BY ProcessesDisjoint
  <2>3. CASE ConsumerUpdateSubscription(c)
    <3>1. UNCHANGED up /\ \E B, m : net' = Posted(net, c, B, m)
      BY <2>3 DEF ConsumerUpdateSubscription
    <3> QED
      BY <2>2, <3>1, UpdateLinksLeft
  <2>4. ASSUME NEW n \in Nuzzles, OnPublishLogged(c, n) PROVE Left
    <3>1. UNCHANGED up /\ net' = Taken(<<n, c>>)
      BY <2>4 DEF OnPublishLogged
    <3> QED
      BY <1>0, <2>2, <3>1, UpdateLinksLeft
  <2> QED
    BY <2>1, <2>3, <2>4
<1>4. CASE TransportStep
  <2>1. ASSUME NEW l \in Links, LoseInFlight(l) PROVE Left
    <3>1. /\ l[1] \notin up /\ UNCHANGED up /\ net' = [net EXCEPT ![l] = << >>]
      BY <2>1 DEF LoseInFlight
    <3>2. \A n \in Nuzzles \cap up, e \in Engines : <<n, e>> # l /\ <<n, e>> \in Links
      BY <3>1 DEF Links, Connections
    <3> QED
      BY <1>0, <3>1, <3>2 DEF Queues
  <2>2. ASSUME NEW a, NEW b, PeerClosed(a, b) PROVE Left
    BY <2>2 DEF PeerClosed
  <2>3. ASSUME NEW a, NEW b, PeerReset(a, b) PROVE Left
    BY <2>3, UpdateLinksLeft DEF PeerReset
  <2>4. ASSUME NEW d, Kill(d) PROVE Left
    BY <2>4, UpdateLinksLeft DEF Kill, Crash
  <2> QED
    BY <1>4, <2>1, <2>2, <2>3, <2>4 DEF TransportStep
<1> QED
  BY <1>1, <1>2, <1>3, <1>4

(* An engine, but for the updates it handles. *)
LEMMA EngineLeavesUpdates ==
    ASSUME Typed, EngineStep,
           ~(\E e \in Engines, n \in Nuzzles : EngineSubscribe(e, n) \/ EngineUnsubscribe(e, n))
    PROVE  UpdatesLeft
<1> DEFINE Left == /\ up' \subseteq up
                   /\ \A n \in Nuzzles \cap up', e \in Engines \cap up' :
                        net'[<<n, e>>] = net[<<n, e>>]
                   /\ UNCHANGED client_subscriptions
<1>0. /\ UNCHANGED <<consumer_subscriptions, joining, nuzzle_engines>>
      /\ net \in Queues
  BY UpdateForm DEF EngineStep, EngineFrame, nuzzleVars
<1> SUFFICES Left
  BY <1>0 DEF UpdatesLeft
<1>1. PICK d \in Engines :
        \/ \E p \in Pumps : OnPrepareReceive(d, p)
        \/ FanOutPublish(d)
        \/ \E n \in Nuzzles : EngineUnsubscribeUnknown(d, n) \/ EngineRaceCrash(d, n)
  BY DEF EngineStep
<1>2. d \notin Nuzzles
  BY ProcessesDisjoint
<1>3. ASSUME NEW p \in Pumps, OnPrepareReceive(d, p) PROVE Left
  <2>1. /\ UNCHANGED <<up, client_subscriptions>>
        /\ \E B, m : net' = Posted(Taken(<<p, d>>), d, B, m)
    BY <1>3 DEF OnPrepareReceive
  <2>2. p \notin Nuzzles
    BY ProcessesDisjoint
  <2> QED
    BY <1>0, <1>2, <2>1, <2>2, UpdateLinksLeft
<1>4. CASE FanOutPublish(d)
  <2>1. UNCHANGED <<up, client_subscriptions>> /\ \E B, m : net' = Posted(net, d, B, m)
    BY <1>4 DEF FanOutPublish
  <2> QED
    BY <1>2, <2>1, UpdateLinksLeft
<1>5. ASSUME NEW n \in Nuzzles, EngineUnsubscribeUnknown(d, n) \/ EngineRaceCrash(d, n)
      PROVE  Left
  BY <1>5, UpdateLinksLeft DEF EngineUnsubscribeUnknown, EngineRaceCrash, Crash, engineVars
<1> QED
  BY <1>1, <1>3, <1>4, <1>5

(* A nuzzle connected to every engine, but for the requests it handles. *)
LEMMA NuzzleLeavesUpdates ==
    ASSUME Typed, Agreement, NuzzleStep,
           ~(\E n \in Nuzzles, c \in Consumers : NuzzleSubscribe(n, c) \/ NuzzleUnsubscribe(n, c)),
           ~(\E n \in Nuzzles : NuzzleSubscribed(n))
    PROVE  UpdatesLeft
<1> DEFINE Left == /\ up' \subseteq up
                   /\ \A n \in Nuzzles \cap up', e \in Engines \cap up' :
                        net'[<<n, e>>] = net[<<n, e>>]
                   /\ UNCHANGED <<consumer_subscriptions, joining, nuzzle_engines>>
<1>0. UNCHANGED client_subscriptions /\ net \in Queues
  BY UpdateForm DEF NuzzleStep, NuzzleFrame, engineVars
<1> SUFFICES Left
  BY <1>0 DEF UpdatesLeft
<1>1. PICK m \in Nuzzles :
        \/ \E e \in Engines : NuzzleConnectToEngine(m, e)
        \/ \E e \in Engines : OnPublishReceived(m, e)
        \/ Deliver(m)
        \/ \E c \in Consumers : NuzzleUnsubscribeUnknown(m, c)
        \/ NuzzleRaceCrash(m)
  BY DEF NuzzleStep
<1>2. ~(\E e \in Engines : NuzzleConnectToEngine(m, e))
  BY DEF Agreement, NuzzleConnectToEngine
<1>3. ASSUME NEW e \in Engines, OnPublishReceived(m, e) PROVE Left
  <2>1. /\ UNCHANGED <<up, consumer_subscriptions, joining, nuzzle_engines>>
        /\ net' = Taken(<<e, m>>) /\ e \notin Nuzzles
    BY <1>3, ProcessesDisjoint DEF OnPublishReceived
  <2> QED
    BY <1>0, <2>1, UpdateLinksLeft
<1>4. CASE Deliver(m)
  <2>1. PICK c : /\ c \in LoopReads(delivery[m],
                          consumer_subscriptions[m][delivery[m].request.topic_id])
                 /\ net' = Posted(net, m, {c}, delivery[m].request)
    BY <1>4 DEF Deliver
  <2>2. c \in Consumers
    <3>1. delivery[m] # Idle /\ delivery[m] \in LoopOver(Consumers) \cup {Idle}
            /\ delivery[m].next <= Len(delivery[m].range)
      BY <1>4 DEF Deliver, Typed, TypeOK, NuzzleTypeOK
    <3>2. /\ delivery[m] \in LoopOver(Consumers) /\ delivery[m].request.topic_id \in Topics
      BY <3>1 DEF LoopOver, RequestPublish
    <3>3. consumer_subscriptions[m][delivery[m].request.topic_id] \in Seq(Consumers)
      BY <3>2, TableForm
    <3>4. LoopReads(delivery[m], consumer_subscriptions[m][delivery[m].request.topic_id])
            \subseteq Consumers
      BY <3>1, <3>2, <3>3, LoopReadsTyped
    <3> QED
      BY <2>1, <3>4
  <2>3. {c} \cap Engines = {}
    BY <2>2, ProcessesDisjoint
  <2>4. UNCHANGED <<up, consumer_subscriptions, joining, nuzzle_engines>>
    BY <1>4 DEF Deliver
  <2> QED
    BY <2>1, <2>3, <2>4, UpdateLinksLeft
<1>5. ASSUME NEW c \in Consumers, NuzzleUnsubscribeUnknown(m, c) PROVE Left
  BY <1>5, UpdateLinksLeft DEF NuzzleUnsubscribeUnknown, Crash, nuzzleVars
<1>6. CASE NuzzleRaceCrash(m)
  BY <1>6, UpdateLinksLeft DEF NuzzleRaceCrash, Crash, nuzzleVars
<1> QED
  BY <1>1, <1>2, <1>3, <1>4, <1>5, <1>6

----------------------------------------------------------------------------
(* The steps that handle an update or send one. *)

(* What an engine handles is no longer ahead of it. *)
LEMMA HandlingAgrees ==
    ASSUME Typed, Agreement, NEW d \in Engines, NEW m \in Nuzzles,
           EngineSubscribe(d, m) \/ EngineUnsubscribe(d, m), EngineFrame
    PROVE  Agreement'
<1> DEFINE request == Head(net[<<m, d>>])
           u == request.topic_id
           clients == client_subscriptions[d][u][m]
<1>1. /\ <<m, d>> \in Links /\ net[<<m, d>>] # << >> /\ net \in Queues
      /\ request \in ForwardedUpdate
  BY UpdateArrived, UpdateForm DEF EngineSubscribe, EngineUnsubscribe
<1>2. u \in Topics /\ request.action \in {0, 1} /\ request.sender_id \in SenderIds
  BY <1>1 DEF ForwardedUpdate
<1>3. /\ net' = Taken(<<m, d>>)
      /\ UNCHANGED <<up, consumer_subscriptions, joining, nuzzle_engines>>
  BY DEF EngineSubscribe, EngineUnsubscribe, EngineFrame, nuzzleVars
<1>4. /\ client_subscriptions \in [Engines -> [Topics -> [Nuzzles -> Seq(SenderIds)]]]
      /\ clients \in Seq(SenderIds)
  BY <1>2, TableForm
<1>5. PICK left \in Seq(SenderIds) :
        /\ client_subscriptions' = [client_subscriptions EXCEPT ![d][u][m] = left]
        /\ Len(left) = Len(clients) + Change(request, u)
  <2>1. CASE EngineSubscribe(d, m)
    <3>1. /\ client_subscriptions' =
               [client_subscriptions EXCEPT ![d][u][m] = Append(clients, request.sender_id)]
          /\ request.action = 1
      BY <2>1 DEF EngineSubscribe
    <3>2. Change(request, u) = 1
      BY <3>1 DEF Change
    <3>3. /\ Append(clients, request.sender_id) \in Seq(SenderIds)
          /\ Len(Append(clients, request.sender_id)) = Len(clients) + 1
      BY <1>2, <1>4
    <3> QED
      BY <3>1, <3>2, <3>3
  <2>2. CASE EngineUnsubscribe(d, m)
    <3>1. /\ client_subscriptions' =
               [client_subscriptions EXCEPT ![d][u][m] = Erased(clients, request.sender_id)]
          /\ request.action = 0
          /\ Contains(clients, request.sender_id)
      BY <2>2 DEF EngineUnsubscribe, FindsRegistration
    <3>2. Change(request, u) = -1
      BY <3>1 DEF Change
    <3>3. /\ Erased(clients, request.sender_id) \in Seq(SenderIds)
          /\ Len(Erased(clients, request.sender_id)) = Len(clients) - 1
      BY <1>4, <3>1, ErasedTyped
    <3>4. Len(clients) \in Nat
      BY <1>4
    <3> QED
      BY <3>1, <3>2, <3>3, <3>4
  <2> QED
    BY <2>1, <2>2
<1>6. \A n \in Nuzzles, t \in Topics : Adding(n, t)' = Adding(n, t)
  BY <1>3 DEF Adding
<1>7. ASSUME NEW e \in Engines \cap up', NEW n \in Nuzzles \cap up', NEW t \in Topics
      PROVE  Takes(net'[<<n, e>>], t, Len(client_subscriptions'[e][t][n]),
                   Len(consumer_subscriptions'[n][t]) + Adding(n, t)')
  <2> DEFINE to == Len(consumer_subscriptions[n][t]) + Adding(n, t)
  <2>1. /\ Takes(net[<<n, e>>], t, Len(client_subscriptions[e][t][n]), to)
        /\ Len(client_subscriptions[e][t][n]) \in Int /\ to \in Int
    BY <1>3, TableForm DEF Agreement
  <2>2. Len(consumer_subscriptions'[n][t]) + Adding(n, t)' = to
    BY <1>3, <1>6
  <2> HIDE DEF to
  <2>3. CASE n = m /\ e = d
    <3>1. net[<<n, e>>] \in Seq(Messages) /\ net[<<n, e>>] # << >>
      BY <1>1, <2>3 DEF Queues
    <3>2. net'[<<n, e>>] = Tail(net[<<n, e>>])
      BY <1>1, <1>3, <2>3 DEF Taken, Queues
    <3>3. Len(client_subscriptions'[e][t][n]) =
            Len(client_subscriptions[e][t][n]) + Change(request, t)
      <4>1. CASE t = u
        BY <1>2, <1>4, <1>5, <2>3, <4>1
      <4>2. CASE t # u
        <5>1. Change(request, t) = 0
          BY <4>2 DEF Change
        <5>2. client_subscriptions'[e][t][n] = client_subscriptions[e][t][n]
          BY <1>2, <1>4, <1>5, <4>2
        <5> QED
          BY <2>1, <5>1, <5>2
      <4> QED
        BY <4>1, <4>2
    <3>4. Takes(Tail(net[<<n, e>>]), t,
                Len(client_subscriptions[e][t][n]) + Change(Head(net[<<n, e>>]), t), to)
      BY <2>1, <3>1, HandledTakes
    <3> QED
      BY <2>2, <2>3, <3>2, <3>3, <3>4
  <2>4. CASE ~(n = m /\ e = d)
    <3>1. net'[<<n, e>>] = net[<<n, e>>]
      BY <1>1, <1>3, <2>4, LinkEnds DEF Taken, Queues
    <3>2. client_subscriptions'[e][t][n] = client_subscriptions[e][t][n]
      BY <1>2, <1>4, <1>5, <2>4
    <3> QED
      BY <2>1, <2>2, <3>1, <3>2
  <2> QED
    BY <2>3, <2>4
<1> QED
  BY <1>3, <1>7 DEF Agreement

(* A nuzzle sends an engine what it changes, or is about to change. *)
LEMMA ForwardingAgrees ==
    ASSUME Typed, Agreement, NEW m \in Nuzzles, NEW c \in Consumers,
           NuzzleSubscribe(m, c) \/ NuzzleUnsubscribe(m, c), NuzzleFrame
    PROVE  Agreement'
<1> DEFINE request == Head(net[<<c, m>>])
           u == request.topic_id
           Count(n, t) == Len(consumer_subscriptions[n][t]) + Adding(n, t)
<1>1. /\ request \in RequestUpdateSubscription
      /\ net \in Queues /\ Taken(<<c, m>>) \in Queues
  BY RequestArrived, UpdateForm DEF NuzzleSubscribe, NuzzleUnsubscribe
<1>2. u \in Topics /\ request.action \in {0, 1}
  BY <1>1 DEF RequestUpdateSubscription
<1>3. PICK sender_id \in SenderIds :
        net' = Posted(Taken(<<c, m>>), m, Engines, Forward(request, sender_id))
  BY DEF NuzzleSubscribe, NuzzleUnsubscribe, Agreement
<1> DEFINE update == Forward(request, sender_id)
<1>4. update \in Messages /\ \A t : Change(update, t) = Change(request, t)
  BY <1>2 DEF Forward, Change, Messages, ForwardedUpdate
<1>5. /\ UNCHANGED <<up, client_subscriptions, nuzzle_engines>>
      /\ joining[m] = Idle
  BY DEF NuzzleSubscribe, NuzzleUnsubscribe, NuzzleFrame, engineVars
<1>6. ASSUME NEW n \in Nuzzles, NEW t \in Topics
      PROVE  Len(consumer_subscriptions'[n][t]) + Adding(n, t)' =
               IF n = m THEN Count(n, t) + Change(request, t) ELSE Count(n, t)
  <2>1. /\ consumer_subscriptions[n][t] \in Seq(Consumers)
        /\ Len(consumer_subscriptions[n][t]) \in Nat
        /\ consumer_subscriptions \in [Nuzzles -> [Topics -> Seq(Consumers)]]
        /\ joining \in [Nuzzles -> (Consumers \X Topics) \cup {Idle}]
    BY TableForm
  <2>2. n = m => Adding(n, t) = 0
    BY <1>5 DEF Adding
  <2>3. CASE NuzzleSubscribe(m, c)
    <3>1. /\ joining' = [joining EXCEPT ![m] = <<c, u>>]
          /\ request.action = 1 /\ UNCHANGED consumer_subscriptions
      BY <2>3 DEF NuzzleSubscribe
    <3>2. <<c, u>> # Idle
      BY <1>2, JoiningAssumption
    <3>3. n = m => Adding(n, t)' = Change(request, t)
      <4>1. n = m => joining'[n] = <<c, u>>
        BY <2>1, <3>1
      <4> QED
        BY <3>1, <3>2, <4>1 DEF Adding, Change
    <3>4. n # m => Adding(n, t)' = Adding(n, t)
      BY <2>1, <3>1 DEF Adding
    <3>5. Change(request, t) \in Int
      BY TableForm
    <3> QED
      BY <2>1, <2>2, <3>1, <3>3, <3>4, <3>5
  <2>4. CASE NuzzleUnsubscribe(m, c)
    <3>1. /\ consumer_subscriptions' =
               [consumer_subscriptions EXCEPT ![m][u] = Erased(@, c)]
          /\ Contains(consumer_subscriptions[m][u], c)
          /\ request.action = 0 /\ UNCHANGED joining
      BY <2>4 DEF NuzzleUnsubscribe
    <3>2. Adding(n, t)' = Adding(n, t)
      BY <3>1 DEF Adding
    <3>3. CASE n = m /\ t = u
      <4>1. consumer_subscriptions'[n][t] = Erased(consumer_subscriptions[n][t], c)
        BY <2>1, <3>1, <3>3
      <4>2. Len(consumer_subscriptions'[n][t]) = Len(consumer_subscriptions[n][t]) - 1
        BY <2>1, <3>1, <3>3, <4>1, ErasedTyped
      <4>3. Change(request, t) = -1
        BY <3>1, <3>3 DEF Change
      <4> QED
        BY <2>1, <2>2, <3>2, <3>3, <4>2, <4>3
    <3>4. CASE ~(n = m /\ t = u)
      <4>1. consumer_subscriptions'[n][t] = consumer_subscriptions[n][t]
        BY <1>2, <2>1, <3>1, <3>4
      <4>2. n = m => Change(request, t) = 0
        BY <3>4 DEF Change
      <4> QED
        BY <2>1, <2>2, <3>2, <4>1, <4>2
    <3> QED
      BY <3>3, <3>4
  <2> QED
    BY <2>3, <2>4
<1>7. ASSUME NEW e \in Engines \cap up', NEW n \in Nuzzles \cap up', NEW t \in Topics
      PROVE  Takes(net'[<<n, e>>], t, Len(client_subscriptions'[e][t][n]),
                   Len(consumer_subscriptions'[n][t]) + Adding(n, t)')
  <2> DEFINE from == Len(client_subscriptions[e][t][n])
  <2>1. /\ Takes(net[<<n, e>>], t, from, Count(n, t))
        /\ from \in Int /\ Count(n, t) \in Int
        /\ Len(client_subscriptions'[e][t][n]) = from
    BY <1>5, TableForm DEF Agreement
  <2>2. <<n, e>> \in Links /\ Taken(<<c, m>>)[<<n, e>>] = net[<<n, e>>]
    <3>1. n # c
      BY ProcessesDisjoint
    <3>2. <<n, e>> \in Links /\ <<n, e>> # <<c, m>>
      BY <3>1, LinkEnds
    <3> QED
      BY <1>1, <3>2 DEF Taken, Queues
  <2>3. CASE n = m
    <3>1. net'[<<n, e>>] = Append(net[<<n, e>>], update)
      BY <1>3, <1>5, <2>2, <2>3 DEF Posted
    <3>2. net[<<n, e>>] \in Seq(Messages)
      BY <1>1, <2>2 DEF Queues
    <3>3. Takes(Append(net[<<n, e>>], update), t, from, Count(n, t) + Change(update, t))
      BY <1>4, <2>1, <3>2, SentTakes
    <3> QED
      BY <1>4, <1>6, <2>1, <2>3, <3>1, <3>3
  <2>4. CASE n # m
    <3>1. net'[<<n, e>>] = net[<<n, e>>]
      BY <1>3, <2>2, <2>4 DEF Posted
    <3> QED
      BY <1>6, <2>1, <2>4, <3>1
  <2> QED
    BY <2>3, <2>4
<1> QED
  BY <1>5, <1>7 DEF Agreement

(* The consumer a nuzzle has announced is then added to its vector. *)
LEMMA AddingAgrees ==
    ASSUME Typed, Agreement, NEW m \in Nuzzles, NuzzleSubscribed(m), NuzzleFrame
    PROVE  Agreement'
<1> DEFINE c == joining[m][1]
           u == joining[m][2]
<1>1. /\ UNCHANGED <<up, net, client_subscriptions, nuzzle_engines>>
      /\ joining[m] # Idle /\ joining' = [joining EXCEPT ![m] = Idle]
      /\ consumer_subscriptions' = [consumer_subscriptions EXCEPT ![m][u] = Append(@, c)]
  BY DEF NuzzleSubscribed, NuzzleFrame, engineVars, transportVars
<1>2. /\ consumer_subscriptions \in [Nuzzles -> [Topics -> Seq(Consumers)]]
      /\ joining \in [Nuzzles -> (Consumers \X Topics) \cup {Idle}]
      /\ c \in Consumers /\ u \in Topics
  BY <1>1, TableForm
<1> HIDE DEF c
<1>3. ASSUME NEW n \in Nuzzles, NEW t \in Topics
      PROVE  Len(consumer_subscriptions'[n][t]) + Adding(n, t)' =
               Len(consumer_subscriptions[n][t]) + Adding(n, t)
  <2>1. /\ consumer_subscriptions[n][t] \in Seq(Consumers)
        /\ Len(consumer_subscriptions[n][t]) \in Nat
    BY <1>2
  <2>2. CASE n = m /\ t = u
    <3>1. consumer_subscriptions'[n][t] = Append(consumer_subscriptions[n][t], c)
      BY <1>1, <1>2, <2>2
    <3>2. Len(consumer_subscriptions'[n][t]) = Len(consumer_subscriptions[n][t]) + 1
      BY <1>2, <2>1, <3>1
    <3>3. Adding(n, t) = 1 /\ Adding(n, t)' = 0
      BY <1>1, <1>2, <2>2 DEF Adding
    <3> QED
      BY <2>1, <3>2, <3>3
  <2>3. CASE ~(n = m /\ t = u)
    <3>1. consumer_subscriptions'[n][t] = consumer_subscriptions[n][t]
      BY <1>1, <1>2, <2>3
    <3>2. Adding(n, t)' = Adding(n, t)
      BY <1>1, <1>2, <2>3 DEF Adding
    <3> QED
      BY <3>1, <3>2
  <2> QED
    BY <2>2, <2>3
<1>4. ASSUME NEW e \in Engines \cap up', NEW n \in Nuzzles \cap up', NEW t \in Topics
      PROVE  Takes(net'[<<n, e>>], t, Len(client_subscriptions'[e][t][n]),
                   Len(consumer_subscriptions'[n][t]) + Adding(n, t)')
  <2>1. Takes(net[<<n, e>>], t, Len(client_subscriptions[e][t][n]),
              Len(consumer_subscriptions[n][t]) + Adding(n, t))
    BY <1>1 DEF Agreement
  <2> QED
    BY <1>1, <1>3, <2>1
<1> QED
  BY <1>1, <1>4 DEF Agreement

(* Every step keeps the agreement. *)
LEMMA NextAgrees == Typed /\ Agreement /\ [Next]_vars => Agreement'
<1> SUFFICES ASSUME Typed, Agreement, [Next]_vars PROVE Agreement'
  OBVIOUS
<1>1. CASE PublisherStep \/ PumpStep \/ ConsumerStep \/ TransportStep
  BY <1>1, OthersLeaveUpdates, LeftAgree
<1>2. CASE EngineStep
  <2>1. ASSUME NEW e \in Engines, NEW n \in Nuzzles,
               EngineSubscribe(e, n) \/ EngineUnsubscribe(e, n)
        PROVE  Agreement'
    BY <1>2, <2>1, HandlingAgrees DEF EngineStep
  <2>2. CASE ~(\E e \in Engines, n \in Nuzzles : EngineSubscribe(e, n) \/ EngineUnsubscribe(e, n))
    BY <1>2, <2>2, EngineLeavesUpdates, LeftAgree
  <2> QED
    BY <2>1, <2>2
<1>3. CASE NuzzleStep
  <2>1. ASSUME NEW n \in Nuzzles, NEW c \in Consumers,
               NuzzleSubscribe(n, c) \/ NuzzleUnsubscribe(n, c)
        PROVE  Agreement'
    BY <1>3, <2>1, ForwardingAgrees DEF NuzzleStep
  <2>2. ASSUME NEW n \in Nuzzles, NuzzleSubscribed(n) PROVE Agreement'
    BY <1>3, <2>2, AddingAgrees DEF NuzzleStep
  <2>3. CASE /\ ~(\E n \in Nuzzles, c \in Consumers :
                    NuzzleSubscribe(n, c) \/ NuzzleUnsubscribe(n, c))
             /\ ~(\E n \in Nuzzles : NuzzleSubscribed(n))
    BY <1>3, <2>3, NuzzleLeavesUpdates, LeftAgree
  <2> QED
    BY <2>1, <2>2, <2>3
<1>4. CASE UNCHANGED vars
  <2>1. UpdatesLeft
    BY <1>4 DEF UpdatesLeft, vars, transportVars, engineVars, nuzzleVars
  <2> QED
    BY <2>1, LeftAgree
<1> QED
  BY <1>1, <1>2, <1>3, <1>4 DEF Next

(* Servers that have just made their connections know of no subscriber. *)
LEMMA ConnectedAgree ==
    ASSUME ConnectedInit
    PROVE  Typed /\ Agreement
<1>1. /\ up = Processes /\ failed = {} /\ net = [l \in Links |-> << >>]
      /\ joining = [n \in Nuzzles |-> Idle]
      /\ nuzzle_engines = [n \in Nuzzles |-> Engines]
      /\ client_subscriptions = [e \in Engines |-> [t \in Topics |-> [n \in Nuzzles |-> << >>]]]
      /\ consumer_subscriptions = [n \in Nuzzles |-> [t \in Topics |-> << >>]]
  BY DEF ConnectedInit, StartedInit
<1>2. Agreement
  <2> SUFFICES ASSUME NEW e \in Engines, NEW n \in Nuzzles, NEW t \in Topics
               PROVE  Takes(net[<<n, e>>], t, Len(client_subscriptions[e][t][n]),
                            Len(consumer_subscriptions[n][t]) + Adding(n, t))
    BY <1>1 DEF Agreement
  <2>1. net[<<n, e>>] = << >> /\ Adding(n, t) = 0
    BY <1>1, LinkEnds DEF Adding
  <2>2. client_subscriptions[e][t][n] = << >> /\ consumer_subscriptions[n][t] = << >>
    BY <1>1
  <2>3. Takes(<< >>, t, 0, 0)
    BY EmptyTakes
  <2> QED
    BY <2>1, <2>2, <2>3
<1>3. Typed
  <2>1. TransportTypeOK /\ SupportedOnly
    BY <1>1 DEF ConnectedInit, StartedInit, TransportTypeOK, SupportedOnly, StreamStates
  <2>2. PublisherTypeOK /\ PumpTypeOK
    BY PublisherInitTyped DEF ConnectedInit, StartedInit, PumpTypeOK
  <2>3. EngineTypeOK
    BY DEF ConnectedInit, StartedInit, EngineTypeOK
  <2>4. NuzzleTypeOK
    BY DEF ConnectedInit, StartedInit, NuzzleTypeOK
  <2>5. ConsumerTypeOK
    BY ConsumerAssumption DEF ConnectedInit, StartedInit, ConsumerTypeOK
  <2> QED
    BY <2>1, <2>2, <2>3, <2>4, <2>5 DEF Typed, TypeOK
<1> QED
  BY <1>2, <1>3

(* In a deployment whose servers have made their connections, an engine     *)
(* that has handled all that a nuzzle sent it holds as many registrations   *)
(* for it as the nuzzle has consumers, however their subscriptions and      *)
(* cancellations interleave and whichever processes end.                    *)
THEOREM RegistrationsAlwaysAgree == ConnectedSpec => []RegistrationsAgree
<1>1. Typed /\ Agreement => RegistrationsAgree
  <2> SUFFICES ASSUME Typed, Agreement,
                      NEW e \in Engines \cap up, NEW n \in Nuzzles \cap up, NEW t \in Topics,
                      joining[n] = Idle, net[<<n, e>>] = << >>
               PROVE  Len(client_subscriptions[e][t][n]) = Len(consumer_subscriptions[n][t])
    BY DEF RegistrationsAgree
  <2>1. Takes(<< >>, t, Len(client_subscriptions[e][t][n]),
              Len(consumer_subscriptions[n][t]) + Adding(n, t))
    BY DEF Agreement
  <2>2. /\ Len(client_subscriptions[e][t][n]) \in Nat
        /\ Len(consumer_subscriptions[n][t]) \in Nat /\ Adding(n, t) = 0
    BY TableForm DEF Adding
  <2> QED
    BY <2>1, <2>2, EmptyTakes
<1>2. ConnectedInit => Typed /\ Agreement
  BY ConnectedAgree
<1>3. Typed /\ Agreement /\ [Next]_vars => (Typed /\ Agreement)'
  BY NextTyped, NextAgrees
<1> QED
  BY <1>1, <1>2, <1>3, PTL DEF ConnectedSpec
=============================================================================
