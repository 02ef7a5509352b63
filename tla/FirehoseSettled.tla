---------------------------- MODULE FirehoseSettled ----------------------------
(***************************************************************************)
(* A deployment whose consumers have joined before anything is published,  *)
(* each at a nuzzle of its own (SettledSpec): what is published is carried *)
(* through pump, engines and nuzzles to every consumer's log, or there is  *)
(* a process that has ended to account for it; a nuzzle forgets what every *)
(* engine has sent it; and logs are in the order of publication.           *)
(***************************************************************************)
EXTENDS FirehoseDelivery

(* Consumers have joined, servers are connected, and nothing changes that. *)
Settled ==
    /\ \A c \in Consumers : requests[c] = << >>
    /\ \A l \in AskLinks : net[l] = << >>
    /\ \A n \in Nuzzles : joining[n] = Idle /\ nuzzle_engines[n] = Engines
    /\ \A p \in Pumps : engine_connections[p] = Engines
    /\ \A e \in Engines, t \in Topics, n \in Nuzzles :
         Contains(subscriptions[e][t], n) <=> \E c \in Consumers : NuzzleConnection[c] = n
    /\ \A c \in Consumers, t \in Topics :
         consumer_subscriptions[NuzzleConnection[c]][t] = <<c>>

(* The links that carry publications, from publishers to consumers. *)
CarrierLinks == PublishLinks \cup WatchedLinks

(* Nothing happens to publications but that links with an exited end may   *)
(* be emptied.                                                             *)
Fades ==
    /\ \A l \in CarrierLinks :
         net'[l] = net[l] \/ (net'[l] = << >> /\ (l[1] \notin up' \/ l[2] \notin up'))
    /\ up' \subseteq up
    /\ ProcessFrame

----------------------------------------------------------------------------
(* The steps of a settled deployment. *)

(* Who writes and who reads the links that carry publications. *)
LEMMA CarrierEnds ==
    /\ CarrierLinks \subseteq Links
    /\ \A l \in CarrierLinks : l[2] \in Pumps \cup Engines \cup Nuzzles \cup Consumers
    /\ \A l \in CarrierLinks : \A p \in Pumps, e \in Engines : l # <<e, p>>
    /\ \A b \in Publishers, p \in Pumps : <<b, p>> \in CarrierLinks
    /\ \A p \in Pumps, e \in Engines : <<p, e>> \in CarrierLinks
    /\ \A e \in Engines, n \in Nuzzles : <<e, n>> \in CarrierLinks
    /\ \A n \in Nuzzles, c \in Consumers : <<n, c>> \in CarrierLinks
<1>1. PublishLinks \subseteq Links /\ WatchedLinks \subseteq Links
  BY WatchedWriters DEF PublishLinks, Links, Connections
<1>2. \A l \in PublishLinks : l[1] \in Publishers /\ l[2] \in Pumps
  BY DEF PublishLinks
<1>3. \A l \in CarrierLinks : l[2] \in Pumps \cup Engines \cup Nuzzles \cup Consumers
  BY <1>2, WatchedWriters DEF CarrierLinks
<1>4. \A l \in PublishLinks : \A p \in Pumps, e \in Engines : l # <<e, p>>
  BY <1>2, ProcessesDisjoint
<1>5. \A l \in CarrierLinks : \A p \in Pumps, e \in Engines : l # <<e, p>>
  BY <1>4, WatchedWriters DEF CarrierLinks
<1> QED
  BY <1>1, <1>3, <1>5, MajorityLinks DEF CarrierLinks, WatchedLinks, EngineLinks, PublishLinks

(* The end of a process empties the links to it. *)
LEMMA ExitFades ==
    ASSUME NEW d, Exit(d), ProcessFrame
    PROVE  Fades
  BY CarrierEnds DEF Exit, Fades

(* A pump that is connected numbers publications and takes acknowledgements. *)
LEMMA SettledPumpSteps ==
    ASSUME Typed, Settled, PumpStep,
           ~(\E p \in Pumps, b \in Publishers : OnPublishReceive(p, b))
    PROVE  Fades
<1>0. net \in Queues
  BY UpdateForm
<1>1. PICK p \in Pumps :
        \/ \E e \in Engines : PumpConnectToEngine(p, e)
        \/ \E b \in Publishers : OnPublishReceiveWild(p, b)
        \/ \E e \in Engines : OnPrepareAckReceive(p, e)
  BY DEF PumpStep
<1>2. ASSUME NEW e \in Engines, PumpConnectToEngine(p, e) PROVE FALSE
  BY <1>2 DEF PumpConnectToEngine, Settled
<1>3. ASSUME NEW b \in Publishers, OnPublishReceiveWild(p, b) PROVE Fades
  <2>1. Exit(p) /\ ProcessFrame
    BY <1>3 DEF OnPublishReceiveWild, Crash, PumpStep, PumpFrame, ProcessFrame
  <2> QED
    BY <2>1, ExitFades
<1>4. ASSUME NEW e \in Engines, OnPrepareAckReceive(p, e) PROVE Fades
  <2>1. net' = Taken(<<e, p>>) /\ up' = up /\ ProcessFrame
    BY <1>4 DEF OnPrepareAckReceive, PumpStep, PumpFrame, ProcessFrame
  <2>2. \A l \in CarrierLinks : net'[l] = net[l]
    BY <1>0, <2>1, CarrierEnds DEF Taken, Queues
  <2> QED
    BY <2>1, <2>2 DEF Fades
<1> QED
  BY <1>1, <1>2, <1>3, <1>4

(* No engine is sent an update, ... *)
LEMMA SettledEngineSteps ==
    ASSUME Settled, EngineStep
    PROVE  \E e \in Engines : (\E p \in Pumps : OnPrepareReceive(e, p)) \/ FanOutPublish(e)
<1>1. \A e \in Engines, n \in Nuzzles : ~Arrived(n, e, "req_update_subscription")
  BY DEF Settled, AskLinks, UpdateLinks, Arrived
<1> QED
  BY <1>1 DEF EngineStep, EngineSubscribe, EngineUnsubscribe, EngineUnsubscribeUnknown,
       EngineRaceCrash

(* ... and no nuzzle a request. *)
LEMMA SettledNuzzleSteps ==
    ASSUME Settled, NuzzleStep
    PROVE  \E n \in Nuzzles : (\E e \in Engines : OnPublishReceived(n, e)) \/ Deliver(n)
<1>1. \A c \in Consumers, n \in Nuzzles : ~Arrived(c, n, "req_update_subscription")
  BY DEF Settled, AskLinks, RequestLinks, Arrived
<1>2. \A n \in Nuzzles : joining[n] = Idle /\ nuzzle_engines[n] = Engines
  BY DEF Settled
<1> QED
  BY <1>1, <1>2 DEF NuzzleStep, NuzzleConnectToEngine, NuzzleSubscribe, NuzzleSubscribed,
       NuzzleUnsubscribe, NuzzleUnsubscribeUnknown, NuzzleRaceCrash

(* Failures and closes only empty links. *)
LEMMA SettledTransportSteps ==
    ASSUME Typed, TransportStep
    PROVE  Fades
<1>0. net \in Queues /\ ProcessFrame
  BY UpdateForm DEF TransportStep
<1>1. ASSUME NEW d \in Processes, Kill(d) PROVE Fades
  BY <1>0, <1>1, ExitFades DEF Kill, Crash
<1>2. ASSUME NEW l \in Links, LoseInFlight(l) PROVE Fades
  BY <1>0, <1>2, CarrierEnds DEF LoseInFlight, Fades, Queues
<1>3. ASSUME NEW l \in Links, PeerClosed(l[1], l[2]) PROVE Fades
  BY <1>0, <1>3 DEF PeerClosed, Fades
<1>4. ASSUME NEW l \in Links, PeerReset(l[1], l[2]) PROVE Fades
  BY <1>0, <1>4, ExitFades DEF PeerReset
<1> QED
  BY <1>1, <1>2, <1>3, <1>4 DEF TransportStep

(* What may happen: a publication is published, numbered, stored, fanned   *)
(* out, counted, delivered or logged; or there are losses.                 *)
SettledStep ==
    \/ PublisherFrame /\ \E b \in Publishers : Publish(b)
    \/ PumpFrame /\ \E p \in Pumps, b \in Publishers : OnPublishReceive(p, b)
    \/ EngineFrame /\ \E e \in Engines, p \in Pumps : OnPrepareReceive(e, p)
    \/ EngineFrame /\ \E e \in Engines : FanOutPublish(e)
    \/ NuzzleFrame /\ \E n \in Nuzzles, e \in Engines : OnPublishReceived(n, e)
    \/ NuzzleFrame /\ \E n \in Nuzzles : Deliver(n)
    \/ ConsumerFrame /\ \E c \in Consumers, n \in Nuzzles : OnPublishLogged(c, n)
    \/ Fades

(* Every step is one of these. *)
LEMMA SettledSteps ==
    ASSUME Typed, Settled, [Next]_vars
    PROVE  SettledStep
<1>1. CASE PublisherStep
  BY <1>1 DEF PublisherStep, SettledStep
<1>2. CASE PumpStep
  BY <1>2, SettledPumpSteps DEF PumpStep, SettledStep
<1>3. CASE EngineStep
  BY <1>3, SettledEngineSteps DEF EngineStep, SettledStep
<1>4. CASE NuzzleStep
  BY <1>4, SettledNuzzleSteps DEF NuzzleStep, SettledStep
<1>5. CASE ConsumerStep
  <2>1. \A c \in Consumers : ~ConsumerUpdateSubscription(c)
    BY DEF Settled, ConsumerUpdateSubscription
  <2> QED
    BY <1>5, <2>1 DEF ConsumerStep, SettledStep
<1>6. CASE TransportStep
  BY <1>6, SettledTransportSteps DEF SettledStep
<1>7. CASE UNCHANGED vars
  BY <1>7 DEF vars, transportVars, ProcessFrame, Fades, SettledStep
<1> QED
  BY <1>1, <1>2, <1>3, <1>4, <1>5, <1>6, <1>7 DEF Next

(* A settled deployment stays so. *)
LEMMA SettledStays ==
    ASSUME Typed, AskedOnce, Settled, [Next]_vars
    PROVE  Settled'
<1>1. SettledStep
  BY SettledSteps
<1>2. /\ \A n \in Nuzzles, c \in Consumers : ~NuzzleSubscribe(n, c)
      /\ \A e \in Engines, n \in Nuzzles : ~EngineSubscribe(e, n)
      /\ \A c \in Consumers : ~ConsumerUpdateSubscription(c)
  BY DEF Settled, AskLinks, RequestLinks, UpdateLinks, NuzzleSubscribe, EngineSubscribe,
         ConsumerUpdateSubscription, Arrived
<1>3. NothingAsked \/ UNCHANGED vars
  BY <1>2, ForwardersAskNothing, EngineAsksNothing, NuzzleAsksNothing, OthersAskNothing
  DEF Next
<1>4. (\A l \in AskLinks : net'[l] = << >>) /\ UNCHANGED <<requests, subscriptions>>
  BY <1>3 DEF Settled, NothingAsked, AskLinks, vars, transportVars, engineVars, consumerVars
<1>5. UNCHANGED <<joining, nuzzle_engines, engine_connections, consumer_subscriptions>>
  BY <1>1 DEF SettledStep, PublisherFrame, PumpFrame, EngineFrame, NuzzleFrame, ConsumerFrame,
       ProcessFrame, Fades, OnPublishReceive, OnPublishReceived, Deliver, pumpVars, nuzzleVars
<1> QED
  BY <1>4, <1>5 DEF Settled

----------------------------------------------------------------------------
(* What each step does to the links that carry publications. *)

(* A publication joins the link to its pump. *)
LEMMA PublishEffect ==
    ASSUME Typed, NEW b \in Publishers, Publish(b)
    PROVE  /\ NextPump(b) \in Pumps /\ up' = up
           /\ \A l \in CarrierLinks : net'[l] =
                IF l = <<b, NextPump(b)>> /\ NextPump(b) \in up
                THEN Append(net[l], Publication(b)) ELSE net[l]
<1>1. NextPump(b) \in Pumps
  <2>1. /\ PumpConnections[b] \in Seq(Pumps) /\ pump_index[b] \in Nat
        /\ pump_index[b] < Len(PumpConnections[b])
    BY PublisherAssumption DEF Typed, TypeOK, PublisherTypeOK
  <2> QED
    BY <2>1 DEF NextPump
<1>2. net' = Posted(net, b, {NextPump(b)}, Publication(b)) /\ up' = up
  BY DEF Publish
<1>3. \A l \in CarrierLinks : l = <<b, NextPump(b)>> <=> l[1] = b /\ l[2] = NextPump(b)
  BY CarrierEnds DEF Links, Connections
<1> QED
  BY <1>1, <1>2, <1>3, CarrierEnds DEF Posted

(* Numbered, it leaves that link for those to the engines that run. *)
LEMMA NumberEffect ==
    ASSUME Typed, Settled, NEW p \in Pumps, NEW b \in Publishers, OnPublishReceive(p, b)
    PROVE  /\ net[<<b, p>>] # << >> /\ up' = up /\ p \in up
           /\ \A l \in CarrierLinks : net'[l] =
                IF l = <<b, p>> THEN Tail(net[l])
                ELSE IF l[1] = p /\ l[2] \in Engines \cap up
                     THEN Append(net[l], Prepare(p, Head(net[<<b, p>>])))
                     ELSE net[l]
<1>0. net \in Queues /\ <<b, p>> \in Links /\ p # b
  <2>1. p # b
    BY ProcessesDisjoint
  <2> QED
    BY <2>1, UpdateForm, LinkEnds
<1>1. /\ net' = Posted(Taken(<<b, p>>), p, Engines, Prepare(p, Head(net[<<b, p>>])))
      /\ net[<<b, p>>] # << >> /\ up' = up /\ p \in up
  BY DEF OnPublishReceive, Arrived, Settled
<1>2. \A l \in Links : Taken(<<b, p>>)[l] = IF l = <<b, p>> THEN Tail(net[l]) ELSE net[l]
  BY <1>0 DEF Taken, Queues
<1> QED
  BY <1>0, <1>1, <1>2, CarrierEnds DEF Posted

(* Stored, it leaves the link to the engine. *)
LEMMA StoreEffect ==
    ASSUME Typed, NEW e \in Engines, NEW p \in Pumps, OnPrepareReceive(e, p)
    PROVE  /\ net[<<p, e>>] # << >> /\ up' = up /\ e \in up
           /\ \A l \in CarrierLinks : net'[l] = IF l = <<p, e>> THEN Tail(net[l]) ELSE net[l]
<1>0. net \in Queues /\ <<p, e>> \in CarrierLinks /\ \A l \in CarrierLinks : l # <<e, p>>
  BY UpdateForm, CarrierEnds
<1>1. PICK m : net' = Posted(Taken(<<p, e>>), e, {p}, m)
  BY DEF OnPrepareReceive
<1>2. net[<<p, e>>] # << >> /\ up' = up /\ e \in up
  BY DEF OnPrepareReceive, Arrived
<1>3. \A l \in CarrierLinks : ~(l[1] = e /\ l[2] = p)
  BY CarrierEnds DEF Links, Connections
<1> QED
  BY <1>0, <1>1, <1>2, <1>3, CarrierEnds DEF Posted, Taken, Queues

(* A loop sends to the nuzzle it has come to. *)
LEMMA FanOutEffect ==
    ASSUME Typed, Copying, NEW e \in Engines, FanOutPublish(e),
           NEW n, n = fan_out[e].range[fan_out[e].next]
    PROVE  /\ n \in Nuzzles /\ up' = up /\ e \in up /\ fan_out[e] # Idle
           /\ \A l \in CarrierLinks : net'[l] =
                IF l = <<e, n>> /\ n \in up THEN Append(net[l], fan_out[e].request) ELSE net[l]
<1> DEFINE loop == fan_out[e]
           vector == subscriptions[e][loop.request.topic_id]
<1>1. loop # Idle /\ up' = up /\ e \in up
  BY DEF FanOutPublish
<1>2. loop.range \in Seq(Nuzzles) /\ loop.next \in DOMAIN loop.range
  BY <1>1, CopyForm
<1>3. LoopReads(loop, vector) = {n}
  <2>1. \A i \in DOMAIN loop.range : i \in DOMAIN vector /\ vector[i] = loop.range[i]
    BY <1>1 DEF Copying, LoopsCurrent
  <2> QED
    BY <1>2, <2>1 DEF LoopReads
<1>4. net' = Posted(net, e, {n}, loop.request)
  BY <1>3 DEF FanOutPublish
<1>5. \A l \in CarrierLinks : l = <<e, n>> <=> l[1] = e /\ l[2] = n
  BY CarrierEnds DEF Links, Connections
<1> QED
  BY <1>1, <1>2, <1>4, <1>5, CarrierEnds DEF Posted

(* A counted copy leaves its link. *)
LEMMA CountEffect ==
    ASSUME Typed, NEW n \in Nuzzles, NEW e \in Engines, OnPublishReceived(n, e)
    PROVE  /\ net[<<e, n>>] # << >> /\ up' = up /\ n \in up /\ delivery[n] = Idle
           /\ \A l \in CarrierLinks : net'[l] = IF l = <<e, n>> THEN Tail(net[l]) ELSE net[l]
<1>0. net \in Queues /\ <<e, n>> \in Links
  BY UpdateForm, LinkEnds
<1>1. net' = Taken(<<e, n>>) /\ net[<<e, n>>] # << >> /\ up' = up /\ n \in up /\ delivery[n] = Idle
  BY DEF OnPublishReceived, Arrived
<1> QED
  BY <1>0, <1>1, CarrierEnds DEF Taken, Queues

(* A nuzzle sends what it delivers to its only consumer, and is done. *)
LEMMA DeliverEffect ==
    ASSUME Typed, Settled, AloneInVector, NEW n \in Nuzzles, Deliver(n)
    PROVE  /\ up' = up /\ n \in up /\ delivery[n] # Idle /\ delivery'[n] = Idle
           /\ \A m \in Nuzzles : m # n => delivery'[m] = delivery[m]
           /\ \E c \in Consumers :
                /\ NuzzleConnection[c] = n
                /\ \A d \in Consumers : NuzzleConnection[d] = n => d = c
                /\ \A l \in CarrierLinks : net'[l] =
                     IF l = <<n, c>> /\ c \in up THEN Append(net[l], delivery[n].request)
                     ELSE net[l]
<1> DEFINE loop == delivery[n]
           vector == consumer_subscriptions[n][loop.request.topic_id]
<1>1. /\ loop # Idle /\ up' = up /\ n \in up
      /\ delivery \in [Nuzzles -> LoopOver(Consumers) \cup {Idle}]
      /\ delivery' = [delivery EXCEPT ![n] = AdvanceLoop(loop)]
  BY DEF Deliver, Typed, TypeOK, NuzzleTypeOK
<1>2. /\ loop \in LoopOver(Consumers) /\ loop.range \in Seq(Consumers)
      /\ loop.next \in Nat \ {0} /\ loop.next <= Len(loop.range)
      /\ loop.request.topic_id \in Topics
  BY <1>1 DEF Typed, TypeOK, NuzzleTypeOK, LoopOver, RequestPublish
<1>3. loop.range = vector /\ vector # << >>
  BY <1>1, <1>2 DEF AloneInVector
<1>4. PICK c \in Consumers : NuzzleConnection[c] = n /\ vector = <<c>>
  BY <1>2, <1>3 DEF AloneInVector
<1>5. loop.next = 1 /\ Len(loop.range) = 1 /\ loop.range[1] = c
  BY <1>2, <1>3, <1>4
<1>6. LoopReads(loop, vector) = {c}
  BY <1>3, <1>4, <1>5 DEF LoopReads
<1>7. net' = Posted(net, n, {c}, loop.request)
  BY <1>6 DEF Deliver
<1>8. AdvanceLoop(loop) = Idle
  BY <1>5 DEF AdvanceLoop
<1>9. \A l \in CarrierLinks : l = <<n, c>> <=> l[1] = n /\ l[2] = c
  BY CarrierEnds DEF Links, Connections
<1>10. \A l \in CarrierLinks : net'[l] =
         IF l = <<n, c>> /\ c \in up THEN Append(net[l], loop.request) ELSE net[l]
  BY <1>7, <1>9, CarrierEnds DEF Posted
<1>11. \A d \in Consumers : NuzzleConnection[d] = n => d = c
  <2> SUFFICES ASSUME NEW d \in Consumers, NuzzleConnection[d] = n PROVE d = c
    OBVIOUS
  <2>1. vector = <<d>>
    BY <1>2 DEF Settled
  <2> QED
    BY <1>4, <2>1
<1> QED
  BY <1>1, <1>4, <1>8, <1>10, <1>11

(* What is logged leaves the link to the consumer. *)
LEMMA LogEffect ==
    ASSUME Typed, NEW c \in Consumers, NEW n \in Nuzzles, OnPublishLogged(c, n)
    PROVE  /\ net[<<n, c>>] # << >> /\ up' = up /\ c \in up
           /\ log_buffer' = [log_buffer EXCEPT ![c] = Append(@, Head(net[<<n, c>>]))]
           /\ \A l \in CarrierLinks : net'[l] = IF l = <<n, c>> THEN Tail(net[l]) ELSE net[l]
<1>0. net \in Queues /\ <<n, c>> \in Links
  BY UpdateForm, LinkEnds
<1>1. /\ net' = Taken(<<n, c>>) /\ net[<<n, c>>] # << >> /\ up' = up /\ c \in up
      /\ log_buffer' = [log_buffer EXCEPT ![c] = Append(@, Head(net[<<n, c>>]))]
  BY DEF OnPublishLogged, Arrived
<1> QED
  BY <1>0, <1>1, CarrierEnds DEF Taken, Queues

----------------------------------------------------------------------------
(* Nothing is lost on the way. *)

(* Only engines have ended. *)
Standing == Processes \ Engines \subseteq up

(* A publication is on its way to its pump. *)
OnItsWay(m) ==
    \E b \in Publishers, p \in Pumps : \E i \in DOMAIN net[<<b, p>>] :
      ItemOf(net[<<b, p>>][i]) = m

(* An engine has an entry, or will have it. *)
Has(e, s) ==
    \/ s \in message_buffer[e]
    \/ \E p \in Pumps : \E i \in DOMAIN net[<<p, e>>] : StoredOf(net[<<p, e>>][i]) = s

(* Consumer c has been delivered a publication, or will be. *)
Arriving(c, k) == LET n == NuzzleConnection[c] IN
    \/ delivery[n] # Idle /\ KeyOf(delivery[n].request) = k
    \/ HasKey(net[<<n, c>>], k)
    \/ HasKey(log_buffer[c], k)

Counted(e, n, k) == \E i \in DOMAIN copies[n][k] : copies[n][k][i] = e

(* Nuzzle n has counted the copy of engine e, or will count it. *)
Carried(e, n, k) ==
    \/ Pending(e, n) /\ KeyOf(fan_out[e].request) = k
    \/ HasKey(net[<<e, n>>], k)
    \/ Counted(e, n, k)

(* As long as only engines have ended, a publication waits for its pump or *)
(* every running engine has the same entry for it.                         *)
PublishedEnters ==
    Standing => \A m \in published :
      \/ OnItsWay(m)
      \/ \E s \in Stored : ItemOf(s) = m /\ \A e \in Engines \cap up : Has(e, s)

(* What an engine has stored its nuzzles count, unless they have delivered *)
(* it, while engine, nuzzle and consumer run.                              *)
StoredIsCarried ==
    \A c \in Consumers \cap up, e \in Engines \cap up : LET n == NuzzleConnection[c] IN
      n \in up => \A s \in message_buffer[e] :
        Carried(e, n, KeyOf(s)) \/ Arriving(c, KeyOf(s))

(* What a nuzzle has counted up to the majority it has delivered. *)
MajorityDelivers ==
    \A c \in Consumers \cap up, k \in Keys : LET n == NuzzleConnection[c] IN
      n \in up /\ Len(copies[n][k]) >= Majority => Arriving(c, k)

Lossless == PublishedEnters /\ StoredIsCarried /\ MajorityDelivers

(* What a queue keeps when it is added to or taken from. *)
LEMMA KeysStay ==
    ASSUME NEW S, NEW s \in Seq(S)
    PROVE  /\ \A x \in S : HasKey(Append(s, x), KeyOf(x))
           /\ \A x \in S : \A k : HasKey(s, k) => HasKey(Append(s, x), k)
           /\ s # << >> => \A k : HasKey(s, k) /\ k # KeyOf(Head(s)) => HasKey(Tail(s), k)
<1>1. ASSUME NEW x \in S PROVE HasKey(Append(s, x), KeyOf(x))
  <2>1. Len(s) + 1 \in DOMAIN Append(s, x) /\ Append(s, x)[Len(s) + 1] = x
    OBVIOUS
  <2> QED
    BY <2>1 DEF HasKey
<1>2. ASSUME NEW x \in S, NEW k, HasKey(s, k) PROVE HasKey(Append(s, x), k)
  BY <1>2, AppendKeeps DEF HasKey
<1>3. ASSUME s # << >>, NEW k, HasKey(s, k), k # KeyOf(Head(s)) PROVE HasKey(Tail(s), k)
  <2>1. PICK i \in DOMAIN s : KeyOf(s[i]) = k
    BY <1>3 DEF HasKey
  <2>2. i # 1
    BY <1>3, <2>1
  <2>3. i - 1 \in DOMAIN Tail(s) /\ Tail(s)[i - 1] = s[i]
    BY <1>3, <2>1, <2>2
  <2> QED
    BY <2>1, <2>3 DEF HasKey
<1> QED
  BY <1>1, <1>2, <1>3

(* Steps that neither deliver nor log leave deliveries alone. *)
DeliveriesAlone ==
    /\ \A n \in Nuzzles, c \in Consumers : net'[<<n, c>>] = net[<<n, c>>]
    /\ UNCHANGED <<delivery, log_buffer>>

(* The steps before a nuzzle are such. *)
LEMMA LeaveDeliveriesAlone ==
    ASSUME Typed, Settled, Copying,
           \/ PublisherFrame /\ \E b \in Publishers : Publish(b)
           \/ PumpFrame /\ \E p \in Pumps, b \in Publishers : OnPublishReceive(p, b)
           \/ EngineFrame /\ \E e \in Engines, p \in Pumps : OnPrepareReceive(e, p)
           \/ EngineFrame /\ \E e \in Engines : FanOutPublish(e)
    PROVE  DeliveriesAlone /\ up' = up /\ UNCHANGED copies
<1>1. UNCHANGED <<delivery, log_buffer, copies>>
  BY DEF PublisherFrame, PumpFrame, EngineFrame, nuzzleVars, consumerVars
<1>2. \A n \in Nuzzles, c \in Consumers :
        /\ <<n, c>> \in CarrierLinks
        /\ n \notin Publishers \cup Pumps \cup Engines
  BY CarrierEnds, ProcessesDisjoint
<1>3. ASSUME NEW b \in Publishers, Publish(b)
      PROVE  up' = up /\ \A n \in Nuzzles, c \in Consumers : net'[<<n, c>>] = net[<<n, c>>]
  BY <1>2, <1>3, PublishEffect
<1>4. ASSUME NEW p \in Pumps, NEW b \in Publishers, OnPublishReceive(p, b)
      PROVE  up' = up /\ \A n \in Nuzzles, c \in Consumers : net'[<<n, c>>] = net[<<n, c>>]
  <2>1. \A n \in Nuzzles, c \in Consumers : <<n, c>> # <<b, p>> /\ n # p
    BY <1>2
  <2>2. up' = up /\ \A l \in CarrierLinks : l # <<b, p>> /\ l[1] # p => net'[l] = net[l]
    BY <1>4, NumberEffect
  <2> QED
    BY <1>2, <2>1, <2>2
<1>5. ASSUME NEW e \in Engines, NEW p \in Pumps, OnPrepareReceive(e, p)
      PROVE  up' = up /\ \A n \in Nuzzles, c \in Consumers : net'[<<n, c>>] = net[<<n, c>>]
  BY <1>2, <1>5, StoreEffect, ZenonT(60)
<1>6. ASSUME NEW e \in Engines, FanOutPublish(e)
      PROVE  up' = up /\ \A n \in Nuzzles, c \in Consumers : net'[<<n, c>>] = net[<<n, c>>]
  BY <1>2, <1>6, FanOutEffect
<1> QED
  BY <1>1, <1>3, <1>4, <1>5, <1>6 DEF DeliveriesAlone

(* What is delivered, and its queues. *)
LEMMA ArrivalForm ==
    ASSUME Typed
    PROVE  /\ \A n \in Nuzzles, c \in Consumers :
                /\ <<n, c>> \in CarrierLinks /\ net[<<n, c>>] \in Seq(Messages)
                /\ \A i \in DOMAIN net[<<n, c>>] : net[<<n, c>>][i] \in RequestPublish
           /\ \A c \in Consumers :
                log_buffer[c] \in Seq(RequestPublish) /\ NuzzleConnection[c] \in Nuzzles
           /\ log_buffer \in [Consumers -> Seq(RequestPublish)]
           /\ \A n \in Nuzzles : delivery[n] # Idle => delivery[n].request \in RequestPublish
           /\ RequestPublish \subseteq Messages
<1>1. ASSUME NEW n \in Nuzzles, NEW c \in Consumers
      PROVE  /\ <<n, c>> \in CarrierLinks /\ net[<<n, c>>] \in Seq(Messages)
             /\ \A i \in DOMAIN net[<<n, c>>] : net[<<n, c>>][i] \in RequestPublish
  <2>1. <<n, c>> \in CarrierLinks /\ <<n, c>> \in DeliveryLinks /\ net[<<n, c>>] \in Seq(Messages)
    BY CarrierEnds, MajorityLinks, CopyForm
  <2>2. \A l \in DeliveryLinks : \A i \in DOMAIN net[l] : net[l][i] \in RequestPublish
    BY MajorityLinks, ProcessesDisjoint DEF Typed, SupportedOnly, Supports
  <2> QED
    BY <2>1, <2>2
<1>2. /\ \A c \in Consumers :
           log_buffer[c] \in Seq(RequestPublish) /\ NuzzleConnection[c] \in Nuzzles
      /\ log_buffer \in [Consumers -> Seq(RequestPublish)]
  BY ConsumerAssumption DEF Typed, TypeOK, ConsumerTypeOK
<1>3. ASSUME NEW n \in Nuzzles, delivery[n] # Idle PROVE delivery[n].request \in RequestPublish
  <2>1. delivery[n] \in LoopOver(Consumers)
    BY <1>3 DEF Typed, TypeOK, NuzzleTypeOK
  <2> QED
    BY <2>1 DEF LoopOver
<1> QED
  BY <1>1, <1>2, <1>3 DEF Messages

(* What arrives goes on arriving while nuzzle and consumer run. *)
LEMMA ArrivingStays ==
    ASSUME Typed, Settled, Copying, AloneInVector, SettledStep,
           NEW c \in Consumers, c \in up', NuzzleConnection[c] \in up',
           NEW k, Arriving(c, k)
    PROVE  Arriving(c, k)'
<1> DEFINE n == NuzzleConnection[c]
           link == <<n, c>>
<1>0. /\ n \in Nuzzles /\ link \in CarrierLinks /\ net[link] \in Seq(Messages)
      /\ log_buffer[c] \in Seq(RequestPublish)
  BY ArrivalForm
<1>1. ASSUME DeliveriesAlone PROVE Arriving(c, k)'
  BY <1>0, <1>1 DEF DeliveriesAlone, Arriving
<1>2. ASSUME NuzzleFrame, NEW m \in Nuzzles, NEW e \in Engines, OnPublishReceived(m, e)
      PROVE  Arriving(c, k)'
  <2>1. net'[link] = net[link] /\ delivery[m] = Idle
    <3>1. link # <<e, m>>
      BY ProcessesDisjoint
    <3> QED
      BY <1>0, <1>2, <3>1, CountEffect
  <2>2. delivery[n] # Idle => delivery'[n] = delivery[n]
    BY <1>0, <1>2, <2>1 DEF OnPublishReceived, Typed, TypeOK, NuzzleTypeOK
  <2>3. log_buffer' = log_buffer
    BY <1>2 DEF NuzzleFrame, consumerVars
  <2> QED
    BY <1>0, <2>1, <2>2, <2>3 DEF Arriving
<1>3. ASSUME NuzzleFrame, NEW m \in Nuzzles, Deliver(m) PROVE Arriving(c, k)'
  <2>0. log_buffer' = log_buffer
    BY <1>3 DEF NuzzleFrame, consumerVars
  <2>1. CASE m = n
    <3>1. delivery[n] # Idle /\ up' = up
      BY <1>3, <2>1, DeliverEffect
    <3>2. net'[link] = Append(net[link], delivery[n].request)
      BY <1>0, <1>3, <2>1, DeliverEffect
    <3>3. delivery[n].request \in Messages
      BY <1>0, <3>1, ArrivalForm
    <3>4. /\ HasKey(net'[link], KeyOf(delivery[n].request))
          /\ HasKey(net[link], k) => HasKey(net'[link], k)
      BY <1>0, <3>2, <3>3, KeysStay
    <3> QED
      BY <2>0, <3>4 DEF Arriving
  <2>2. CASE m # n
    <3>1. delivery'[n] = delivery[n]
      BY <1>0, <1>3, <2>2, DeliverEffect
    <3>2. net'[link] = net[link]
      BY <1>0, <1>3, <2>2, DeliverEffect
    <3> QED
      BY <2>0, <3>1, <3>2 DEF Arriving
  <2> QED
    BY <2>1, <2>2
<1>4. ASSUME ConsumerFrame, NEW d \in Consumers, NEW m \in Nuzzles, OnPublishLogged(d, m)
      PROVE  Arriving(c, k)'
  <2>0. delivery' = delivery
    BY <1>4 DEF ConsumerFrame, nuzzleVars
  <2>1. CASE <<m, d>> = link
    <3>1. m = n /\ d = c
      BY <2>1
    <3>2. /\ net[link] # << >> /\ net'[link] = Tail(net[link])
          /\ log_buffer'[c] = Append(log_buffer[c], Head(net[link]))
      BY <1>0, <1>4, <3>1, LogEffect, ArrivalForm
    <3>3. Head(net[link]) \in RequestPublish
      <4>1. 1 \in DOMAIN net[link] /\ Head(net[link]) = net[link][1]
        BY <1>0, <3>2
      <4> QED
        BY <1>0, <4>1, ArrivalForm
    <3>4. /\ HasKey(log_buffer[c], k) => HasKey(log_buffer'[c], k)
          /\ HasKey(log_buffer'[c], KeyOf(Head(net[link])))
      BY <1>0, <3>2, <3>3, KeysStay
    <3>5. HasKey(net[link], k) /\ k # KeyOf(Head(net[link])) => HasKey(net'[link], k)
      BY <1>0, <3>2, KeysStay
    <3> QED
      BY <2>0, <3>4, <3>5 DEF Arriving
  <2>2. CASE <<m, d>> # link
    <3>1. net'[link] = net[link]
      BY <1>0, <1>4, <2>2, LogEffect
    <3>2. HasKey(log_buffer[c], k) => HasKey(log_buffer'[c], k)
      <4>1. CASE d # c
        BY <1>4, <4>1, LogEffect, ArrivalForm
      <4>2. CASE d = c
        <5>1. /\ log_buffer'[c] = Append(log_buffer[c], Head(net[<<m, d>>]))
              /\ net[<<m, d>>] # << >>
          BY <1>4, <4>2, LogEffect, ArrivalForm
        <5>2. Head(net[<<m, d>>]) \in RequestPublish
          <6>1. 1 \in DOMAIN net[<<m, d>>] /\ Head(net[<<m, d>>]) = net[<<m, d>>][1]
            BY <5>1, ArrivalForm
          <6> QED
            BY <6>1, ArrivalForm
        <5> QED
          BY <1>0, <5>1, <5>2, KeysStay
      <4> QED
        BY <4>1, <4>2
    <3> QED
      BY <2>0, <3>1, <3>2 DEF Arriving
  <2> QED
    BY <2>1, <2>2
<1>5. ASSUME Fades PROVE Arriving(c, k)'
  <2>1. net'[link] = net[link]
    BY <1>0, <1>5 DEF Fades
  <2>2. UNCHANGED <<delivery, log_buffer>>
    BY <1>5 DEF Fades, ProcessFrame, nuzzleVars, consumerVars
  <2> QED
    BY <2>1, <2>2 DEF Arriving
<1> QED
  BY <1>1, <1>2, <1>3, <1>4, <1>5, LeaveDeliveriesAlone DEF SettledStep

----------------------------------------------------------------------------
(* Counting to the majority, and delivering at it. *)

(* What a nuzzle does with a copy. *)
LEMMA CountForm ==
    ASSUME Typed, NEW n \in Nuzzles, NEW e \in Engines, OnPublishReceived(n, e)
    PROVE  LET request == Head(net[<<e, n>>])
               key == KeyOf(request)
               received == Append(copies[n][key], e)
           IN  /\ request \in RequestPublish /\ key \in Keys
               /\ net[<<e, n>>] \in Seq(Messages)
               /\ copies[n][key] \in Seq(Engines) /\ received \in Seq(Engines)
               /\ Len(received) = Len(copies[n][key]) + 1
               /\ copies'[n][key] = Forgotten(received)
               /\ \A m \in Nuzzles, k \in Keys :
                    m # n \/ k # key => copies'[m][k] = copies[m][k]
               /\ \A m \in Nuzzles : m # n => delivery'[m] = delivery[m]
               /\ Len(received) = Majority => delivery'[n] =
                    BeginLoop(request, consumer_subscriptions[n][request.topic_id])
               /\ Len(received) # Majority => delivery' = delivery
<1> DEFINE request == Head(net[<<e, n>>])
           key == KeyOf(request)
           received == Append(copies[n][key], e)
<1>1. request \in RequestPublish
  BY CopyArrived DEF OnPublishReceived
<1>2. key \in Keys
  BY <1>1 DEF KeyOf, Keys, RequestPublish
<1>3. copies[n][key] \in Seq(Engines) /\ net[<<e, n>>] \in Seq(Messages)
  BY <1>2, CopyForm, MajorityLinks DEF EngineLinks
<1>4. received \in Seq(Engines) /\ Len(received) = Len(copies[n][key]) + 1
  BY <1>3
<1>5. copies' = [copies EXCEPT ![n][key] = Forgotten(received)]
  BY DEF OnPublishReceived, KeyOf
<1>6. /\ copies'[n][key] = Forgotten(received)
      /\ \A m \in Nuzzles, k \in Keys : m # n \/ k # key => copies'[m][k] = copies[m][k]
  BY <1>2, <1>5, CopyForm
<1>7. delivery' = IF Len(received) = Majority
                  THEN [delivery EXCEPT ![n] =
                          BeginLoop(request, consumer_subscriptions[n][request.topic_id])]
                  ELSE delivery
  BY DEF OnPublishReceived, CompletesMajority, KeyOf
<1>8. delivery \in [Nuzzles -> LoopOver(Consumers) \cup {Idle}]
  BY DEF Typed, TypeOK, NuzzleTypeOK
<1> QED
  BY <1>1, <1>2, <1>3, <1>4, <1>6, <1>7, <1>8

(* A count that has come to the majority delivers, or has delivered. *)
LEMMA CountArrives ==
    ASSUME Typed, Settled, Copying, AloneInVector, MajorityDelivers, NuzzleFrame,
           NEW n \in Nuzzles, NEW e \in Engines, OnPublishReceived(n, e),
           NEW c \in Consumers \cap up, NuzzleConnection[c] = n,
           NEW key, key = KeyOf(Head(net[<<e, n>>])),
           Len(copies[n][key]) + 1 >= Majority
    PROVE  Arriving(c, key)'
<1> DEFINE request == Head(net[<<e, n>>])
           received == Append(copies[n][key], e)
<1>1. /\ request \in RequestPublish /\ key \in Keys /\ copies[n][key] \in Seq(Engines)
      /\ received \in Seq(Engines) /\ Len(received) = Len(copies[n][key]) + 1
      /\ Len(received) = Majority => delivery'[n] =
           BeginLoop(request, consumer_subscriptions[n][request.topic_id])
  BY CountForm
<1>2. n \in up /\ up' = up
  BY CountEffect
<1>3. CASE Len(received) = Majority
  <2>1. request.topic_id \in Topics
    BY <1>1 DEF RequestPublish
  <2>2. consumer_subscriptions[n][request.topic_id] = <<c>>
    BY <2>1 DEF Settled
  <2>3. delivery'[n] = [request |-> request, range |-> <<c>>, next |-> 1]
    BY <1>1, <1>3, <2>2 DEF BeginLoop
  <2>4. delivery'[n] \in LoopOver(Consumers)
    BY <1>1, <2>3 DEF LoopOver
  <2>5. delivery'[n] # Idle
    BY <2>4, IdleAssumption
  <2>6. delivery'[n].request = request
    BY <2>3
  <2> QED
    BY <2>5, <2>6 DEF Arriving
<1>4. CASE Len(received) # Majority
  <2>1. Len(copies[n][key]) >= Majority
    BY <1>1, <1>4, NumbersAssumption DEF Majority
  <2>2. Arriving(c, key)
    BY <1>1, <1>2, <2>1 DEF MajorityDelivers
  <2> QED
    BY <1>2, <2>2, ArrivingStays DEF SettledStep
<1> QED
  BY <1>3, <1>4

(* The steps that count nothing leave the count alone. *)
LEMMA NotCounting ==
    ASSUME Typed, Settled, Copying, SettledStep
    PROVE  \/ UNCHANGED copies
           \/ NuzzleFrame /\ \E n \in Nuzzles, e \in Engines : OnPublishReceived(n, e)
  BY LeaveDeliveriesAlone
  DEF SettledStep, Deliver, ConsumerFrame, nuzzleVars, Fades, ProcessFrame

(* A majority that has been counted is delivered. *)
LEMMA NextMajorityDelivers ==
    ASSUME Typed, Settled, Copying, AloneInVector, MajorityDelivers, SettledStep
    PROVE  MajorityDelivers'
<1> SUFFICES ASSUME NEW c \in Consumers, c \in up', NEW k \in Keys, NEW n,
                    n = NuzzleConnection[c], n \in up', Len(copies'[n][k]) >= Majority
             PROVE  Arriving(c, k)'
  BY DEF MajorityDelivers, Majority
<1>0. c \in up /\ n \in up /\ n \in Nuzzles
  <2>1. up' \subseteq up
    BY LeaveDeliveriesAlone, CountEffect, DeliverEffect, LogEffect DEF SettledStep, Fades
  <2> QED
    BY <2>1, ArrivalForm
<1>1. CASE copies'[n][k] = copies[n][k]
  <2>1. Arriving(c, k)
    BY <1>0, <1>1 DEF MajorityDelivers
  <2> QED
    BY <2>1, ArrivingStays
<1>2. CASE copies'[n][k] # copies[n][k]
  <2>1. NuzzleFrame /\ \E m \in Nuzzles, e \in Engines : OnPublishReceived(m, e)
    BY <1>2, NotCounting
  <2>2. PICK m \in Nuzzles, e \in Engines : OnPublishReceived(m, e)
    BY <2>1
  <2> DEFINE key == KeyOf(Head(net[<<e, m>>]))
             received == Append(copies[m][key], e)
  <2>3. m = n /\ k = key
    BY <1>0, <1>2, <2>2, CountForm
  <2>4. /\ copies'[n][k] = Forgotten(received) /\ Len(received) = Len(copies[n][k]) + 1
        /\ Len(received) \in Nat
    <3>1. /\ copies'[m][key] = Forgotten(received) /\ Len(received) = Len(copies[m][key]) + 1
          /\ received \in Seq(Engines)
      BY <2>2, CountForm
    <3>2. Len(received) \in Nat
      BY <3>1
    <3> HIDE DEF received, key
    <3> QED
      BY <2>3, <3>1, <3>2
  <2>5. Len(received) >= Majority
    <3>1. Forgotten(received) = received \/ Forgotten(received) = << >>
      BY DEF Forgotten
    <3>2. Majority \in Nat /\ Majority > 0
      BY NumbersAssumption DEF Majority
    <3> HIDE DEF received
    <3> QED
      BY <2>4, <3>1, <3>2
  <2>6. OnPublishReceived(n, e) /\ k = KeyOf(Head(net[<<e, n>>]))
    BY <2>2, <2>3
  <2> HIDE DEF received, key
  <2> QED
    BY <1>0, <2>1, <2>4, <2>5, <2>6, CountArrives
<1> QED
  BY <1>1, <1>2

----------------------------------------------------------------------------
(* Copies on their way from engines to nuzzles. *)

(* Steps that have nothing to do with them. *)
CopiesAlone ==
    /\ \A e \in Engines, n \in Nuzzles : net'[<<e, n>>] = net[<<e, n>>]
    /\ UNCHANGED <<message_buffer, fan_out, copies>>

LEMMA LeaveCopiesAlone ==
    ASSUME Typed, Settled, Copying, AloneInVector,
           \/ PublisherFrame /\ \E b \in Publishers : Publish(b)
           \/ PumpFrame /\ \E p \in Pumps, b \in Publishers : OnPublishReceive(p, b)
           \/ NuzzleFrame /\ \E n \in Nuzzles : Deliver(n)
           \/ ConsumerFrame /\ \E c \in Consumers, n \in Nuzzles : OnPublishLogged(c, n)
    PROVE  CopiesAlone /\ up' = up
<1>1. UNCHANGED <<message_buffer, fan_out, copies>>
  BY DEF PublisherFrame, PumpFrame, NuzzleFrame, ConsumerFrame, engineVars, nuzzleVars, Deliver
<1>2. \A e \in Engines, n \in Nuzzles :
        /\ <<e, n>> \in CarrierLinks
        /\ e \notin Publishers \cup Pumps \cup Nuzzles
  BY CarrierEnds, ProcessesDisjoint
<1>3. ASSUME NEW b \in Publishers, Publish(b)
      PROVE  up' = up /\ \A e \in Engines, n \in Nuzzles : net'[<<e, n>>] = net[<<e, n>>]
  BY <1>2, <1>3, PublishEffect
<1>4. ASSUME NEW p \in Pumps, NEW b \in Publishers, OnPublishReceive(p, b)
      PROVE  up' = up /\ \A e \in Engines, n \in Nuzzles : net'[<<e, n>>] = net[<<e, n>>]
  <2>1. \A e \in Engines, n \in Nuzzles : <<e, n>> # <<b, p>> /\ e # p
    BY <1>2
  <2>2. up' = up /\ \A l \in CarrierLinks : l # <<b, p>> /\ l[1] # p => net'[l] = net[l]
    BY <1>4, NumberEffect
  <2> QED
    BY <1>2, <2>1, <2>2
<1>5. ASSUME NEW n \in Nuzzles, Deliver(n)
      PROVE  up' = up /\ \A e \in Engines, m \in Nuzzles : net'[<<e, m>>] = net[<<e, m>>]
  BY <1>2, <1>5, DeliverEffect
<1>6. ASSUME NEW c \in Consumers, NEW n \in Nuzzles, OnPublishLogged(c, n)
      PROVE  up' = up /\ \A e \in Engines, m \in Nuzzles : net'[<<e, m>>] = net[<<e, m>>]
  BY <1>2, <1>6, LogEffect
<1> QED
  BY <1>1, <1>3, <1>4, <1>5, <1>6 DEF CopiesAlone

(* A nuzzle counts the last copy of a publication and forgets it. *)
Forgets(n, k) ==
    /\ NuzzleFrame
    /\ \E d \in Engines : /\ OnPublishReceived(n, d)
                          /\ k = KeyOf(Head(net[<<d, n>>]))
                          /\ Len(copies[n][k]) + 1 = GroupSize

(* What is counted stays counted until then. *)
LEMMA CountedStays ==
    ASSUME Typed, Settled, Copying, SettledStep, NEW e, NEW n \in Nuzzles, NEW k \in Keys,
           Counted(e, n, k)
    PROVE  Counted(e, n, k)' \/ Forgets(n, k)
<1>1. CASE copies'[n][k] = copies[n][k]
  BY <1>1 DEF Counted
<1>2. CASE copies'[n][k] # copies[n][k]
  <2>1. NuzzleFrame /\ \E m \in Nuzzles, d \in Engines : OnPublishReceived(m, d)
    BY <1>2, NotCounting
  <2>2. PICK m \in Nuzzles, d \in Engines : OnPublishReceived(m, d)
    BY <2>1
  <2> DEFINE key == KeyOf(Head(net[<<d, m>>]))
             received == Append(copies[m][key], d)
  <2>3. m = n /\ k = key
    BY <1>2, <2>2, CountForm
  <2>4. /\ copies'[m][key] = Forgotten(received) /\ Len(received) = Len(copies[m][key]) + 1
        /\ copies[m][key] \in Seq(Engines)
    BY <2>2, CountForm
  <2>5. CASE Len(received) = GroupSize
    <3>1. OnPublishReceived(n, d) /\ k = KeyOf(Head(net[<<d, n>>]))
            /\ Len(copies[n][k]) + 1 = GroupSize
      BY <2>2, <2>3, <2>4, <2>5
    <3> QED
      BY <2>1, <3>1 DEF Forgets
  <2>6. CASE Len(received) # GroupSize
    <3>1. copies'[n][k] = received
      BY <2>3, <2>4, <2>6 DEF Forgotten
    <3>2. \A i \in DOMAIN copies[m][key] : i \in DOMAIN received /\ received[i] = copies[m][key][i]
      BY <2>4, AppendKeeps
    <3>3. \A i \in DOMAIN copies[n][k] : i \in DOMAIN received /\ received[i] = copies[n][k][i]
      BY <2>3, <3>2
    <3> HIDE DEF received, key
    <3> QED
      BY <3>1, <3>3 DEF Counted
  <2> QED
    BY <2>5, <2>6
<1> QED
  BY <1>1, <1>2

(* A copy that is taken is counted. *)
LEMMA TakenIsCounted ==
    ASSUME Typed, NuzzleFrame, NEW n \in Nuzzles, NEW e \in Engines, OnPublishReceived(n, e),
           NEW k, k = KeyOf(Head(net[<<e, n>>]))
    PROVE  Counted(e, n, k)' \/ Forgets(n, k)
<1> DEFINE key == KeyOf(Head(net[<<e, n>>]))
           received == Append(copies[n][key], e)
<1>1. /\ copies'[n][key] = Forgotten(received) /\ Len(received) = Len(copies[n][key]) + 1
      /\ copies[n][key] \in Seq(Engines)
  BY CountForm
<1>2. Len(received) \in DOMAIN received /\ received[Len(received)] = e
  BY <1>1
<1>3. CASE Len(received) = GroupSize
  BY <1>1, <1>3 DEF Forgets
<1>4. CASE Len(received) # GroupSize
  <2>1. copies'[n][key] = received
    BY <1>1, <1>4 DEF Forgotten
  <2> HIDE DEF received
  <2> QED
    BY <1>2, <2>1 DEF Counted
<1> QED
  BY <1>3, <1>4

(* A copy on a link stays there until it is counted. *)
LEMMA LinkStays ==
    ASSUME Typed, Settled, Copying, AloneInVector, SettledStep,
           NEW e \in Engines, NEW n \in Nuzzles, Fades => e \in up' /\ n \in up', NEW k,
           HasKey(net[<<e, n>>], k)
    PROVE  HasKey(net'[<<e, n>>], k) \/ Counted(e, n, k)' \/ Forgets(n, k)
<1> DEFINE link == <<e, n>>
<1>0. link \in CarrierLinks /\ net[link] \in Seq(Messages)
  BY CarrierEnds, CopyForm, MajorityLinks DEF EngineLinks
<1>1. CASE net'[link] = net[link]
  BY <1>1
<1>2. ASSUME NEW d \in Engines, NEW p \in Pumps, OnPrepareReceive(d, p)
      PROVE  net'[link] = net[link]
  <2>1. link # <<p, d>>
    BY ProcessesDisjoint
  <2> QED
    BY <1>0, <1>2, <2>1, StoreEffect
<1>3. ASSUME NEW d \in Engines, FanOutPublish(d)
      PROVE  HasKey(net'[link], k)
  <2>1. net'[link] = net[link] \/ net'[link] = Append(net[link], fan_out[d].request)
    BY <1>0, <1>3, FanOutEffect
  <2>2. fan_out[d].request \in Messages
    <3>1. fan_out[d] # Idle
      BY <1>3 DEF FanOutPublish
    <3> QED
      BY <3>1, CopyForm DEF Messages
  <2>3. HasKey(Append(net[link], fan_out[d].request), k)
    BY <1>0, <2>2, KeysStay
  <2> QED
    BY <2>1, <2>3
<1>4. ASSUME NuzzleFrame, NEW m \in Nuzzles, NEW d \in Engines, OnPublishReceived(m, d)
      PROVE  HasKey(net'[link], k) \/ Counted(e, n, k)' \/ Forgets(n, k)
  <2>1. CASE <<d, m>> = link
    <3>1. d = e /\ m = n
      BY <2>1
    <3>2. net[link] # << >> /\ net'[link] = Tail(net[link])
      BY <1>0, <1>4, <3>1, CountEffect
    <3>3. CASE k = KeyOf(Head(net[link]))
      BY <1>4, <3>1, <3>3, TakenIsCounted
    <3>4. CASE k # KeyOf(Head(net[link]))
      BY <1>0, <3>2, <3>4, KeysStay
    <3> QED
      BY <3>3, <3>4
  <2>2. CASE <<d, m>> # link
    BY <1>0, <1>4, <2>2, CountEffect
  <2> QED
    BY <2>1, <2>2
<1>5. ASSUME Fades PROVE net'[link] = net[link]
  BY <1>0, <1>5 DEF Fades
<1> QED
  BY <1>2, <1>3, <1>4, <1>5, LeaveCopiesAlone DEF SettledStep, CopiesAlone

(* A copy that is yet to be sent stays so until it is on its link. *)
LEMMA PendingStays ==
    ASSUME Typed, Settled, Copying, AloneInVector, SettledStep,
           NEW e \in Engines, e \in up', NEW n \in Nuzzles, n \in up', NEW k,
           Pending(e, n), KeyOf(fan_out[e].request) = k
    PROVE  \/ Pending(e, n)' /\ KeyOf(fan_out'[e].request) = k
           \/ HasKey(net'[<<e, n>>], k)
<1> DEFINE loop == fan_out[e]
<1>0. fan_out \in [Engines -> LoopOver(Nuzzles) \cup {Idle}] /\ loop # Idle
  BY CopyForm DEF Pending
<1>1. CASE fan_out'[e] = fan_out[e]
  BY <1>1 DEF Pending
<1>2. ASSUME NEW d \in Engines, NEW p \in Pumps, OnPrepareReceive(d, p)
      PROVE  fan_out'[e] = fan_out[e]
  BY <1>0, <1>2 DEF OnPrepareReceive
<1>3. ASSUME NEW d \in Engines, FanOutPublish(d), d # e
      PROVE  fan_out'[e] = fan_out[e]
  BY <1>0, <1>3 DEF FanOutPublish
<1>4. ASSUME FanOutPublish(e), fan_out'[e] # fan_out[e]
      PROVE  \/ Pending(e, n)' /\ KeyOf(fan_out'[e].request) = k
             \/ HasKey(net'[<<e, n>>], k)
  <2>1. /\ loop \in LoopOver(Nuzzles) /\ loop.range \in Seq(Nuzzles)
        /\ loop.next \in DOMAIN loop.range /\ loop.request \in RequestPublish
    BY <1>0, CopyForm
  <2>2. PICK j \in DOMAIN loop.range : j >= loop.next /\ loop.range[j] = n
    BY DEF Pending
  <2>3. CASE j = loop.next
    <3>1. net'[<<e, n>>] = Append(net[<<e, n>>], loop.request)
      <4>1. up' = up /\ <<e, n>> \in CarrierLinks
        BY <1>4, FanOutEffect, CarrierEnds
      <4> QED
        BY <1>4, <2>2, <2>3, <4>1, FanOutEffect
    <3>2. net[<<e, n>>] \in Seq(Messages) /\ loop.request \in Messages
      BY <2>1, CopyForm, MajorityLinks DEF EngineLinks, Messages
    <3> QED
      BY <3>1, <3>2, KeysStay
  <2>4. CASE j # loop.next
    <3>1. loop.next # Len(loop.range) /\ j >= loop.next + 1
      BY <2>1, <2>2, <2>4
    <3>2. fan_out'[e] = [loop EXCEPT !.next = loop.next + 1]
      BY <1>0, <1>4, <3>1 DEF FanOutPublish, AdvanceLoop
    <3>3. /\ fan_out'[e] \in LoopOver(Nuzzles) /\ fan_out'[e].range = loop.range
          /\ fan_out'[e].next = loop.next + 1 /\ fan_out'[e].request = loop.request
      BY <2>1, <3>2 DEF LoopOver
    <3>4. fan_out'[e] # Idle
      BY <3>3, IdleAssumption
    <3> QED
      BY <2>2, <3>1, <3>3, <3>4 DEF Pending
  <2> QED
    BY <2>3, <2>4
<1>5. ASSUME Fades PROVE fan_out' = fan_out
  BY <1>5 DEF Fades, ProcessFrame, engineVars
<1>6. ASSUME NuzzleFrame PROVE fan_out' = fan_out
  BY <1>6 DEF NuzzleFrame, engineVars
<1> QED
  BY <1>1, <1>2, <1>3, <1>4, <1>5, <1>6, LeaveCopiesAlone DEF SettledStep, CopiesAlone

(* Processes only end. *)
LEMMA FewerRun ==
    ASSUME Typed, Settled, Copying, AloneInVector, SettledStep
    PROVE  up' \subseteq up
  BY LeaveDeliveriesAlone, CountEffect, DeliverEffect, LogEffect DEF SettledStep, Fades

(* What is forgotten has been delivered. *)
LEMMA ForgottenArrives ==
    ASSUME Typed, Settled, Copying, AloneInVector, MajorityDelivers,
           NEW c \in Consumers, c \in up, NEW k \in Keys, Forgets(NuzzleConnection[c], k)
    PROVE  Arriving(c, k)'
<1> DEFINE n == NuzzleConnection[c]
<1>1. n \in Nuzzles
  BY ArrivalForm
<1>2. PICK d \in Engines : /\ OnPublishReceived(n, d) /\ k = KeyOf(Head(net[<<d, n>>]))
                           /\ Len(copies[n][k]) + 1 = GroupSize
  BY DEF Forgets
<1>3. GroupSize >= Majority
  BY NumbersAssumption DEF Majority
<1>4. NuzzleFrame
  BY DEF Forgets
<1>5. Len(copies[n][k]) + 1 >= Majority
  BY <1>2, <1>3
<1> HIDE DEF n
<1> QED
  BY <1>1, <1>2, <1>4, <1>5, CountArrives DEF n

(* What an engine does with an entry. *)
LEMMA StoreForm ==
    ASSUME Typed, NEW e \in Engines, NEW p \in Pumps, OnPrepareReceive(e, p)
    PROVE  LET request == Head(net[<<p, e>>])
           IN  /\ request \in RequestPrepare /\ StoredOf(request) \in Stored
               /\ PublishOf(request) \in RequestPublish
               /\ KeyOf(PublishOf(request)) = KeyOf(StoredOf(request))
               /\ fan_out'[e] = BeginLoop(PublishOf(request), subscriptions[e][request.topic_id])
               /\ StoredOf(request) \in message_buffer'[e]
               /\ message_buffer'[e] \subseteq message_buffer[e] \cup {StoredOf(request)}
               /\ \A d \in Engines : d # e => /\ message_buffer'[d] = message_buffer[d]
                                              /\ fan_out'[d] = fan_out[d]
<1> DEFINE request == Head(net[<<p, e>>])
<1>1. request \in RequestPrepare
  BY PrepareArrived DEF OnPrepareReceive
<1>2. StoredOf(request) \in Stored /\ PublishOf(request) \in RequestPublish
  BY <1>1 DEF StoredOf, Stored, PublishOf, RequestPublish, RequestPrepare
<1>3. KeyOf(PublishOf(request)) = KeyOf(StoredOf(request))
  BY DEF KeyOf, PublishOf, StoredOf
<1>4. /\ message_buffer' = [message_buffer EXCEPT ![e] = Store(@, request)]
      /\ fan_out' = [fan_out EXCEPT ![e] =
           BeginLoop(PublishOf(request), subscriptions[e][request.topic_id])]
  BY DEF OnPrepareReceive
<1>5. /\ message_buffer'[e] = Store(message_buffer[e], request)
      /\ fan_out'[e] = BeginLoop(PublishOf(request), subscriptions[e][request.topic_id])
      /\ \A d \in Engines : d # e => /\ message_buffer'[d] = message_buffer[d]
                                     /\ fan_out'[d] = fan_out[d]
  BY <1>4, CopyForm
<1> QED
  BY <1>1, <1>2, <1>3, <1>5 DEF Store

(* The steps that store nothing. *)
LEMMA NotStoring ==
    ASSUME Typed, Settled, Copying, AloneInVector, SettledStep
    PROVE  \/ UNCHANGED message_buffer
           \/ EngineFrame /\ \E e \in Engines, p \in Pumps : OnPrepareReceive(e, p)
  BY DEF SettledStep, PublisherFrame, PumpFrame, NuzzleFrame, ConsumerFrame, ProcessFrame,
         Fades, engineVars, FanOutPublish

(* A new entry has a copy to be sent to every client's nuzzle. *)
LEMMA StoredIsPending ==
    ASSUME Typed, Settled, NEW e \in Engines, NEW p \in Pumps, OnPrepareReceive(e, p),
           NEW c \in Consumers
    PROVE  LET n == NuzzleConnection[c]
               s == StoredOf(Head(net[<<p, e>>]))
           IN  Pending(e, n)' /\ KeyOf(fan_out'[e].request) = KeyOf(s)
<1> DEFINE n == NuzzleConnection[c]
           request == Head(net[<<p, e>>])
           vector == subscriptions[e][request.topic_id]
<1>1. /\ request \in RequestPrepare /\ PublishOf(request) \in RequestPublish
      /\ KeyOf(PublishOf(request)) = KeyOf(StoredOf(request))
      /\ fan_out'[e] = BeginLoop(PublishOf(request), vector)
  BY StoreForm
<1>2. request.topic_id \in Topics /\ n \in Nuzzles
  BY <1>1, ArrivalForm DEF RequestPrepare
<1>3. Contains(vector, n) /\ vector \in Seq(Nuzzles)
  <2>1. \A t \in Topics : Contains(subscriptions[e][t], n)
    BY <1>2 DEF Settled
  <2>2. \A t \in Topics : subscriptions[e][t] \in Seq(Nuzzles)
    BY CopyForm
  <2> QED
    BY <1>2, <2>1, <2>2
<1>4. PICK j \in DOMAIN vector : vector[j] = n
  BY <1>3 DEF Contains
<1>5. j >= 1 /\ vector # << >>
  BY <1>3, <1>4
<1>6. fan_out'[e] = [request |-> PublishOf(request), range |-> vector, next |-> 1]
  BY <1>1, <1>5 DEF BeginLoop
<1>7. fan_out'[e] \in LoopOver(Nuzzles)
  BY <1>1, <1>3, <1>6 DEF LoopOver
<1>8. fan_out'[e] # Idle
  BY <1>7, IdleAssumption
<1>9. fan_out'[e].range = vector /\ fan_out'[e].next = 1 /\ fan_out'[e].request = PublishOf(request)
  BY <1>6
<1> QED
  BY <1>1, <1>4, <1>5, <1>8, <1>9 DEF Pending

(* What is stored is carried on. *)
LEMMA NextStoredIsCarried ==
    ASSUME Typed, Settled, Copying, AloneInVector, MajorityDelivers, StoredIsCarried,
           SettledStep
    PROVE  StoredIsCarried'
<1> SUFFICES ASSUME NEW c \in Consumers, c \in up', NEW e \in Engines, e \in up',
                    NEW n, n = NuzzleConnection[c], n \in up', NEW s \in message_buffer'[e]
             PROVE  Carried(e, n, KeyOf(s))' \/ Arriving(c, KeyOf(s))'
  BY DEF StoredIsCarried
<1> DEFINE k == KeyOf(s)
<1>0. c \in up /\ e \in up /\ n \in up /\ n \in Nuzzles
  BY FewerRun, ArrivalForm
<1>1. CASE s \in message_buffer[e]
  <2>1. k \in Keys
    <3>1. s \in Stored
      BY <1>1, CopyForm
    <3> QED
      BY <3>1 DEF KeyOf, Keys, Stored
  <2>2. Forgets(n, k) => Arriving(c, k)'
    BY <1>0, <2>1, ForgottenArrives
  <2>3. CASE Arriving(c, k)
    BY <2>3, ArrivingStays
  <2>4. CASE Counted(e, n, k)
    BY <1>0, <2>1, <2>2, <2>4, CountedStays DEF Carried
  <2>5. CASE HasKey(net[<<e, n>>], k)
    BY <1>0, <2>2, <2>5, LinkStays DEF Carried
  <2>6. CASE Pending(e, n) /\ KeyOf(fan_out[e].request) = k
    BY <1>0, <2>6, PendingStays DEF Carried
  <2>7. Carried(e, n, k) \/ Arriving(c, k)
    BY <1>0, <1>1 DEF StoredIsCarried
  <2> QED
    BY <2>3, <2>4, <2>5, <2>6, <2>7 DEF Carried
<1>2. CASE s \notin message_buffer[e]
  <2>1. EngineFrame /\ \E d \in Engines, p \in Pumps : OnPrepareReceive(d, p)
    BY <1>2, NotStoring
  <2>2. PICK d \in Engines, p \in Pumps : OnPrepareReceive(d, p)
    BY <2>1
  <2>3. d = e /\ s = StoredOf(Head(net[<<p, e>>]))
    BY <1>2, <2>2, StoreForm
  <2>4. Pending(e, n)' /\ KeyOf(fan_out'[e].request) = k
    BY <2>2, <2>3, StoredIsPending
  <2> QED
    BY <2>4 DEF Carried
<1> QED
  BY <1>1, <1>2

----------------------------------------------------------------------------
(* From a publisher to every engine that runs. *)

(* The steps that do not carry publications forward leave their links to   *)
(* pumps and engines alone, while both ends run.                           *)
LEMMA LeaveForwardAlone ==
    ASSUME Typed, Settled, Copying, AloneInVector,
           \/ EngineFrame /\ \E e \in Engines : FanOutPublish(e)
           \/ NuzzleFrame /\ \E n \in Nuzzles, e \in Engines : OnPublishReceived(n, e)
           \/ NuzzleFrame /\ \E n \in Nuzzles : Deliver(n)
           \/ ConsumerFrame /\ \E c \in Consumers, n \in Nuzzles : OnPublishLogged(c, n)
           \/ Fades
    PROVE  /\ \A l \in PublishLinks \cup PrepareLinks :
                (Fades => l[1] \in up' /\ l[2] \in up') => net'[l] = net[l]
           /\ UNCHANGED published
<1>0. \A l \in PublishLinks \cup PrepareLinks :
        /\ l \in CarrierLinks /\ l[1] \notin Engines \cup Nuzzles
        /\ l[1] \in Publishers \cup Pumps
  <2>1. PublishLinks \cup PrepareLinks \subseteq CarrierLinks
    BY DEF CarrierLinks, WatchedLinks, EngineLinks
  <2> QED
    BY <2>1, ForwardLinks, ProcessesDisjoint
<1> DEFINE Onward == PublishLinks \cup PrepareLinks
<1>7. \A l \in Onward : \A a \in Engines \cup Nuzzles : \A x : l # <<a, x>>
  BY <1>0
<1>1. ASSUME NEW e \in Engines, FanOutPublish(e)
      PROVE  \A l \in PublishLinks \cup PrepareLinks : net'[l] = net[l]
  BY <1>0, <1>1, FanOutEffect
<1>2. ASSUME NEW n \in Nuzzles, NEW e \in Engines, OnPublishReceived(n, e)
      PROVE  \A l \in PublishLinks \cup PrepareLinks : net'[l] = net[l]
  BY <1>0, <1>2, <1>7, CountEffect, ZenonT(60)
<1>3. ASSUME NEW n \in Nuzzles, Deliver(n)
      PROVE  \A l \in PublishLinks \cup PrepareLinks : net'[l] = net[l]
  BY <1>0, <1>3, DeliverEffect
<1>4. ASSUME NEW c \in Consumers, NEW n \in Nuzzles, OnPublishLogged(c, n)
      PROVE  \A l \in PublishLinks \cup PrepareLinks : net'[l] = net[l]
  BY <1>0, <1>4, <1>7, LogEffect
<1>5. ASSUME Fades
      PROVE  \A l \in PublishLinks \cup PrepareLinks :
               l[1] \in up' /\ l[2] \in up' => net'[l] = net[l]
  BY <1>0, <1>5 DEF Fades
<1>6. UNCHANGED published
  BY DEF EngineFrame, NuzzleFrame, ConsumerFrame, Fades, ProcessFrame, publisherVars
<1> QED
  BY <1>1, <1>2, <1>3, <1>4, <1>5, <1>6

(* An entry that a running engine has or will have stays so. *)
LEMMA HasStays ==
    ASSUME Typed, Settled, Copying, AloneInVector, SettledStep,
           \A e \in Engines : message_buffer[e] \subseteq message_buffer'[e],
           NEW e \in Engines, Fades => e \in up' /\ Pumps \subseteq up', NEW s, Has(e, s)
    PROVE  Has(e, s)'
<1>1. CASE s \in message_buffer[e]
  BY <1>1 DEF Has
<1>2. ASSUME NEW p \in Pumps, NEW i \in DOMAIN net[<<p, e>>], StoredOf(net[<<p, e>>][i]) = s
      PROVE  Has(e, s)'
  <2> DEFINE link == <<p, e>>
  <2>0. /\ link \in CarrierLinks /\ link \in PrepareLinks /\ net[link] \in Seq(Messages)
        /\ (Fades => p \in up' /\ e \in up') /\ p \notin Publishers \cup Engines
    BY CarrierEnds, CopyForm, MajorityLinks, ProcessesDisjoint DEF EngineLinks
  <2>1. ASSUME net'[link] = net[link] PROVE Has(e, s)'
    BY <1>2, <2>1 DEF Has
  <2>2. ASSUME NEW b \in Publishers, Publish(b) PROVE Has(e, s)'
    BY <2>0, <2>1, <2>2, PublishEffect
  <2>3. ASSUME NEW q \in Pumps, NEW b \in Publishers, OnPublishReceive(q, b) PROVE Has(e, s)'
    <3> DEFINE r == Prepare(q, Head(net[<<b, q>>]))
    <3>1. link # <<b, q>>
      BY <2>0
    <3>2. net'[link] = net[link] \/ net'[link] = Append(net[link], r)
      <4>1. \A l \in CarrierLinks : net'[l] =
              IF l = <<b, q>> THEN Tail(net[l])
              ELSE IF l[1] = q /\ l[2] \in Engines \cap up
                   THEN Append(net[l], Prepare(q, Head(net[<<b, q>>]))) ELSE net[l]
        BY <2>3, NumberEffect
      <4> HIDE DEF link
      <4> QED
        BY <2>0, <3>1, <4>1
    <3>3. \A i_1 \in DOMAIN net[link] :
            i_1 \in DOMAIN Append(net[link], r) /\ Append(net[link], r)[i_1] = net[link][i_1]
      BY <2>0
    <3> HIDE DEF r
    <3> QED
      BY <1>2, <2>1, <3>2, <3>3 DEF Has
  <2>4. ASSUME NEW d \in Engines, NEW q \in Pumps, OnPrepareReceive(d, q) PROVE Has(e, s)'
    <3>1. CASE <<q, d>> # link
      BY <2>0, <2>1, <2>4, <3>1, StoreEffect
    <3>2. CASE <<q, d>> = link
      <4>0. q = p /\ d = e
        BY <3>2
      <4>1. net[link] # << >> /\ net'[link] = Tail(net[link])
        BY <2>0, <2>4, <4>0, StoreEffect
      <4>2. CASE i = 1
        <5>1. s = StoredOf(Head(net[link]))
          BY <1>2, <2>0, <4>2
        <5>2. StoredOf(Head(net[link])) \in message_buffer'[e]
          BY <2>4, <4>0, StoreForm
        <5> QED
          BY <5>1, <5>2 DEF Has
      <4>3. CASE i # 1
        <5>1. i - 1 \in DOMAIN Tail(net[link]) /\ Tail(net[link])[i - 1] = net[link][i]
          BY <1>2, <2>0, <4>1, <4>3
        <5> QED
          BY <1>2, <4>1, <5>1 DEF Has
      <4> QED
        BY <4>2, <4>3
    <3> QED
      BY <3>1, <3>2
  <2>5. CASE net'[link] = net[link]
    BY <2>1, <2>5
  <2> QED
    BY <2>0, <2>2, <2>3, <2>4, <2>5, LeaveForwardAlone DEF SettledStep
<1> QED
  BY <1>1, <1>2 DEF Has

(* A publication that has been numbered is on its way to every engine. *)
LEMMA NumberedEnters ==
    ASSUME Typed, Settled, NEW p \in Pumps, NEW b \in Publishers, OnPublishReceive(p, b),
           NEW m, m = ItemOf(Head(net[<<b, p>>]))
    PROVE  \E s \in Stored : ItemOf(s) = m /\ \A e \in Engines \cap up' : Has(e, s)'
<1> DEFINE head == Head(net[<<b, p>>])
<1> PICK request : request = Prepare(p, head)
  OBVIOUS
<1> PICK s : s = StoredOf(request)
  OBVIOUS
<1>0. /\ net[<<b, p>>] # << >> /\ up' = up /\ p \in up
      /\ \A l \in CarrierLinks : net'[l] =
           IF l = <<b, p>> THEN Tail(net[l])
           ELSE IF l[1] = p /\ l[2] \in Engines \cap up THEN Append(net[l], request) ELSE net[l]
  BY NumberEffect
<1>1. head \in RequestPublish
  <2>1. <<b, p>> \in PublishLinks
    BY DEF PublishLinks
  <2>2. net[<<b, p>>] \in Seq(Messages)
    BY <2>1, ForwardLinks
  <2>3. 1 \in DOMAIN net[<<b, p>>] /\ Head(net[<<b, p>>]) = net[<<b, p>>][1]
    BY <1>0, <2>2
  <2> QED
    BY <2>1, <2>3, ForwardLinks
<1>2. request \in RequestPrepare
  BY <1>1 DEF Prepare, RequestPrepare, RequestPublish, Typed, TypeOK, PumpTypeOK
<1>3. s \in Stored
  BY <1>2 DEF StoredOf, Stored, RequestPrepare
<1>4. ItemOf(s) = m
  BY DEF ItemOf, StoredOf, Prepare
<1>5. ASSUME NEW e \in Engines \cap up' PROVE Has(e, s)'
  <2>1. /\ <<p, e>> \in CarrierLinks /\ net[<<p, e>>] \in Seq(Messages) /\ <<p, e>> # <<b, p>>
    <3>1. <<p, e>> \in CarrierLinks /\ net[<<p, e>>] \in Seq(Messages)
      BY CarrierEnds, CopyForm, MajorityLinks DEF EngineLinks
    <3>2. p # b
      BY ProcessesDisjoint
    <3> QED
      BY <3>1, <3>2
  <2>2. net'[<<p, e>>] = Append(net[<<p, e>>], request)
    BY <1>0, <1>5, <2>1
  <2>3. LET i == Len(net[<<p, e>>]) + 1
        IN  /\ i \in DOMAIN Append(net[<<p, e>>], request)
            /\ Append(net[<<p, e>>], request)[i] = request
    BY <2>1
  <2> QED
    BY <2>2, <2>3 DEF Has
<1> QED
  BY <1>3, <1>4, <1>5

(* A publication waits for its pump until it is numbered. *)
LEMMA WaitsOrEnters ==
    ASSUME Typed, Settled, Copying, AloneInVector, SettledStep, Standing',
           NEW m, OnItsWay(m)
    PROVE  \/ OnItsWay(m)'
           \/ \E s \in Stored : ItemOf(s) = m /\ \A e \in Engines \cap up' : Has(e, s)'
<1>1. PICK b \in Publishers, p \in Pumps : \E i \in DOMAIN net[<<b, p>>] :
        ItemOf(net[<<b, p>>][i]) = m
  BY DEF OnItsWay
<1>2. PICK i \in DOMAIN net[<<b, p>>] : ItemOf(net[<<b, p>>][i]) = m
  BY <1>1
<1> DEFINE link == <<b, p>>
<1>0. /\ link \in CarrierLinks /\ link \in PublishLinks /\ net[link] \in Seq(Messages)
      /\ b \in up' /\ p \in up' /\ b \notin Pumps
  BY CarrierEnds, ForwardLinks, ProcessesDisjoint DEF PublishLinks, Standing, Processes
<1>3. ASSUME net'[link] = net[link] PROVE OnItsWay(m)'
  BY <1>2, <1>3 DEF OnItsWay
<1>4. ASSUME NEW d \in Publishers, Publish(d) PROVE OnItsWay(m)'
  <2>1. net'[link] = net[link] \/ net'[link] = Append(net[link], Publication(d))
    <3>1. \A l \in CarrierLinks : net'[l] =
            IF l = <<d, NextPump(d)>> /\ NextPump(d) \in up
            THEN Append(net[l], Publication(d)) ELSE net[l]
      BY <1>4, PublishEffect
    <3> QED
      BY <1>0, <3>1
  <2>2. i \in DOMAIN Append(net[link], Publication(d))
          /\ Append(net[link], Publication(d))[i] = net[link][i]
    BY <1>0, <1>2
  <2> QED
    BY <1>2, <1>3, <2>1, <2>2 DEF OnItsWay
<1>5. ASSUME NEW q \in Pumps, NEW d \in Publishers, OnPublishReceive(q, d)
      PROVE  \/ OnItsWay(m)'
             \/ \E s \in Stored : ItemOf(s) = m /\ \A e \in Engines \cap up' : Has(e, s)'
  <2>1. \A l \in CarrierLinks : net'[l] =
          IF l = <<d, q>> THEN Tail(net[l])
          ELSE IF l[1] = q /\ l[2] \in Engines \cap up
               THEN Append(net[l], Prepare(q, Head(net[<<d, q>>]))) ELSE net[l]
    BY <1>5, NumberEffect
  <2>2. CASE <<d, q>> # link
    <3>1. net'[link] = net[link]
      BY <1>0, <2>1, <2>2
    <3> QED
      BY <1>3, <3>1
  <2>3. CASE <<d, q>> = link
    <3>0. d = b /\ q = p
      BY <2>3
    <3>1. net[link] # << >> /\ net'[link] = Tail(net[link])
      BY <1>0, <1>5, <2>1, <3>0, NumberEffect
    <3>2. CASE i = 1
      <4>1. m = ItemOf(Head(net[link]))
        BY <1>0, <1>2, <3>2
      <4> QED
        BY <1>5, <3>0, <4>1, NumberedEnters
    <3>3. CASE i # 1
      <4>1. i - 1 \in DOMAIN Tail(net[link]) /\ Tail(net[link])[i - 1] = net[link][i]
        BY <1>0, <1>2, <3>1, <3>3
      <4> QED
        BY <1>2, <3>1, <4>1 DEF OnItsWay
    <3> QED
      BY <3>2, <3>3
  <2> QED
    BY <2>2, <2>3
<1>6. ASSUME NEW d \in Engines, NEW q \in Pumps, OnPrepareReceive(d, q) PROVE OnItsWay(m)'
  <2>1. link # <<q, d>>
    BY <1>0
  <2>2. net'[link] = net[link]
    BY <1>0, <1>6, <2>1, StoreEffect
  <2> QED
    BY <1>3, <2>2
<1>7. CASE net'[link] = net[link]
  BY <1>3, <1>7
<1> QED
  BY <1>0, <1>4, <1>5, <1>6, <1>7, LeaveForwardAlone DEF SettledStep

(* What is published is on its way to the pump. *)
LEMMA PublishedIsOnItsWay ==
    ASSUME Typed, Standing, NEW b \in Publishers, Publish(b)
    PROVE  \A m \in published' : m \in published \/ OnItsWay(m)'
<1> PICK p : p = NextPump(b)
  OBVIOUS
<1> PICK r : r = Publication(b)
  OBVIOUS
<1>1. p \in Pumps /\ p \in up
  BY PublishEffect, ProcessesDisjoint DEF Standing, Processes
<1>2. <<b, p>> \in CarrierLinks /\ net[<<b, p>>] \in Seq(Messages)
  BY <1>1, CarrierEnds, ForwardLinks DEF PublishLinks
<1>3. net'[<<b, p>>] = Append(net[<<b, p>>], r)
  BY <1>1, <1>2, PublishEffect
<1>4. LET i == Len(net[<<b, p>>]) + 1
      IN  i \in DOMAIN Append(net[<<b, p>>], r) /\ Append(net[<<b, p>>], r)[i] = r
  BY <1>2
<1>5. published' = published \cup {ItemOf(r)}
  BY DEF Publish, ItemOf, Publication
<1>6. OnItsWay(ItemOf(r))'
  BY <1>1, <1>3, <1>4 DEF OnItsWay, ItemOf
<1> QED
  BY <1>5, <1>6

(* What is published enters the engines. *)
LEMMA NextPublishedEnters ==
    ASSUME Typed, Settled, Copying, AloneInVector, PublishedEnters, SettledStep,
           \A e \in Engines : message_buffer[e] \subseteq message_buffer'[e]
    PROVE  PublishedEnters'
<1> SUFFICES ASSUME Standing', NEW m \in published'
             PROVE  \/ OnItsWay(m)'
                    \/ \E s \in Stored : ItemOf(s) = m /\ \A e \in Engines \cap up' : Has(e, s)'
  BY DEF PublishedEnters, ItemOf
<1>0. up' \subseteq up /\ Standing
  BY FewerRun DEF Standing
<1>1. m \in published \/ OnItsWay(m)'
  <2>1. \/ UNCHANGED published
        \/ \E b \in Publishers : Publish(b)
    BY LeaveForwardAlone DEF SettledStep, PumpFrame, EngineFrame, publisherVars
  <2> QED
    BY <1>0, <2>1, PublishedIsOnItsWay
<1>2. CASE m \in published
  <2>1. CASE OnItsWay(m)
    BY <2>1, WaitsOrEnters
  <2>2. ASSUME NEW s \in Stored, ItemOf(s) = m, \A e \in Engines \cap up : Has(e, s)
        PROVE  \A e \in Engines \cap up' : Has(e, s)'
    <3>1. Pumps \subseteq up'
      BY ProcessesDisjoint DEF Standing, Processes
    <3> QED
      BY <1>0, <2>2, <3>1, HasStays
  <2> QED
    BY <1>0, <1>2, <2>1, <2>2 DEF PublishedEnters
<1> QED
  BY <1>1, <1>2

----------------------------------------------------------------------------
(* How a settled deployment starts. *)

(* The sequence of a singleton. *)
LEMMA SequenceOfOne ==
    ASSUME NEW c
    PROVE  SetToSeq({c}) = <<c>>
<1>1. Cardinality({c}) = 1
  BY FS_Singleton
<1>2. 1..1 = {1}
  OBVIOUS
<1>3. <<c>> \in [1..1 -> {c}] /\ \A a, b \in 1..1 : a = b
  BY <1>2
<1>4. \A f \in [1..1 -> {c}] : f = <<c>> /\ IsInjective(f)
  <2> SUFFICES ASSUME NEW f \in [1..1 -> {c}] PROVE f = <<c>> /\ IsInjective(f)
    OBVIOUS
  <2>1. DOMAIN f = 1..1 /\ f[1] = c
    BY <1>2
  <2>2. f = [i \in 1..1 |-> c]
    BY <1>2, <2>1
  <2>3. <<c>> = [i \in 1..1 |-> c]
    BY <1>2
  <2> QED
    BY <1>3, <2>1, <2>2, <2>3 DEF IsInjective
<1>5. SetToSeq({c}) = CHOOSE f \in [1..1 -> {c}] : IsInjective(f)
  BY <1>1 DEF SetToSeq
<1> QED
  BY <1>3, <1>4, <1>5

(* The sequence of nothing. *)
LEMMA SequenceOfNone == SetToSeq({}) = << >>
<1>1. Cardinality({}) = 0
  BY FS_EmptySet
<1>2. 1..0 = {}
  OBVIOUS
<1>3. \A f \in [1..0 -> {}] : f = << >>
  BY <1>2
<1>4. << >> \in [1..0 -> {}] /\ IsInjective(<< >>)
  BY <1>2 DEF IsInjective
<1>5. SetToSeq({}) = CHOOSE f \in [1..0 -> {}] : IsInjective(f)
  BY <1>1 DEF SetToSeq
<1> QED
  BY <1>3, <1>4, <1>5

(* The sequences that hold every element of a finite set once. *)
LEMMA SequencesOfAll ==
    ASSUME NEW S, IsFiniteSet(S), NEW order \in SetToSeqs(S)
    PROVE  /\ order \in Seq(S)
           /\ \A i, j \in DOMAIN order : order[i] = order[j] => i = j
           /\ \A x : Contains(order, x) <=> x \in S
<1> DEFINE D == 1..Cardinality(S)
<1>1. Cardinality(S) \in Nat
  BY FS_CardinalityType
<1>2. order \in [D -> S] /\ \A i, j \in D : i # j => order[i] # order[j]
  BY DEF SetToSeqs
<1>3. order \in Seq(S) /\ DOMAIN order = D
  BY <1>1, <1>2
<1>4. order \in Injection(D, S)
  BY <1>2 DEF Injection, IsInjective
<1>5. Cardinality(D) = Cardinality(S)
  BY <1>1, FS_Interval
<1>6. order \in Surjection(D, S)
  BY <1>4, <1>5, FS_Injection
<1>7. \A x \in S : \E i \in D : order[i] = x
  BY <1>6 DEF Surjection
<1>8. Len(order) = Cardinality(S)
  BY <1>1, <1>3
<1>9. \A x : Contains(order, x) <=> \E i \in D : order[i] = x
  BY <1>8 DEF Contains
<1> HIDE DEF D
<1> QED
  BY <1>2, <1>3, <1>7, <1>9

(* Every nuzzle has one client or none, ... *)
LEMMA ClientForm ==
    ASSUME SubscribesOnce
    PROVE  /\ \A c \in Consumers : ClientOf(NuzzleConnection[c]) = {c}
           /\ \A n \in Nuzzles : ClientOf(n) # {} =>
                \E c \in Consumers : NuzzleConnection[c] = n
  BY DEF ClientOf, SubscribesOnce

(* ... and its vectors hold it. *)
LEMMA SettledVectors ==
    ASSUME SettledInit, SubscribesOnce, IsFiniteSet(Nuzzles)
    PROVE  /\ subscriptions \in [Engines -> [Topics -> Seq(Nuzzles)]]
           /\ \A e \in Engines, t \in Topics : \A i, j \in DOMAIN subscriptions[e][t] :
                subscriptions[e][t][i] = subscriptions[e][t][j] => i = j
           /\ \A e \in Engines, t \in Topics, n \in Nuzzles :
                Contains(subscriptions[e][t], n) <=> \E c \in Consumers : NuzzleConnection[c] = n
           /\ client_subscriptions \in [Engines -> [Topics -> [Nuzzles -> Seq(SenderIds)]]]
           /\ consumer_subscriptions \in [Nuzzles -> [Topics -> Seq(Consumers)]]
           /\ \A c \in Consumers, t \in Topics :
                consumer_subscriptions[NuzzleConnection[c]][t] = <<c>>
           /\ \A n \in Nuzzles, t \in Topics : consumer_subscriptions[n][t] # << >> =>
                \E c \in Consumers : NuzzleConnection[c] = n
<1> DEFINE S == { n \in Nuzzles : ClientOf(n) # {} }
<1>1. PICK order \in SetToSeqs(S) : subscriptions = [e \in Engines |-> [t \in Topics |-> order]]
  BY DEF SettledInit
<1>2. /\ order \in Seq(S) /\ \A i, j \in DOMAIN order : order[i] = order[j] => i = j
      /\ \A x : Contains(order, x) <=> x \in S
  <2>1. IsFiniteSet(S)
    BY FS_Subset
  <2> HIDE DEF S
  <2> QED
    BY <2>1, SequencesOfAll
<1>3. order \in Seq(Nuzzles)
  BY <1>2
<1>4. \A n \in Nuzzles : n \in S <=> \E c \in Consumers : NuzzleConnection[c] = n
  BY ClientForm
<1>5. client_subscriptions \in [Engines -> [Topics -> [Nuzzles -> Seq(SenderIds)]]]
  <2>1. PICK id \in SenderIds : client_subscriptions =
          [e \in Engines |-> [t \in Topics |->
             [n \in Nuzzles |-> IF ClientOf(n) = {} THEN << >> ELSE <<id>>]]]
    BY DEF SettledInit
  <2> QED
    BY <2>1
<1>6. /\ \A c \in Consumers, t \in Topics :
           consumer_subscriptions[NuzzleConnection[c]][t] = <<c>>
      /\ \A n \in Nuzzles, t \in Topics : ClientOf(n) = {} => consumer_subscriptions[n][t] = << >>
      /\ consumer_subscriptions \in [Nuzzles -> [Topics -> Seq(Consumers)]]
  <2>1. consumer_subscriptions = [n \in Nuzzles |-> [t \in Topics |-> SetToSeq(ClientOf(n))]]
    BY DEF SettledInit
  <2>2. \A n \in Nuzzles, t \in Topics : consumer_subscriptions[n][t] = SetToSeq(ClientOf(n))
    BY <2>1
  <2>3. \A c \in Consumers : SetToSeq(ClientOf(NuzzleConnection[c])) = <<c>>
    BY ClientForm, SequenceOfOne
  <2>4. \A n \in Nuzzles : ClientOf(n) = {} => SetToSeq(ClientOf(n)) = << >>
    BY SequenceOfNone
  <2>5. \A c \in Consumers : NuzzleConnection[c] \in Nuzzles
    BY ConsumerAssumption
  <2>6. \A n \in Nuzzles : SetToSeq(ClientOf(n)) \in Seq(Consumers)
    <3> SUFFICES ASSUME NEW n \in Nuzzles PROVE SetToSeq(ClientOf(n)) \in Seq(Consumers)
      OBVIOUS
    <3>1. CASE ClientOf(n) = {}
      <4>1. SetToSeq(ClientOf(n)) = << >>
        BY <2>4, <3>1
      <4> QED
        BY <4>1
    <3>2. CASE ClientOf(n) # {}
      <4>1. PICK c \in Consumers : NuzzleConnection[c] = n
        BY <3>2, ClientForm
      <4>2. SetToSeq(ClientOf(n)) = <<c>>
        BY <2>3, <4>1
      <4> QED
        BY <4>2
    <3> QED
      BY <3>1, <3>2
  <2>7. consumer_subscriptions \in [Nuzzles -> [Topics -> Seq(Consumers)]]
    BY <2>1, <2>6
  <2> QED
    BY <2>2, <2>3, <2>4, <2>5, <2>7
<1>7. \A n \in Nuzzles, t \in Topics : consumer_subscriptions[n][t] # << >> =>
        \E c \in Consumers : NuzzleConnection[c] = n
  BY <1>6, ClientForm
<1>8. /\ subscriptions \in [Engines -> [Topics -> Seq(Nuzzles)]]
      /\ \A e \in Engines, t \in Topics : subscriptions[e][t] = order
  BY <1>1, <1>3
<1> HIDE DEF S
<1> QED
  BY <1>2, <1>4, <1>5, <1>6, <1>7, <1>8

(* It is well typed, ... *)
LEMMA SettledTyped ==
    ASSUME SettledInit, SubscribesOnce, IsFiniteSet(Nuzzles)
    PROVE  Typed
<1>0. StartedInit /\ requests = [c \in Consumers |-> << >>]
  BY DEF SettledInit
<1>1. TransportTypeOK /\ SupportedOnly
  BY <1>0 DEF StartedInit, TransportTypeOK, SupportedOnly, StreamStates
<1>2. PublisherTypeOK /\ PumpTypeOK
  BY <1>0, PublisherInitTyped DEF StartedInit, PumpTypeOK
<1>3. EngineTypeOK
  BY <1>0, SettledVectors DEF StartedInit, EngineTypeOK
<1>4. NuzzleTypeOK
  BY <1>0, SettledVectors DEF StartedInit, NuzzleTypeOK
<1>5. ConsumerTypeOK
  BY <1>0 DEF StartedInit, ConsumerTypeOK, Scripts
<1> QED
  BY <1>1, <1>2, <1>3, <1>4, <1>5 DEF Typed, TypeOK

(* ... and nothing has been published. *)
LEMMA StartsEmpty ==
    ASSUME SettledInit
    PROVE  /\ \A l \in Links : net[l] = << >>
           /\ \A l \in WatchedLinks \cup PublishLinks \cup AskLinks : net[l] = << >>
           /\ published = {} /\ request_id = [b \in Publishers |-> 0]
           /\ \A e \in Engines : fan_out[e] = Idle /\ message_buffer[e] = {}
           /\ \A n \in Nuzzles : delivery[n] = Idle /\ joining[n] = Idle
           /\ \A n \in Nuzzles, k \in Keys : copies[n][k] = << >>
           /\ \A c \in Consumers : log_buffer[c] = << >> /\ requests[c] = << >>
           /\ up = Processes
<1>0. StartedInit /\ requests = [c \in Consumers |-> << >>]
  BY DEF SettledInit
<1>1. WatchedLinks \cup PublishLinks \cup AskLinks \subseteq Links
  BY CarrierEnds, AskEnds DEF CarrierLinks
<1> QED
  BY <1>0, <1>1 DEF StartedInit, PublisherInit

(* What holds of a settled deployment besides: queues and stores are well  *)
(* formed, entries are numbered apart, copies are counted once and what is *)
(* delivered is stored.                                                    *)
Working ==
    Typed /\ Integrity /\ Replication /\ AskedOnce /\ Copying /\ AloneInVector
      /\ DeliveredIsStored /\ Settled

(* It does at the start, ... *)
LEMMA SettledWorks ==
    ASSUME SettledInit, IdsSuffice, SubscribesOnce, IsFiniteSet(Nuzzles)
    PROVE  Working
<1>1. Typed
  BY SettledTyped
<1>2. Integrity
  BY StartsEmpty DEF Integrity, QueuesFrom, LoopFrom
<1>3. Replication
  <2>1. \A l \in PublishLinks \cup PrepareLinks : net[l] = << >>
    BY StartsEmpty DEF WatchedLinks, EngineLinks
  <2>2. \A s : ~InUse(s)
    BY <2>1, StartsEmpty DEF InUse, Prepared
  <2>3. WaitsOnce
    BY <2>1, StartsEmpty DEF WaitsOnce
  <2> QED
    BY <2>2, <2>3 DEF Replication, IdsAreUsedOnce
<1>4. Settled
  <2>1. \A n \in Nuzzles : nuzzle_engines[n] = Engines
    BY DEF SettledInit, StartedInit
  <2>2. \A p \in Pumps : engine_connections[p] = Engines
    BY DEF SettledInit, StartedInit
  <2> QED
    BY <2>1, <2>2, StartsEmpty, SettledVectors DEF Settled
<1>5. AskedOnce
  <2>1. /\ \A l \in RequestLinks \cup UpdateLinks : net[l] = << >>
        /\ \A c \in Consumers : requests[c] = << >>
        /\ \A c \in Consumers, n \in Nuzzles : net[<<c, n>>] = << >>
        /\ \A n \in Nuzzles, e \in Engines : net[<<n, e>>] = << >>
    BY StartsEmpty, LinkEnds DEF AskLinks
  <2>2. TopicsOnce(<< >>) /\ \A t : ~HasTopic(<< >>, t)
    BY DEF TopicsOnce, HasTopic
  <2>3. \A c \in Consumers : NuzzleConnection[c] \in Nuzzles
    BY ConsumerAssumption
  <2>4. \A c \in Consumers, t \in Topics : ~Asks(c, t) /\ ~HasTopic(net[<<c, NuzzleConnection[c]>>], t)
    BY <2>1, <2>2, <2>3 DEF Asks
  <2>5. \A e \in Engines, t \in Topics : \A i, j \in DOMAIN subscriptions[e][t] :
          subscriptions[e][t][i] = subscriptions[e][t][j] => i = j
    BY SettledVectors
  <2> QED
    BY <2>1, <2>2, <2>4, <2>5 DEF AskedOnce
<1>6. Copying
  <2>1. \A l \in WatchedLinks : net[l] = << >>
    BY StartsEmpty
  <2> QED
    BY <2>1, StartsEmpty, MajorityLinks
    DEF Copying, PreparedOnce, LoopsCurrent, CopiesAreHeld, CopiesAreSentOnce, Pending,
        WatchedLinks, EngineLinks
<1>7. AloneInVector
  <2>1. \A n \in Nuzzles, t \in Topics : consumer_subscriptions[n][t] # << >> =>
          \E c \in Consumers :
            NuzzleConnection[c] = n /\ consumer_subscriptions[n][t] = <<c>>
    BY SettledVectors
  <2>2. \A c \in Consumers : requests[c] = << >> /\ NuzzleConnection[c] \in Nuzzles
          /\ net[<<c, NuzzleConnection[c]>>] = << >>
    BY StartsEmpty, ConsumerAssumption, LinkEnds
  <2>3. \A c \in Consumers, t \in Topics : ~Asks(c, t) /\ ~HasTopic(net[<<c, NuzzleConnection[c]>>], t)
    BY <2>2 DEF Asks, HasTopic
  <2> QED
    BY <2>1, <2>3, StartsEmpty DEF AloneInVector
<1>8. DeliveredIsStored
  <2>1. \A r : ~IsDelivered(r)
    BY StartsEmpty DEF IsDelivered, WatchedLinks
  <2> QED
    BY <2>1, DeliveredElements DEF DeliveredIsStored
<1> QED
  BY <1>1, <1>2, <1>3, <1>4, <1>5, <1>6, <1>7, <1>8 DEF Working

(* ... nothing that has been published having been lost, ... *)
LEMMA NothingLostYet ==
    ASSUME SettledInit
    PROVE  Lossless
<1>1. Majority \in Nat /\ Majority > 0
  BY NumbersAssumption DEF Majority
<1>2. PublishedEnters
  BY StartsEmpty DEF PublishedEnters
<1>3. StoredIsCarried
  BY StartsEmpty DEF StoredIsCarried
<1>4. MajorityDelivers
  <2>1. \A c \in Consumers, k \in Keys : copies[NuzzleConnection[c]][k] = << >>
    BY StartsEmpty, ConsumerAssumption
  <2>2. \A c \in Consumers, k \in Keys : ~(Len(copies[NuzzleConnection[c]][k]) >= Majority)
    BY <1>1, <2>1
  <2> QED
    BY <2>2 DEF MajorityDelivers
<1> QED
  BY <1>2, <1>3, <1>4 DEF Lossless

(* ... and every step keeps it. *)
LEMMA SettledGoesOn ==
    ASSUME OneCounter, IdsSuffice, SubscribesOnce, IsFiniteSet(Engines), Working, [Next]_vars
    PROVE  /\ Working'
           /\ SettledStep
           /\ \A e \in Engines : message_buffer[e] \subseteq message_buffer'[e]
<1>1. Typed /\ Integrity /\ Replication /\ AskedOnce /\ Copying /\ AloneInVector
        /\ DeliveredIsStored /\ Settled
  BY DEF Working
<1>2. RegisteredOnce
  BY <1>1 DEF AskedOnce, RegisteredOnce, TopicsOnce, UpdateLinks
<1>3. \A e \in Engines : message_buffer[e] \subseteq message_buffer'[e]
  BY <1>1, StepReplacesNothing
<1>4. Copying' /\ DeliveredIsStored'
  BY <1>1, <1>2, <1>3, NextCopying, StoredStep
<1>5. Typed' /\ Integrity' /\ Replication' /\ AskedOnce'
  BY <1>1, NextTyped, NextIntegrity, NextReplication, NextAskedOnce
<1>6. AloneInVector' /\ Settled' /\ SettledStep
  BY <1>1, NextVectors, SettledStays, SettledSteps
<1> QED
  BY <1>3, <1>4, <1>5, <1>6 DEF Working

(* Nothing is lost on any step. *)
LEMMA LosslessGoesOn ==
    ASSUME OneCounter, IdsSuffice, SubscribesOnce, IsFiniteSet(Engines), Working, Lossless,
           [Next]_vars
    PROVE  Lossless'
<1>1. SettledStep /\ \A e \in Engines : message_buffer[e] \subseteq message_buffer'[e]
  BY SettledGoesOn
<1>2. Typed /\ Copying /\ AloneInVector /\ Settled
  BY DEF Working
<1> QED
  BY <1>1, <1>2, NextPublishedEnters, NextStoredIsCarried, NextMajorityDelivers DEF Lossless

----------------------------------------------------------------------------
(* Nothing is lost. *)

(* There is nothing in an empty queue. *)
LEMMA NothingQueued == \A q : q = << >> => DOMAIN q = {}
  OBVIOUS

(* A sequence has as many places as its length. *)
LEMMA PlacesUpTo ==
    ASSUME NEW m \in Nat
    PROVE  IsFiniteSet(1..m) /\ Cardinality(1..m) = m
  BY FS_Interval

(* A sequence is as long as the elements of a set that it holds. *)
LEMMA LongEnough ==
    ASSUME NEW S, NEW q \in Seq(S), NEW E, \A e \in E : \E i \in DOMAIN q : q[i] = e
    PROVE  IsFiniteSet(E) /\ Cardinality(E) <= Len(q) /\ Cardinality(E) \in Nat
<1> DEFINE I == 1..Len(q)
           T == { q[i] : i \in I }
           f == [i \in I |-> q[i]]
<1>1. Len(q) \in Nat /\ DOMAIN q = I
  OBVIOUS
<1>2. IsFiniteSet(I) /\ Cardinality(I) = Len(q)
  <2>1. Len(q) \in Nat
    OBVIOUS
  <2> QED
    BY <2>1, PlacesUpTo
<1>3. f \in Surjection(I, T)
  BY DEF Surjection
<1>4. IsFiniteSet(T) /\ Cardinality(T) <= Cardinality(I)
  BY <1>2, <1>3, FS_Surjection
<1>5. E \subseteq T
  BY <1>1
<1> HIDE DEF T, I
<1>6. IsFiniteSet(E) /\ Cardinality(E) <= Cardinality(T)
  BY <1>4, <1>5, FS_Subset
<1>7. Cardinality(E) \in Nat /\ Cardinality(T) \in Nat
  BY <1>4, <1>6, FS_CardinalityType
<1> QED
  BY <1>1, <1>2, <1>4, <1>6, <1>7

(* At rest a publication has come to the engines that run, a majority; a   *)
(* nuzzle that has not delivered it would have counted all their copies.   *)
LEMMA RestLosesNothing ==
    ASSUME IsFiniteSet(Engines), Working, Lossless
    PROVE  NothingLost
<1> SUFFICES ASSUME Quiet, Available, NEW c \in Consumers, NEW m \in published
             PROVE  HasLogged(c, m)
  BY DEF NothingLost
<1> DEFINE n == NuzzleConnection[c]
           E == Engines \cap up
<1>0. /\ Typed /\ Replication /\ DeliveredIsStored
      /\ PublishedEnters /\ StoredIsCarried /\ MajorityDelivers
  BY DEF Working, Lossless
<1>1. Standing /\ c \in up /\ n \in up /\ n \in Nuzzles
  BY <1>0, ArrivalForm, ProcessesDisjoint DEF Available, Standing, Processes
<1>2. /\ \A l \in Links : net[l] = << >>
      /\ \A b \in Publishers, p \in Pumps : <<b, p>> \in Links
      /\ \A p \in Pumps, e \in Engines : <<p, e>> \in Links
      /\ \A e \in Engines : <<e, n>> \in Links
      /\ <<n, c>> \in Links
  BY <1>1, LinkEnds DEF Quiet
<1>14. /\ \A b \in Publishers, p \in Pumps : DOMAIN net[<<b, p>>] = {}
       /\ \A p \in Pumps, e \in Engines : DOMAIN net[<<p, e>>] = {}
  BY <1>2, NothingQueued
<1>3. PICK s \in Stored : ItemOf(s) = m /\ \A e \in E : Has(e, s)
  <2>1. ~OnItsWay(m)
    BY <1>14 DEF OnItsWay
  <2> QED
    BY <1>0, <1>1, <2>1 DEF PublishedEnters
<1>4. \A e \in E : s \in message_buffer[e]
  BY <1>3, <1>14 DEF Has
<1> DEFINE k == KeyOf(s)
<1>5. k \in Keys
  BY DEF KeyOf, Keys, Stored
<1>6. Arriving(c, k)
  <2> SUFFICES ASSUME ~Arriving(c, k) PROVE FALSE
    OBVIOUS
  <2>1. ASSUME NEW e \in E PROVE Counted(e, n, k)
    <3>1. Carried(e, n, k)
      BY <1>0, <1>1, <1>4 DEF StoredIsCarried
    <3>2. fan_out[e] = Idle /\ net[<<e, n>>] = << >>
      BY <1>2 DEF Quiet
    <3> QED
      BY <3>1, <3>2 DEF Carried, Pending, HasKey
  <2>2. copies[n][k] \in Seq(Engines)
    BY <1>0, <1>1, <1>5, CopyForm
  <2>3. Cardinality(E) <= Len(copies[n][k]) /\ Cardinality(E) \in Nat
    <3>1. \A e \in E : \E i \in DOMAIN copies[n][k] : copies[n][k][i] = e
      BY <2>1 DEF Counted
    <3> HIDE DEF E, n, k
    <3> QED
      BY <2>2, <3>1, LongEnough
  <2>4. 2 * Cardinality(E) > GroupSize
    BY DEF Available
  <2>5. Len(copies[n][k]) \in Nat
    BY <2>2
  <2>6. Len(copies[n][k]) >= Majority
    <3> HIDE DEF E, n, k
    <3> QED
      BY <2>3, <2>4, <2>5, NumbersAssumption DEF Majority
  <2> QED
    BY <1>0, <1>1, <1>5, <2>6 DEF MajorityDelivers
<1>7. HasKey(log_buffer[c], k)
  <2>1. delivery[n] = Idle /\ net[<<n, c>>] = << >>
    BY <1>1, <1>2 DEF Quiet
  <2> QED
    BY <1>6, <2>1 DEF Arriving, HasKey
<1>8. PICK i \in DOMAIN log_buffer[c] : KeyOf(log_buffer[c][i]) = k
  BY <1>7 DEF HasKey
<1> DEFINE r == log_buffer[c][i]
<1>9. r \in RequestPublish /\ IsDelivered(r)
  BY <1>0, <1>8, ArrivalForm DEF IsDelivered
<1>10. StoredOf(r) \in Stored /\ InUse(StoredOf(r))
  BY <1>0, <1>9, DeliveredItems
<1>11. InUse(s)
  <2>1. E # {}
    <3>1. 2 * Cardinality(E) > GroupSize
      BY DEF Available
    <3> QED
      BY <3>1, FS_EmptySet, NumbersAssumption
  <2> QED
    BY <1>4, <2>1 DEF InUse
<1>12. StoredOf(r) = s
  <2>1. StoredOf(r).global_id = s.global_id
    BY <1>8 DEF StoredOf, KeyOf
  <2> QED
    BY <1>0, <1>10, <1>11, <2>1 DEF Replication, IdsAreUsedOnce
<1>13. <<r.topic_id, r.message>> = m
  BY <1>3, <1>12 DEF ItemOf, StoredOf
<1> QED
  BY <1>8, <1>13 DEF HasLogged, Range

(* Once everything is at rest every consumer that joined before has been   *)
(* delivered every publication, as long as one pump numbers what is        *)
(* published with ids enough for all of it and nothing has ended but a     *)
(* minority of the engines: what a publisher sends reaches every engine    *)
(* that runs (OnPublishReceive), each sends it to every nuzzle with a      *)
(* client (OnPrepareReceive, FanOutPublish), and a nuzzle that has counted *)
(* a majority has begun to deliver (OnPublishReceived), whatever is lost   *)
(* on the links of the engines that end and whenever they do.              *)
THEOREM NothingIsEverLost ==
    ASSUME OneCounter, IdsSuffice, SubscribesOnce, IsFiniteSet(Engines), IsFiniteSet(Nuzzles)
    PROVE  SettledSpec => []NothingLost
<1>1. SettledInit => Working /\ Lossless
  BY SettledWorks, NothingLostYet
<1>2. Working /\ [Next]_vars => Working'
  BY SettledGoesOn
<1>3. Working /\ Lossless /\ [Next]_vars => Lossless'
  BY LosslessGoesOn
<1>4. Working /\ Lossless => NothingLost
  BY RestLosesNothing
<1> QED
  BY <1>1, <1>2, <1>3, <1>4, PTL DEF SettledSpec

----------------------------------------------------------------------------
(* Nothing is retained. *)

(* There are as many engines as the group has members. *)
FullGroup == IsFiniteSet(Engines) /\ Cardinality(Engines) = GroupSize

(* Nothing comes to a nuzzle that has no client. *)
FeedsClients ==
    \A n \in Nuzzles : (\A c \in Consumers : NuzzleConnection[c] # n) =>
      /\ \A e \in Engines : net[<<e, n>>] = << >> /\ ~Pending(e, n)
      /\ \A k \in Keys : copies[n][k] = << >>

(* A count that comes to the size of the group is forgotten. *)
CountsAreBounded == \A n \in Nuzzles, k \in Keys : Len(copies[n][k]) < GroupSize

(* As long as its pump runs, every engine that does has an entry, or none. *)
EntriesAreEverywhere ==
    Pumps \subseteq up =>
      \A e \in Engines \cap up, s \in Stored : InUse(s) => Has(e, s)

(* As long as nothing has ended, a nuzzle waits for the copy of every      *)
(* engine that has an entry, or it has them all and has forgotten it.      *)
AllOrNone ==
    up = Processes => \A c \in Consumers, k \in Keys : LET n == NuzzleConnection[c] IN
      \/ \A e \in Engines : \A s \in message_buffer[e] : KeyOf(s) = k => Carried(e, n, k)
      \/ \A e \in Engines : Done(e, n, k) /\ ~Counted(e, n, k)

Forgetful == FeedsClients /\ CountsAreBounded /\ EntriesAreEverywhere /\ AllOrNone

(* A count goes up by one, or back to nothing at the size of the group. *)
LEMMA NextCountsAreBounded ==
    ASSUME Typed, Settled, Copying, CountsAreBounded, SettledStep
    PROVE  CountsAreBounded'
<1> SUFFICES ASSUME NEW n \in Nuzzles, NEW k \in Keys PROVE Len(copies'[n][k]) < GroupSize
  BY DEF CountsAreBounded
<1>1. CASE copies'[n][k] = copies[n][k]
  BY <1>1 DEF CountsAreBounded
<1>2. CASE copies'[n][k] # copies[n][k]
  <2>1. NuzzleFrame /\ \E m \in Nuzzles, d \in Engines : OnPublishReceived(m, d)
    BY <1>2, NotCounting
  <2>2. PICK m \in Nuzzles, d \in Engines : OnPublishReceived(m, d)
    BY <2>1
  <2> DEFINE key == KeyOf(Head(net[<<d, m>>]))
             received == Append(copies[m][key], d)
  <2>3. m = n /\ k = key
    BY <1>2, <2>2, CountForm
  <2>4. /\ copies'[m][key] = Forgotten(received) /\ Len(received) = Len(copies[m][key]) + 1
        /\ copies[m][key] \in Seq(Engines)
    BY <2>2, CountForm
  <2>5. Len(copies[m][key]) \in Nat /\ Len(copies[m][key]) < GroupSize
    BY <2>3, <2>4 DEF CountsAreBounded
  <2>6. copies'[n][k] = Forgotten(received)
    BY <2>3, <2>4
  <2> HIDE DEF received, key
  <2>7. CASE Len(received) = GroupSize
    BY <2>6, <2>7, NumbersAssumption DEF Forgotten
  <2>8. CASE Len(received) # GroupSize
    <3>1. copies'[n][k] = received
      BY <2>6, <2>8 DEF Forgotten
    <3> QED
      BY <2>4, <2>5, <2>8, <3>1, NumbersAssumption
  <2> QED
    BY <2>7, <2>8
<1> QED
  BY <1>1, <1>2

(* A loop that begins or goes on is over nuzzles with clients. *)
LEMMA FeedsStep ==
    ASSUME Typed, Settled, Copying, AloneInVector, FeedsClients, SettledStep,
           NEW n \in Nuzzles, \A c \in Consumers : NuzzleConnection[c] # n,
           NEW e \in Engines
    PROVE  net'[<<e, n>>] = << >> /\ ~Pending(e, n)'
<1> DEFINE link == <<e, n>>
<1>0. /\ link \in CarrierLinks /\ net[link] = << >> /\ ~Pending(e, n)
      /\ fan_out \in [Engines -> LoopOver(Nuzzles) \cup {Idle}]
  BY CarrierEnds, CopyForm DEF FeedsClients
<1>1. ASSUME NEW d \in Engines, NEW p \in Pumps, OnPrepareReceive(d, p)
      PROVE  net'[link] = << >> /\ ~Pending(e, n)'
  <2>1. link # <<p, d>>
    BY ProcessesDisjoint
  <2>2. net'[link] = << >>
    BY <1>0, <1>1, <2>1, StoreEffect
  <2>3. CASE d # e
    <3>1. fan_out'[e] = fan_out[e]
      BY <1>1, <2>3, StoreForm
    <3> QED
      BY <1>0, <2>2, <3>1 DEF Pending
  <2>4. CASE d = e
    <3> DEFINE request == Head(net[<<p, e>>])
               vector == subscriptions[e][request.topic_id]
    <3>1. /\ request \in RequestPrepare
          /\ fan_out'[e] = BeginLoop(PublishOf(request), vector)
      BY <1>1, <2>4, StoreForm
    <3>2. request.topic_id \in Topics
      BY <3>1 DEF RequestPrepare
    <3>3. ~Contains(vector, n) /\ vector \in Seq(Nuzzles)
      <4>1. \A t \in Topics : ~Contains(subscriptions[e][t], n)
        BY DEF Settled
      <4>2. \A t \in Topics : subscriptions[e][t] \in Seq(Nuzzles)
        BY CopyForm
      <4> QED
        BY <3>2, <4>1, <4>2
    <3>4. \A j \in DOMAIN vector : vector[j] # n
      BY <3>3 DEF Contains
    <3>5. fan_out'[e] # Idle => fan_out'[e].range = vector
      BY <3>1 DEF BeginLoop
    <3> HIDE DEF vector, request
    <3> QED
      BY <2>2, <3>4, <3>5 DEF Pending
  <2> QED
    BY <2>3, <2>4
<1>2. ASSUME NEW d \in Engines, FanOutPublish(d)
      PROVE  net'[link] = << >> /\ ~Pending(e, n)'
  <2>1. CASE d # e
    <3>1. fan_out'[e] = fan_out[e]
      BY <1>0, <1>2, <2>1 DEF FanOutPublish
    <3>2. net'[link] = net[link]
      BY <1>0, <1>2, <2>1, FanOutEffect
    <3> QED
      BY <1>0, <3>1, <3>2 DEF Pending
  <2>2. CASE d = e
    <3> DEFINE loop == fan_out[e]
    <3>1. /\ loop # Idle /\ loop \in LoopOver(Nuzzles) /\ loop.range \in Seq(Nuzzles)
          /\ loop.next \in DOMAIN loop.range
      BY <1>2, <2>2, CopyForm DEF FanOutPublish
    <3>2. loop.range[loop.next] # n
      BY <1>0, <3>1 DEF Pending
    <3>3. net'[link] = net[link]
      BY <1>0, <1>2, <2>2, <3>2, FanOutEffect
    <3>4. fan_out'[e] = AdvanceLoop(loop)
      BY <1>0, <1>2, <2>2 DEF FanOutPublish
    <3>5. ASSUME fan_out'[e] # Idle
          PROVE  fan_out'[e].range = loop.range /\ fan_out'[e].next = loop.next + 1
      <4>1. fan_out'[e] = [loop EXCEPT !.next = loop.next + 1]
        BY <3>4, <3>5 DEF AdvanceLoop
      <4> QED
        BY <3>1, <4>1 DEF LoopOver
    <3>6. \A j \in DOMAIN loop.range : j >= loop.next + 1 => j >= loop.next
      BY <3>1
    <3>7. ~Pending(e, n)'
      BY <1>0, <3>1, <3>5, <3>6 DEF Pending
    <3> QED
      BY <1>0, <3>3, <3>7
  <2> QED
    BY <2>1, <2>2
<1>3. ASSUME NuzzleFrame, NEW m \in Nuzzles, NEW d \in Engines, OnPublishReceived(m, d)
      PROVE  net'[link] = << >> /\ ~Pending(e, n)'
  <2>1. link # <<d, m>>
    BY <1>0, <1>3, CountEffect
  <2>2. net'[link] = << >>
    BY <1>0, <1>3, <2>1, CountEffect
  <2>3. fan_out' = fan_out
    BY <1>3 DEF NuzzleFrame, engineVars
  <2> QED
    BY <1>0, <2>2, <2>3 DEF Pending
<1>4. ASSUME Fades PROVE net'[link] = << >> /\ ~Pending(e, n)'
  <2>1. net'[link] = << >> /\ fan_out' = fan_out
    BY <1>0, <1>4 DEF Fades, ProcessFrame, engineVars
  <2> QED
    BY <1>0, <2>1 DEF Pending
<1>5. ASSUME CopiesAlone PROVE net'[link] = << >> /\ ~Pending(e, n)'
  <2>1. net'[link] = << >> /\ fan_out' = fan_out
    BY <1>0, <1>5 DEF CopiesAlone
  <2> QED
    BY <1>0, <2>1 DEF Pending
<1> QED
  BY <1>1, <1>2, <1>3, <1>4, <1>5, LeaveCopiesAlone DEF SettledStep

(* Nothing goes on coming to a nuzzle without a client. *)
LEMMA NextFeedsClients ==
    ASSUME Typed, Settled, Copying, AloneInVector, FeedsClients, SettledStep
    PROVE  FeedsClients'
<1> SUFFICES ASSUME NEW n \in Nuzzles, \A c \in Consumers : NuzzleConnection[c] # n
             PROVE  /\ \A e \in Engines : net'[<<e, n>>] = << >> /\ ~Pending(e, n)'
                    /\ \A k \in Keys : copies'[n][k] = << >>
  BY DEF FeedsClients
<1>1. \A e \in Engines : net'[<<e, n>>] = << >> /\ ~Pending(e, n)'
  BY FeedsStep
<1>2. ASSUME NEW k \in Keys PROVE copies'[n][k] = << >>
  <2>1. copies[n][k] = << >> /\ \A e \in Engines : net[<<e, n>>] = << >>
    BY DEF FeedsClients
  <2>2. ASSUME NEW m \in Nuzzles, NEW d \in Engines, OnPublishReceived(m, d)
        PROVE  copies'[n][k] = copies[n][k]
    <3>1. m # n
      BY <2>1, <2>2, CountEffect
    <3> QED
      BY <2>2, <3>1, CountForm
  <2> QED
    BY <2>1, <2>2, NotCounting
<1> QED
  BY <1>1, <1>2

(* An entry is new when its publication is numbered. *)
LEMMA NewEntries ==
    ASSUME Typed, Settled, [Next]_vars, NEW s \in Stored, InUse(s)', ~InUse(s)
    PROVE  PumpFrame /\ \E p \in Pumps, b \in Publishers :
             OnPublishReceive(p, b) /\ s = StoredOf(Prepare(p, Head(net[<<b, p>>])))
<1>1. ASSUME NothingNew PROVE FALSE
  BY <1>1 DEF NothingNew
<1>2. ~EngineStep /\ ~NuzzleStep /\ ~ConsumerStep /\ ~TransportStep
  BY <1>1, EngineNothingNew, NuzzleNothingNew, ConsumerNothingNew, TransportNothingNew
<1>3. ~(UNCHANGED vars)
  BY DEF vars, transportVars, engineVars, InUse, Prepared
<1>4. ~PublisherStep
  <2> SUFFICES ASSUME PublisherStep PROVE FALSE
    OBVIOUS
  <2>1. PICK b \in Publishers : Publish(b)
    BY DEF PublisherStep
  <2>2. UNCHANGED message_buffer
    BY DEF PublisherStep, PublisherFrame, engineVars
  <2>3. \A l \in PrepareLinks : l \in CarrierLinks /\ l[1] \notin Publishers
    BY ForwardLinks, ProcessesDisjoint DEF CarrierLinks, WatchedLinks, EngineLinks
  <2>4. \A l \in PrepareLinks : net'[l] = net[l]
    BY <2>1, <2>3, PublishEffect
  <2> QED
    BY <2>2, <2>4 DEF InUse, Prepared
<1>5. PumpStep /\ \E p \in Pumps, b \in Publishers : OnPublishReceive(p, b)
  BY <1>1, <1>2, <1>3, <1>4, PumpNothingNew DEF Next
<1>6. PICK p \in Pumps, b \in Publishers : OnPublishReceive(p, b)
  BY <1>5
<1>7. UNCHANGED message_buffer
  BY <1>5 DEF PumpStep, PumpFrame, engineVars
<1> PICK r : r = Prepare(p, Head(net[<<b, p>>]))
  OBVIOUS
<1>8. PICK l \in PrepareLinks : \E i \in DOMAIN net'[l] : StoredOf(net'[l][i]) = s
  BY <1>7 DEF InUse, Prepared
<1>9. PICK i \in DOMAIN net'[l] : StoredOf(net'[l][i]) = s
  BY <1>8
<1>10. \A j \in DOMAIN net[l] : StoredOf(net[l][j]) # s
  BY DEF InUse, Prepared
<1>11. net'[l] = net[l] \/ net'[l] = Append(net[l], r)
  <2>1. l \in CarrierLinks /\ l # <<b, p>>
    BY <1>8, ForwardLinks, ProcessesDisjoint DEF CarrierLinks, WatchedLinks, EngineLinks
  <2>2. \A k \in CarrierLinks : net'[k] =
          IF k = <<b, p>> THEN Tail(net[k])
          ELSE IF k[1] = p /\ k[2] \in Engines \cap up THEN Append(net[k], r) ELSE net[k]
    BY <1>6, NumberEffect
  <2> QED
    BY <2>1, <2>2
<1>12. net[l] \in Seq(Messages)
  BY <1>8, ForwardLinks
<1>13. net'[l][i] = r
  <2>1. net'[l] = Append(net[l], r)
    BY <1>9, <1>10, <1>11
  <2>2. i \in DOMAIN Append(net[l], r) /\ StoredOf(Append(net[l], r)[i]) = s
    BY <1>9, <2>1
  <2>3. \/ i \in DOMAIN net[l] /\ Append(net[l], r)[i] = net[l][i]
        \/ Append(net[l], r)[i] = r
    BY <1>12, <2>2
  <2> QED
    BY <1>10, <2>1, <2>2, <2>3
<1> QED
  BY <1>5, <1>6, <1>9, <1>13 DEF PumpStep

(* A numbered publication goes to every engine that runs. *)
LEMMA NextEntriesAreEverywhere ==
    ASSUME OneCounter, Typed, Settled, Copying, AloneInVector, EntriesAreEverywhere,
           [Next]_vars, \A e \in Engines : message_buffer[e] \subseteq message_buffer'[e]
    PROVE  EntriesAreEverywhere'
<1>0. SettledStep
  BY SettledSteps
<1> SUFFICES ASSUME Pumps \subseteq up', NEW e \in Engines, e \in up',
                    NEW s \in Stored, InUse(s)'
             PROVE  Has(e, s)'
  BY DEF EntriesAreEverywhere
<1>1. up' \subseteq up
  BY <1>0, FewerRun
<1>2. CASE InUse(s)
  <2>1. Has(e, s)
    BY <1>1, <1>2 DEF EntriesAreEverywhere
  <2> QED
    BY <1>0, <2>1, HasStays
<1>3. CASE ~InUse(s)
  <2>1. PICK p \in Pumps, b \in Publishers :
          OnPublishReceive(p, b) /\ s = StoredOf(Prepare(p, Head(net[<<b, p>>])))
    BY <1>3, NewEntries
  <2>2. PICK r : r = Prepare(p, Head(net[<<b, p>>]))
    OBVIOUS
  <2>3. /\ <<p, e>> \in CarrierLinks /\ net[<<p, e>>] \in Seq(Messages) /\ <<p, e>> # <<b, p>>
    <3>1. <<p, e>> \in CarrierLinks /\ net[<<p, e>>] \in Seq(Messages)
      BY CarrierEnds, CopyForm, MajorityLinks DEF EngineLinks
    <3>2. p # b
      BY ProcessesDisjoint
    <3> QED
      BY <3>1, <3>2
  <2>4. net'[<<p, e>>] = Append(net[<<p, e>>], r)
    <3>1. \A l \in CarrierLinks : net'[l] =
            IF l = <<b, p>> THEN Tail(net[l])
            ELSE IF l[1] = p /\ l[2] \in Engines \cap up THEN Append(net[l], r) ELSE net[l]
      BY <2>1, <2>2, NumberEffect
    <3> QED
      BY <1>1, <2>3, <3>1
  <2>5. LET i == Len(net[<<p, e>>]) + 1
        IN  i \in DOMAIN Append(net[<<p, e>>], r) /\ Append(net[<<p, e>>], r)[i] = r
    BY <2>3
  <2> QED
    BY <2>1, <2>2, <2>4, <2>5 DEF Has
<1> QED
  BY <1>2, <1>3

(* A count that is forgotten was of the copies of all engines. *)
LEMMA ForgottenIsDone ==
    ASSUME Typed, Copying, FullGroup, NEW n \in Nuzzles, NEW k \in Keys, Forgets(n, k)
    PROVE  \A e \in Engines : Done(e, n, k)' /\ ~Counted(e, n, k)'
<1>1. PICK d \in Engines : /\ OnPublishReceived(n, d) /\ k = KeyOf(Head(net[<<d, n>>]))
                           /\ Len(copies[n][k]) + 1 = GroupSize
  BY DEF Forgets
<1>2. NuzzleFrame
  BY DEF Forgets
<1>3. copies[n][k] \in Seq(Engines)
  BY CopyForm
<1>4. Len(Append(copies[n][k], d)) = GroupSize
  BY <1>1, <1>3
<1>5. OneGroup
  BY NumbersAssumption DEF OneGroup, FullGroup
<1>6. \A e \in Engines : Done(e, n, k)'
  BY <1>1, <1>2, <1>4, <1>5, CountPasses
<1>7. copies'[n][k] = << >>
  <2>1. copies'[n][k] = Forgotten(Append(copies[n][k], d))
    BY <1>1, CountForm
  <2> QED
    BY <1>4, <2>1 DEF Forgotten
<1> QED
  BY <1>6, <1>7 DEF Counted

(* A nuzzle counts none of a publication's copies when all have been. *)
LEMMA NoneIsCounted ==
    ASSUME Typed, Settled, Copying, SettledStep, NEW n \in Nuzzles, NEW k \in Keys,
           \A e \in Engines : Done(e, n, k)
    PROVE  copies'[n][k] = copies[n][k]
<1> SUFFICES ASSUME copies'[n][k] # copies[n][k] PROVE FALSE
  OBVIOUS
<1>1. NuzzleFrame /\ \E m \in Nuzzles, d \in Engines : OnPublishReceived(m, d)
  BY NotCounting
<1>2. PICK m \in Nuzzles, d \in Engines : OnPublishReceived(m, d)
  BY <1>1
<1>3. m = n /\ k = KeyOf(Head(net[<<d, m>>]))
  BY <1>2, CountForm
<1>4. ~Done(d, n, k)
  BY <1>1, <1>2, <1>3, TakenIsDone
<1> QED
  BY <1>4

(* Before the last copy each engine's is on its way or counted, after it   *)
(* none is.                                                                *)
LEMMA NextAllOrNone ==
    ASSUME OneCounter, IdsSuffice, FullGroup, Working, AllOrNone, [Next]_vars, SettledStep
    PROVE  AllOrNone'
<1>0. /\ Typed /\ Integrity /\ Replication /\ Copying /\ AloneInVector /\ Settled
      /\ RegisteredOnce
  BY DEF Working, AskedOnce, RegisteredOnce, TopicsOnce, UpdateLinks
<1> SUFFICES ASSUME up' = Processes, NEW c \in Consumers, NEW k \in Keys,
                    NEW n, n = NuzzleConnection[c]
             PROVE  \/ \A e \in Engines : \A s \in message_buffer'[e] :
                         KeyOf(s) = k => Carried(e, n, k)'
                    \/ \A e \in Engines : Done(e, n, k)' /\ ~Counted(e, n, k)'
  BY DEF AllOrNone, KeyOf
<1>1. n \in Nuzzles /\ n \in up' /\ Engines \subseteq up'
  BY <1>0, ArrivalForm DEF Processes
<1>2. up = Processes
  <2>1. up \subseteq Processes
    BY <1>0 DEF Typed, TypeOK, TransportTypeOK
  <2> QED
    BY <1>0, <2>1, FewerRun
<1>3. CASE Forgets(n, k)
  BY <1>0, <1>1, <1>3, ForgottenIsDone
<1>4. CASE \A e \in Engines : Done(e, n, k) /\ ~Counted(e, n, k)
  <2>1. copies'[n][k] = copies[n][k]
    BY <1>0, <1>1, <1>4, NoneIsCounted
  <2>2. \A e \in Engines : Done(e, n, k)'
    BY <1>0, <1>1, <1>4, NextDone
  <2> QED
    BY <1>4, <2>1, <2>2 DEF Counted
<1>5. CASE /\ ~Forgets(n, k)
           /\ \A e \in Engines : \A s \in message_buffer[e] : KeyOf(s) = k => Carried(e, n, k)
  <2> SUFFICES ASSUME NEW e \in Engines, NEW s \in message_buffer'[e], KeyOf(s) = k
               PROVE  Carried(e, n, k)'
    OBVIOUS
  <2>1. CASE s \in message_buffer[e]
    <3>1. Carried(e, n, k)
      BY <1>5, <2>1
    <3>2. CASE Counted(e, n, k)
      BY <1>0, <1>1, <1>5, <3>2, CountedStays DEF Carried
    <3>3. CASE HasKey(net[<<e, n>>], k)
      BY <1>0, <1>1, <1>5, <3>3, LinkStays DEF Carried
    <3>4. CASE Pending(e, n) /\ KeyOf(fan_out[e].request) = k
      BY <1>0, <1>1, <3>4, PendingStays DEF Carried
    <3> QED
      BY <3>1, <3>2, <3>3, <3>4 DEF Carried
  <2>2. CASE s \notin message_buffer[e]
    <3>1. EngineFrame /\ \E d \in Engines, p \in Pumps : OnPrepareReceive(d, p)
      BY <1>0, <2>2, NotStoring
    <3>2. PICK d \in Engines, p \in Pumps : OnPrepareReceive(d, p)
      BY <3>1
    <3>3. d = e /\ s = StoredOf(Head(net[<<p, e>>]))
      BY <1>0, <2>2, <3>2, StoreForm
    <3>4. Pending(e, n)' /\ KeyOf(fan_out'[e].request) = k
      BY <1>0, <3>2, <3>3, StoredIsPending
    <3> QED
      BY <3>4 DEF Carried
  <2> QED
    BY <2>1, <2>2
<1> QED
  BY <1>2, <1>3, <1>4, <1>5 DEF AllOrNone

(* Nothing has been counted at the start, ... *)
LEMMA NothingRetainedYet ==
    ASSUME SettledInit, Working
    PROVE  Forgetful
<1>0. /\ \A l \in Links : net[l] = << >>
      /\ \A e \in Engines : fan_out[e] = Idle /\ message_buffer[e] = {}
      /\ \A n \in Nuzzles, k \in Keys : copies[n][k] = << >>
  BY StartsEmpty
<1>1. FeedsClients
  <2>1. \A e \in Engines, n \in Nuzzles : <<e, n>> \in Links
    BY LinkEnds
  <2> QED
    BY <1>0, <2>1 DEF FeedsClients, Pending
<1>2. CountsAreBounded
  <2>1. Len(<< >>) < GroupSize
    BY NumbersAssumption
  <2> QED
    BY <1>0, <2>1 DEF CountsAreBounded
<1>3. EntriesAreEverywhere
  <2>1. \A l \in PrepareLinks : net[l] = << >>
    BY <1>0, MajorityLinks DEF EngineLinks
  <2>2. \A s : ~InUse(s)
    BY <1>0, <2>1 DEF InUse, Prepared
  <2> QED
    BY <2>2 DEF EntriesAreEverywhere
<1>4. AllOrNone
  BY <1>0 DEF AllOrNone
<1> QED
  BY <1>1, <1>2, <1>3, <1>4 DEF Forgetful

(* ... and every step keeps it so. *)
LEMMA ForgetfulGoesOn ==
    ASSUME OneCounter, IdsSuffice, SubscribesOnce, FullGroup, Working, Forgetful, [Next]_vars
    PROVE  Forgetful'
<1>1. SettledStep /\ \A e \in Engines : message_buffer[e] \subseteq message_buffer'[e]
  BY SettledGoesOn DEF FullGroup
<1>2. Typed /\ Copying /\ AloneInVector /\ Settled
  BY DEF Working
<1>3. FeedsClients /\ CountsAreBounded /\ EntriesAreEverywhere /\ AllOrNone
  BY DEF Forgetful
<1>4. FeedsClients' /\ CountsAreBounded'
  BY <1>1, <1>2, <1>3, NextFeedsClients, NextCountsAreBounded
<1>5. EntriesAreEverywhere'
  BY <1>1, <1>2, <1>3, NextEntriesAreEverywhere
<1>6. AllOrNone'
  BY <1>1, <1>3, NextAllOrNone
<1> QED
  BY <1>4, <1>5, <1>6 DEF Forgetful

(* At rest an entry is with every engine, and a nuzzle that waits for its  *)
(* copies has counted all of them: more than it keeps.                     *)
LEMMA RestRetainsNothing ==
    ASSUME FullGroup, Working, Forgetful
    PROVE  NothingRetained
<1> SUFFICES ASSUME Quiet, up = Processes, NEW n \in Nuzzles, NEW k \in Keys,
                    copies[n][k] # << >>
             PROVE  FALSE
  BY DEF NothingRetained
<1>0. /\ Typed /\ Copying /\ FeedsClients /\ CountsAreBounded /\ EntriesAreEverywhere
      /\ AllOrNone
  BY DEF Working, Forgetful
<1>1. PICK c \in Consumers : NuzzleConnection[c] = n
  BY <1>0 DEF FeedsClients
<1>2. copies[n][k] \in Seq(Engines)
  BY <1>0, CopyForm
<1>3. PICK d \in Engines : Counted(d, n, k)
  <2>1. 1 \in DOMAIN copies[n][k] /\ copies[n][k][1] \in Engines
    BY <1>2
  <2> QED
    BY <2>1 DEF Counted
<1>4. PICK s \in message_buffer[d] : KeyOf(s) = k
  BY <1>0, <1>3 DEF Counted, Copying, CopiesAreHeld
<1>5. s \in Stored /\ InUse(s)
  BY <1>0, <1>4, CopyForm DEF InUse
<1>6. \A e \in Engines : s \in message_buffer[e]
  <2>1. Pumps \subseteq up /\ Engines \subseteq up
    BY DEF Processes
  <2>2. \A e \in Engines : Has(e, s)
    BY <1>0, <1>5, <2>1 DEF EntriesAreEverywhere
  <2>3. \A p \in Pumps, e \in Engines : DOMAIN net[<<p, e>>] = {}
    <3>1. \A p \in Pumps, e \in Engines : net[<<p, e>>] = << >>
      BY LinkEnds DEF Quiet
    <3> QED
      BY <3>1, NothingQueued
  <2> QED
    BY <2>2, <2>3 DEF Has
<1>7. ~(\A e \in Engines : Done(e, n, k) /\ ~Counted(e, n, k))
  BY <1>3
<1>8. \A e \in Engines : Carried(e, n, k)
  BY <1>0, <1>1, <1>4, <1>6, <1>7 DEF AllOrNone
<1>9. \A e \in Engines : Counted(e, n, k)
  <2> SUFFICES ASSUME NEW e \in Engines PROVE Counted(e, n, k)
    OBVIOUS
  <2>1. fan_out[e] = Idle /\ net[<<e, n>>] = << >>
    BY LinkEnds DEF Quiet
  <2> QED
    BY <1>8, <2>1 DEF Carried, Pending, HasKey
<1>10. Cardinality(Engines) <= Len(copies[n][k])
  <2>1. \A e \in Engines : \E i \in DOMAIN copies[n][k] : copies[n][k][i] = e
    BY <1>9 DEF Counted
  <2> QED
    BY <1>2, <2>1, LongEnough
<1>11. Len(copies[n][k]) < GroupSize /\ Len(copies[n][k]) \in Nat
  BY <1>0, <1>2 DEF CountsAreBounded
<1> QED
  BY <1>10, <1>11, NumbersAssumption DEF FullGroup

(* Nuzzles forget what all engines have sent (message_buffer.erase() in    *)
(* on_publish_receive): in a deployment without failures nothing is left   *)
(* when it comes to rest, as long as a topic has as many engines as the    *)
(* GROUP_SIZE of nuzzle.cpp.  With fewer no count comes to it and nothing  *)
(* would ever be forgotten; with more, copies would come after the         *)
(* publication is.                                                         *)
THEOREM NothingIsEverRetained ==
    ASSUME OneCounter, IdsSuffice, SubscribesOnce, FullGroup, IsFiniteSet(Nuzzles)
    PROVE  SettledSpec => []NothingRetained
<1>1. IsFiniteSet(Engines)
  BY DEF FullGroup
<1>2. SettledInit => Working /\ Forgetful
  BY SettledWorks, NothingRetainedYet
<1>3. Working /\ [Next]_vars => Working'
  BY <1>1, SettledGoesOn
<1>4. Working /\ Forgetful /\ [Next]_vars => Forgetful'
  BY ForgetfulGoesOn
<1>5. Working /\ Forgetful => NothingRetained
  BY RestRetainsNothing
<1> QED
  BY <1>2, <1>3, <1>4, <1>5, PTL DEF SettledSpec

----------------------------------------------------------------------------
(* Order. *)

(* Publication r is of another publisher than s, or was published before. *)
Ahead(r, s) == r.message[1] = s.message[1] => r.message[2] < s.message[2]

(* It is of the same publisher, and was published before. *)
Precedes(r, s) == r.message[1] = s.message[1] /\ r.message[2] < s.message[2]

InOrder(q) == \A i, j \in DOMAIN q : i < j => Ahead(q[i], q[j])

AllAhead(q, r) == \A i \in DOMAIN q : Ahead(q[i], r)

(* What has been numbered was published before what waits to be. *)
NumberedInOrder ==
    \A l \in PublishLinks :
      /\ InOrder(net[l])
      /\ \A i \in DOMAIN net[l], s \in Stored : InUse(s) => Ahead(s, net[l][i])

(* An engine stores in that order, and sends the last it has stored. *)
StoredInOrder ==
    /\ \A l \in PrepareLinks :
         /\ InOrder(net[l])
         /\ \A i \in DOMAIN net[l] : \A s \in message_buffer[l[2]] : Ahead(s, net[l][i])
    /\ \A e \in Engines : fan_out[e] # Idle => \A s \in message_buffer[e] :
         s = StoredOf(fan_out[e].request) \/ Ahead(s, fan_out[e].request)

(* An engine that has an entry has those before it. *)
NoGaps ==
    \A e \in Engines, s, t \in Stored :
      Has(e, s) /\ InUse(t) /\ Precedes(t, s) => Has(e, t)

SentInOrder == \A l \in CopyLinks : InOrder(net[l])

(* Of two entries of an engine a nuzzle receives the earlier one first. *)
CountedInOrder ==
    \A c \in Consumers \cap up, e \in Engines : LET n == NuzzleConnection[c] IN
      n \in up => \A s, t \in message_buffer[e] : Precedes(t, s) =>
        /\ HasKey(net[<<e, n>>], KeyOf(s)) =>
             \/ HasKey(net[<<e, n>>], KeyOf(t)) \/ Counted(e, n, KeyOf(t))
             \/ Arriving(c, KeyOf(t))
        /\ Counted(e, n, KeyOf(s)) => Counted(e, n, KeyOf(t)) \/ Arriving(c, KeyOf(t))

(* ... and delivers it first. *)
ArrivesInOrder ==
    \A c \in Consumers \cap up : NuzzleConnection[c] \in up =>
      \A s, t \in Stored : InUse(s) /\ InUse(t) /\ Precedes(t, s) =>
        (Arriving(c, KeyOf(s)) => Arriving(c, KeyOf(t)))

(* What a consumer has logged, what is on its way to it and what its       *)
(* nuzzle is delivering are each in order, and come in that order.         *)
OrderedFor(c) == LET n == NuzzleConnection[c] IN
    /\ InOrder(log_buffer[c])
    /\ InOrder(net[<<n, c>>])
    /\ \A j \in DOMAIN net[<<n, c>>] : AllAhead(log_buffer[c], net[<<n, c>>][j])
    /\ c \in up /\ delivery[n] # Idle =>
         /\ AllAhead(log_buffer[c], delivery[n].request)
         /\ AllAhead(net[<<n, c>>], delivery[n].request)

DeliveredInOrder == \A c \in Consumers : OrderedFor(c)

Ordered ==
    NumberedInOrder /\ StoredInOrder /\ NoGaps /\ SentInOrder /\ CountedInOrder
      /\ ArrivesInOrder /\ DeliveredInOrder

----------------------------------------------------------------------------
(* Sequences in order. *)

(* Two publications, one of them of the same publisher and earlier. *)
LEMMA AheadOrNot ==
    ASSUME NEW r, NEW s, r.message \in Publications, s.message \in Publications
    PROVE  /\ ~(Precedes(r, s) /\ Ahead(s, r))
           /\ ~Ahead(r, s) => r.message = s.message \/ Precedes(s, r)
<1>1. /\ r.message = <<r.message[1], r.message[2]>> /\ r.message[2] \in Nat
      /\ s.message = <<s.message[1], s.message[2]>> /\ s.message[2] \in Nat
  BY NumbersAssumption DEF Publications
<1> QED
  BY <1>1 DEF Ahead, Precedes

(* An order that one more does not disturb. *)
LEMMA AppendInOrder ==
    ASSUME NEW S, NEW q \in Seq(S), NEW r \in S, InOrder(q), AllAhead(q, r)
    PROVE  InOrder(Append(q, r))
<1> SUFFICES ASSUME NEW i \in DOMAIN Append(q, r), NEW j \in DOMAIN Append(q, r), i < j
             PROVE  Ahead(Append(q, r)[i], Append(q, r)[j])
  BY DEF InOrder
<1>1. i \in DOMAIN q /\ Append(q, r)[i] = q[i]
  OBVIOUS
<1>2. \/ j \in DOMAIN q /\ Append(q, r)[j] = q[j]
      \/ Append(q, r)[j] = r
  BY AppendIndices
<1> QED
  BY <1>1, <1>2 DEF InOrder, AllAhead

(* The oldest is ahead of the rest. *)
LEMMA TailInOrder ==
    ASSUME NEW S, NEW q \in Seq(S), q # << >>, InOrder(q)
    PROVE  /\ InOrder(Tail(q))
           /\ \A j \in DOMAIN Tail(q) : Ahead(Head(q), Tail(q)[j])
           /\ \A j \in DOMAIN Tail(q) : \E i \in DOMAIN q : Tail(q)[j] = q[i]
           /\ \E i \in DOMAIN q : Head(q) = q[i]
<1>1. \A j \in DOMAIN Tail(q) :
        j \in Nat \ {0} /\ j + 1 \in DOMAIN q /\ Tail(q)[j] = q[j + 1]
  BY TailIndices
<1>2. 1 \in DOMAIN q /\ Head(q) = q[1]
  OBVIOUS
<1>3. ASSUME NEW i \in DOMAIN Tail(q), NEW j \in DOMAIN Tail(q), i < j
      PROVE  Ahead(Tail(q)[i], Tail(q)[j])
  BY <1>1, <1>3 DEF InOrder
<1>4. ASSUME NEW j \in DOMAIN Tail(q) PROVE Ahead(Head(q), Tail(q)[j])
  BY <1>1, <1>2 DEF InOrder
<1> QED
  BY <1>1, <1>2, <1>3, <1>4 DEF InOrder

----------------------------------------------------------------------------
(* Numbering. *)

(* What is published now comes after all that was.                         *)
LEMMA PublishInOrder ==
    ASSUME Typed, Integrity, WaitsOnce, StoredIsPublished, NumberedInOrder,
           NEW b \in Publishers, Publish(b), PublisherFrame
    PROVE  NumberedInOrder'
<1> DEFINE last == Publication(b)
<1>1. /\ last \in Messages /\ request_id[b] \in Nat
      /\ last.message[1] = b /\ last.message[2] = request_id[b] + 1
  <2>1. /\ request_id[b] \in 0..MaxPublish /\ request_id[b] < MaxPublish
        /\ topic_id[b] \in Topics
    BY DEF Publish, Typed, TypeOK, PublisherTypeOK
  <2>2. request_id[b] \in Nat /\ request_id[b] + 1 \in 1..MaxPublish
    BY <2>1, NumbersAssumption
  <2>3. (request_id[b] + 1) % IdSpace \in GlobalIds
    BY <2>2, IdsWrap
  <2> QED
    BY <2>1, <2>2, <2>3 DEF Publication, Publications, Messages, RequestPublish
<1>2. /\ message_buffer' = message_buffer
      /\ \A l \in PrepareLinks : net'[l] = net[l]
      /\ \A l \in PublishLinks : net'[l] = net[l] \/ net'[l] = Append(net[l], last)
  <2>1. \A l \in PrepareLinks : l \in CarrierLinks /\ l[1] # b
    BY ForwardLinks, ProcessesDisjoint DEF CarrierLinks, WatchedLinks, EngineLinks
  <2>2. PublishLinks \subseteq CarrierLinks
    BY DEF CarrierLinks
  <2>3. \A l \in CarrierLinks : l[1] # b => net'[l] = net[l]
    BY PublishEffect
  <2>4. \A l \in CarrierLinks : net'[l] = net[l] \/ net'[l] = Append(net[l], last)
    BY PublishEffect
  <2> QED
    BY <2>1, <2>2, <2>3, <2>4 DEF PublisherFrame, engineVars
<1>3. \A s : InUse(s)' <=> InUse(s)
  BY <1>2 DEF InUse, Prepared
<1>4. \A m \in Publications, t \in Topics : <<t, m>> \in published =>
        (m[1] = b => m[2] < request_id[b] + 1)
  <2> SUFFICES ASSUME NEW m \in Publications, NEW t \in Topics, <<t, m>> \in published, m[1] = b
               PROVE  m[2] < request_id[b] + 1
    OBVIOUS
  <2>1. m[2] <= request_id[b] /\ m[2] \in Nat
    BY NumbersAssumption DEF WaitsOnce, Publications
  <2> QED
    BY <1>1, <2>1
<1>5. \A s \in Stored : InUse(s) => Ahead(s, last)
  <2> SUFFICES ASSUME NEW s \in Stored, InUse(s) PROVE Ahead(s, last)
    OBVIOUS
  <2>1. ItemOf(s) \in published
    BY EntriesArePublished DEF InUse, StoredIsPublished
  <2>2. s.topic_id \in Topics /\ s.message \in Publications /\ ItemOf(s) = <<s.topic_id, s.message>>
    BY DEF Stored, ItemOf
  <2> HIDE DEF last
  <2> QED
    BY <1>1, <1>4, <2>1, <2>2 DEF Ahead
<1>6. \A l \in PublishLinks : AllAhead(net[l], last)
  <2> SUFFICES ASSUME NEW l \in PublishLinks, NEW i \in DOMAIN net[l] PROVE Ahead(net[l][i], last)
    BY DEF AllAhead
  <2>1. net[l][i] \in RequestPublish /\ l \in Links
    BY ForwardLinks
  <2>2. <<net[l][i].topic_id, net[l][i].message>> \in published
    BY <2>1 DEF Integrity, QueuesFrom, FromPublished, CarriesPublication, RequestPublish
  <2>3. net[l][i].topic_id \in Topics /\ net[l][i].message \in Publications
    BY <2>1 DEF RequestPublish
  <2> HIDE DEF last
  <2> QED
    BY <1>1, <1>4, <2>2, <2>3 DEF Ahead
<1> HIDE DEF last
<1>7. ASSUME NEW l \in PublishLinks
      PROVE  /\ InOrder(net'[l])
             /\ \A i \in DOMAIN net'[l], s \in Stored : InUse(s) => Ahead(s, net'[l][i])
  <2>1. /\ InOrder(net[l]) /\ net[l] \in Seq(Messages)
        /\ \A i \in DOMAIN net[l], s \in Stored : InUse(s) => Ahead(s, net[l][i])
    BY <1>7, ForwardLinks DEF NumberedInOrder
  <2>2. CASE net'[l] = net[l]
    BY <2>1, <2>2
  <2>3. CASE net'[l] = Append(net[l], last)
    <3>1. InOrder(Append(net[l], last))
      BY <1>1, <1>6, <1>7, <2>1, AppendInOrder
    <3>2. \A i \in DOMAIN Append(net[l], last) :
            \/ i \in DOMAIN net[l] /\ Append(net[l], last)[i] = net[l][i]
            \/ Append(net[l], last)[i] = last
      BY <1>1, <2>1, AppendIndices
    <3> QED
      BY <1>5, <2>1, <2>3, <3>1, <3>2
  <2> QED
    BY <1>2, <1>7, <2>2, <2>3
<1> QED
  BY <1>3, <1>7 DEF NumberedInOrder

(* The pump numbers the oldest of its publisher's first. *)
LEMMA NumberInOrder ==
    ASSUME Typed, Settled, OneCounter, WaitsOnce, NumberedInOrder,
           NEW p \in Pumps, NEW b \in Publishers, OnPublishReceive(p, b), PumpFrame
    PROVE  NumberedInOrder'
<1> DEFINE link == <<b, p>>
<1> PICK r : r = Head(net[link])
  OBVIOUS
<1> PICK q : q = Prepare(p, r)
  OBVIOUS
<1>1. /\ link \in PublishLinks /\ net[link] \in Seq(Messages) /\ net[link] # << >>
      /\ net'[link] = Tail(net[link])
      /\ \A l \in PublishLinks : l # link => net'[l] = net[l]
      /\ \A l \in PrepareLinks : net'[l] = net[l] \/ net'[l] = Append(net[l], q)
      /\ message_buffer' = message_buffer
  <2>1. \A l \in CarrierLinks : net'[l] =
          IF l = link THEN Tail(net[l])
          ELSE IF l[1] = p /\ l[2] \in Engines \cap up THEN Append(net[l], q) ELSE net[l]
    BY NumberEffect
  <2>2. link \in PublishLinks /\ PublishLinks \subseteq CarrierLinks
    BY DEF CarrierLinks, PublishLinks
  <2>3. \A l \in PrepareLinks : l \in CarrierLinks /\ l # link
    BY ForwardLinks, ProcessesDisjoint DEF CarrierLinks, WatchedLinks, EngineLinks
  <2>4. \A l \in PublishLinks : l[1] # p
    BY ForwardLinks, ProcessesDisjoint
  <2>5. net[link] \in Seq(Messages) /\ net[link] # << >>
    BY <2>2, ForwardLinks, NumberEffect
  <2> QED
    BY <2>1, <2>2, <2>3, <2>4, <2>5 DEF PumpFrame, engineVars
<1>2. /\ InOrder(net[link])
      /\ \A j \in DOMAIN Tail(net[link]) : Ahead(r, Tail(net[link])[j])
      /\ \A j \in DOMAIN Tail(net[link]) : \E i \in DOMAIN net[link] : Tail(net[link])[j] = net[link][i]
      /\ InOrder(Tail(net[link])) /\ 1 \in DOMAIN net[link] /\ r = net[link][1]
  <2>1. InOrder(net[link]) /\ 1 \in DOMAIN net[link] /\ r = net[link][1]
    BY <1>1 DEF NumberedInOrder
  <2> QED
    BY <1>1, <2>1, TailInOrder
<1>3. q \in Messages /\ StoredOf(q).message = r.message /\ r.message[1] = b
  <2>1. global_request_id_seed[p] \in GlobalIds
    BY DEF Typed, TypeOK, PumpTypeOK
  <2>2. r \in RequestPublish
    BY <1>1, <1>2, ForwardLinks
  <2>3. r.message[1] = b
    BY <1>1, <1>2 DEF WaitsOnce
  <2> QED
    BY <2>1, <2>2, <2>3 DEF Prepare, RequestPublish, RequestPrepare, Messages, StoredOf
<1>4. \A s : InUse(s)' => InUse(s) \/ s = StoredOf(q)
  <2> SUFFICES ASSUME NEW l \in PrepareLinks, NEW i \in DOMAIN net'[l],
                      StoredOf(net'[l][i]) # StoredOf(q)
               PROVE  i \in DOMAIN net[l] /\ net'[l][i] = net[l][i]
    BY <1>1 DEF InUse, Prepared
  <2>1. net[l] \in Seq(Messages)
    BY ForwardLinks
  <2>2. CASE net'[l] = net[l]
    BY <2>2
  <2>3. CASE net'[l] = Append(net[l], q)
    <3>1. \/ i \in DOMAIN net[l] /\ Append(net[l], q)[i] = net[l][i]
          \/ Append(net[l], q)[i] = q
      BY <1>3, <2>1, <2>3, AppendIndices
    <3> QED
      BY <2>3, <3>1
  <2> QED
    BY <1>1, <2>2, <2>3
<1>5. ASSUME NEW l \in PublishLinks, NEW i \in DOMAIN net'[l]
      PROVE  Ahead(StoredOf(q), net'[l][i]) /\ \E j \in DOMAIN net[l] : net'[l][i] = net[l][j]
  <2>1. CASE l = link
    <3>1. Ahead(r, net'[l][i])
      BY <1>1, <1>2, <1>5, <2>1
    <3> QED
      BY <1>1, <1>2, <1>3, <1>5, <2>1, <3>1, ZenonT(60) DEF Ahead
  <2>2. CASE l # link
    <3>1. net'[l] = net[l]
      BY <1>1, <1>5, <2>2
    <3>2. net[l][i].message[1] = l[1]
      BY <1>5, <3>1 DEF WaitsOnce
    <3>3. l[1] # b
      <4>1. l = <<l[1], p>>
        BY <1>5 DEF PublishLinks, OneCounter
      <4> QED
        BY <2>2, <4>1
    <3> QED
      BY <1>3, <1>5, <3>1, <3>2, <3>3 DEF Ahead
  <2> QED
    BY <2>1, <2>2
<1>6. \A l \in PublishLinks : InOrder(net'[l])
  BY <1>1, <1>2 DEF NumberedInOrder
<1>7. ASSUME NEW l \in PublishLinks, NEW i \in DOMAIN net'[l], NEW s \in Stored, InUse(s)'
      PROVE  Ahead(s, net'[l][i])
  BY <1>4, <1>5, <1>7 DEF NumberedInOrder
<1> QED
  BY <1>6, <1>7 DEF NumberedInOrder

(* Nothing else is published or numbered. *)
LEMMA NextNumberedInOrder ==
    ASSUME Typed, Settled, Integrity, OneCounter, Replication, StoredIsPublished,
           NumberedInOrder, [Next]_vars
    PROVE  NumberedInOrder'
<1>1. ASSUME NothingNew PROVE NumberedInOrder'
  <2>1. InOrder(<< >>) /\ DOMAIN << >> = {}
    BY NothingQueued DEF InOrder
  <2> SUFFICES ASSUME NEW l \in PublishLinks
               PROVE  /\ InOrder(net'[l])
                      /\ \A i \in DOMAIN net'[l], s \in Stored : InUse(s)' => Ahead(s, net'[l][i])
    BY DEF NumberedInOrder
  <2>2. net'[l] = net[l] \/ net'[l] = << >>
    BY <1>1 DEF NothingNew
  <2>3. \A s \in Stored : InUse(s)' => InUse(s)
    BY <1>1 DEF NothingNew
  <2> QED
    BY <2>1, <2>2, <2>3 DEF NumberedInOrder
<1>2. CASE PublisherStep
  BY <1>2, PublishInOrder DEF Replication, PublisherStep
<1>3. CASE PumpStep
  <2>1. CASE \E p \in Pumps, b \in Publishers : OnPublishReceive(p, b)
    BY <1>3, <2>1, NumberInOrder DEF PumpStep, Replication
  <2>2. CASE ~\E p \in Pumps, b \in Publishers : OnPublishReceive(p, b)
    BY <1>1, <1>3, <2>2, PumpNothingNew
  <2> QED
    BY <2>1, <2>2
<1>4. CASE EngineStep \/ NuzzleStep \/ ConsumerStep \/ TransportStep
  BY <1>1, <1>4, EngineNothingNew, NuzzleNothingNew, ConsumerNothingNew, TransportNothingNew
<1>5. CASE UNCHANGED vars
  <2>1. NothingNew
    BY <1>5 DEF vars, transportVars, publisherVars, pumpVars, engineVars,
                NothingNew, InUse, Prepared
  <2> QED
    BY <1>1, <2>1
<1> QED
  BY <1>2, <1>3, <1>4, <1>5 DEF Next

----------------------------------------------------------------------------
(* Storing. *)

(* The other steps prepare and store nothing. *)
LEMMA StoresKept ==
    ASSUME Typed, Settled, Copying, AloneInVector, SettledStep,
           ~(\E p \in Pumps, b \in Publishers : PumpFrame /\ OnPublishReceive(p, b)),
           ~(\E e \in Engines, p \in Pumps : EngineFrame /\ OnPrepareReceive(e, p))
    PROVE  /\ \A l \in PrepareLinks : net'[l] = net[l] \/ net'[l] = << >>
           /\ UNCHANGED message_buffer
           /\ \A e \in Engines : fan_out'[e] # Idle =>
                fan_out[e] # Idle /\ fan_out'[e].request = fan_out[e].request
<1>0. \A l \in PrepareLinks : l \in CarrierLinks /\ l[1] \notin Publishers
  BY ForwardLinks, ProcessesDisjoint DEF CarrierLinks, WatchedLinks, EngineLinks
<1>1. ASSUME NEW b \in Publishers, Publish(b), PublisherFrame
      PROVE  UNCHANGED <<message_buffer, fan_out>> /\ \A l \in PrepareLinks : net'[l] = net[l]
  BY <1>0, <1>1, PublishEffect DEF PublisherFrame, engineVars
<1>2. ASSUME NEW e \in Engines, FanOutPublish(e)
      PROVE  /\ UNCHANGED message_buffer
             /\ \A d \in Engines : fan_out'[d] # Idle =>
                  fan_out[d] # Idle /\ fan_out'[d].request = fan_out[d].request
  <2>1. /\ fan_out[e] # Idle /\ fan_out' = [fan_out EXCEPT ![e] = AdvanceLoop(fan_out[e])]
        /\ fan_out \in [Engines -> LoopOver(Nuzzles) \cup {Idle}]
        /\ fan_out[e] \in LoopOver(Nuzzles) /\ message_buffer' = message_buffer
    BY <1>2, CopyForm DEF FanOutPublish
  <2>2. AdvanceLoop(fan_out[e]) # Idle => AdvanceLoop(fan_out[e]).request = fan_out[e].request
    BY <2>1 DEF AdvanceLoop, LoopOver
  <2> QED
    BY <2>1, <2>2
<1>3. ASSUME NuzzleFrame \/ ConsumerFrame PROVE UNCHANGED <<message_buffer, fan_out>>
  BY <1>3 DEF NuzzleFrame, ConsumerFrame, engineVars
<1>4. ASSUME Fades
      PROVE  /\ UNCHANGED <<message_buffer, fan_out>>
             /\ \A l \in PrepareLinks : net'[l] = net[l] \/ net'[l] = << >>
  BY <1>0, <1>4 DEF Fades, ProcessFrame, engineVars
<1> QED
  BY <1>1, <1>2, <1>3, <1>4, LeaveForwardAlone DEF SettledStep

(* A publication is prepared behind those numbered before it. *)
LEMMA NumberStoredInOrder ==
    ASSUME Typed, Settled, NumberedInOrder, StoredInOrder,
           NEW p \in Pumps, NEW b \in Publishers, OnPublishReceive(p, b), PumpFrame
    PROVE  StoredInOrder'
<1> PICK r : r = Head(net[<<b, p>>])
  OBVIOUS
<1> PICK q : q = Prepare(p, r)
  OBVIOUS
<1>1. /\ \A l \in PrepareLinks : net'[l] = net[l] \/ net'[l] = Append(net[l], q)
      /\ UNCHANGED <<message_buffer, fan_out>>
  <2>1. \A l \in CarrierLinks : net'[l] =
          IF l = <<b, p>> THEN Tail(net[l])
          ELSE IF l[1] = p /\ l[2] \in Engines \cap up THEN Append(net[l], q) ELSE net[l]
    BY NumberEffect
  <2>2. \A l \in PrepareLinks : l \in CarrierLinks /\ l # <<b, p>>
    BY ForwardLinks, ProcessesDisjoint DEF CarrierLinks, WatchedLinks, EngineLinks
  <2> QED
    BY <2>1, <2>2 DEF PumpFrame, engineVars
<1>2. /\ <<b, p>> \in PublishLinks /\ 1 \in DOMAIN net[<<b, p>>] /\ r = net[<<b, p>>][1]
      /\ r \in RequestPublish
  <2>1. <<b, p>> \in PublishLinks /\ net[<<b, p>>] # << >>
    BY NumberEffect DEF PublishLinks
  <2>2. 1 \in DOMAIN net[<<b, p>>] /\ r = net[<<b, p>>][1]
    BY <2>1, ForwardLinks
  <2> QED
    BY <2>1, <2>2, ForwardLinks
<1>3. q \in Messages /\ q.message = r.message
  <2>1. global_request_id_seed[p] \in GlobalIds
    BY DEF Typed, TypeOK, PumpTypeOK
  <2> QED
    BY <1>2, <2>1 DEF Prepare, RequestPublish, RequestPrepare, Messages
<1>4. \A s \in Stored : InUse(s) => Ahead(s, q)
  BY <1>2, <1>3 DEF NumberedInOrder, Ahead
<1>5. \A e \in Engines : \A s \in message_buffer[e] : s \in Stored /\ InUse(s) /\ Ahead(s, q)
  BY <1>4, CopyForm DEF InUse
<1>6. \A l \in PrepareLinks : AllAhead(net[l], q)
  <2> SUFFICES ASSUME NEW l \in PrepareLinks, NEW i \in DOMAIN net[l] PROVE Ahead(net[l][i], q)
    BY DEF AllAhead
  <2>1. net[l][i] \in RequestPrepare
    BY ForwardLinks
  <2>2. StoredOf(net[l][i]) \in Stored /\ StoredOf(net[l][i]).message = net[l][i].message
    BY <2>1 DEF StoredOf, Stored, RequestPrepare
  <2>3. InUse(StoredOf(net[l][i]))
    BY DEF InUse, Prepared
  <2> QED
    BY <1>4, <2>2, <2>3 DEF Ahead
<1>7. ASSUME NEW l \in PrepareLinks
      PROVE  /\ InOrder(net'[l])
             /\ \A i \in DOMAIN net'[l] : \A s \in message_buffer'[l[2]] : Ahead(s, net'[l][i])
  <2>1. /\ InOrder(net[l]) /\ net[l] \in Seq(Messages) /\ l[2] \in Engines
        /\ \A i \in DOMAIN net[l] : \A s \in message_buffer[l[2]] : Ahead(s, net[l][i])
    BY <1>7, ForwardLinks DEF StoredInOrder
  <2>2. CASE net'[l] = net[l]
    BY <1>1, <2>1, <2>2
  <2>3. CASE net'[l] = Append(net[l], q)
    <3>1. InOrder(Append(net[l], q))
      BY <1>3, <1>6, <1>7, <2>1, AppendInOrder
    <3>2. \A i \in DOMAIN Append(net[l], q) :
            \/ i \in DOMAIN net[l] /\ Append(net[l], q)[i] = net[l][i]
            \/ Append(net[l], q)[i] = q
      BY <1>3, <2>1, AppendIndices
    <3> QED
      BY <1>1, <1>5, <2>1, <2>3, <3>1, <3>2
  <2> QED
    BY <1>1, <1>7, <2>2, <2>3
<1> QED
  BY <1>1, <1>7 DEF StoredInOrder

(* The oldest that has been prepared is stored, and begins to be sent. *)
LEMMA StoreStoredInOrder ==
    ASSUME Typed, OneCounter, StoredInOrder,
           NEW e \in Engines, NEW p \in Pumps, OnPrepareReceive(e, p)
    PROVE  StoredInOrder'
<1> DEFINE link == <<p, e>>
<1> PICK r : r = Head(net[link])
  OBVIOUS
<1>1. /\ net[link] # << >> /\ net[link] \in Seq(Messages) /\ link \in PrepareLinks
      /\ net'[link] = Tail(net[link])
      /\ \A l \in PrepareLinks : l # link => net'[l] = net[l]
  <2>1. /\ net[link] # << >>
        /\ \A l \in CarrierLinks : net'[l] = IF l = link THEN Tail(net[l]) ELSE net[l]
    BY StoreEffect
  <2>2. link \in PrepareLinks /\ PrepareLinks \subseteq CarrierLinks
    BY MajorityLinks DEF CarrierLinks, WatchedLinks, EngineLinks
  <2> QED
    BY <2>1, <2>2, ForwardLinks
<1>2. /\ r \in RequestPrepare /\ StoredOf(r).message = r.message
      /\ fan_out'[e] = BeginLoop(PublishOf(r), subscriptions[e][r.topic_id])
      /\ message_buffer'[e] \subseteq message_buffer[e] \cup {StoredOf(r)}
      /\ \A d \in Engines : d # e => /\ message_buffer'[d] = message_buffer[d]
                                     /\ fan_out'[d] = fan_out[d]
  BY StoreForm DEF StoredOf
<1>3. /\ InOrder(net[link]) /\ \A i \in DOMAIN net[link] :
           \A s \in message_buffer[e] : Ahead(s, net[link][i])
  BY <1>1 DEF StoredInOrder
<1>4. /\ InOrder(Tail(net[link]))
      /\ \A j \in DOMAIN Tail(net[link]) : Ahead(r, Tail(net[link])[j])
      /\ \A j \in DOMAIN Tail(net[link]) : \E i \in DOMAIN net[link] : Tail(net[link])[j] = net[link][i]
      /\ \E i \in DOMAIN net[link] : r = net[link][i]
  BY <1>1, <1>3, TailInOrder
<1>5. /\ \A s \in message_buffer[e] : Ahead(s, r)
      /\ \A j \in DOMAIN Tail(net[link]) : \A s \in message_buffer[e] \cup {StoredOf(r)} :
           Ahead(s, Tail(net[link])[j])
  BY <1>2, <1>3, <1>4, ZenonT(60) DEF Ahead
<1>6. ASSUME NEW l \in PrepareLinks
      PROVE  /\ InOrder(net'[l])
             /\ \A i \in DOMAIN net'[l] : \A s \in message_buffer'[l[2]] : Ahead(s, net'[l][i])
  <2>1. CASE l = link
    BY <1>1, <1>2, <1>4, <1>5, <2>1
  <2>2. CASE l # link
    <3>1. l[2] # e /\ l[2] \in Engines
      <4>1. l = <<p, l[2]>> /\ l[2] \in Engines
        BY <1>6 DEF PrepareLinks, OneCounter
      <4> QED
        BY <2>2, <4>1
    <3> QED
      BY <1>1, <1>2, <1>6, <2>2, <3>1 DEF StoredInOrder
  <2> QED
    BY <2>1, <2>2
<1>7. ASSUME NEW d \in Engines, fan_out'[d] # Idle, NEW s \in message_buffer'[d]
      PROVE  s = StoredOf(fan_out'[d].request) \/ Ahead(s, fan_out'[d].request)
  <2>1. CASE d = e
    <3>1. fan_out'[e].request = PublishOf(r)
      BY <1>2, <1>7, <2>1 DEF BeginLoop
    <3>2. /\ StoredOf(PublishOf(r)) = StoredOf(r) /\ PublishOf(r).message = r.message
      BY DEF PublishOf, StoredOf
    <3> QED
      BY <1>2, <1>5, <1>7, <2>1, <3>1, <3>2 DEF Ahead
  <2>2. CASE d # e
    BY <1>2, <1>7, <2>2 DEF StoredInOrder
  <2> QED
    BY <2>1, <2>2
<1> QED
  BY <1>6, <1>7 DEF StoredInOrder

(* Engines store in the order of the pump. *)
LEMMA NextStoredInOrder ==
    ASSUME OneCounter, Typed, Settled, Copying, AloneInVector, NumberedInOrder, StoredInOrder,
           SettledStep
    PROVE  StoredInOrder'
<1>1. CASE \E p \in Pumps, b \in Publishers : PumpFrame /\ OnPublishReceive(p, b)
  BY <1>1, NumberStoredInOrder
<1>2. CASE \E e \in Engines, p \in Pumps : EngineFrame /\ OnPrepareReceive(e, p)
  BY <1>2, StoreStoredInOrder
<1>3. CASE /\ ~(\E p \in Pumps, b \in Publishers : PumpFrame /\ OnPublishReceive(p, b))
           /\ ~(\E e \in Engines, p \in Pumps : EngineFrame /\ OnPrepareReceive(e, p))
  <2>1. /\ \A l \in PrepareLinks : net'[l] = net[l] \/ net'[l] = << >>
        /\ message_buffer' = message_buffer
        /\ \A e \in Engines : fan_out'[e] # Idle =>
             fan_out[e] # Idle /\ fan_out'[e].request = fan_out[e].request
    BY <1>3, StoresKept
  <2>2. InOrder(<< >>) /\ DOMAIN << >> = {}
    BY NothingQueued DEF InOrder
  <2>3. ASSUME NEW l \in PrepareLinks
        PROVE  /\ InOrder(net'[l])
               /\ \A i \in DOMAIN net'[l] : \A s \in message_buffer'[l[2]] : Ahead(s, net'[l][i])
    BY <2>1, <2>2, <2>3 DEF StoredInOrder
  <2>4. \A e \in Engines : fan_out'[e] # Idle => \A s \in message_buffer'[e] :
          s = StoredOf(fan_out'[e].request) \/ Ahead(s, fan_out'[e].request)
    BY <2>1 DEF StoredInOrder
  <2> QED
    BY <2>3, <2>4 DEF StoredInOrder
<1> QED
  BY <1>1, <1>2, <1>3

----------------------------------------------------------------------------
(* No gaps. *)

(* An engine that has stored an entry has stored those before it. *)
LEMMA HeldWithoutGaps ==
    ASSUME Typed, StoredInOrder, NoGaps, NEW e \in Engines, NEW s \in message_buffer[e],
           NEW t \in Stored, InUse(t), Precedes(t, s)
    PROVE  t \in message_buffer[e]
<1>1. s \in Stored /\ s.message \in Publications /\ t.message \in Publications
  BY CopyForm DEF Stored
<1>2. Has(e, s)
  BY DEF Has
<1>3. Has(e, t)
  BY <1>1, <1>2 DEF NoGaps
<1>4. ASSUME NEW p \in Pumps, NEW i \in DOMAIN net[<<p, e>>], StoredOf(net[<<p, e>>][i]) = t
      PROVE  FALSE
  <2>1. Ahead(s, net[<<p, e>>][i])
    BY MajorityLinks DEF StoredInOrder
  <2>2. t.message = net[<<p, e>>][i].message
    BY <1>4 DEF StoredOf
  <2>3. Ahead(s, t)
    BY <2>1, <2>2 DEF Ahead
  <2> QED
    BY <1>1, <2>3, AheadOrNot
<1> QED
  BY <1>3, <1>4 DEF Has

(* An engine has nothing new but what is numbered. *)
LEMMA NewHas ==
    ASSUME Typed, Settled, Copying, AloneInVector, SettledStep,
           NEW e \in Engines, NEW s \in Stored, Has(e, s)', ~Has(e, s)
    PROVE  /\ e \in up
           /\ PumpFrame /\ \E p \in Pumps, b \in Publishers :
                OnPublishReceive(p, b) /\ s = StoredOf(Prepare(p, Head(net[<<b, p>>])))
<1>0. \A p \in Pumps : <<p, e>> \in PrepareLinks /\ net[<<p, e>>] \in Seq(Messages)
  BY MajorityLinks, CopyForm DEF EngineLinks
<1>1. CASE \E p \in Pumps, b \in Publishers : PumpFrame /\ OnPublishReceive(p, b)
  <2>1. PICK p \in Pumps, b \in Publishers : PumpFrame /\ OnPublishReceive(p, b)
    BY <1>1
  <2> PICK q : q = Prepare(p, Head(net[<<b, p>>]))
    OBVIOUS
  <2>2. \A l \in PrepareLinks : net'[l] =
          IF l[1] = p /\ l[2] \in Engines \cap up THEN Append(net[l], q) ELSE net[l]
    <3>1. \A l \in CarrierLinks : net'[l] =
            IF l = <<b, p>> THEN Tail(net[l])
            ELSE IF l[1] = p /\ l[2] \in Engines \cap up THEN Append(net[l], q) ELSE net[l]
      BY <2>1, NumberEffect
    <3>2. \A l \in PrepareLinks : l \in CarrierLinks /\ l # <<b, p>>
      BY ForwardLinks, ProcessesDisjoint DEF CarrierLinks, WatchedLinks, EngineLinks
    <3> QED
      BY <3>1, <3>2
  <2>3. message_buffer' = message_buffer
    BY <2>1 DEF PumpFrame, engineVars
  <2>4. PICK o \in Pumps : \E i \in DOMAIN net'[<<o, e>>] : StoredOf(net'[<<o, e>>][i]) = s
    BY <2>3 DEF Has
  <2>5. PICK i \in DOMAIN net'[<<o, e>>] : StoredOf(net'[<<o, e>>][i]) = s
    BY <2>4
  <2>6. ~\E j \in DOMAIN net[<<o, e>>] : StoredOf(net[<<o, e>>][j]) = s
    BY DEF Has
  <2>7. e \in up /\ net'[<<o, e>>] = Append(net[<<o, e>>], q)
    BY <1>0, <2>2, <2>5, <2>6
  <2>8. net'[<<o, e>>][i] = q
    <3>1. i \in DOMAIN Append(net[<<o, e>>], q)
      BY <2>5, <2>7
    <3>2. \/ i \in DOMAIN net[<<o, e>>] /\ Append(net[<<o, e>>], q)[i] = net[<<o, e>>][i]
          \/ Append(net[<<o, e>>], q)[i] = q
      BY <1>0, <3>1
    <3> QED
      BY <2>5, <2>6, <2>7, <3>2
  <2> QED
    BY <2>1, <2>5, <2>7, <2>8
<1>2. CASE \E d \in Engines, p \in Pumps : EngineFrame /\ OnPrepareReceive(d, p)
  <2>1. PICK d \in Engines, p \in Pumps : EngineFrame /\ OnPrepareReceive(d, p)
    BY <1>2
  <2> PICK r : r = Head(net[<<p, d>>])
    OBVIOUS
  <2>2. /\ <<p, d>> \in PrepareLinks /\ net[<<p, d>>] # << >>
        /\ net[<<p, d>>] \in Seq(Messages)
        /\ \A l \in PrepareLinks : net'[l] = IF l = <<p, d>> THEN Tail(net[l]) ELSE net[l]
    <3>1. /\ net[<<p, d>>] # << >>
          /\ \A l \in CarrierLinks : net'[l] = IF l = <<p, d>> THEN Tail(net[l]) ELSE net[l]
      BY <2>1, StoreEffect
    <3>2. <<p, d>> \in PrepareLinks /\ PrepareLinks \subseteq CarrierLinks
      BY MajorityLinks DEF CarrierLinks, WatchedLinks, EngineLinks
    <3> QED
      BY <3>1, <3>2, ForwardLinks
  <2>3. /\ 1 \in DOMAIN net[<<p, d>>] /\ r = net[<<p, d>>][1]
        /\ \A j \in DOMAIN Tail(net[<<p, d>>]) :
             j + 1 \in DOMAIN net[<<p, d>>] /\ Tail(net[<<p, d>>])[j] = net[<<p, d>>][j + 1]
    BY <2>2, TailIndices
  <2>4. /\ message_buffer'[d] \subseteq message_buffer[d] \cup {StoredOf(r)}
        /\ \A f \in Engines : f # d => message_buffer'[f] = message_buffer[f]
    BY <2>1, StoreForm
  <2>5. ASSUME s \in message_buffer'[e] PROVE Has(e, s)
    BY <2>3, <2>4, <2>5 DEF Has
  <2>6. ASSUME NEW o \in Pumps, NEW i \in DOMAIN net'[<<o, e>>],
               StoredOf(net'[<<o, e>>][i]) = s
        PROVE  Has(e, s)
    <3>1. \E j \in DOMAIN net[<<o, e>>] : net'[<<o, e>>][i] = net[<<o, e>>][j]
      <4>1. CASE <<o, e>> = <<p, d>>
        <5>1. net'[<<p, d>>] = Tail(net[<<p, d>>])
          BY <2>2
        <5>2. i \in DOMAIN Tail(net[<<p, d>>])
          BY <2>6, <4>1, <5>1
        <5> QED
          BY <2>3, <4>1, <5>1, <5>2
      <4>2. CASE <<o, e>> # <<p, d>>
        BY <1>0, <2>2, <2>6, <4>2
      <4> QED
        BY <4>1, <4>2
    <3> QED
      BY <2>6, <3>1 DEF Has
  <2> QED
    BY <2>5, <2>6 DEF Has
<1>3. CASE /\ ~(\E p \in Pumps, b \in Publishers : PumpFrame /\ OnPublishReceive(p, b))
           /\ ~(\E d \in Engines, p \in Pumps : EngineFrame /\ OnPrepareReceive(d, p))
  <2>1. /\ \A l \in PrepareLinks : net'[l] = net[l] \/ net'[l] = << >>
        /\ message_buffer' = message_buffer
    BY <1>3, StoresKept
  <2>2. DOMAIN << >> = {}
    BY NothingQueued
  <2> QED
    BY <1>0, <2>1, <2>2 DEF Has
<1> QED
  BY <1>1, <1>2, <1>3

(* What is numbered now was published after all that has been. *)
LEMMA NumberedAfter ==
    ASSUME Typed, Settled, NumberedInOrder,
           NEW p \in Pumps, NEW b \in Publishers, OnPublishReceive(p, b),
           NEW u, u = StoredOf(Prepare(p, Head(net[<<b, p>>])))
    PROVE  \A s \in Stored : InUse(s) => Ahead(s, u)
<1>1. /\ <<b, p>> \in PublishLinks /\ 1 \in DOMAIN net[<<b, p>>]
      /\ Head(net[<<b, p>>]) = net[<<b, p>>][1]
  <2>1. <<b, p>> \in PublishLinks /\ net[<<b, p>>] # << >>
    BY NumberEffect DEF PublishLinks
  <2> QED
    BY <2>1, ForwardLinks
<1>2. u.message = net[<<b, p>>][1].message
  <2>1. net[<<b, p>>][1] \in RequestPublish
    BY <1>1, ForwardLinks
  <2> QED
    BY <1>1, <2>1 DEF StoredOf, Prepare, RequestPublish
<1> QED
  BY <1>1, <1>2 DEF NumberedInOrder, Ahead

(* An engine has no entry before those that precede it. *)
LEMMA NextNoGaps ==
    ASSUME OneCounter, Typed, Settled, Copying, AloneInVector, NumberedInOrder, StoredInOrder,
           NoGaps, EntriesAreEverywhere, IdsAreUsedOnce', [Next]_vars,
           \A e \in Engines : message_buffer[e] \subseteq message_buffer'[e]
    PROVE  NoGaps'
<1>0. SettledStep
  BY SettledSteps
<1> SUFFICES ASSUME NEW e \in Engines, NEW s \in Stored, NEW t \in Stored,
                    Has(e, s)', InUse(t)', Precedes(t, s)
             PROVE  Has(e, t)'
  BY DEF NoGaps
<1>1. /\ s.message \in Publications /\ t.message \in Publications
      /\ s.message[1] = t.message[1] /\ ~Ahead(s, t)
  <2>1. s.message \in Publications /\ t.message \in Publications
    BY DEF Stored
  <2> QED
    BY <2>1, AheadOrNot DEF Precedes
<1>3. CASE ~InUse(t)
  <2>1. PICK p \in Pumps, b \in Publishers :
          OnPublishReceive(p, b) /\ t = StoredOf(Prepare(p, Head(net[<<b, p>>])))
    BY <1>3, NewEntries
  <2>2. ~InUse(s)
    BY <1>1, <2>1, NumberedAfter
  <2>3. InUse(s)'
    BY MajorityLinks DEF Has, InUse, Prepared
  <2>4. PICK o \in Pumps, a \in Publishers :
          OnPublishReceive(o, a) /\ s = StoredOf(Prepare(o, Head(net[<<a, o>>])))
    BY <2>2, <2>3, NewEntries
  <2>5. s.global_id = t.global_id
    BY <2>1, <2>4 DEF StoredOf, Prepare, OneCounter
  <2>6. s = t
    BY <2>3, <2>5 DEF IdsAreUsedOnce
  <2>7. ~Precedes(t, t)
    <3>1. t.message[2] \in Nat
      BY <1>1, NumbersAssumption DEF Publications
    <3> QED
      BY <3>1 DEF Precedes
  <2> QED
    BY <2>6, <2>7
<1>4. CASE InUse(t) /\ ~Has(e, s)
  <2>1. /\ e \in up
        /\ \E p \in Pumps, b \in Publishers : OnPublishReceive(p, b)
    BY <1>0, <1>4, NewHas
  <2>2. Pumps \subseteq up /\ up' = up
    BY <2>1, NumberEffect, ZenonT(60) DEF OneCounter
  <2>3. Has(e, t)
    BY <1>4, <2>1, <2>2 DEF EntriesAreEverywhere
  <2> QED
    BY <1>0, <2>1, <2>2, <2>3, HasStays
<1>5. CASE InUse(t) /\ Has(e, s)
  <2>1. Has(e, t)
    BY <1>5 DEF NoGaps
  <2>2. CASE ~Fades
    BY <1>0, <2>1, <2>2, HasStays
  <2>3. CASE Fades
    <3>1. message_buffer' = message_buffer
      BY <2>3 DEF Fades, ProcessFrame, engineVars
    <3>2. CASE s \in message_buffer[e]
      BY <1>5, <3>1, <3>2, HeldWithoutGaps DEF Has
    <3>3. CASE s \notin message_buffer[e]
      <4>1. PICK p \in Pumps : \E i \in DOMAIN net'[<<p, e>>] : StoredOf(net'[<<p, e>>][i]) = s
        BY <3>1, <3>3 DEF Has
      <4>2. net'[<<p, e>>] = net[<<p, e>>]
        BY <2>3, <4>1, CarrierEnds, NothingQueued DEF Fades
      <4>3. \A o \in Pumps : o = p
        BY DEF OneCounter
      <4> QED
        BY <2>1, <3>1, <4>2, <4>3 DEF Has
    <3> QED
      BY <3>2, <3>3
  <2> QED
    BY <2>2, <2>3
<1> QED
  BY <1>3, <1>4, <1>5

----------------------------------------------------------------------------
(* Sending. *)

(* What an engine sends next comes after all that is on its way. *)
LEMMA LastToSend ==
    ASSUME Typed, Copying, StoredInOrder, NEW e \in Engines, NEW n \in Nuzzles, Pending(e, n)
    PROVE  AllAhead(net[<<e, n>>], fan_out[e].request)
<1> SUFFICES ASSUME NEW i \in DOMAIN net[<<e, n>>]
             PROVE  Ahead(net[<<e, n>>][i], fan_out[e].request)
  BY DEF AllAhead
<1> PICK x : x = net[<<e, n>>][i]
  OBVIOUS
<1>1. StoredOf(x) \in message_buffer[e]
  BY MajorityLinks DEF Copying, CopiesAreHeld
<1>2. x.global_id # fan_out[e].request.global_id
  BY DEF Copying, CopiesAreSentOnce
<1>3. StoredOf(x).global_id = x.global_id /\ StoredOf(x).message = x.message
  BY DEF StoredOf
<1>4. StoredOf(fan_out[e].request).global_id = fan_out[e].request.global_id
  BY DEF StoredOf
<1>5. Ahead(StoredOf(x), fan_out[e].request)
  BY <1>1, <1>2, <1>3, <1>4 DEF Pending, StoredInOrder
<1> QED
  BY <1>3, <1>5 DEF Ahead

(* Copies stay in the order in which they were stored. *)
LEMMA NextSentInOrder ==
    ASSUME Typed, Settled, Copying, AloneInVector, StoredInOrder, SentInOrder, SettledStep
    PROVE  SentInOrder'
<1> SUFFICES ASSUME NEW e \in Engines, NEW n \in Nuzzles PROVE InOrder(net'[<<e, n>>])
  BY DEF SentInOrder, CopyLinks
<1> DEFINE link == <<e, n>>
<1>0. link \in CarrierLinks /\ net[link] \in Seq(Messages) /\ InOrder(net[link])
  BY CarrierEnds, CopyForm, MajorityLinks DEF EngineLinks, SentInOrder
<1>1. CASE net'[link] = net[link]
  BY <1>0, <1>1
<1>2. ASSUME NEW d \in Engines, NEW p \in Pumps, OnPrepareReceive(d, p)
      PROVE  net'[link] = net[link]
  <2>1. link # <<p, d>>
    BY ProcessesDisjoint
  <2> QED
    BY <1>0, <1>2, <2>1, StoreEffect
<1>3. ASSUME NEW d \in Engines, FanOutPublish(d) PROVE InOrder(net'[link])
  <2>1. PICK m : m = fan_out[d].range[fan_out[d].next]
    OBVIOUS
  <2>2. /\ fan_out[d] # Idle
        /\ net'[link] = IF link = <<d, m>> /\ m \in up
                        THEN Append(net[link], fan_out[d].request) ELSE net[link]
    BY <1>0, <1>3, <2>1, FanOutEffect
  <2>3. fan_out[d].request \in Messages
    BY <2>2, CopyForm DEF Messages
  <2>4. CASE link = <<d, m>>
    <3>1. d = e /\ m = n
      BY <2>4
    <3>2. Pending(e, n)
      <4>1. fan_out[e].next \in DOMAIN fan_out[e].range /\ fan_out[e].next >= fan_out[e].next
        BY <2>2, <3>1, CopyForm
      <4> QED
        BY <2>1, <2>2, <3>1, <4>1 DEF Pending
    <3>3. AllAhead(net[link], fan_out[d].request)
      BY <3>1, <3>2, LastToSend
    <3>4. InOrder(Append(net[link], fan_out[d].request))
      BY <1>0, <2>3, <3>3, AppendInOrder
    <3> QED
      BY <1>0, <2>2, <3>4
  <2>5. CASE link # <<d, m>>
    BY <1>0, <2>2, <2>5
  <2> QED
    BY <2>4, <2>5
<1>4. ASSUME NEW m \in Nuzzles, NEW d \in Engines, OnPublishReceived(m, d)
      PROVE  InOrder(net'[link])
  <2>1. CASE <<d, m>> = link
    <3>1. d = e /\ m = n
      BY <2>1
    <3>2. net[link] # << >> /\ net'[link] = Tail(net[link])
      BY <1>0, <1>4, <3>1, CountEffect
    <3> QED
      BY <1>0, <3>2, TailInOrder
  <2>2. CASE <<d, m>> # link
    BY <1>0, <1>4, <2>2, CountEffect
  <2> QED
    BY <2>1, <2>2
<1>5. ASSUME Fades PROVE InOrder(net'[link])
  <2>1. net'[link] = net[link] \/ net'[link] = << >>
    BY <1>0, <1>5 DEF Fades
  <2> QED
    BY <1>0, <2>1, NothingQueued DEF InOrder
<1> QED
  BY <1>1, <1>2, <1>3, <1>4, <1>5, LeaveCopiesAlone DEF SettledStep, CopiesAlone

----------------------------------------------------------------------------
(* Counting. *)

(* An engine's entries are told apart by their keys. *)
LEMMA KeysTellApart ==
    ASSUME IdsAreUsedOnce, NEW e \in Engines, message_buffer[e] \subseteq Stored,
           NEW s \in message_buffer[e], NEW t \in message_buffer[e], KeyOf(s) = KeyOf(t)
    PROVE  s = t
  BY DEF IdsAreUsedOnce, InUse, KeyOf

(* What has been sent is counted, if it is not lost, and then delivered. *)
LEMMA CopyStays ==
    ASSUME Typed, Settled, Copying, AloneInVector, MajorityDelivers, SettledStep,
           NEW c \in Consumers, c \in up', NEW n, n = NuzzleConnection[c], n \in up',
           NEW e \in Engines, NEW k \in Keys
    PROVE  /\ Counted(e, n, k) \/ Arriving(c, k) => Counted(e, n, k)' \/ Arriving(c, k)'
           /\ HasKey(net[<<e, n>>], k) /\ (Fades => net'[<<e, n>>] = net[<<e, n>>]) =>
                HasKey(net'[<<e, n>>], k) \/ Counted(e, n, k)' \/ Arriving(c, k)'
<1>0. n \in Nuzzles /\ c \in up
  BY ConsumerAssumption, FewerRun
<1>1. Arriving(c, k) => Arriving(c, k)'
  BY ArrivingStays
<1>2. Forgets(n, k) => Arriving(c, k)'
  BY <1>0, ForgottenArrives
<1>3. Counted(e, n, k) => Counted(e, n, k)' \/ Arriving(c, k)'
  BY <1>0, <1>2, CountedStays
<1>4. ASSUME HasKey(net[<<e, n>>], k), Fades => net'[<<e, n>>] = net[<<e, n>>]
      PROVE  HasKey(net'[<<e, n>>], k) \/ Counted(e, n, k)' \/ Arriving(c, k)'
  <2>1. CASE Fades
    BY <1>4, <2>1
  <2>2. CASE ~Fades
    BY <1>0, <1>2, <1>4, <2>2, LinkStays
  <2> QED
    BY <2>1, <2>2
<1> QED
  BY <1>1, <1>3, <1>4

(* What an engine has just stored has not been sent, and comes last. *)
LEMMA HeldBefore ==
    ASSUME Typed, Settled, Copying, AloneInVector, StoredInOrder, SettledStep,
           NEW e \in Engines, NEW n \in Nuzzles,
           NEW s \in message_buffer'[e], NEW t \in message_buffer'[e], Precedes(t, s),
           HasKey(net'[<<e, n>>], KeyOf(s)) \/ Counted(e, n, KeyOf(s))'
    PROVE  s \in message_buffer[e] /\ t \in message_buffer[e]
<1>1. CASE UNCHANGED message_buffer
  BY <1>1
<1>2. ASSUME EngineFrame, NEW d \in Engines, NEW p \in Pumps, OnPrepareReceive(d, p)
      PROVE  s \in message_buffer[e] /\ t \in message_buffer[e]
  <2> DEFINE link == <<p, d>>
  <2> PICK r : r = Head(net[link])
    OBVIOUS
  <2>1. /\ r \in RequestPrepare /\ StoredOf(r) \in Stored
        /\ message_buffer'[d] \subseteq message_buffer[d] \cup {StoredOf(r)}
        /\ \A f \in Engines : f # d => message_buffer'[f] = message_buffer[f]
    BY <1>2, StoreForm
  <2>2. CASE d # e
    BY <2>1, <2>2
  <2>3. CASE d = e
    <3>1. link \in PrepareLinks /\ link[2] = e /\ 1 \in DOMAIN net[link] /\ r = net[link][1]
      <4>1. net[link] # << >> /\ link \in PrepareLinks
        BY <1>2, StoreEffect, MajorityLinks
      <4> QED
        BY <2>3, <4>1, ForwardLinks
    <3>2. \A x \in message_buffer[e] : x.global_id # r.global_id /\ Ahead(x, r)
      BY <3>1 DEF Copying, PreparedOnce, StoredInOrder
    <3>3. StoredOf(r).global_id = r.global_id /\ StoredOf(r).message = r.message
      BY DEF StoredOf
    <3>4. net'[<<e, n>>] = net[<<e, n>>] /\ copies' = copies
      <4>1. <<e, n>> \in CarrierLinks /\ <<e, n>> # link
        BY CarrierEnds, ProcessesDisjoint
      <4> QED
        BY <1>2, <4>1, StoreEffect DEF EngineFrame, nuzzleVars
    <3>5. \E x \in message_buffer[e] : KeyOf(x) = KeyOf(s)
      <4>1. CASE HasKey(net'[<<e, n>>], KeyOf(s))
        <5>1. PICK i \in DOMAIN net[<<e, n>>] : KeyOf(net[<<e, n>>][i]) = KeyOf(s)
          BY <3>4, <4>1 DEF HasKey
        <5>2. StoredOf(net[<<e, n>>][i]) \in message_buffer[e]
          BY MajorityLinks DEF Copying, CopiesAreHeld
        <5>3. KeyOf(StoredOf(net[<<e, n>>][i])) = KeyOf(net[<<e, n>>][i])
          BY DEF KeyOf, StoredOf
        <5> QED
          BY <5>1, <5>2, <5>3
      <4>2. CASE Counted(e, n, KeyOf(s))'
        <5>1. Counted(e, n, KeyOf(s))
          BY <3>4, <4>2 DEF Counted
        <5>2. KeyOf(s) \in Keys
          <6>1. s \in Stored
            BY <2>1, <2>3, CopyForm
          <6> QED
            BY <6>1 DEF KeyOf, Keys, Stored
        <5> QED
          BY <5>1, <5>2 DEF Counted, Copying, CopiesAreHeld
      <4> QED
        BY <4>1, <4>2
    <3>6. s # StoredOf(r)
      BY <3>2, <3>3, <3>5 DEF KeyOf
    <3>7. s \in message_buffer[e]
      BY <2>1, <2>3, <3>6
    <3>8. t # StoredOf(r)
      <4>1. s.message \in Publications /\ StoredOf(r).message \in Publications
        BY <2>1, <3>7, CopyForm DEF Stored
      <4>2. Ahead(s, StoredOf(r))
        BY <3>2, <3>3, <3>7 DEF Ahead
      <4> QED
        BY <4>1, <4>2, AheadOrNot
    <3> QED
      BY <2>1, <2>3, <3>7, <3>8
  <2> QED
    BY <2>2, <2>3
<1> QED
  BY <1>1, <1>2, NotStoring

(* A copy that is new on its link has just been sent. *)
LEMMA NewOnLink ==
    ASSUME Typed, Settled, Copying, AloneInVector, SettledStep,
           NEW e \in Engines, NEW n \in Nuzzles, NEW k,
           HasKey(net'[<<e, n>>], k), ~HasKey(net[<<e, n>>], k)
    PROVE  e \in up /\ Pending(e, n) /\ KeyOf(fan_out[e].request) = k
<1> DEFINE link == <<e, n>>
<1>0. link \in CarrierLinks /\ net[link] \in Seq(Messages)
  BY CarrierEnds, CopyForm, MajorityLinks DEF EngineLinks
<1>1. net'[link] # net[link] /\ net'[link] # << >>
  BY NothingQueued DEF HasKey
<1>2. ASSUME NEW d \in Engines, NEW p \in Pumps, OnPrepareReceive(d, p) PROVE FALSE
  <2>1. link # <<p, d>>
    BY ProcessesDisjoint
  <2> QED
    BY <1>0, <1>1, <1>2, <2>1, StoreEffect
<1>3. ASSUME NEW m \in Nuzzles, NEW d \in Engines, OnPublishReceived(m, d) PROVE FALSE
  <2>1. net[link] # << >> /\ net'[link] = Tail(net[link])
    BY <1>0, <1>1, <1>3, CountEffect
  <2> QED
    BY <1>0, <2>1, TakenKeys
<1>4. ~Fades
  BY <1>0, <1>1 DEF Fades
<1>5. PICK d \in Engines : FanOutPublish(d)
  BY <1>1, <1>2, <1>3, <1>4, LeaveCopiesAlone DEF SettledStep, CopiesAlone
<1>6. PICK m : m = fan_out[d].range[fan_out[d].next]
  OBVIOUS
<1>7. /\ fan_out[d] # Idle /\ d \in up
      /\ net'[link] = IF link = <<d, m>> /\ m \in up
                      THEN Append(net[link], fan_out[d].request) ELSE net[link]
  BY <1>0, <1>5, <1>6, FanOutEffect
<1>8. d = e /\ m = n /\ net'[link] = Append(net[link], fan_out[e].request)
  BY <1>1, <1>7
<1>9. fan_out[e].request \in Messages /\ fan_out[e].next \in DOMAIN fan_out[e].range
      /\ fan_out[e].range \in Seq(Nuzzles)
  BY <1>7, <1>8, CopyForm DEF Messages
<1>10. KeyOf(fan_out[e].request) = k
  BY <1>0, <1>8, <1>9, SentKeys
<1>11. Pending(e, n)
  BY <1>6, <1>7, <1>8, <1>9 DEF Pending
<1> QED
  BY <1>7, <1>8, <1>10, <1>11

(* A copy that is newly counted was the oldest on its link. *)
LEMMA NewlyCounted ==
    ASSUME Typed, Settled, Copying, SettledStep,
           NEW e \in Engines, NEW n \in Nuzzles, NEW k \in Keys,
           Counted(e, n, k)', ~Counted(e, n, k)
    PROVE  NuzzleFrame /\ OnPublishReceived(n, e) /\ k = KeyOf(Head(net[<<e, n>>]))
<1>1. ~UNCHANGED copies
  BY DEF Counted
<1>2. NuzzleFrame /\ \E m \in Nuzzles, d \in Engines : OnPublishReceived(m, d)
  BY <1>1, NotCounting
<1>3. PICK m \in Nuzzles, d \in Engines : OnPublishReceived(m, d)
  BY <1>2
<1> PICK key : key = KeyOf(Head(net[<<d, m>>]))
  OBVIOUS
<1>4. copies'[n][k] # copies[n][k]
  BY DEF Counted
<1>5. m = n /\ k = key
  BY <1>3, <1>4, CountForm
<1>6. /\ copies[n][k] \in Seq(Engines)
      /\ copies'[n][k] = Forgotten(Append(copies[n][k], d))
  BY <1>3, <1>5, CountForm
<1>7. copies'[n][k] # << >>
  BY NothingQueued DEF Counted
<1>8. copies'[n][k] = Append(copies[n][k], d)
  BY <1>6, <1>7 DEF Forgotten
<1>9. PICK i \in DOMAIN Append(copies[n][k], d) : Append(copies[n][k], d)[i] = e
  BY <1>8 DEF Counted
<1>10. \/ i \in DOMAIN copies[n][k] /\ Append(copies[n][k], d)[i] = copies[n][k][i]
       \/ Append(copies[n][k], d)[i] = d
  BY <1>6, <1>9
<1>11. d = e
  BY <1>9, <1>10 DEF Counted
<1> QED
  BY <1>2, <1>3, <1>5, <1>11

(* No copy on a link precedes the oldest. *)
LEMMA OldestCopyFirst ==
    ASSUME Typed, Copying, IdsAreUsedOnce, SentInOrder,
           NEW n \in Nuzzles, NEW e \in Engines, OnPublishReceived(n, e),
           NEW s \in message_buffer[e], NEW t \in message_buffer[e], Precedes(t, s),
           KeyOf(s) = KeyOf(Head(net[<<e, n>>]))
    PROVE  HasKey(net[<<e, n>>], KeyOf(s)) /\ ~HasKey(net[<<e, n>>], KeyOf(t))
<1> DEFINE link == <<e, n>>
<1>1. /\ link \in CopyLinks /\ net[link] \in Seq(Messages) /\ net[link] # << >>
      /\ 1 \in DOMAIN net[link] /\ Head(net[link]) = net[link][1]
      /\ InOrder(net[link])
  <2>1. link \in CopyLinks /\ net[link] \in Seq(Messages) /\ net[link] # << >>
    BY CopyForm, MajorityLinks, CountEffect DEF EngineLinks
  <2> QED
    BY <2>1 DEF SentInOrder
<1>2. message_buffer[e] \subseteq Stored
  BY CopyForm
<1>3. ~Ahead(s, t) /\ s # t
  <2>1. s.message \in Publications /\ t.message \in Publications /\ s.message[2] \in Nat
    BY <1>2, NumbersAssumption DEF Stored, Publications
  <2>2. ~Ahead(s, t)
    BY <2>1, AheadOrNot
  <2> QED
    BY <2>1, <2>2 DEF Precedes
<1>4. \A i \in DOMAIN net[link], x \in message_buffer[e] :
        KeyOf(net[link][i]) = KeyOf(x) => net[link][i].message = x.message
  <2> SUFFICES ASSUME NEW i \in DOMAIN net[link], NEW x \in message_buffer[e],
                      KeyOf(net[link][i]) = KeyOf(x)
               PROVE  net[link][i].message = x.message
    OBVIOUS
  <2>1. StoredOf(net[link][i]) \in message_buffer[e]
    BY <1>1 DEF Copying, CopiesAreHeld
  <2>2. KeyOf(StoredOf(net[link][i])) = KeyOf(x)
    BY DEF KeyOf, StoredOf
  <2>3. StoredOf(net[link][i]) = x
    BY <1>2, <2>1, <2>2, KeysTellApart
  <2> QED
    BY <2>3 DEF StoredOf
<1>5. ~HasKey(net[link], KeyOf(t))
  <2> SUFFICES ASSUME NEW j \in DOMAIN net[link], KeyOf(net[link][j]) = KeyOf(t)
               PROVE  FALSE
    BY DEF HasKey
  <2>1. j # 1
    BY <1>1, <1>2, <1>3, KeysTellApart
  <2>2. Ahead(net[link][1], net[link][j])
    BY <1>1, <2>1 DEF InOrder
  <2>3. net[link][1].message = s.message /\ net[link][j].message = t.message
    BY <1>1, <1>4
  <2> QED
    BY <1>3, <2>2, <2>3 DEF Ahead
<1> QED
  BY <1>1, <1>5 DEF HasKey

(* A nuzzle counts an engine's entries in the order they were stored. *)
LEMMA NextCountedInOrder ==
    ASSUME Typed, Settled, Copying, AloneInVector, IdsAreUsedOnce, MajorityDelivers,
           StoredIsCarried, StoredInOrder, SentInOrder, CountedInOrder, SettledStep
    PROVE  CountedInOrder'
<1> SUFFICES ASSUME NEW c \in Consumers, c \in up', NEW e \in Engines,
                    NEW n, n = NuzzleConnection[c], n \in up',
                    NEW s \in message_buffer'[e], NEW t \in message_buffer'[e],
                    Precedes(t, s),
                    HasKey(net'[<<e, n>>], KeyOf(s)) \/ Counted(e, n, KeyOf(s))'
             PROVE  /\ HasKey(net'[<<e, n>>], KeyOf(s)) =>
                         \/ HasKey(net'[<<e, n>>], KeyOf(t)) \/ Counted(e, n, KeyOf(t))'
                         \/ Arriving(c, KeyOf(t))'
                    /\ Counted(e, n, KeyOf(s))' =>
                         Counted(e, n, KeyOf(t))' \/ Arriving(c, KeyOf(t))'
  BY DEF CountedInOrder
<1> PICK ks : ks = KeyOf(s)
  OBVIOUS
<1> PICK kt : kt = KeyOf(t)
  OBVIOUS
<1>1. n \in Nuzzles /\ c \in up /\ n \in up
  BY ConsumerAssumption, FewerRun
<1>2. s \in message_buffer[e] /\ t \in message_buffer[e]
  BY <1>1, HeldBefore
<1>3. /\ message_buffer[e] \subseteq Stored /\ s \in Stored /\ t \in Stored
      /\ ks \in Keys /\ kt \in Keys
  <2>1. message_buffer[e] \subseteq Stored
    BY CopyForm
  <2> QED
    BY <1>2, <2>1 DEF KeyOf, Keys, Stored
<1>4. ~Ahead(s, t) /\ s # t /\ ks # kt
  <2>1. s.message \in Publications /\ t.message \in Publications
    BY <1>3 DEF Stored
  <2>2. ~Ahead(s, t)
    BY <2>1, AheadOrNot
  <2>3. s # t
    <3>1. s.message[2] \in Nat
      BY <2>1, NumbersAssumption DEF Publications
    <3> QED
      BY <3>1 DEF Precedes
  <2> QED
    BY <1>2, <1>3, <2>2, <2>3, KeysTellApart
<1>5. /\ HasKey(net[<<e, n>>], ks) =>
           HasKey(net[<<e, n>>], kt) \/ Counted(e, n, kt) \/ Arriving(c, kt)
      /\ Counted(e, n, ks) => Counted(e, n, kt) \/ Arriving(c, kt)
  BY <1>1, <1>2 DEF CountedInOrder
<1>6. /\ Counted(e, n, kt) \/ Arriving(c, kt) => Counted(e, n, kt)' \/ Arriving(c, kt)'
      /\ HasKey(net[<<e, n>>], kt) /\ (Fades => net'[<<e, n>>] = net[<<e, n>>]) =>
           HasKey(net'[<<e, n>>], kt) \/ Counted(e, n, kt)' \/ Arriving(c, kt)'
  BY <1>3, CopyStays
<1>7. ASSUME HasKey(net'[<<e, n>>], ks)
      PROVE  HasKey(net'[<<e, n>>], kt) \/ Counted(e, n, kt)' \/ Arriving(c, kt)'
  <2>1. Fades => net'[<<e, n>>] = net[<<e, n>>]
    BY <1>1, <1>7, CarrierEnds, NothingQueued DEF Fades, HasKey
  <2>2. CASE HasKey(net[<<e, n>>], ks)
    BY <1>5, <1>6, <2>1, <2>2
  <2>3. CASE ~HasKey(net[<<e, n>>], ks)
    <3>1. e \in up /\ KeyOf(fan_out[e].request) = ks
      BY <1>1, <1>7, <2>3, NewOnLink
    <3>2. Carried(e, n, kt) \/ Arriving(c, kt)
      BY <1>1, <1>2, <3>1 DEF StoredIsCarried
    <3> QED
      BY <1>4, <1>6, <2>1, <3>1, <3>2 DEF Carried
  <2> QED
    BY <2>2, <2>3
<1>8. ASSUME Counted(e, n, ks)'
      PROVE  Counted(e, n, kt)' \/ Arriving(c, kt)'
  <2>1. CASE Counted(e, n, ks)
    BY <1>5, <1>6, <2>1
  <2>2. CASE ~Counted(e, n, ks)
    <3>1. OnPublishReceived(n, e) /\ ks = KeyOf(Head(net[<<e, n>>]))
      BY <1>1, <1>3, <1>8, <2>2, NewlyCounted
    <3>2. HasKey(net[<<e, n>>], ks) /\ ~HasKey(net[<<e, n>>], kt)
      BY <1>1, <1>2, <3>1, OldestCopyFirst
    <3> QED
      BY <1>5, <1>6, <3>2
  <2> QED
    BY <2>1, <2>2
<1> QED
  BY <1>7, <1>8

----------------------------------------------------------------------------
(* Delivering. *)

NoRepeats(p) == \A i, j \in DOMAIN p : p[i] = p[j] => i = j
Covers(q, p) == \A i \in DOMAIN p : \E j \in DOMAIN q : q[j] = p[i]

(* A sequence is as long as one without repetition whose elements it has. *)
LEMMA AtLeastAsLong ==
    ASSUME NEW S, NEW p \in Seq(S), NEW q \in Seq(S),
           NoRepeats(p), Covers(q, p)
    PROVE  Len(p) <= Len(q)
<1> DEFINE I == 1..Len(p)
           E == { p[i] : i \in I }
<1>1. Len(p) \in Nat /\ DOMAIN p = I
  OBVIOUS
<1>2. IsFiniteSet(I) /\ Cardinality(I) = Len(p)
  <2>1. Len(p) \in Nat
    OBVIOUS
  <2> QED
    BY <2>1, PlacesUpTo
<1>3. [i \in I |-> p[i]] \in Bijection(I, E)
  BY <1>1 DEF Bijection, Injection, Surjection, IsInjective, NoRepeats
<1>4. Cardinality(E) = Cardinality(I)
  BY <1>2, <1>3, FS_Bijection DEF ExistsBijection
<1>5. \A e \in E : \E j \in DOMAIN q : q[j] = e
  BY <1>1 DEF Covers
<1> HIDE DEF E, I
<1>6. Cardinality(E) <= Len(q)
  BY <1>5, LongEnough
<1> QED
  BY <1>2, <1>4, <1>6

(* What newly arrives completes a majority. *)
LEMMA NewlyArriving ==
    ASSUME Typed, Settled, Copying, AloneInVector, SubscribesOnce, DeliveredInOnePlace,
           SettledStep, NEW c \in Consumers, NEW k \in Keys,
           Arriving(c, k)', ~Arriving(c, k)
    PROVE  LET n == NuzzleConnection[c] IN
           /\ NuzzleFrame
           /\ \E e \in Engines :
                /\ OnPublishReceived(n, e) /\ k = KeyOf(Head(net[<<e, n>>]))
                /\ Len(copies[n][k]) + 1 = Majority
<1> DEFINE n == NuzzleConnection[c]
           link == <<n, c>>
<1>0. n \in Nuzzles /\ link \in CarrierLinks
  BY ArrivalForm
<1>1. Reached(n, k)'
  BY DEF Arriving, Reached
<1>2. ~Reached(n, k)
  <2>1. \A d \in Consumers : NuzzleConnection[d] = n => d = c
    BY ClientForm DEF ClientOf
  <2> QED
    BY <2>1 DEF Arriving, Reached
<1>3. ~DeliveriesAlone
  BY <1>0 DEF DeliveriesAlone, Arriving
<1>4. ASSUME NEW m \in Nuzzles, Deliver(m), NuzzleFrame PROVE FALSE
  BY <1>0, <1>1, <1>2, <1>4, DeliverPlaces
<1>5. ASSUME NEW d \in Consumers, NEW m \in Nuzzles, OnPublishLogged(d, m), ConsumerFrame
      PROVE  FALSE
  BY <1>0, <1>1, <1>2, <1>5, LogPlaces
<1>6. ASSUME Fades PROVE FALSE
  <2>1. NoDelivery
    <3>1. DeliveryLinks \subseteq CarrierLinks
      BY DEF CarrierLinks, WatchedLinks
    <3> QED
      BY <1>6, <3>1 DEF Fades, NoDelivery, Kept, ProcessFrame, nuzzleVars, consumerVars
  <2> QED
    BY <1>0, <1>1, <1>2, <2>1, NoDeliveryPlaces
<1>7. NuzzleFrame /\ \E m \in Nuzzles, e \in Engines : OnPublishReceived(m, e)
  BY <1>3, <1>4, <1>5, <1>6, LeaveDeliveriesAlone DEF SettledStep
<1>8. PICK m \in Nuzzles, e \in Engines : OnPublishReceived(m, e)
  BY <1>7
<1> PICK request : request = Head(net[<<e, m>>])
  OBVIOUS
<1>9. net'[link] = net[link] /\ log_buffer' = log_buffer
  <2>1. link # <<e, m>>
    BY ProcessesDisjoint
  <2> QED
    BY <1>0, <1>7, <1>8, <2>1, CountEffect DEF NuzzleFrame, consumerVars
<1>10. delivery'[n] # delivery[n] /\ delivery'[n] # Idle /\ KeyOf(delivery'[n].request) = k
  BY <1>0, <1>9 DEF Arriving
<1>11. /\ m = n /\ KeyOf(request) \in Keys
       /\ Len(copies[n][KeyOf(request)]) + 1 = Majority
       /\ delivery'[n] = BeginLoop(request, consumer_subscriptions[n][request.topic_id])
  BY <1>0, <1>8, <1>10, CountForm
<1>12. delivery'[n].request = request
  BY <1>10, <1>11 DEF BeginLoop
<1> QED
  BY <1>7, <1>8, <1>10, <1>11, <1>12

(* What makes the majority has been stored by it, with all that precedes.  *)
LEMMA MajorityInOrder ==
    ASSUME Typed, Settled, Copying, IdsAreUsedOnce, MajorityDelivers, StoredInOrder, NoGaps,
           SentInOrder, CountedInOrder,
           NEW c \in Consumers \cap up, NEW n, n = NuzzleConnection[c], n \in up,
           NEW e \in Engines, OnPublishReceived(n, e),
           NEW s \in Stored, NEW t \in Stored, InUse(s), InUse(t), Precedes(t, s),
           NEW ks, KeyOf(s) = ks, KeyOf(Head(net[<<e, n>>])) = ks, NEW kt, KeyOf(t) = kt,
           Len(copies[n][ks]) + 1 = Majority
    PROVE  Arriving(c, kt)
<1> SUFFICES ASSUME ~Arriving(c, kt) PROVE FALSE
  OBVIOUS
<1> PICK received : received = Append(copies[n][ks], e)
  OBVIOUS
<1>1. /\ n \in Nuzzles /\ ks \in Keys /\ kt \in Keys
      /\ copies[n][ks] \in Seq(Engines) /\ copies[n][kt] \in Seq(Engines)
  <2>1. n \in Nuzzles /\ ks \in Keys /\ kt \in Keys
    BY ConsumerAssumption DEF KeyOf, Keys, Stored
  <2> QED
    BY <2>1, CopyForm
<1>2. /\ received \in Seq(Engines) /\ Len(received) = Majority
      /\ \A i \in DOMAIN received :
           \/ i \in DOMAIN copies[n][ks] /\ received[i] = copies[n][ks][i]
           \/ i = Len(copies[n][ks]) + 1 /\ received[i] = e
  BY <1>1, AppendIndices
<1>3. ASSUME NEW f \in Engines, NEW x \in message_buffer[f], KeyOf(x) = ks
      PROVE  s \in message_buffer[f] /\ t \in message_buffer[f]
  <2>1. x \in Stored /\ InUse(x) /\ x.global_id = s.global_id
    BY <1>3, CopyForm DEF InUse, KeyOf
  <2>2. x = s
    BY <2>1 DEF IdsAreUsedOnce
  <2> QED
    BY <2>2, HeldWithoutGaps
<1>4. /\ s \in message_buffer[e] /\ t \in message_buffer[e]
      /\ HasKey(net[<<e, n>>], ks) /\ ~HasKey(net[<<e, n>>], kt)
  <2>1. net[<<e, n>>] # << >> /\ net[<<e, n>>] \in Seq(Messages) /\ <<e, n>> \in CopyLinks
    BY <1>1, CountEffect, CountForm, MajorityLinks
  <2>2. 1 \in DOMAIN net[<<e, n>>] /\ Head(net[<<e, n>>]) = net[<<e, n>>][1]
    BY <2>1
  <2>3. StoredOf(Head(net[<<e, n>>])) \in message_buffer[e]
    BY <2>1, <2>2 DEF Copying, CopiesAreHeld
  <2>4. KeyOf(StoredOf(Head(net[<<e, n>>]))) = ks
    BY DEF KeyOf, StoredOf
  <2>5. s \in message_buffer[e] /\ t \in message_buffer[e]
    BY <1>3, <2>3, <2>4
  <2> QED
    BY <1>1, <2>5, OldestCopyFirst
<1>5. Counted(e, n, kt) /\ ~Counted(e, n, ks)
  <2>1. Counted(e, n, kt)
    BY <1>4 DEF CountedInOrder
  <2>2. ~Counted(e, n, ks)
    BY <1>1, <1>4 DEF Counted, HasKey, Copying, CopiesAreSentOnce
  <2> QED
    BY <2>1, <2>2
<1>6. \A i \in DOMAIN copies[n][ks] : Counted(copies[n][ks][i], n, kt)
  <2> SUFFICES ASSUME NEW i \in DOMAIN copies[n][ks] PROVE Counted(copies[n][ks][i], n, kt)
    OBVIOUS
  <2> PICK f : f = copies[n][ks][i]
    OBVIOUS
  <2>1. f \in Engines /\ Counted(f, n, ks)
    BY <1>1 DEF Counted
  <2>2. s \in message_buffer[f] /\ t \in message_buffer[f]
    BY <1>1, <1>3, <2>1 DEF Copying, CopiesAreHeld
  <2> QED
    BY <2>1, <2>2 DEF CountedInOrder
<1>7. Covers(copies[n][kt], received)
  BY <1>2, <1>5, <1>6 DEF Counted, Covers
<1>8. NoRepeats(received)
  <2>1. \A i \in DOMAIN copies[n][ks] : copies[n][ks][i] # e
    BY <1>5 DEF Counted
  <2>2. \A i, j \in DOMAIN copies[n][ks] : copies[n][ks][i] = copies[n][ks][j] => i = j
    BY <1>1 DEF Copying, CopiesAreSentOnce
  <2> QED
    BY <1>2, <2>1, <2>2 DEF NoRepeats
<1>9. Majority <= Len(copies[n][kt])
  BY <1>1, <1>2, <1>7, <1>8, AtLeastAsLong
<1>10. Majority \in Nat /\ Len(copies[n][kt]) \in Nat
  BY <1>1, NumbersAssumption DEF Majority
<1> QED
  BY <1>1, <1>9, <1>10 DEF MajorityDelivers

(* What has arrived is stored by an engine. *)
LEMMA ArrivedIsHeld ==
    ASSUME Typed, DeliveredIsStored, NEW c \in Consumers, NEW k, Arriving(c, k)
    PROVE  \E r \in RequestPublish, e \in Engines :
             IsDelivered(r) /\ KeyOf(r) = k /\ StoredOf(r) \in message_buffer[e]
<1> DEFINE n == NuzzleConnection[c]
<1>1. \E r \in RequestPublish : IsDelivered(r) /\ KeyOf(r) = k
  <2>1. CASE delivery[n] # Idle /\ KeyOf(delivery[n].request) = k
    BY <2>1, ArrivalForm DEF IsDelivered
  <2>2. CASE HasKey(net[<<n, c>>], k)
    BY <2>2, ArrivalForm, MajorityLinks DEF IsDelivered, HasKey
  <2>3. CASE HasKey(log_buffer[c], k)
    BY <2>3, ArrivalForm DEF IsDelivered, HasKey
  <2> QED
    BY <2>1, <2>2, <2>3 DEF Arriving
<1>2. PICK r \in RequestPublish : IsDelivered(r) /\ KeyOf(r) = k
  BY <1>1
<1>3. 2 * Cardinality(Holders(r)) > GroupSize
  BY <1>2, DeliveredElements DEF DeliveredIsStored
<1>4. Holders(r) # {}
  BY <1>3, FS_EmptySet, NumbersAssumption
<1> QED
  BY <1>2, <1>4 DEF Holders

(* Publications of one publisher arrive in their order. *)
LEMMA NextArrivesInOrder ==
    ASSUME Typed, Settled, Copying, AloneInVector, SubscribesOnce, DeliveredIsStored,
           DeliveredInOnePlace, IdsAreUsedOnce, IdsAreUsedOnce', MajorityDelivers,
           NumberedInOrder, StoredInOrder, NoGaps, SentInOrder, CountedInOrder,
           ArrivesInOrder, [Next]_vars,
           \A e \in Engines : message_buffer[e] \subseteq message_buffer'[e]
    PROVE  ArrivesInOrder'
<1>0. SettledStep
  BY SettledSteps
<1> SUFFICES ASSUME NEW c \in Consumers, c \in up', NuzzleConnection[c] \in up',
                    NEW s \in Stored, NEW t \in Stored, InUse(s)', InUse(t)',
                    Precedes(t, s), Arriving(c, KeyOf(s))'
             PROVE  Arriving(c, KeyOf(t))'
  BY DEF ArrivesInOrder
<1> PICK n : n = NuzzleConnection[c]
  OBVIOUS
<1>1. n \in Nuzzles /\ n \in up /\ c \in up /\ KeyOf(s) \in Keys /\ KeyOf(t) \in Keys
  <2>1. n \in Nuzzles /\ n \in up /\ c \in up
    BY <1>0, ConsumerAssumption, FewerRun
  <2> QED
    BY <2>1 DEF KeyOf, Keys, Stored
<1>2. CASE Arriving(c, KeyOf(s))
  <2>1. PICK r \in RequestPublish, e \in Engines :
          KeyOf(r) = KeyOf(s) /\ StoredOf(r) \in message_buffer[e]
    BY <1>2, ArrivedIsHeld
  <2>2. StoredOf(r) \in Stored /\ InUse(StoredOf(r)) /\ InUse(StoredOf(r))'
    BY <2>1, CopyForm DEF InUse
  <2>3. StoredOf(r).global_id = s.global_id
    BY <2>1 DEF KeyOf, StoredOf
  <2>4. InUse(s)
    BY <2>2, <2>3 DEF IdsAreUsedOnce
  <2>5. InUse(t)
    <3> SUFFICES ASSUME ~InUse(t) PROVE FALSE
      OBVIOUS
    <3>1. PICK p \in Pumps, b \in Publishers :
            OnPublishReceive(p, b) /\ t = StoredOf(Prepare(p, Head(net[<<b, p>>])))
      BY NewEntries
    <3>2. Ahead(s, t)
      BY <2>4, <3>1, NumberedAfter
    <3> QED
      BY <3>2, AheadOrNot DEF Stored
  <2>6. Arriving(c, KeyOf(t))
    BY <1>1, <1>2, <2>4, <2>5 DEF ArrivesInOrder
  <2> QED
    BY <1>0, <2>6, ArrivingStays
<1>3. CASE ~Arriving(c, KeyOf(s))
  <2>1. /\ NuzzleFrame
        /\ \E e \in Engines :
             /\ OnPublishReceived(n, e) /\ KeyOf(s) = KeyOf(Head(net[<<e, n>>]))
             /\ Len(copies[n][KeyOf(s)]) + 1 = Majority
    BY <1>0, <1>1, <1>3, NewlyArriving
  <2>2. NuzzleStep
    BY <1>1, <2>1 DEF NuzzleStep
  <2>3. InUse(s) /\ InUse(t)
    BY <2>2, NuzzleNothingNew DEF NothingNew
  <2>4. Arriving(c, KeyOf(t))
    BY <1>1, <2>1, <2>3, MajorityInOrder
  <2> QED
    BY <1>0, <2>4, ArrivingStays
<1> QED
  BY <1>2, <1>3

----------------------------------------------------------------------------
(* Logging. *)

(* What a nuzzle begins to deliver comes after all that has arrived. *)
LEMMA LastToArrive ==
    ASSUME Typed, Copying, OneGroup, DeliveredIsStored, DeliveredIsPassed, NumberedOnce,
           ArrivesInOrder,
           NEW c \in Consumers \cap up, NEW n, n = NuzzleConnection[c], n \in up,
           NEW e \in Engines, OnPublishReceived(n, e), NuzzleFrame,
           NEW r, r = Head(net[<<e, n>>]), Len(copies[n][KeyOf(r)]) + 1 = Majority
    PROVE  AllAhead(log_buffer[c], r) /\ AllAhead(net[<<n, c>>], r)
<1>1. /\ n \in Nuzzles /\ r \in RequestPublish /\ KeyOf(r) \in Keys
      /\ copies[n][KeyOf(r)] \in Seq(Engines)
  BY ConsumerAssumption, CountForm
<1>2. Len(Append(copies[n][KeyOf(r)], e)) = Majority
  BY <1>1
<1>3. ~Passed(n, KeyOf(r))
  BY <1>1, <1>2, CountPasses
<1>4. ~Reached(n, KeyOf(r))
  BY <1>1, <1>3 DEF DeliveredIsPassed
<1>5. ~Arriving(c, KeyOf(r))
  BY <1>4 DEF Arriving, Reached
<1>6. StoredOf(r) \in Stored /\ InUse(StoredOf(r)) /\ StoredOf(r).message = r.message
      /\ KeyOf(StoredOf(r)) = KeyOf(r)
  <2>1. net[<<e, n>>] # << >> /\ net[<<e, n>>] \in Seq(Messages) /\ <<e, n>> \in CopyLinks
    BY <1>1, CountEffect, CountForm, MajorityLinks
  <2>2. 1 \in DOMAIN net[<<e, n>>] /\ r = net[<<e, n>>][1]
    BY <2>1
  <2>3. StoredOf(r) \in message_buffer[e]
    BY <2>1, <2>2 DEF Copying, CopiesAreHeld
  <2>4. StoredOf(r) \in Stored /\ InUse(StoredOf(r))
    BY <2>3, CopyForm DEF InUse
  <2> QED
    BY <2>4 DEF StoredOf, KeyOf
<1>7. ASSUME NEW q \in RequestPublish, IsDelivered(q), Arriving(c, KeyOf(q))
      PROVE  Ahead(q, r)
  <2>1. StoredOf(q) \in Stored /\ InUse(StoredOf(q))
    BY <1>7, DeliveredItems DEF OneGroup
  <2>2. StoredOf(q).message = q.message /\ KeyOf(StoredOf(q)) = KeyOf(q)
    BY DEF StoredOf, KeyOf
  <2>3. q.message # r.message
    BY <1>5, <1>6, <1>7, <2>1, <2>2 DEF NumberedOnce
  <2>4. ~Precedes(r, q)
    <3> SUFFICES ASSUME Precedes(StoredOf(r), StoredOf(q)) PROVE FALSE
      BY <1>6, <2>2 DEF Precedes
    <3>1. Arriving(c, KeyOf(StoredOf(r)))
      BY <1>6, <1>7, <2>1, <2>2 DEF ArrivesInOrder
    <3> QED
      BY <1>5, <1>6, <3>1
  <2> QED
    BY <1>1, <1>7, <2>3, <2>4, AheadOrNot DEF RequestPublish
<1>8. AllAhead(log_buffer[c], r)
  <2> SUFFICES ASSUME NEW i \in DOMAIN log_buffer[c] PROVE Ahead(log_buffer[c][i], r)
    BY DEF AllAhead
  <2>1. /\ log_buffer[c][i] \in RequestPublish /\ IsDelivered(log_buffer[c][i])
        /\ Arriving(c, KeyOf(log_buffer[c][i]))
    BY ArrivalForm DEF IsDelivered, Arriving, HasKey
  <2> QED
    BY <1>7, <2>1
<1>9. AllAhead(net[<<n, c>>], r)
  <2> SUFFICES ASSUME NEW i \in DOMAIN net[<<n, c>>] PROVE Ahead(net[<<n, c>>][i], r)
    BY DEF AllAhead
  <2>1. /\ net[<<n, c>>][i] \in RequestPublish /\ IsDelivered(net[<<n, c>>][i])
        /\ Arriving(c, KeyOf(net[<<n, c>>][i]))
    BY <1>1, ArrivalForm, MajorityLinks DEF IsDelivered, Arriving, HasKey
  <2> QED
    BY <1>7, <2>1
<1> QED
  BY <1>8, <1>9

(* A nuzzle sends what it delivers behind what it has sent. *)
LEMMA DeliverInOrder ==
    ASSUME Typed, Settled, AloneInVector, NuzzleFrame, NEW m \in Nuzzles, Deliver(m),
           NEW c \in Consumers, OrderedFor(c)
    PROVE  OrderedFor(c)'
<1> DEFINE n == NuzzleConnection[c]
           link == <<n, c>>
<1>0. /\ n \in Nuzzles /\ link \in CarrierLinks /\ net[link] \in Seq(Messages)
      /\ log_buffer' = log_buffer /\ up' = up
  BY ArrivalForm, DeliverEffect DEF NuzzleFrame, consumerVars
<1>1. CASE m # n
  <2>1. net'[link] = net[link] /\ delivery'[n] = delivery[n]
    BY <1>0, <1>1, DeliverEffect
  <2> QED
    BY <1>0, <2>1 DEF OrderedFor
<1>2. CASE m = n
  <2> PICK r : r = delivery[n].request
    OBVIOUS
  <2>1. /\ delivery[n] # Idle /\ delivery'[n] = Idle /\ r \in Messages
        /\ net'[link] = IF c \in up THEN Append(net[link], r) ELSE net[link]
    BY <1>0, <1>2, DeliverEffect, ArrivalForm
  <2>2. CASE c \notin up
    BY <1>0, <2>1, <2>2 DEF OrderedFor
  <2>3. CASE c \in up
    <3>1. /\ InOrder(log_buffer[c]) /\ InOrder(net[link])
          /\ \A j \in DOMAIN net[link] : AllAhead(log_buffer[c], net[link][j])
          /\ AllAhead(log_buffer[c], r) /\ AllAhead(net[link], r)
      BY <2>1, <2>3 DEF OrderedFor
    <3>2. InOrder(Append(net[link], r))
      BY <1>0, <2>1, <3>1, AppendInOrder
    <3>3. \A j \in DOMAIN Append(net[link], r) :
            \/ j \in DOMAIN net[link] /\ Append(net[link], r)[j] = net[link][j]
            \/ Append(net[link], r)[j] = r
      BY <1>0, <2>1, AppendIndices
    <3>4. \A j \in DOMAIN Append(net[link], r) :
            AllAhead(log_buffer[c], Append(net[link], r)[j])
      BY <3>1, <3>3
    <3> QED
      BY <1>0, <2>1, <2>3, <3>1, <3>2, <3>4 DEF OrderedFor
  <2> QED
    BY <2>2, <2>3
<1> QED
  BY <1>1, <1>2

(* A consumer logs the oldest of what it is sent. *)
LEMMA LogInOrder ==
    ASSUME Typed, DeliveredInOnePlace, ConsumerFrame, NEW d \in Consumers, NEW m \in Nuzzles,
           OnPublishLogged(d, m), NEW c \in Consumers, OrderedFor(c)
    PROVE  OrderedFor(c)'
<1> DEFINE n == NuzzleConnection[c]
           link == <<n, c>>
<1>0. /\ n \in Nuzzles /\ link \in CarrierLinks /\ net[link] \in Seq(Messages)
      /\ log_buffer[c] \in Seq(RequestPublish)
      /\ delivery' = delivery /\ up' = up
  BY ArrivalForm, LogEffect DEF ConsumerFrame, nuzzleVars
<1>1. /\ InOrder(log_buffer[c]) /\ InOrder(net[link])
      /\ \A j \in DOMAIN net[link] : AllAhead(log_buffer[c], net[link][j])
      /\ c \in up /\ delivery[n] # Idle =>
           AllAhead(log_buffer[c], delivery[n].request) /\ AllAhead(net[link], delivery[n].request)
  BY DEF OrderedFor
<1>2. CASE d # c
  <2>1. net'[link] = net[link] /\ log_buffer'[c] = log_buffer[c]
    BY <1>0, <1>2, LogEffect, ArrivalForm
  <2> QED
    BY <1>0, <1>1, <2>1 DEF OrderedFor
<1>3. CASE d = c
  <2>0. m = n
    BY <1>3, LogPlaces
  <2> PICK r : r = Head(net[link])
    OBVIOUS
  <2>1. /\ net[link] # << >> /\ net'[link] = Tail(net[link])
        /\ log_buffer'[c] = Append(log_buffer[c], r)
    BY <1>0, <1>3, <2>0, LogEffect, ArrivalForm
  <2>2. r \in RequestPublish
    <3>1. 1 \in DOMAIN net[link] /\ r = net[link][1]
      BY <1>0, <2>1
    <3> QED
      BY <1>0, <3>1, ArrivalForm
  <2>3. /\ InOrder(Tail(net[link]))
        /\ \A j \in DOMAIN Tail(net[link]) : Ahead(r, Tail(net[link])[j])
        /\ \A j \in DOMAIN Tail(net[link]) : \E i \in DOMAIN net[link] : Tail(net[link])[j] = net[link][i]
        /\ \E i \in DOMAIN net[link] : r = net[link][i]
    BY <1>0, <1>1, <2>1, TailInOrder
  <2>4. AllAhead(log_buffer[c], r)
    BY <1>1, <2>3
  <2>5. InOrder(Append(log_buffer[c], r))
    BY <1>0, <1>1, <2>2, <2>4, AppendInOrder
  <2>6. \A x : AllAhead(log_buffer[c], x) /\ Ahead(r, x) => AllAhead(Append(log_buffer[c], r), x)
    <3>1. \A j \in DOMAIN Append(log_buffer[c], r) :
            \/ j \in DOMAIN log_buffer[c] /\ Append(log_buffer[c], r)[j] = log_buffer[c][j]
            \/ Append(log_buffer[c], r)[j] = r
      BY <1>0, <2>2, AppendIndices
    <3> QED
      BY <3>1 DEF AllAhead
  <2>7. \A j \in DOMAIN Tail(net[link]) : AllAhead(Append(log_buffer[c], r), Tail(net[link])[j])
    BY <1>1, <2>3, <2>6
  <2>8. ASSUME c \in up, delivery[n] # Idle
        PROVE  /\ AllAhead(Append(log_buffer[c], r), delivery[n].request)
               /\ AllAhead(Tail(net[link]), delivery[n].request)
    <3>1. Ahead(r, delivery[n].request)
      BY <1>1, <2>3, <2>8 DEF AllAhead
    <3>2. AllAhead(Tail(net[link]), delivery[n].request)
      BY <1>1, <2>3, <2>8 DEF AllAhead
    <3> QED
      BY <1>1, <2>6, <2>8, <3>1, <3>2
  <2> QED
    BY <1>0, <2>1, <2>3, <2>5, <2>7, <2>8 DEF OrderedFor
<1> QED
  BY <1>2, <1>3

(* A nuzzle begins to deliver what comes last. *)
LEMMA CountInOrder ==
    ASSUME Typed, Copying, OneGroup, DeliveredIsStored, DeliveredIsPassed, NumberedOnce,
           ArrivesInOrder, NuzzleFrame, NEW m \in Nuzzles, NEW e \in Engines,
           OnPublishReceived(m, e), NEW c \in Consumers, OrderedFor(c)
    PROVE  OrderedFor(c)'
<1> DEFINE n == NuzzleConnection[c]
           link == <<n, c>>
<1>0. /\ n \in Nuzzles /\ net'[link] = net[link] /\ log_buffer' = log_buffer
      /\ up' = up /\ m \in up
  <2>1. n \in Nuzzles /\ link \in CarrierLinks
    BY ArrivalForm
  <2>2. link # <<e, m>>
    BY ProcessesDisjoint
  <2> QED
    BY <2>1, <2>2, CountEffect DEF NuzzleFrame, consumerVars
<1>1. CASE delivery'[n] = delivery[n]
  BY <1>0, <1>1 DEF OrderedFor
<1>2. CASE delivery'[n] # delivery[n]
  <2> PICK r : r = Head(net[<<e, m>>])
    OBVIOUS
  <2>1. /\ m = n /\ Len(copies[n][KeyOf(r)]) + 1 = Majority
        /\ delivery'[n] = BeginLoop(r, consumer_subscriptions[n][r.topic_id])
    BY <1>0, <1>2, CountForm
  <2>2. delivery'[n] # Idle => delivery'[n].request = r
    BY <2>1 DEF BeginLoop
  <2>3. c \in up => AllAhead(log_buffer[c], r) /\ AllAhead(net[link], r)
    BY <1>0, <2>1, LastToArrive
  <2> QED
    BY <1>0, <2>2, <2>3 DEF OrderedFor
<1> QED
  BY <1>1, <1>2

(* Nothing else is delivered. *)
LEMMA NextDeliveredInOrder ==
    ASSUME Typed, Settled, Copying, AloneInVector, OneGroup, DeliveredIsStored,
           DeliveredIsPassed, DeliveredInOnePlace, NumberedOnce, ArrivesInOrder,
           DeliveredInOrder, SettledStep
    PROVE  DeliveredInOrder'
<1> SUFFICES ASSUME NEW c \in Consumers PROVE OrderedFor(c)'
  BY DEF DeliveredInOrder
<1>0. OrderedFor(c)
  BY DEF DeliveredInOrder
<1> DEFINE n == NuzzleConnection[c]
           link == <<n, c>>
<1>1. n \in Nuzzles /\ link \in CarrierLinks
  BY ArrivalForm
<1>2. ASSUME DeliveriesAlone, up' = up PROVE OrderedFor(c)'
  BY <1>0, <1>1, <1>2 DEF DeliveriesAlone, OrderedFor
<1>3. ASSUME Fades PROVE OrderedFor(c)'
  <2>1. /\ net'[link] = net[link] \/ net'[link] = << >>
        /\ up' \subseteq up /\ UNCHANGED <<delivery, log_buffer>>
    BY <1>1, <1>3 DEF Fades, ProcessFrame, nuzzleVars, consumerVars
  <2>2. InOrder(<< >>) /\ DOMAIN << >> = {} /\ \A x : AllAhead(<< >>, x)
    BY NothingQueued DEF InOrder, AllAhead
  <2> QED
    BY <1>0, <2>1, <2>2 DEF OrderedFor
<1> QED
  BY <1>0, <1>2, <1>3, LeaveDeliveriesAlone, CountInOrder, DeliverInOrder, LogInOrder
  DEF SettledStep

----------------------------------------------------------------------------
(* The order of a consumer's log. *)

(* What the order rests on besides. *)
DeliversOnce == Delivery /\ StoredIsPublished /\ NumberedOnce /\ EntriesAreEverywhere

(* Nothing is out of order at the start, ... *)
LEMMA NothingOutOfOrderYet ==
    ASSUME SettledInit, Working
    PROVE  DeliversOnce /\ Ordered
<1>0. /\ \A l \in Links : net[l] = << >>
      /\ \A e \in Engines : fan_out[e] = Idle /\ message_buffer[e] = {}
      /\ \A n \in Nuzzles : delivery[n] = Idle
      /\ \A n \in Nuzzles, k \in Keys : copies[n][k] = << >>
      /\ \A c \in Consumers : log_buffer[c] = << >>
      /\ \A l \in PublishLinks : net[l] = << >>
      /\ \A l \in PrepareLinks \cup CopyLinks \cup DeliveryLinks : net[l] = << >>
  BY StartsEmpty DEF WatchedLinks, EngineLinks
<1>1. InOrder(<< >>) /\ DOMAIN << >> = {} /\ \A k : ~HasKey(<< >>, k)
  BY NothingQueued DEF InOrder, HasKey
<1>2. \A s : ~InUse(s)
  BY <1>0, <1>1 DEF InUse, Prepared
<1>3. \A e \in Engines : \A s : ~Has(e, s)
  BY <1>0, <1>1, MajorityLinks DEF Has
<1>4. \A c \in Consumers, n \in Nuzzles : net[<<n, c>>] = << >> /\ <<n, c>> \in DeliveryLinks
  BY <1>0, MajorityLinks
<1>5. \A c \in Consumers : NuzzleConnection[c] \in Nuzzles
  BY ConsumerAssumption
<1>6. \A c \in Consumers : \A k : ~Arriving(c, k)
  BY <1>0, <1>1, <1>4, <1>5 DEF Arriving
<1>7. NumberedInOrder /\ StoredInOrder /\ NoGaps /\ SentInOrder
  BY <1>0, <1>1, <1>2, <1>3 DEF NumberedInOrder, StoredInOrder, NoGaps, SentInOrder
<1>8. CountedInOrder /\ ArrivesInOrder
  BY <1>0, <1>2 DEF CountedInOrder, ArrivesInOrder
<1>9. DeliveredInOrder
  BY <1>0, <1>1, <1>4, <1>5 DEF DeliveredInOrder, OrderedFor
<1>10. StoredIsPublished /\ NumberedOnce /\ EntriesAreEverywhere
  BY <1>0, <1>2 DEF StoredIsPublished, NumberedOnce, EntriesAreEverywhere
<1>11. Delivery
  <2>1. \A n \in Nuzzles : \A k : ~Reached(n, k)
    BY <1>0, <1>1, <1>4 DEF Reached
  <2>2. DeliveredInOnePlace
    BY <1>0, <1>1, <1>4, <1>5 DEF DeliveredInOnePlace, KeysOnce
  <2> QED
    BY <2>1, <2>2 DEF Delivery, DeliveredIsPassed, Working
<1> QED
  BY <1>7, <1>8, <1>9, <1>10, <1>11 DEF Ordered, DeliversOnce

(* ... and no step puts it out of order. *)
LEMMA OrderGoesOn ==
    ASSUME OneCounter, IdsSuffice, SubscribesOnce, OneGroup, Working, Lossless, DeliversOnce,
           Ordered, [Next]_vars
    PROVE  DeliversOnce' /\ Ordered'
<1>1. /\ Working' /\ SettledStep
      /\ \A e \in Engines : message_buffer[e] \subseteq message_buffer'[e]
  BY SettledGoesOn DEF OneGroup
<1>2. /\ Typed /\ Integrity /\ Replication /\ AskedOnce /\ Copying /\ AloneInVector
      /\ DeliveredIsStored /\ Settled
  BY DEF Working
<1>3. IdsAreUsedOnce /\ IdsAreUsedOnce'
  BY <1>1, <1>2 DEF Working, Replication
<1>4. RegisteredOnce
  BY <1>2 DEF AskedOnce, RegisteredOnce, TopicsOnce, UpdateLinks
<1>5. /\ Delivery /\ DeliveredIsPassed /\ DeliveredInOnePlace
      /\ StoredIsPublished /\ NumberedOnce /\ EntriesAreEverywhere
  BY DEF DeliversOnce, Delivery
<1>6. /\ NumberedInOrder /\ StoredInOrder /\ NoGaps /\ SentInOrder /\ CountedInOrder
      /\ ArrivesInOrder /\ DeliveredInOrder
  BY DEF Ordered
<1>7. StoredIsCarried /\ MajorityDelivers
  BY DEF Lossless
<1>8. DeliversOnce'
  <2>1. DeliveredInOnePlace' /\ DeliveredIsPassed'
    BY <1>2, <1>4, <1>5, NextPlaces
  <2>2. AloneInVector'
    BY <1>1 DEF Working
  <2>3. StoredIsPublished' /\ NumberedOnce'
    BY <1>2, <1>5, NextStoredPublished, NextNumberedOnce
  <2>4. EntriesAreEverywhere'
    BY <1>1, <1>2, <1>5, NextEntriesAreEverywhere
  <2> QED
    BY <2>1, <2>2, <2>3, <2>4 DEF DeliversOnce, Delivery
<1>9. NumberedInOrder' /\ StoredInOrder'
  BY <1>1, <1>2, <1>5, <1>6, NextNumberedInOrder, NextStoredInOrder
<1>10. NoGaps'
  BY <1>1, <1>2, <1>3, <1>5, <1>6, NextNoGaps
<1>11. SentInOrder' /\ CountedInOrder'
  BY <1>1, <1>2, <1>3, <1>6, <1>7, NextSentInOrder, NextCountedInOrder
<1>12. ArrivesInOrder'
  BY <1>1, <1>2, <1>3, <1>5, <1>6, <1>7, NextArrivesInOrder
<1>13. DeliveredInOrder'
  BY <1>1, <1>2, <1>5, <1>6, NextDeliveredInOrder
<1> QED
  BY <1>8, <1>9, <1>10, <1>11, <1>12, <1>13 DEF Ordered

(* A consumer that joined before anything was published logs every         *)
(* publisher's publications in the order they were published, whichever    *)
(* engines' copies make the majorities and whatever fails: a connection    *)
(* keeps the order, the pump's one thread numbers in it, and a majority    *)
(* for a publication is one for all its engines stored before (pump.cpp    *)
(* on_publish_receive, engine.cpp on_prepare_receive, nuzzle.cpp           *)
(* on_publish_receive).                                                    *)
THEOREM LoggedAlwaysInOrder ==
    ASSUME OneCounter, IdsSuffice, SubscribesOnce, OneGroup, IsFiniteSet(Nuzzles)
    PROVE  SettledSpec => []LoggedInOrder
<1>1. IsFiniteSet(Engines)
  BY DEF OneGroup
<1>2. SettledInit => Working /\ Lossless /\ DeliversOnce /\ Ordered
  BY SettledWorks, NothingLostYet, NothingOutOfOrderYet
<1>3. Working /\ Lossless /\ [Next]_vars => Working' /\ Lossless'
  BY <1>1, SettledGoesOn, LosslessGoesOn
<1>4. Working /\ Lossless /\ DeliversOnce /\ Ordered /\ [Next]_vars => DeliversOnce' /\ Ordered'
  BY OrderGoesOn
<1>5. Ordered => LoggedInOrder
  BY DEF Ordered, DeliveredInOrder, OrderedFor, InOrder, Ahead, LoggedInOrder
<1> QED
  BY <1>2, <1>3, <1>4, <1>5, PTL DEF SettledSpec
=============================================================================
