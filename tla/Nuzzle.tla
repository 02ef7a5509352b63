------------------------------- MODULE Nuzzle -------------------------------
(***************************************************************************)
(* The nuzzle.  Its engine server's thread counts the copies of each       *)
(* publication and delivers it to the subscribed consumers when the count  *)
(* reaches a majority of GroupSize; its consumer server's thread adds and  *)
(* removes subscriptions and passes each one on to every engine connected. *)
(***************************************************************************)
EXTENDS SubscriberLoop

VARIABLES
    nuzzle_engines,         \* the engines connected so far
    copies,                 \* the nuzzle's message_buffer
    consumer_subscriptions, \* the nuzzle's subscriptions, a vector per topic
    joining,                \* the subscription the consumer thread is adding
    delivery                \* the engine thread's loop over subscriptions

nuzzleVars ==
    <<nuzzle_engines, copies, consumer_subscriptions, joining, delivery>>

Keys == Topics \X GlobalIds

ASSUME JoiningAssumption == Idle \notin Consumers \X Topics

NuzzleTypeOK ==
    /\ nuzzle_engines \in [Nuzzles -> SUBSET Engines]
    /\ copies \in [Nuzzles -> [Keys -> Seq(Engines)]]
    /\ consumer_subscriptions \in [Nuzzles -> [Topics -> Seq(Consumers)]]
    /\ joining \in [Nuzzles -> (Consumers \X Topics) \cup {Idle}]
    /\ delivery \in [Nuzzles -> LoopOver(Consumers) \cup {Idle}]
    /\ \A n \in Nuzzles :
         delivery[n] # Idle => delivery[n].next <= Len(delivery[n].range)

NuzzleInit ==
    /\ nuzzle_engines = [n \in Nuzzles |-> {}]
    /\ copies = [n \in Nuzzles |-> [k \in Keys |-> << >>]]
    /\ consumer_subscriptions = [n \in Nuzzles |-> [t \in Topics |-> << >>]]
    /\ joining = [n \in Nuzzles |-> Idle]
    /\ delivery = [n \in Nuzzles |-> Idle]

MajorityHalf == (GroupSize + 1) \div 2
MajorityOne == GroupSize \div 2
MajorityAll == GroupSize

(* floor(1 + group_size / 2), an integer division. *)
Majority == 1 + (GroupSize \div 2)

NuzzleConnectToEngine(n, e) ==
    /\ n \in up
    /\ e \notin nuzzle_engines[n]
    /\ \/ /\ e \in up
          /\ stream' = Connected(n, e)
          /\ nuzzle_engines' = [nuzzle_engines EXCEPT ![n] = @ \cup {e}]
          /\ UNCHANGED <<up, failed, net>>
       \/ /\ e \notin up
          /\ Exit(n)
          /\ UNCHANGED <<failed, nuzzle_engines>>
    /\ UNCHANGED <<copies, consumer_subscriptions, joining, delivery>>

----------------------------------------------------------------------------
(* The engine server's thread. *)

CompletesMajorityAgain(received) == Len(received) >= Majority

(* The copy that makes the majority is the one delivered. *)
CompletesMajority(received) == Len(received) = Majority

ForgottenLate(received) == IF Len(received) > GroupSize THEN << >> ELSE received

(* A publication that has reached every engine of its group is forgotten. *)
Forgotten(received) == IF Len(received) = GroupSize THEN << >> ELSE received

OnPublishReceived(n, e) ==
    /\ Arrived(e, n, "req_publish")
    /\ delivery[n] = Idle
    /\ LET request == Head(net[<<e, n>>])
           key == <<request.topic_id, request.global_id>>
           received == Append(copies[n][key], e)
       IN  /\ copies' = [copies EXCEPT ![n][key] = Forgotten(received)]
           /\ delivery' =
                IF CompletesMajority(received)
                THEN [delivery EXCEPT ![n] =
                   BeginLoop(request, consumer_subscriptions[n][request.topic_id])]
                ELSE delivery
    /\ net' = Taken(<<e, n>>)
    /\ UNCHANGED <<up, failed, stream, nuzzle_engines, consumer_subscriptions, joining>>

Deliver(n) ==
    /\ n \in up
    /\ delivery[n] # Idle
    /\ \E c \in LoopReads(delivery[n],
                  consumer_subscriptions[n][delivery[n].request.topic_id]) :
         /\ net' = Posted(net, n, {c}, delivery[n].request)
         /\ stream' = Touched(n, {c})
    /\ delivery' = [delivery EXCEPT ![n] = AdvanceLoop(@)]
    /\ UNCHANGED <<up, failed, nuzzle_engines, copies, consumer_subscriptions, joining>>

----------------------------------------------------------------------------
(* The consumer server's thread. *)

ForwardSubscribe(request, sender_id) ==
    [type |-> "req_update_subscription", topic_id |-> request.topic_id,
     action |-> 1, sender_id |-> sender_id]

Forward(request, sender_id) ==
    [type |-> "req_update_subscription", topic_id |-> request.topic_id,
     action |-> request.action, sender_id |-> sender_id]

(* The engines are told first, whether or not another consumer of this     *)
(* nuzzle already has them publish the topic.                              *)
NuzzleSubscribe(n, c) ==
    /\ Arrived(c, n, "req_update_subscription")
    /\ joining[n] = Idle
    /\ LET request == Head(net[<<c, n>>])
       IN  /\ request.action = 1
           /\ joining' = [joining EXCEPT ![n] = <<c, request.topic_id>>]
           /\ \E sender_id \in SenderIds :
                net' = Posted(Taken(<<c, n>>), n, nuzzle_engines[n],
                              Forward(request, sender_id))
    /\ stream' = Touched(n, nuzzle_engines[n])
    /\ UNCHANGED <<up, failed, nuzzle_engines, copies, consumer_subscriptions, delivery>>

(* ... and the consumer is added to the vector after that. *)
NuzzleSubscribed(n) ==
    /\ n \in up
    /\ joining[n] # Idle
    /\ consumer_subscriptions' =
         [consumer_subscriptions EXCEPT ![n][joining[n][2]] = Append(@, joining[n][1])]
    /\ joining' = [joining EXCEPT ![n] = Idle]
    /\ UNCHANGED <<transportVars, nuzzle_engines, copies, delivery>>

NuzzleUnsubscribe(n, c) ==
    /\ Arrived(c, n, "req_update_subscription")
    /\ joining[n] = Idle
    /\ LET request == Head(net[<<c, n>>])
           t == request.topic_id
       IN  /\ request.action = 0
           /\ Contains(consumer_subscriptions[n][t], c)
           /\ consumer_subscriptions' =
                [consumer_subscriptions EXCEPT ![n][t] = Erased(@, c)]
           /\ \E sender_id \in SenderIds :
                net' = Posted(Taken(<<c, n>>), n, nuzzle_engines[n],
                              Forward(request, sender_id))
    /\ stream' = Touched(n, nuzzle_engines[n])
    /\ UNCHANGED <<up, failed, nuzzle_engines, copies, joining, delivery>>

(* erase(end()) on a consumer that is not subscribed. *)
NuzzleUnsubscribeUnknown(n, c) ==
    /\ Arrived(c, n, "req_update_subscription")
    /\ joining[n] = Idle
    /\ LET request == Head(net[<<c, n>>])
       IN  /\ request.action = 0
           /\ ~Contains(consumer_subscriptions[n][request.topic_id], c)
    /\ Crash(n)
    /\ UNCHANGED nuzzleVars

(* The consumer thread writes a map or a vector the engine thread reads,   *)
(* or reads engine_connections while main adds to it.  The outcomes short  *)
(* of a crash are those of LoopReads and of the interleaved actions.       *)
NuzzleRaceCrash(n) ==
    /\ n \in up
    /\ \/ delivery[n] # Idle /\ joining[n] # Idle
       \/ /\ delivery[n] # Idle \/ nuzzle_engines[n] # Engines
          /\ \E c \in Consumers : Arrived(c, n, "req_update_subscription")
    /\ Crash(n)
    /\ UNCHANGED nuzzleVars
=============================================================================
