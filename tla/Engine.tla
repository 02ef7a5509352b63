------------------------------- MODULE Engine -------------------------------
(***************************************************************************)
(* The engine.  Its pump server's thread stores each prepared publication, *)
(* acknowledges it and publishes it to the nuzzles subscribed to its       *)
(* topic; its nuzzle server's thread adds and removes subscriptions.  The  *)
(* two threads share subscriptions without a lock.                         *)
(***************************************************************************)
EXTENDS SubscriberLoop

VARIABLES
    message_buffer,        \* the prepared publications an engine holds
    subscriptions,         \* subscriptions[e][t]: the vector of nuzzles
    client_subscriptions,  \* [e][t][n]: the client ids registered through n
    fan_out                \* the pump thread's loop over subscriptions

engineVars == <<message_buffer, subscriptions, client_subscriptions, fan_out>>

Stored == [topic_id : Topics, global_id : GlobalIds, message : Publications]

EngineTypeOK ==
    /\ message_buffer \in [Engines -> SUBSET Stored]
    /\ subscriptions \in [Engines -> [Topics -> Seq(Nuzzles)]]
    /\ client_subscriptions \in
         [Engines -> [Topics -> [Nuzzles -> Seq(SenderIds)]]]
    /\ fan_out \in [Engines -> LoopOver(Nuzzles) \cup {Idle}]
    /\ \A e \in Engines :
         fan_out[e] # Idle => fan_out[e].next <= Len(fan_out[e].range)

(* A topic absent from a map and one with an empty entry behave alike. *)
EngineInit ==
    /\ message_buffer = [e \in Engines |-> {}]
    /\ subscriptions = [e \in Engines |-> [t \in Topics |-> << >>]]
    /\ client_subscriptions =
         [e \in Engines |-> [t \in Topics |-> [n \in Nuzzles |-> << >>]]]
    /\ fan_out = [e \in Engines |-> Idle]

----------------------------------------------------------------------------
(* The pump server's thread. *)

SameKey(r, s) == r.topic_id = s.topic_id /\ r.global_id = s.global_id

StoredOf(request) ==
    [topic_id |-> request.topic_id, global_id |-> request.global_id,
     message |-> request.message]

(* insert() finds the entry of an id already used; it is then assigned. *)
Store(buffer, request) ==
    {r \in buffer : ~SameKey(r, request)} \cup {StoredOf(request)}

PrepareAckMistyped(request) ==
    [type |-> "req_prepare", topic_id |-> request.topic_id,
     global_id |-> request.global_id]

PrepareAck(request) ==
    [type |-> "rsp_prepare", topic_id |-> request.topic_id,
     global_id |-> request.global_id]

PublishOf(request) ==
    [type |-> "req_publish", topic_id |-> request.topic_id,
     global_id |-> request.global_id, message |-> request.message]

OnPrepareReceive(e, p) ==
    /\ Arrived(p, e, "req_prepare")
    /\ fan_out[e] = Idle
    /\ LET request == Head(net[<<p, e>>])
       IN  /\ message_buffer' = [message_buffer EXCEPT ![e] = Store(@, request)]
           /\ net' = Posted(Taken(<<p, e>>), e, {p}, PrepareAck(request))
           /\ fan_out' = [fan_out EXCEPT ![e] =
                BeginLoop(PublishOf(request), subscriptions[e][request.topic_id])]
    /\ stream' = Touched(e, {p})
    /\ UNCHANGED <<up, failed, subscriptions, client_subscriptions>>

FanOutPublish(e) ==
    /\ e \in up
    /\ fan_out[e] # Idle
    /\ \E n \in LoopReads(fan_out[e], subscriptions[e][fan_out[e].request.topic_id]) :
         /\ net' = Posted(net, e, {n}, fan_out[e].request)
         /\ stream' = Touched(e, {n})
    /\ fan_out' = [fan_out EXCEPT ![e] = AdvanceLoop(@)]
    /\ UNCHANGED <<up, failed, message_buffer, subscriptions, client_subscriptions>>

----------------------------------------------------------------------------
(* The nuzzle server's thread. *)

EngineSubscribe(e, n) ==
    /\ Arrived(n, e, "req_update_subscription")
    /\ LET request == Head(net[<<n, e>>])
           t == request.topic_id
       IN  /\ request.action = 1
           /\ subscriptions' = [subscriptions EXCEPT ![e][t] = Append(@, n)]
           /\ client_subscriptions' = [client_subscriptions EXCEPT ![e][t][n] =
                                         Append(@, request.sender_id)]
    /\ net' = Taken(<<n, e>>)
    /\ UNCHANGED <<up, failed, stream, message_buffer, fan_out>>

(* Whether the two find() calls of an unsubscription find what they erase. *)
FindsRegistration(e, n, t, sender_id) ==
    /\ Contains(client_subscriptions[e][t][n], sender_id)
    /\ Len(client_subscriptions[e][t][n]) = 1 => Contains(subscriptions[e][t], n)

FedAfterNever(vector, n, clients) == SelectSeq(vector, LAMBDA m : m # n)

(* The vector keeps its entries for n until n's last client leaves, and    *)
(* then loses one of them.                                                 *)
FedAfter(vector, n, clients) ==
    IF clients = << >> THEN Erased(vector, n) ELSE vector

EngineUnsubscribe(e, n) ==
    /\ Arrived(n, e, "req_update_subscription")
    /\ LET request == Head(net[<<n, e>>])
           t == request.topic_id
           clients == Erased(client_subscriptions[e][t][n], request.sender_id)
       IN  /\ request.action = 0
           /\ FindsRegistration(e, n, t, request.sender_id)
           /\ client_subscriptions' =
                [client_subscriptions EXCEPT ![e][t][n] = clients]
           /\ subscriptions' =
                [subscriptions EXCEPT ![e][t] = FedAfter(@, n, clients)]
    /\ net' = Taken(<<n, e>>)
    /\ UNCHANGED <<up, failed, stream, message_buffer, fan_out>>

(* erase(end()) moves a range of length -1. *)
EngineUnsubscribeUnknown(e, n) ==
    /\ Arrived(n, e, "req_update_subscription")
    /\ LET request == Head(net[<<n, e>>])
       IN  /\ request.action = 0
           /\ ~FindsRegistration(e, n, request.topic_id, request.sender_id)
    /\ Crash(e)
    /\ UNCHANGED engineVars

(* The nuzzle thread writes a map or a vector the pump thread is reading.  *)
(* The outcomes short of a crash are those of LoopReads.                   *)
EngineRaceCrash(e, n) ==
    /\ Arrived(n, e, "req_update_subscription")
    /\ fan_out[e] # Idle
    /\ Crash(e)
    /\ UNCHANGED engineVars
=============================================================================
