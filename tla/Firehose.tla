------------------------------ MODULE Firehose ------------------------------
(***************************************************************************)
(* A whole deployment: publishers, pumps, engines, nuzzles and consumers   *)
(* over one transport, the threads of every process interleaved.           *)
(***************************************************************************)
EXTENDS Publisher, Pump, Engine, Nuzzle, Consumer

vars == <<transportVars, publisherVars, pumpVars, engineVars, nuzzleVars,
          consumerVars>>

TypeOK ==
    /\ TransportTypeOK
    /\ PublisherTypeOK
    /\ PumpTypeOK
    /\ EngineTypeOK
    /\ NuzzleTypeOK
    /\ ConsumerTypeOK

Init ==
    /\ TransportInit
    /\ PublisherInit
    /\ PumpInit
    /\ EngineInit
    /\ NuzzleInit
    /\ ConsumerInit

PublisherFrame == UNCHANGED <<pumpVars, engineVars, nuzzleVars, consumerVars>>
PumpFrame == UNCHANGED <<publisherVars, engineVars, nuzzleVars, consumerVars>>
EngineFrame == UNCHANGED <<publisherVars, pumpVars, nuzzleVars, consumerVars>>
NuzzleFrame == UNCHANGED <<publisherVars, pumpVars, engineVars, consumerVars>>
ConsumerFrame == UNCHANGED <<publisherVars, pumpVars, engineVars, nuzzleVars>>
ProcessFrame ==
    UNCHANGED <<publisherVars, pumpVars, engineVars, nuzzleVars, consumerVars>>

PublisherStep == (\E b \in Publishers : Publish(b)) /\ PublisherFrame

PumpStep ==
    /\ \E p \in Pumps :
         \/ \E e \in Engines : PumpConnectToEngine(p, e)
         \/ \E b \in Publishers : OnPublishReceive(p, b)
         \/ \E b \in Publishers : OnPublishReceiveWild(p, b)
         \/ \E e \in Engines : OnPrepareAckReceive(p, e)
    /\ PumpFrame

EngineStep ==
    /\ \E e \in Engines :
         \/ \E p \in Pumps : OnPrepareReceive(e, p)
         \/ FanOutPublish(e)
         \/ \E n \in Nuzzles : EngineSubscribe(e, n)
         \/ \E n \in Nuzzles : EngineUnsubscribe(e, n)
         \/ \E n \in Nuzzles : EngineUnsubscribeUnknown(e, n)
         \/ \E n \in Nuzzles : EngineRaceCrash(e, n)
    /\ EngineFrame

NuzzleStep ==
    /\ \E n \in Nuzzles :
         \/ \E e \in Engines : NuzzleConnectToEngine(n, e)
         \/ \E e \in Engines : OnPublishReceived(n, e)
         \/ Deliver(n)
         \/ \E c \in Consumers : NuzzleSubscribe(n, c)
         \/ NuzzleSubscribed(n)
         \/ \E c \in Consumers : NuzzleUnsubscribe(n, c)
         \/ \E c \in Consumers : NuzzleUnsubscribeUnknown(n, c)
         \/ NuzzleRaceCrash(n)
    /\ NuzzleFrame

ConsumerStep ==
    /\ \E c \in Consumers :
         \/ ConsumerUpdateSubscription(c)
         \/ \E n \in Nuzzles : OnPublishLogged(c, n)
    /\ ConsumerFrame

TransportStep ==
    /\ \/ \E d \in Processes : Kill(d)
       \/ \E l \in Links : LoseInFlight(l)
       \/ \E l \in Links : PeerClosed(l[1], l[2])
       \/ \E l \in Links : PeerReset(l[1], l[2])
    /\ ProcessFrame

Next == PublisherStep \/ PumpStep \/ EngineStep \/ NuzzleStep \/ ConsumerStep
          \/ TransportStep

Spec == Init /\ [][Next]_vars

(* Every network thread runs its io_service for ever, so a message that    *)
(* has arrived is handled and a loop that has begun goes on.  Nothing is   *)
(* assumed of publishers, of connecting, or of failures.                   *)
Fairness ==
    /\ \A p \in Pumps, b \in Publishers : WF_vars(OnPublishReceive(p, b) /\ PumpFrame)
    /\ \A e \in Engines, p \in Pumps : WF_vars(OnPrepareReceive(e, p) /\ EngineFrame)
    /\ \A e \in Engines : WF_vars(FanOutPublish(e) /\ EngineFrame)
    /\ \A n \in Nuzzles, e \in Engines :
         WF_vars(OnPublishReceived(n, e) /\ NuzzleFrame)
    /\ \A n \in Nuzzles : WF_vars(Deliver(n) /\ NuzzleFrame)
    /\ \A c \in Consumers, n \in Nuzzles :
         WF_vars(OnPublishLogged(c, n) /\ ConsumerFrame)

(* A deployment in which every server has made its connections: with no    *)
(* subscription yet, or with each consumer registered once for every topic *)
(* (and at most one consumer to a nuzzle).                                 *)
StartedInit ==
    /\ up = Processes /\ failed = {}
    /\ net = [l \in Links |-> << >>]
    /\ stream = [l \in Links |->
                   IF l \in ClientConnections \/ <<l[2], l[1]>> \in ClientConnections
                        \/ l[1] \in Engines \/ l[2] \in Engines
                   THEN "open" ELSE "none"]
    /\ PublisherInit
    /\ global_request_id_seed \in [Pumps -> GlobalIds]
    /\ pump_pointer = [p \in Pumps |-> "mapped"]
    /\ engine_connections = [p \in Pumps |-> Engines]
    /\ message_buffer = [e \in Engines |-> {}]
    /\ fan_out = [e \in Engines |-> Idle]
    /\ nuzzle_engines = [n \in Nuzzles |-> Engines]
    /\ copies = [n \in Nuzzles |-> [k \in Keys |-> << >>]]
    /\ joining = [n \in Nuzzles |-> Idle]
    /\ delivery = [n \in Nuzzles |-> Idle]
    /\ log_buffer = [c \in Consumers |-> << >>]

ConnectedInit ==
    /\ StartedInit
    /\ subscriptions = [e \in Engines |-> [t \in Topics |-> << >>]]
    /\ client_subscriptions =
         [e \in Engines |-> [t \in Topics |-> [n \in Nuzzles |-> << >>]]]
    /\ consumer_subscriptions = [n \in Nuzzles |-> [t \in Topics |-> << >>]]
    /\ requests \in RequestScripts

ConnectedSpec == ConnectedInit /\ [][Next]_vars

ClientOf(n) == { c \in Consumers : NuzzleConnection[c] = n }

SettledInit ==
    /\ StartedInit
    /\ \E order \in SetToSeqs({ n \in Nuzzles : ClientOf(n) # {} }) :
         subscriptions = [e \in Engines |-> [t \in Topics |-> order]]
    /\ \E id \in SenderIds :
         client_subscriptions = [e \in Engines |-> [t \in Topics |->
           [n \in Nuzzles |-> IF ClientOf(n) = {} THEN << >> ELSE <<id>>]]]
    /\ consumer_subscriptions =
         [n \in Nuzzles |-> [t \in Topics |-> SetToSeq(ClientOf(n))]]
    /\ requests = [c \in Consumers |-> << >>]

SettledSpec == SettledInit /\ [][Next]_vars /\ Fairness

----------------------------------------------------------------------------
(* Properties. *)

(* What is being delivered or has been: by a nuzzle's loop, on the way to  *)
(* a consumer, or in a consumer's log.                                     *)
Delivered ==
    (UNION { Range(log_buffer[c]) : c \in Consumers })
      \cup (UNION { Range(net[l]) : l \in Nuzzles \X Consumers })
      \cup { delivery[n].request : n \in { m \in Nuzzles : delivery[m] # Idle } }

(* The engines that hold a publication, or held it when they exited. *)
Holders(request) == { e \in Engines : StoredOf(request) \in message_buffer[e] }

(* A publication is delivered only when a majority of its group has stored *)
(* it (the nuzzle's count of copies in on_publish_receive).                *)
DeliveredIsStored ==
    \A r \in Delivered : 2 * Cardinality(Holders(r)) > GroupSize

(* With a replication factor above one, what is delivered is on more than  *)
(* one engine (README: "integrating low-overhead state-machine replication *)
(* directly into the dissemination protocols"; nuzzle.cpp: "GROUP_SIZE     *)
(* The replication factor of the firehose topics.").                       *)
DeliveredIsReplicated ==
    \A r \in Delivered : GroupSize > 1 => Cardinality(Holders(r)) > 1

(* While no more than a minority of the engines has ended, killed or taken *)
(* along by the end of a process they were connected to, whatever has been *)
(* delivered is still held by an engine that runs: the nuzzle's majority   *)
(* is counted against engines that keep everything in memory.              *)
DeliveredSurvives ==
    Cardinality(Engines \ up) <= GroupSize - Majority =>
      \A r \in Delivered : Holders(r) \cap up # {}

(* No consumer is delivered the same publication twice. *)
DeliveredOnce ==
    \A c \in Consumers : IsInjective(log_buffer[c])

(* What a consumer logs was published, on that topic: ids are assigned,    *)
(* requests copied field by field, and vectors read under a race.          *)
DeliveredWasPublished ==
    \A r \in Delivered : <<r.topic_id, r.message>> \in published

(* Two engines never hold different publications under the same id. *)
ReplicasAgree ==
    \A e, f \in Engines : \A r \in message_buffer[e], s \in message_buffer[f] :
        SameKey(r, s) => r = s

(* A stored publication is never replaced: message_buffer's assignment     *)
(* after insert() never finds an entry.                                    *)
NothingReplaced ==
    [][\A e \in Engines : message_buffer[e] \subseteq message_buffer'[e]]_vars

----------------------------------------------------------------------------
(* Registration: what the nuzzles and the engines know of subscribers. *)

(* While an engine holds registrations for a nuzzle it publishes to it:    *)
(* on_update_subscription_receive pushes to both tables and erases from    *)
(* the vector only with the last registration.                             *)
RegisteredIsFed ==
    \A e \in Engines, t \in Topics, n \in Nuzzles :
      client_subscriptions[e][t][n] # << >> => Contains(subscriptions[e][t], n)

(* A started engine that has handled all that a nuzzle sent it holds one   *)
(* registration for each consumer that nuzzle has.                         *)
RegistrationsAgree ==
    \A e \in Engines \cap up, n \in Nuzzles \cap up, t \in Topics :
      joining[n] = Idle /\ net[<<n, e>>] = << >> =>
        Len(client_subscriptions[e][t][n]) = Len(consumer_subscriptions[n][t])

(* An engine does not publish a topic to a nuzzle with no subscribers      *)
(* (engine.cpp: "handle unsubscription for each client, remove nuzzle item *)
(* with no subscribers").                                                  *)
UnregisteredIsNotFed ==
    \A e \in Engines, t \in Topics, n \in Nuzzles :
      client_subscriptions[e][t][n] = << >> => ~Contains(subscriptions[e][t], n)

----------------------------------------------------------------------------
(* Delivery to consumers that joined before anything was published. *)

(* Nothing is on its way or being worked on. *)
Quiet ==
    /\ \A l \in Links : net[l] = << >>
    /\ \A e \in Engines : fan_out[e] = Idle
    /\ \A n \in Nuzzles : delivery[n] = Idle

(* No process has failed but a minority of the engines. *)
Available ==
    /\ Processes \ Engines \subseteq up
    /\ 2 * Cardinality(Engines \cap up) > GroupSize

HasLogged(c, publication) ==
    \E r \in Range(log_buffer[c]) : <<r.topic_id, r.message>> = publication

(* Once everything is at rest every consumer that joined before has been   *)
(* delivered every publication, a minority of engines failing or not       *)
(* (README: "subscribers receive all messages sent on a topic after they   *)
(* join it").                                                              *)
NothingLost ==
    Quiet /\ Available =>
      \A c \in Consumers, m \in published : HasLogged(c, m)

(* A consumer that joined before logs a publisher's publications in the    *)
(* order they were published.                                              *)
LoggedInOrder ==
    \A c \in Consumers : \A i, j \in DOMAIN log_buffer[c] :
      LET first == log_buffer[c][i].message
          second == log_buffer[c][j].message
      IN  i < j /\ first[1] = second[1] => first[2] < second[2]

(* Nuzzles forget every publication once all engines have sent it: the     *)
(* message_buffer of a deployment without failures is empty at rest.       *)
NothingRetained ==
    Quiet /\ up = Processes =>
      \A n \in Nuzzles, k \in Keys : copies[n][k] = << >>

(* Every publication is logged by every consumer that joined before, as    *)
(* long as no process fails but a minority of the engines.                 *)
PublishedIsLogged ==
    \A c \in Consumers, m \in Topics \X Publications :
      (m \in published /\ Available) ~> (HasLogged(c, m) \/ ~Available)

(* A process stops only because it was killed or crashed itself, never     *)
(* because another process did (README: "the system should maintain        *)
(* availability even under a number of node failures, regardless of the    *)
(* roles of these nodes").                                                 *)
FailureIsContained == Processes \ up \subseteq failed
=============================================================================
