----------------------------- MODULE Publisher -----------------------------
(***************************************************************************)
(* The publisher process: a main loop that publishes to each topic of its  *)
(* range in turn, for ever, and the library call behind it, which sends    *)
(* each publication to the next of its pumps (round robin).  Publications  *)
(* are never acknowledged and never sent again.                            *)
(***************************************************************************)
EXTENDS Transport

CONSTANTS
    PumpConnections,  \* PumpConnections[b]: the pumps of publisher b, in order
    PublishRange      \* PublishRange[b]: <<first topic, last topic>>

ASSUME PublisherAssumption ==
    /\ PumpConnections \in [Publishers -> Seq(Pumps) \ {<< >>}]
    /\ \A b \in Publishers : \A i \in DOMAIN PumpConnections[b] :
         <<b, PumpConnections[b][i]>> \in ClientConnections
    /\ PublishRange \in [Publishers -> Nat \X Nat]
    /\ \A b \in Publishers :
         /\ PublishRange[b][1] <= PublishRange[b][2]
         /\ PublishRange[b][1]..PublishRange[b][2] \subseteq Topics

VARIABLES
    pump_index,   \* index of the next pump, from 0
    request_id,   \* the main loop's request.global_id
    topic_id,     \* the main loop's i
    published     \* history: the <<topic, publication>> pairs sent

publisherVars == <<pump_index, request_id, topic_id, published>>

PublisherTypeOK ==
    /\ pump_index \in [Publishers -> Nat]
    /\ \A b \in Publishers : pump_index[b] < Len(PumpConnections[b])
    /\ request_id \in [Publishers -> 0..MaxPublish]
    /\ topic_id \in [Publishers -> Topics]
    /\ \A b \in Publishers : topic_id[b] \in PublishRange[b][1]..PublishRange[b][2]
    /\ published \subseteq Topics \X Publications

PublisherInit ==
    /\ pump_index = [b \in Publishers |-> 0]
    /\ request_id = [b \in Publishers |-> 0]
    /\ topic_id = [b \in Publishers |-> PublishRange[b][1]]
    /\ published = {}

NextPump(b) == PumpConnections[b][pump_index[b] + 1]

(* Sequences count from 1 and pump_index from 0, as in the code. *)
NextPumpIndex(b) == (pump_index[b] + 1) % Len(PumpConnections[b])

(* The main loop's i++ and its wrap to the start of the range. *)
NextTopic(b) == IF topic_id[b] = PublishRange[b][2] THEN PublishRange[b][1]
                ELSE topic_id[b] + 1

(* The publisher's own count travels in global_id; the pump replaces it. *)
Publication(b) ==
    [type |-> "req_publish", topic_id |-> topic_id[b],
     global_id |-> (request_id[b] + 1) % IdSpace,
     message |-> <<b, request_id[b] + 1>>]

Publish(b) ==
    /\ b \in up
    /\ request_id[b] < MaxPublish
    /\ request_id' = [request_id EXCEPT ![b] = @ + 1]
    /\ net' = Posted(net, b, {NextPump(b)}, Publication(b))
    /\ stream' = Touched(b, {NextPump(b)})
    /\ pump_index' = [pump_index EXCEPT ![b] = NextPumpIndex(b)]
    /\ topic_id' = [topic_id EXCEPT ![b] = NextTopic(b)]
    /\ published' = published \cup {<<topic_id[b], <<b, request_id[b] + 1>>>>}
    /\ UNCHANGED <<up, failed>>
=============================================================================
