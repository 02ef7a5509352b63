---------------------------- MODULE FirehosePubSub ----------------------------
(***************************************************************************)
(* A deployment seen as PubSub: its store is what a majority of the        *)
(* engines of a group holds, its logs are the consumers'.                  *)
(***************************************************************************)
EXTENDS Firehose

ItemOf(request) == <<request.topic_id, request.message>>

StoredBy(e) == { ItemOf(r) : r \in message_buffer[e] }

MajorityStored ==
    { m \in Topics \X Publications :
        2 * Cardinality({ e \in Engines : m \in StoredBy(e) }) > GroupSize }

LoggedItems ==
    [c \in Consumers |-> [i \in DOMAIN log_buffer[c] |-> ItemOf(log_buffer[c][i])]]

Abstract == INSTANCE PubSub WITH
    Items <- Topics \X Publications, Subscribers <- Consumers,
    sent <- published, committed <- MajorityStored, logs <- LoggedItems

(* Every step of a deployment is a publication, the commitment of one to a *)
(* majority of engines, a subscriber logging one that has been committed   *)
(* before and that it has not logged yet, or nothing that a user sees      *)
(* (README: "making them persistent", "delivers them to subscribers"):     *)
(* stores never go back, and no log runs ahead of the store.               *)
ImplementsPubSub == Abstract!Spec
=============================================================================
