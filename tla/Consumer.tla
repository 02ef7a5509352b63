------------------------------ MODULE Consumer ------------------------------
(***************************************************************************)
(* A consumer process: it sends its subscription requests over the         *)
(* connection to the last nuzzle it was given, and logs what it is         *)
(* delivered.  A program that uses the library may subscribe and           *)
(* unsubscribe as it likes; the consumer program of the repository         *)
(* subscribes once to each topic of a range.                               *)
(***************************************************************************)
EXTENDS Transport

CONSTANTS
    NuzzleConnection,  \* NuzzleConnection[c]: the last nuzzle c connects to
    RequestScripts     \* the request sequences each consumer may issue

(* A request is <<topic, action>>; action 1 subscribes, 0 unsubscribes. *)
Scripts == Seq(Topics \X {0, 1})

ASSUME ConsumerAssumption ==
    /\ NuzzleConnection \in [Consumers -> Nuzzles]
    /\ \A c \in Consumers : <<c, NuzzleConnection[c]>> \in ClientConnections
    /\ RequestScripts \subseteq [Consumers -> Scripts]

(* The requests of the consumer program for the topics first..last: the    *)
(* loop counts i from first to last and request.topic_id from 0.           *)
MainScript(first, last) ==
    [k \in 1..(last + 1 - first) |-> <<k - 1, 1>>]

VARIABLES
    requests,    \* what each consumer has yet to request
    log_buffer   \* the publications delivered to it, oldest first

consumerVars == <<requests, log_buffer>>

ConsumerTypeOK ==
    /\ requests \in [Consumers -> Scripts]
    /\ log_buffer \in [Consumers -> Seq(RequestPublish)]

ConsumerInit ==
    /\ requests \in RequestScripts
    /\ log_buffer = [c \in Consumers |-> << >>]

UpdateRequest(request) ==
    [type |-> "req_update_subscription", topic_id |-> request[1],
     action |-> request[2]]

ConsumerUpdateSubscription(c) ==
    /\ c \in up
    /\ requests[c] # << >>
    /\ net' = Posted(net, c, {NuzzleConnection[c]}, UpdateRequest(Head(requests[c])))
    /\ stream' = Touched(c, {NuzzleConnection[c]})
    /\ requests' = [requests EXCEPT ![c] = Tail(@)]
    /\ UNCHANGED <<up, failed, log_buffer>>

OnPublishLoggedFirst(c, n) ==
    /\ Arrived(n, c, "req_publish")
    /\ log_buffer' = [log_buffer EXCEPT ![c] = <<Head(net[<<n, c>>])>> \o @]
    /\ net' = Taken(<<n, c>>)
    /\ UNCHANGED <<up, failed, stream, requests>>

OnPublishLogged(c, n) ==
    /\ Arrived(n, c, "req_publish")
    /\ log_buffer' = [log_buffer EXCEPT ![c] = Append(@, Head(net[<<n, c>>]))]
    /\ net' = Taken(<<n, c>>)
    /\ UNCHANGED <<up, failed, stream, requests>>
=============================================================================
