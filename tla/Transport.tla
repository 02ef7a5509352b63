----------------------------- MODULE Transport -----------------------------
(***************************************************************************)
(* The processes of a Firehose deployment and the TCP connections between  *)
(* them.  Every connection is opened by the process nearer to a client     *)
(* (publisher -> pump -> engine, consumer -> nuzzle -> engine), stays open *)
(* for the life of both ends and carries messages in order in each         *)
(* direction: the transmit queue of the sender, the byte stream and the    *)
(* reader of the receiver are one FIFO per direction here.                 *)
(*                                                                         *)
(* A process ends when it is killed, when its own code crashes, or when a  *)
(* network thread lets an exception out of io_service.run(), which calls   *)
(* exit(0).  Closing a connection whose peer has reset it is such an       *)
(* exception: socket_.shutdown() throws ENOTCONN.                          *)
(***************************************************************************)
EXTENDS Naturals, Sequences, FiniteSets

CONSTANTS
    Publishers, Pumps, Engines, Nuzzles, Consumers,  \* the processes
    Topics,         \* topic ids in use
    SenderIds,      \* values an uninitialised header.sender_id may hold
    IdSpace,        \* number of global ids: 2^64 in the code
    GroupSize,      \* GROUP_SIZE, the replication factor
    MaxPublish,     \* bound: publications per publisher
    ClientConnections,  \* the connections publishers and consumers open
    Killable,       \* bound: the processes the environment may kill
    MaxFailures     \* bound: it kills none once this many have failed

GlobalIds == 0..(IdSpace - 1)

(* A publication is identified by its publisher and its place in that     *)
(* publisher's sequence; it stands for the payload and the timestamp.     *)
Publications == Publishers \X (1..MaxPublish)

Processes == Publishers \cup Pumps \cup Engines \cup Nuzzles \cup Consumers

(* The connections, each as <<the end that connects, the end that accepts>>. *)
Connections == (Publishers \X Pumps) \cup (Pumps \X Engines)
                 \cup (Nuzzles \X Engines) \cup (Consumers \X Nuzzles)

(* One link per direction of a connection, <<from, to>>. *)
Links == Connections \cup { <<c[2], c[1]>> : c \in Connections }

ASSUME ProcessesDisjoint ==
    /\ Publishers \cap Pumps = {} /\ Publishers \cap Engines = {}
    /\ Publishers \cap Nuzzles = {} /\ Publishers \cap Consumers = {}
    /\ Pumps \cap Engines = {} /\ Pumps \cap Nuzzles = {}
    /\ Pumps \cap Consumers = {} /\ Engines \cap Nuzzles = {}
    /\ Engines \cap Consumers = {} /\ Nuzzles \cap Consumers = {}

ASSUME NumbersAssumption ==
    /\ IdSpace \in Nat \ {0}
    /\ GroupSize \in Nat \ {0}
    /\ MaxPublish \in Nat
    /\ MaxFailures \in Nat
    /\ Topics \subseteq Nat

ASSUME ClientsAssumption ==
    ClientConnections \subseteq (Publishers \X Pumps) \cup (Consumers \X Nuzzles)

----------------------------------------------------------------------------
(* Messages.  A field no handler reads is left out. *)

RequestPublish ==
    [type : {"req_publish"}, topic_id : Topics, global_id : GlobalIds,
     message : Publications]

RequestPrepare ==
    [type : {"req_prepare"}, topic_id : Topics, global_id : GlobalIds,
     message : Publications]

ResponsePrepare ==
    [type : {"rsp_prepare"}, topic_id : Topics, global_id : GlobalIds]

(* From a consumer to its nuzzle, which reads no header. *)
RequestUpdateSubscription ==
    [type : {"req_update_subscription"}, topic_id : Topics, action : {0, 1}]

(* From a nuzzle to an engine, which reads header.sender_id.  Nothing sets *)
(* that field: it is whatever the memory of the request held.              *)
ForwardedUpdate ==
    [type : {"req_update_subscription"}, topic_id : Topics, action : {0, 1},
     sender_id : SenderIds]

Messages == RequestPublish \cup RequestPrepare \cup ResponsePrepare
              \cup RequestUpdateSubscription \cup ForwardedUpdate

----------------------------------------------------------------------------
VARIABLES
    up,     \* the processes still running
    failed, \* those that were killed or crashed in their own code
    net,    \* net[l]: the messages in flight on link l, oldest first
    stream  \* stream[<<a, b>>]: what b has seen or will see of a's end

transportVars == <<up, failed, net, stream>>

(* "none"   not connected                                                  *)
(* "open"   both ends running                                              *)
(* "eof"    a has exited with nothing unread: b will read end of file      *)
(* "reset"  a has exited and b's data may meet its reset                   *)
(* "closed" b has handled the end of the connection                        *)
StreamStates == {"none", "open", "eof", "reset", "closed"}

TransportTypeOK ==
    /\ up \subseteq Processes
    /\ failed \subseteq Processes
    /\ net \in [Links -> Seq(Messages)]
    /\ stream \in [Links -> StreamStates]

(* Whether the reader at the end of link l makes a message_rx for m; any   *)
(* other message leaves it with a null pointer that it then uses.          *)
Supports(l, m) ==
    \/ l \in Publishers \X Pumps /\ m \in RequestPublish
    \/ l \in Pumps \X Engines /\ m \in RequestPrepare
    \/ l \in Engines \X Pumps /\ m \in ResponsePrepare
    \/ l \in Nuzzles \X Engines /\ m \in ForwardedUpdate
    \/ l \in Engines \X Nuzzles /\ m \in RequestPublish
    \/ l \in Consumers \X Nuzzles /\ m \in RequestUpdateSubscription
    \/ l \in Nuzzles \X Consumers /\ m \in RequestPublish

(* No process is sent a message its new_rx_message() does not know. *)
SupportedOnly ==
    \A l \in Links : \A i \in DOMAIN net[l] : Supports(l, net[l][i])

(* Clients connect before they do anything else; the servers' own          *)
(* connections are made one by one, by the actions that call Connected.    *)
TransportInit ==
    /\ up = Processes
    /\ failed = {}
    /\ net = [l \in Links |-> << >>]
    /\ stream = [l \in Links |->
                   IF l \in ClientConnections \/ <<l[2], l[1]>> \in ClientConnections
                   THEN "open" ELSE "none"]

(* The queues n once a has sent m to every process of B.  A connection     *)
(* whose peer has exited swallows what is sent.                            *)
Posted(n, a, B, m) ==
    [l \in Links |-> IF l[1] = a /\ l[2] \in B \cap up THEN Append(n[l], m)
                     ELSE n[l]]

(* Data sent to a process that has exited is answered with a reset. *)
Touched(a, B) ==
    [l \in Links |-> IF l[2] = a /\ l[1] \in B /\ stream[l] = "eof" THEN "reset"
                     ELSE stream[l]]

(* The queues once the oldest message of link l has been taken. *)
Taken(l) == [net EXCEPT ![l] = Tail(@)]

(* Process b is running and the oldest message on <<a, b>> is of this type. *)
Arrived(a, b, type) ==
    /\ b \in up
    /\ net[<<a, b>>] # << >>
    /\ Head(net[<<a, b>>]).type = type

(* The streams once a connection between a and b is established. *)
Connected(a, b) ==
    [stream EXCEPT ![<<a, b>>] = "open", ![<<b, a>>] = "open"]

(* The process d exits, with unread data lost and its peers told by the    *)
(* kernel: by a reset if d leaves data unread.                             *)
Exit(d) ==
    /\ up' = up \ {d}
    /\ net' = [l \in Links |-> IF l[2] = d THEN << >> ELSE net[l]]
    /\ stream' = [l \in Links |->
                    IF l[2] = d THEN "none"
                    ELSE IF l[1] = d /\ stream[l] = "open"
                         THEN IF net[<<l[2], d>>] = << >> THEN "eof" ELSE "reset"
                         ELSE stream[l]]

Crash(d) == Exit(d) /\ failed' = failed \cup {d}

----------------------------------------------------------------------------
(* What the network and the operating system do on their own. *)

(* A process is killed by its environment. *)
Kill(d) ==
    /\ d \in up \cap Killable
    /\ Cardinality(failed) < MaxFailures
    /\ Crash(d)

(* What an exited process had queued but not written is lost, and a reset *)
(* discards what its peer had not yet read.                               *)
LoseInFlight(l) ==
    /\ l[1] \notin up
    /\ net[l] # << >>
    /\ net' = [net EXCEPT ![l] = << >>]
    /\ UNCHANGED <<up, failed, stream>>

(* b reads the end of a's stream and closes its own end. *)
PeerClosed(a, b) ==
    /\ b \in up
    /\ net[<<a, b>>] = << >>
    /\ stream[<<a, b>>] \in {"eof", "reset"}
    /\ stream' = [stream EXCEPT ![<<a, b>>] = "closed"]
    /\ UNCHANGED <<up, failed, net>>

(* As PeerClosed, with the socket already reset: shutdown() throws out of *)
(* the network thread, which exits the process.                           *)
PeerReset(a, b) ==
    /\ b \in up
    /\ net[<<a, b>>] = << >>
    /\ stream[<<a, b>>] = "reset"
    /\ Exit(b)
    /\ UNCHANGED failed
=============================================================================
