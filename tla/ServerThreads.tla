---------------------------- MODULE ServerThreads ----------------------------
(***************************************************************************)
(* The life of one server object of any process: its construction by the   *)
(* main thread, the network thread its constructor starts, the connections *)
(* it accepts or makes, the loops main spins in until a connection is made *)
(* (connect()) or the server ends (join()), shutdown(), and the exits.     *)
(* Members are initialised in the order in which the class declares them,  *)
(* whatever order a constructor lists them in, and network_thread runs     *)
(* from its own initialisation on.                                         *)
(***************************************************************************)
EXTENDS Naturals, Sequences, FiniteSets

CONSTANTS
    Classes,        \* the server classes considered
    MaxConnections, \* bound: connections a server accepts or makes
    MayShutDown     \* whether a thread of the program calls shutdown()

Accepting == {"engine::NuzzleServer", "engine::PumpServer", "engine::EngineServer",
              "nuzzle::ConsumerServer", "pump::PublisherServer"}
Connecting == {"nuzzle::EngineServer", "pump::EngineServer",
               "consumer::NuzzleServer", "publisher::PumpServer"}

ASSUME ServerAssumption ==
    /\ Classes \subseteq Accepting \cup Connecting
    /\ MaxConnections \in Nat \ {0}
    /\ MayShutDown \in BOOLEAN

Slots == 1..MaxConnections

(* "owner" is the pointer to the Engine, Nuzzle, ... that handles messages. *)
MemberNames == {"alive", "io_service", "network_thread", "owner"}

VARIABLES
    class,       \* the class of the server
    initialised, \* the members initialised so far
    alive,       \* the member alive
    stopped,     \* whether io_service.stop() has been called
    main,        \* where the main thread is
    network,     \* where the network thread is
    connection,  \* connection[c]: the c-th connection object and its state
    owner_of,    \* owner_of[c]: what its owner pointer was made from
    returned,    \* the connections connect() has returned
    shutdown,    \* how far a call of shutdown() has come
    running      \* whether the process is running

serverVars == <<class, initialised, alive, stopped, main, network, connection,
                owner_of, returned, shutdown, running>>

(* connection: "none", then "pending" while an accept or a connect is      *)
(* under way, "connected" from ready() on, or "failed".                    *)
ServerTypeOK ==
    /\ class \in Classes
    /\ initialised \subseteq MemberNames
    /\ alive \in BOOLEAN /\ stopped \in BOOLEAN /\ running \in BOOLEAN
    /\ main \in {"constructing", "program", "connecting", "joining", "joined",
                 "exiting"}
    /\ network \in {"absent", "starting", "running", "exiting", "ended"}
    /\ connection \in [Slots -> {"none", "pending", "connected", "failed"}]
    /\ owner_of \in [Slots -> {"none", "set", "unset"}]
    /\ returned \subseteq Slots
    /\ shutdown \in {"no", "begun", "done"}

(* What the memory of the object holds before alive is initialised is not  *)
(* known.                                                                  *)
Init ==
    /\ class \in Classes
    /\ initialised = {}
    /\ alive \in BOOLEAN
    /\ stopped = FALSE
    /\ main = "constructing"
    /\ network = "absent"
    /\ connection = [c \in Slots |-> "none"]
    /\ owner_of = [c \in Slots |-> "none"]
    /\ returned = {}
    /\ shutdown = "no"
    /\ running = TRUE

----------------------------------------------------------------------------
(* Construction. *)

MembersOwnerLast == <<"alive", "io_service", "network_thread", "owner">>

(* The order of declaration.  PublisherServer's pointer is declared last   *)
(* too, and its constructor does not set it at all.                        *)
Members ==
    IF class = "engine::NuzzleServer"
    THEN <<"owner", "alive", "io_service", "network_thread">>
    ELSE IF class = "pump::PublisherServer"
         THEN <<"alive", "io_service", "network_thread">>
         ELSE <<"alive", "io_service", "network_thread", "owner">>

NextMember == Members[Cardinality(initialised) + 1]

InitialiseMember ==
    /\ running
    /\ main = "constructing"
    /\ initialised' = initialised \cup {NextMember}
    /\ alive' = (alive \/ NextMember = "alive")
    /\ network' = IF NextMember = "network_thread" THEN "starting" ELSE network
    /\ main' = IF Cardinality(initialised) + 1 = Len(Members) THEN "program" ELSE main
    /\ UNCHANGED <<class, stopped, connection, owner_of, returned, shutdown, running>>

OwnerNowNull == IF "owner" \in initialised THEN "set" ELSE "null"

(* What a copy of the pointer holds before it is set is not known. *)
OwnerNow == IF "owner" \in initialised THEN "set" ELSE "unset"

----------------------------------------------------------------------------
(* The network thread. *)

Runs == running /\ network = "running"

(* start_accept(): the connection for the next peer takes the pointer the  *)
(* server holds at this moment.                                            *)
StartAccept(states, c) ==
    /\ connection' = [k \in Slots |-> IF k = c THEN "pending" ELSE states[k]]
    /\ owner_of' = [k \in Slots |-> IF k = c THEN OwnerNow ELSE owner_of[k]]

ThrowsClearing == alive' = FALSE /\ network' = "exiting"

(* An exception that leaves io_service.run() is caught by run(), which     *)
(* calls exit(0); the publisher's clears alive before.                     *)
Throws ==
    /\ alive' = (alive /\ class # "publisher::PumpServer")
    /\ network' = "exiting"

(* run(): an accepting server binds its port, which may fail, and starts   *)
(* the first accept.                                                       *)
Run ==
    /\ running
    /\ network = "starting"
    /\ \/ /\ class \in Connecting
          /\ network' = "running"
          /\ UNCHANGED <<alive, connection, owner_of>>
       \/ /\ class \in Accepting
          /\ network' = "running"
          /\ StartAccept(connection, 1)
          /\ UNCHANGED alive
       \/ /\ class \in Accepting
          /\ Throws
          /\ UNCHANGED <<connection, owner_of>>
    /\ UNCHANGED <<class, initialised, stopped, main, returned, shutdown, running>>

(* handle_accept(); the last slot stays pending for want of peers. *)
Accept(c) ==
    /\ Runs /\ ~stopped
    /\ class \in Accepting
    /\ connection[c] = "pending"
    /\ c + 1 \in Slots
    /\ StartAccept([connection EXCEPT ![c] = "connected"], c + 1)
    /\ UNCHANGED <<class, initialised, alive, stopped, main, network, returned,
                   shutdown, running>>

(* handle_established(): ready() sets connected. *)
Established(c) ==
    /\ Runs /\ ~stopped
    /\ class \in Connecting
    /\ connection[c] = "pending"
    /\ connection' = [connection EXCEPT ![c] = "connected"]
    /\ UNCHANGED <<class, initialised, alive, stopped, main, network, owner_of,
                   returned, shutdown, running>>

FailsSilently(c) ==
    /\ Runs /\ ~stopped
    /\ connection[c] = "pending"
    /\ connection' = [connection EXCEPT ![c] = "failed"]
    /\ UNCHANGED <<class, initialised, alive, stopped, main, network, owner_of,
                   returned, shutdown, running>>

(* A name that is not resolved, a refused connection or a failed accept:   *)
(* close() throws on the unconnected socket, handle_accept() by itself.    *)
Fails(c) ==
    /\ Runs /\ ~stopped
    /\ connection[c] = "pending"
    /\ connection' = [connection EXCEPT ![c] = "failed"]
    /\ Throws
    /\ UNCHANGED <<class, initialised, stopped, main, owner_of, returned, shutdown,
                   running>>

(* The peer resets the connection: close() throws. *)
Reset(c) ==
    /\ Runs /\ ~stopped
    /\ connection[c] = "connected"
    /\ Throws
    /\ UNCHANGED <<class, initialised, stopped, main, connection, owner_of, returned,
                   shutdown, running>>

(* A message is handed to an owner that was not known: the process may     *)
(* crash.  (Handled by a known owner it changes nothing here.)             *)
WildCall(c) ==
    /\ Runs /\ ~stopped
    /\ connection[c] = "connected"
    /\ owner_of[c] = "unset"
    /\ running' = FALSE
    /\ UNCHANGED <<class, initialised, alive, stopped, main, network, connection,
                   owner_of, returned, shutdown>>

RunReturnsAlive ==
    /\ Runs /\ stopped
    /\ network' = "ended"
    /\ UNCHANGED <<class, initialised, alive, stopped, main, connection, owner_of,
                   returned, shutdown, running>>

(* io_service.run() of a stopped io_service returns: the publisher's run() *)
(* calls it again as long as alive is set, the others' clear alive.        *)
RunReturns ==
    /\ Runs /\ stopped
    /\ class = "publisher::PumpServer" => ~alive
    /\ alive' = FALSE
    /\ network' = "ended"
    /\ UNCHANGED <<class, initialised, stopped, main, connection, owner_of, returned,
                   shutdown, running>>

Exit ==
    /\ running
    /\ network = "exiting" \/ main = "exiting"
    /\ running' = FALSE
    /\ UNCHANGED <<class, initialised, alive, stopped, main, network, connection,
                   owner_of, returned, shutdown>>

----------------------------------------------------------------------------
(* The program's threads. *)

(* connect(): a new connection, and a spin until it is connected. *)
Connect(c) ==
    /\ running
    /\ main = "program"
    /\ class \in Connecting
    /\ connection[c] = "none"
    /\ \A k \in 1..(c - 1) : connection[k] # "none"
    /\ connection' = [connection EXCEPT ![c] = "pending"]
    /\ owner_of' = [owner_of EXCEPT ![c] = OwnerNow]
    /\ main' = "connecting"
    /\ UNCHANGED <<class, initialised, alive, stopped, network, returned, shutdown,
                   running>>

(* The connection connect() spins on: the last one made. *)
Awaited(c) ==
    /\ connection[c] # "none"
    /\ \A k \in Slots : k > c => connection[k] = "none"

ConnectReturns(c) ==
    /\ running
    /\ main = "connecting"
    /\ Awaited(c)
    /\ ~alive \/ connection[c] = "connected"
    /\ returned' = returned \cup {c}
    /\ main' = "program"
    /\ UNCHANGED <<class, initialised, alive, stopped, network, connection, owner_of,
                   shutdown, running>>

(* connect() itself throws, before it spins. *)
ConnectThrows ==
    /\ running
    /\ main = "program"
    /\ class \in Connecting
    /\ alive' = FALSE
    /\ stopped' = TRUE
    /\ main' = "exiting"
    /\ UNCHANGED <<class, initialised, network, connection, owner_of, returned,
                   shutdown, running>>

Join ==
    /\ running
    /\ main = "program"
    /\ main' = "joining"
    /\ UNCHANGED <<class, initialised, alive, stopped, network, connection, owner_of,
                   returned, shutdown, running>>

(* join() spins on alive; the publisher's joins the thread. *)
JoinReturns ==
    /\ running
    /\ main = "joining"
    /\ IF class = "publisher::PumpServer" THEN network = "ended" ELSE ~alive
    /\ main' = "joined"
    /\ UNCHANGED <<class, initialised, alive, stopped, network, connection, owner_of,
                   returned, shutdown, running>>

(* shutdown(): the publisher's clears alive before it stops the io_service. *)
ShutdownBegins ==
    /\ running
    /\ MayShutDown
    /\ main # "constructing"
    /\ shutdown = "no"
    /\ shutdown' = "begun"
    /\ alive' = (alive /\ class # "publisher::PumpServer")
    /\ UNCHANGED <<class, initialised, stopped, main, network, connection, owner_of,
                   returned, running>>

ShutdownStops ==
    /\ running
    /\ shutdown = "begun"
    /\ shutdown' = "done"
    /\ stopped' = TRUE
    /\ UNCHANGED <<class, initialised, alive, main, network, connection, owner_of,
                   returned, running>>

NetworkStep ==
    \/ Run \/ RunReturns \/ Exit
    \/ \E c \in Slots :
         Accept(c) \/ Established(c) \/ Fails(c) \/ Reset(c) \/ WildCall(c)

ProgramStep ==
    \/ InitialiseMember \/ ConnectThrows \/ Join \/ JoinReturns
    \/ ShutdownBegins \/ ShutdownStops
    \/ \E c \in Slots : Connect(c) \/ ConnectReturns(c)

Next == NetworkStep \/ ProgramStep

(* Threads that can run do run, and TCP either makes or refuses every      *)
(* connection attempted.                                                   *)
Fairness ==
    /\ WF_serverVars(InitialiseMember)
    /\ WF_serverVars(Run) /\ WF_serverVars(RunReturns) /\ WF_serverVars(Exit)
    /\ WF_serverVars(\E c \in Slots :
                       class \in Connecting /\ (Established(c) \/ Fails(c)))
    /\ WF_serverVars(\E c \in Slots : ConnectReturns(c))
    /\ WF_serverVars(JoinReturns)
    /\ WF_serverVars(ShutdownStops)

Spec == Init /\ [][Next]_serverVars /\ Fairness

----------------------------------------------------------------------------
(* Properties. *)

(* connect() returns a connection that is connected, as long as nobody has *)
(* shut the server down: a failing one must not let the caller go on.      *)
ReturnedIsConnected ==
    class # "publisher::PumpServer" /\ shutdown = "no" =>
      \A c \in returned : connection[c] = "connected"

(* Every connection knows its owner where the pointer is declared before   *)
(* the thread, or where connections are made by main: whatever the order   *)
(* in which the constructor and the network thread come to run.            *)
OwnerIsKnown ==
    class \in Connecting \cup {"engine::NuzzleServer"} =>
      \A c \in Slots : connection[c] # "none" => owner_of[c] = "set"

(* main does not spin in connect() for ever. *)
ConnectEnds == (main = "connecting") ~> (main # "connecting" \/ ~running)

(* After shutdown() a join() ends: the network thread leaves run() even if *)
(* it had not entered it yet, and says so.                                 *)
ShutdownEndsJoin ==
    (shutdown = "done" /\ main = "joining") ~> (main = "joined" \/ ~running)
=============================================================================
