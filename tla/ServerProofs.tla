---------------------------- MODULE ServerProofs ----------------------------
(***************************************************************************)
(* The safety of a server object, for any set of classes and any number of *)
(* connections: its types, connect()'s result, and the owner pointers of   *)
(* its connections, while its network thread overtakes its constructor.    *)
(***************************************************************************)
EXTENDS ServerThreads, FiniteSetTheorems, TLAPS

Prefix(k) == {Members[i] : i \in 1..k}

(* The members are initialised one by one in the order of the class, and   *)
(* main leaves the constructor with the last.                              *)
BuiltInOrder ==
    \E k \in 0..Len(Members) :
      /\ initialised = Prefix(k)
      /\ main = "constructing" <=> k < Len(Members)

(* The network thread exists from the initialisation of its member on, and *)
(* only an accepting class has connections before the program makes some.  *)
ThreadStarted ==
    /\ network # "absent" => "network_thread" \in initialised
    /\ class \in Accepting /\ network \in {"absent", "starting"} =>
         \A c \in Slots : connection[c] = "none"
    /\ class \in Connecting /\ main = "constructing" =>
         \A c \in Slots : connection[c] = "none"

(* What clears alive, and what stops the io_service. *)
AliveUnlessEnded ==
    /\ class # "publisher::PumpServer" /\ shutdown = "no" /\ main # "exiting"
         /\ "alive" \in initialised => alive
    /\ stopped => shutdown # "no" \/ main = "exiting"
    /\ shutdown # "no" => main # "constructing"

(* connect() is called by the programs of connecting classes. *)
ConnectIsForClients ==
    /\ main = "connecting" => class \in Connecting
    /\ returned # {} => class \in Connecting

ServerInv ==
    /\ ServerTypeOK /\ BuiltInOrder /\ ThreadStarted /\ AliveUnlessEnded
    /\ ConnectIsForClients /\ ReturnedIsConnected /\ OwnerIsKnown

(* A class either accepts or connects. *)
LEMMA ClassKinds ==
    /\ Accepting \cap Connecting = {}
    /\ "engine::NuzzleServer" \in Accepting
    /\ "pump::PublisherServer" \in Accepting
    /\ "publisher::PumpServer" \in Connecting
  BY DEF Accepting, Connecting

(* The order of a class has each of its members once. *)
LEMMA MembersForm ==
    /\ Len(Members) \in {3, 4}
    /\ \A i \in 1..Len(Members) : Members[i] \in MemberNames
    /\ \A i, j \in 1..Len(Members) : Members[i] = Members[j] => i = j
    /\ \E i \in 1..Len(Members) : Members[i] = "alive"
    /\ class \in Connecting => \E i \in 1..Len(Members) : Members[i] = "owner"
    /\ class = "engine::NuzzleServer" => Members[1] = "owner"
<1> DEFINE OwnerFirst == <<"owner", "alive", "io_service", "network_thread">>
           NoOwner == <<"alive", "io_service", "network_thread">>
           OwnerLast == <<"alive", "io_service", "network_thread", "owner">>
<1>1. CASE class = "engine::NuzzleServer"
  <2>1. Members = OwnerFirst
    BY <1>1 DEF Members
  <2>2. class \notin Connecting
    BY <1>1, ClassKinds
  <2>3. Len(OwnerFirst) = 4 /\ OwnerFirst[1] = "owner" /\ OwnerFirst[2] = "alive"
        /\ OwnerFirst[3] = "io_service" /\ OwnerFirst[4] = "network_thread"
    OBVIOUS
  <2> HIDE DEF OwnerFirst
  <2> QED
    BY <2>1, <2>2, <2>3 DEF MemberNames
<1>2. CASE class = "pump::PublisherServer"
  <2>1. Members = NoOwner
    BY <1>2 DEF Members
  <2>2. class \notin Connecting
    BY <1>2, ClassKinds
  <2>3. Len(NoOwner) = 3 /\ NoOwner[1] = "alive"
        /\ NoOwner[2] = "io_service" /\ NoOwner[3] = "network_thread"
    OBVIOUS
  <2> HIDE DEF NoOwner
  <2> QED
    BY <1>2, <2>1, <2>2, <2>3 DEF MemberNames
<1>3. CASE class \notin {"engine::NuzzleServer", "pump::PublisherServer"}
  <2>1. Members = OwnerLast
    BY <1>3 DEF Members
  <2>2. Len(OwnerLast) = 4 /\ OwnerLast[1] = "alive" /\ OwnerLast[2] = "io_service"
        /\ OwnerLast[3] = "network_thread" /\ OwnerLast[4] = "owner"
    OBVIOUS
  <2> HIDE DEF OwnerLast
  <2> QED
    BY <1>3, <2>1, <2>2 DEF MemberNames
<1> QED
  BY <1>1, <1>2, <1>3

(* So the first k members are k members. *)
LEMMA PrefixSize ==
    ASSUME NEW k \in 0..Len(Members)
    PROVE  Cardinality(Prefix(k)) = k
<1> DEFINE f == [i \in 1..k |-> Members[i]]
<1>1. Len(Members) \in Nat /\ \A i \in 1..k : i \in 1..Len(Members)
  BY MembersForm
<1>2. f \in Bijection(1..k, Prefix(k))
  <2>1. f \in [1..k -> Prefix(k)]
    BY DEF Prefix
  <2>2. \A i, j \in 1..k : f[i] = f[j] => i = j
    BY <1>1, MembersForm
  <2>3. \A x \in Prefix(k) : \E i \in 1..k : f[i] = x
    BY DEF Prefix
  <2> QED
    BY <2>1, <2>2, <2>3 DEF Bijection, Injection, Surjection, IsInjective
<1>3. IsFiniteSet(1..k) /\ Cardinality(1..k) = k
  BY <1>1, FS_Interval
<1> QED
  BY <1>2, <1>3, FS_Bijection DEF ExistsBijection

(* main initialises the next member of its class. *)
LEMMA InitialisesNext ==
    ASSUME ServerInv, InitialiseMember
    PROVE  \E k \in 0..(Len(Members) - 1) :
             /\ initialised = Prefix(k) /\ NextMember = Members[k + 1]
             /\ initialised' = Prefix(k + 1)
             /\ main' = IF k + 1 = Len(Members) THEN "program" ELSE main
<1>1. PICK k \in 0..Len(Members) :
        initialised = Prefix(k) /\ (main = "constructing" <=> k < Len(Members))
  BY DEF ServerInv, BuiltInOrder
<1>2. Len(Members) \in Nat /\ k \in 0..(Len(Members) - 1) /\ Cardinality(initialised) = k
  BY <1>1, PrefixSize, MembersForm DEF InitialiseMember
<1>3. NextMember = Members[k + 1]
  BY <1>2 DEF NextMember
<1>4. Prefix(k + 1) = Prefix(k) \cup {Members[k + 1]}
  <2>1. 1..(k + 1) = 1..k \cup {k + 1}
    BY <1>2
  <2> QED
    BY <2>1 DEF Prefix
<1> QED
  BY <1>1, <1>2, <1>3, <1>4 DEF InitialiseMember

(* Construction keeps the invariant. *)
LEMMA InitialiseKeeps ==
    ASSUME ServerInv, InitialiseMember
    PROVE  ServerInv'
<1>1. PICK k \in 0..(Len(Members) - 1) :
        /\ initialised = Prefix(k) /\ NextMember = Members[k + 1]
        /\ initialised' = Prefix(k + 1)
        /\ main' = IF k + 1 = Len(Members) THEN "program" ELSE main
  BY InitialisesNext
<1>2. /\ main = "constructing" /\ Members' = Members
      /\ initialised' = initialised \cup {Members[k + 1]}
      /\ Members[k + 1] \in MemberNames
      /\ UNCHANGED <<class, stopped, connection, owner_of, returned, shutdown, running>>
      /\ alive' = (alive \/ Members[k + 1] = "alive")
      /\ network' = IF Members[k + 1] = "network_thread" THEN "starting" ELSE network
      /\ Len(Members) \in {3, 4} /\ k + 1 \in 1..Len(Members)
      /\ \A i : Prefix(i)' = Prefix(i)
  BY <1>1, MembersForm DEF InitialiseMember, Members, Prefix
<1>3. ServerTypeOK'
  BY <1>1, <1>2 DEF ServerInv, ServerTypeOK
<1>4. BuiltInOrder'
  <2>1. k + 1 \in 0..Len(Members)
    BY <1>2
  <2>2. main' = "constructing" <=> k + 1 < Len(Members)
    BY <1>1, <1>2
  <2> QED
    BY <1>1, <1>2, <2>1, <2>2 DEF BuiltInOrder
<1>5. ThreadStarted'
  <2>1. network' \in {"absent", "starting"} => network \in {"absent", "starting"}
    <3>1. network # "absent" /\ Members[k + 1] = "network_thread" => FALSE
      <4> SUFFICES ASSUME network # "absent", Members[k + 1] = "network_thread"
                   PROVE  FALSE
        OBVIOUS
      <4>1. "network_thread" \in Prefix(k)
        BY <1>1 DEF ServerInv, ThreadStarted
      <4>2. PICK i \in 1..k : Members[i] = "network_thread"
        BY <4>1 DEF Prefix
      <4> QED
        BY <1>2, <4>2, MembersForm
    <3> QED
      BY <1>2, <3>1
  <2>2. class \in Connecting => \A c \in Slots : connection[c] = "none"
    BY <1>2 DEF ServerInv, ThreadStarted
  <2> QED
    BY <1>2, <2>1, <2>2 DEF ServerInv, ThreadStarted
<1>6. AliveUnlessEnded'
  BY <1>1, <1>2 DEF ServerInv, AliveUnlessEnded
<1>7. ConnectIsForClients' /\ ReturnedIsConnected' /\ OwnerIsKnown'
  BY <1>1, <1>2 DEF ServerInv, ConnectIsForClients, ReturnedIsConnected, OwnerIsKnown
<1> QED
  BY <1>3, <1>4, <1>5, <1>6, <1>7 DEF ServerInv

(* Whoever starts an accept of such a server finds its owner set. *)
LEMMA OwnerIsSetEarly ==
    ASSUME ServerInv
    PROVE  /\ class = "engine::NuzzleServer" /\ network # "absent" => OwnerNow = "set"
           /\ class \in Connecting /\ main # "constructing" => OwnerNow = "set"
           /\ main # "constructing" => "alive" \in initialised
<1>1. PICK k \in 0..Len(Members) :
        initialised = Prefix(k) /\ (main = "constructing" <=> k < Len(Members))
  BY DEF ServerInv, BuiltInOrder
<1>2. ASSUME class = "engine::NuzzleServer", network # "absent"
      PROVE  "owner" \in initialised
  <2>1. PICK i \in 1..k : Members[i] = "network_thread"
    BY <1>1, <1>2 DEF ServerInv, ThreadStarted, Prefix
  <2>2. 1 \in 1..k /\ Members[1] = "owner"
    BY <1>2, <2>1, MembersForm
  <2> QED
    BY <1>1, <2>2 DEF Prefix
<1>3. ASSUME main # "constructing" PROVE k = Len(Members)
  BY <1>1, <1>3, MembersForm
<1>4. ASSUME class \in Connecting, main # "constructing" PROVE "owner" \in initialised
  BY <1>1, <1>3, <1>4, MembersForm DEF Prefix
<1>5. ASSUME main # "constructing" PROVE "alive" \in initialised
  BY <1>1, <1>3, <1>5, MembersForm DEF Prefix
<1> QED
  BY <1>2, <1>4, <1>5 DEF OwnerNow

(* What every other step leaves as it is. *)
LEMMA BuiltStays ==
    ASSUME ServerInv, UNCHANGED <<class, initialised>>,
           main' = "constructing" <=> main = "constructing"
    PROVE  BuiltInOrder'
  BY DEF ServerInv, BuiltInOrder, Members, Prefix

(* The network thread's steps keep the invariant. *)
LEMMA NetworkKeeps ==
    ASSUME ServerInv, NetworkStep
    PROVE  ServerInv'
<1>1. /\ UNCHANGED <<class, initialised, stopped, main, returned, shutdown>>
      /\ BuiltInOrder'
  <2>1. UNCHANGED <<class, initialised, stopped, main, returned, shutdown>>
    BY DEF NetworkStep, Run, RunReturns, Exit, Accept, Established, Fails, Reset, WildCall
  <2> QED
    BY <2>1, BuiltStays
<1>2. ServerTypeOK /\ ThreadStarted /\ AliveUnlessEnded /\ ConnectIsForClients
      /\ ReturnedIsConnected /\ OwnerIsKnown /\ 1 \in Slots
  BY ServerAssumption DEF ServerInv, Slots
<1>3. OwnerNow \in {"set", "unset"}
  BY DEF OwnerNow
<1>4. CASE Run
  <2>1. network = "starting" /\ running' = running
    BY <1>4 DEF Run
  <2>2. CASE class \in Connecting /\ network' = "running" /\ UNCHANGED <<alive, connection, owner_of>>
    BY <1>1, <1>2, <2>1, <2>2, ClassKinds
    DEF ServerInv, ServerTypeOK, ThreadStarted, AliveUnlessEnded, ConnectIsForClients,
        ReturnedIsConnected, OwnerIsKnown
  <2>3. CASE class \in Accepting /\ network' = "running" /\ StartAccept(connection, 1) /\ UNCHANGED alive
    <3>1. /\ connection' = [c \in Slots |-> IF c = 1 THEN "pending" ELSE connection[c]]
          /\ owner_of' = [c \in Slots |-> IF c = 1 THEN OwnerNow ELSE owner_of[c]]
      BY <2>3 DEF StartAccept
    <3>2. class \notin Connecting /\ returned = {}
      BY <1>2, <2>3, ClassKinds DEF ConnectIsForClients
    <3>3. OwnerIsKnown'
      BY <1>1, <1>2, <2>1, <3>1, <3>2, OwnerIsSetEarly DEF OwnerIsKnown
    <3>4. ServerTypeOK'
      BY <1>1, <1>2, <1>3, <2>1, <2>3, <3>1 DEF ServerTypeOK
    <3> QED
      BY <1>1, <1>2, <2>1, <2>3, <3>2, <3>3, <3>4
      DEF ServerInv, ThreadStarted, AliveUnlessEnded, ConnectIsForClients,
          ReturnedIsConnected
  <2>4. CASE class \in Accepting /\ Throws /\ UNCHANGED <<connection, owner_of>>
    <3>1. network' = "exiting" /\ alive' = alive /\ class # "publisher::PumpServer"
      BY <1>2, <2>4, ClassKinds DEF Throws, ServerTypeOK
    <3> QED
      BY <1>1, <1>2, <2>1, <2>4, <3>1, ClassKinds
      DEF ServerInv, ServerTypeOK, ThreadStarted, AliveUnlessEnded, ConnectIsForClients,
          ReturnedIsConnected, OwnerIsKnown
  <2> QED
    BY <1>4, <2>2, <2>3, <2>4 DEF Run
<1>5. ASSUME NEW c \in Slots, Accept(c) PROVE ServerInv'
  <2>1. /\ connection' = [k \in Slots |-> IF k = c + 1 THEN "pending"
                                          ELSE [connection EXCEPT ![c] = "connected"][k]]
        /\ owner_of' = [k \in Slots |-> IF k = c + 1 THEN OwnerNow ELSE owner_of[k]]
        /\ UNCHANGED <<alive, network, running>>
        /\ class \in Accepting /\ network = "running" /\ connection[c] = "pending"
        /\ c + 1 \in Slots
    BY <1>5 DEF Accept, StartAccept, Runs
  <2>2. class \notin Connecting /\ returned = {}
    BY <1>2, <2>1, ClassKinds DEF ConnectIsForClients
  <2>3. OwnerIsKnown'
    BY <1>1, <1>2, <2>1, <2>2, OwnerIsSetEarly DEF OwnerIsKnown, ServerTypeOK
  <2>4. ServerTypeOK'
    BY <1>1, <1>2, <1>3, <2>1 DEF ServerTypeOK
  <2> QED
    BY <1>1, <1>2, <2>1, <2>2, <2>3, <2>4
    DEF ServerInv, ThreadStarted, AliveUnlessEnded, ConnectIsForClients,
        ReturnedIsConnected
<1>6. ASSUME NEW c \in Slots, Established(c) \/ Fails(c) PROVE ServerInv'
  <2>1. PICK s \in {"connected", "failed"} :
          /\ connection' = [connection EXCEPT ![c] = s]
          /\ connection[c] = "pending" /\ network = "running"
          /\ network' \in {"running", "exiting"} /\ UNCHANGED <<owner_of, running>>
          /\ alive' \in BOOLEAN
          /\ class # "publisher::PumpServer" => alive' = alive
    BY <1>2, <1>6 DEF Established, Fails, Throws, Runs, ServerTypeOK
  <2>2. ReturnedIsConnected'
    BY <1>1, <1>2, <2>1 DEF ReturnedIsConnected, ServerTypeOK
  <2>3. OwnerIsKnown'
    BY <1>1, <1>2, <2>1 DEF OwnerIsKnown, ServerTypeOK
  <2>4. ServerTypeOK'
    BY <1>1, <1>2, <2>1 DEF ServerTypeOK
  <2>5. ThreadStarted'
    BY <1>1, <1>2, <2>1 DEF ThreadStarted, ServerTypeOK
  <2> QED
    BY <1>1, <1>2, <2>1, <2>2, <2>3, <2>4, <2>5
    DEF ServerInv, AliveUnlessEnded, ConnectIsForClients
<1>7. ASSUME NEW c \in Slots, Reset(c) \/ WildCall(c) PROVE ServerInv'
  <2>1. /\ UNCHANGED <<connection, owner_of>> /\ network = "running"
        /\ network' \in {"running", "exiting"} /\ running' \in BOOLEAN
        /\ alive' \in BOOLEAN
        /\ class # "publisher::PumpServer" => alive' = alive
    BY <1>2, <1>7 DEF Reset, WildCall, Throws, Runs, ServerTypeOK
  <2> QED
    BY <1>1, <1>2, <2>1
    DEF ServerInv, ServerTypeOK, ThreadStarted, AliveUnlessEnded, ConnectIsForClients,
        ReturnedIsConnected, OwnerIsKnown
<1>8. CASE RunReturns
  <2>1. /\ UNCHANGED <<connection, owner_of, running>>
        /\ network = "running" /\ network' = "ended" /\ alive' = FALSE /\ stopped
    BY <1>2, <1>8 DEF RunReturns, Runs
  <2> QED
    BY <1>1, <1>2, <2>1
    DEF ServerInv, ServerTypeOK, ThreadStarted, AliveUnlessEnded, ConnectIsForClients,
        ReturnedIsConnected, OwnerIsKnown
<1>9. CASE Exit
  <2>1. UNCHANGED <<connection, owner_of, alive, network>> /\ running' = FALSE
    BY <1>2, <1>9 DEF Exit
  <2> QED
    BY <1>1, <1>2, <2>1, ZenonT(60)
    DEF ServerInv, ServerTypeOK, ThreadStarted, AliveUnlessEnded, ConnectIsForClients,
        ReturnedIsConnected, OwnerIsKnown
<1> QED
  BY <1>4, <1>5, <1>6, <1>7, <1>8, <1>9 DEF NetworkStep

(* So do those of the program's threads. *)
LEMMA ProgramKeeps ==
    ASSUME ServerInv, ProgramStep
    PROVE  ServerInv'
<1>1. ServerTypeOK /\ ThreadStarted /\ AliveUnlessEnded /\ ConnectIsForClients
      /\ ReturnedIsConnected /\ OwnerIsKnown
  BY DEF ServerInv
<1>2. CASE ConnectThrows
  <2>1. /\ UNCHANGED <<class, initialised, connection, owner_of, returned, network, shutdown,
                       running>>
        /\ main = "program" /\ main' = "exiting" /\ alive' = FALSE /\ stopped' = TRUE
    BY <1>2 DEF ConnectThrows
  <2>2. BuiltInOrder'
    BY <2>1, BuiltStays
  <2> QED
    BY <1>1, <2>1, <2>2
    DEF ServerInv, ServerTypeOK, ThreadStarted, AliveUnlessEnded, ConnectIsForClients,
        ReturnedIsConnected, OwnerIsKnown
<1>3. CASE Join \/ JoinReturns
  <2>1. /\ UNCHANGED <<class, initialised, connection, owner_of, returned, network, shutdown,
                       running, alive, stopped>>
        /\ main \in {"program", "joining"} /\ main' \in {"joining", "joined"}
    BY <1>3 DEF Join, JoinReturns
  <2>2. BuiltInOrder'
    BY <2>1, BuiltStays
  <2> QED
    BY <1>1, <2>1, <2>2
    DEF ServerInv, ServerTypeOK, ThreadStarted, AliveUnlessEnded, ConnectIsForClients,
        ReturnedIsConnected, OwnerIsKnown
<1>4. CASE ShutdownBegins
  <2>1. /\ UNCHANGED <<class, initialised, connection, owner_of, returned, network, main,
                       running, stopped>>
        /\ main # "constructing" /\ shutdown = "no" /\ shutdown' = "begun"
    BY <1>4 DEF ShutdownBegins
  <2>2. BuiltInOrder'
    BY <2>1, BuiltStays
  <2>3. alive' \in BOOLEAN
    BY <1>1, <1>4 DEF ShutdownBegins, ServerTypeOK
  <2> QED
    BY <1>1, <2>1, <2>2, <2>3
    DEF ServerInv, ServerTypeOK, ThreadStarted, AliveUnlessEnded, ConnectIsForClients,
        ReturnedIsConnected, OwnerIsKnown
<1>5. CASE ShutdownStops
  <2>1. /\ UNCHANGED <<class, initialised, connection, owner_of, returned, network, main,
                       running, alive>>
        /\ shutdown = "begun" /\ shutdown' = "done" /\ stopped' = TRUE
    BY <1>5 DEF ShutdownStops
  <2>2. main # "constructing"
    BY <1>1, <2>1 DEF AliveUnlessEnded
  <2>3. BuiltInOrder'
    BY <2>1, <2>2, BuiltStays
  <2> QED
    BY <1>1, <2>1, <2>2, <2>3
    DEF ServerInv, ServerTypeOK, ThreadStarted, AliveUnlessEnded, ConnectIsForClients,
        ReturnedIsConnected, OwnerIsKnown
<1>6. ASSUME NEW c \in Slots, Connect(c) PROVE ServerInv'
  <2>1. /\ connection' = [connection EXCEPT ![c] = "pending"]
        /\ owner_of' = [owner_of EXCEPT ![c] = OwnerNow]
        /\ main = "program" /\ main' = "connecting"
        /\ class \in Connecting /\ connection[c] = "none"
        /\ UNCHANGED <<class, initialised, alive, stopped, network, returned, shutdown, running>>
    BY <1>6 DEF Connect
  <2>2. BuiltInOrder' /\ OwnerNow = "set" /\ class \notin Accepting
    BY <2>1, BuiltStays, OwnerIsSetEarly, ClassKinds
  <2>3. OwnerIsKnown'
    BY <1>1, <2>1, <2>2 DEF OwnerIsKnown, ServerTypeOK
  <2>4. ReturnedIsConnected'
    BY <1>1, <2>1 DEF ReturnedIsConnected, ServerTypeOK
  <2>5. ServerTypeOK'
    BY <1>1, <2>1, <2>2 DEF ServerTypeOK
  <2> QED
    BY <1>1, <2>1, <2>2, <2>3, <2>4, <2>5
    DEF ServerInv, ThreadStarted, AliveUnlessEnded, ConnectIsForClients
<1>7. ASSUME NEW c \in Slots, ConnectReturns(c) PROVE ServerInv'
  <2>1. /\ main = "connecting" /\ main' = "program"
        /\ ~alive \/ connection[c] = "connected"
        /\ returned' = returned \cup {c}
        /\ UNCHANGED <<class, initialised, alive, stopped, network, connection, owner_of,
                       shutdown, running>>
    BY <1>7 DEF ConnectReturns
  <2>2. BuiltInOrder'
    BY <2>1, BuiltStays
  <2>3. "alive" \in initialised
    BY <2>1, OwnerIsSetEarly
  <2>4. ReturnedIsConnected'
    BY <1>1, <2>1, <2>3 DEF ReturnedIsConnected, AliveUnlessEnded
  <2> QED
    BY <1>1, <2>1, <2>2, <2>4
    DEF ServerInv, ServerTypeOK, ThreadStarted, AliveUnlessEnded, ConnectIsForClients,
        OwnerIsKnown
<1> QED
  BY <1>2, <1>3, <1>4, <1>5, <1>6, <1>7, InitialiseKeeps DEF ProgramStep

(* The invariant holds from before the construction on. *)
LEMMA ServerInvariant == Spec => []ServerInv
<1>1. Init => ServerInv
  <2> SUFFICES ASSUME Init PROVE ServerInv
    OBVIOUS
  <2>1. BuiltInOrder
    <3>1. 0 \in 0..Len(Members) /\ 0 < Len(Members) /\ Prefix(0) = {}
      BY MembersForm DEF Prefix
    <3> QED
      BY <3>1 DEF Init, BuiltInOrder
  <2> QED
    BY <2>1
    DEF Init, ServerInv, ServerTypeOK, ThreadStarted, AliveUnlessEnded,
        ConnectIsForClients, ReturnedIsConnected, OwnerIsKnown
<1>2. ServerInv /\ [Next]_serverVars => ServerInv'
  <2>1. ASSUME ServerInv, UNCHANGED serverVars PROVE ServerInv'
    BY <2>1
    DEF ServerInv, ServerTypeOK, BuiltInOrder, Members, Prefix, ThreadStarted,
        AliveUnlessEnded, ConnectIsForClients, ReturnedIsConnected, OwnerIsKnown, serverVars
  <2> QED
    BY <2>1, NetworkKeeps, ProgramKeeps DEF Next
<1> QED
  BY <1>1, <1>2, PTL DEF Spec

(* Every variable of a server keeps its type. *)
THEOREM ServerTypeCorrect == Spec => []ServerTypeOK
  BY ServerInvariant, PTL DEF ServerInv

(* connect() returns only connections that are connected, however          *)
(* connections fail and the threads interleave, unless the server is shut  *)
(* down: alive, the other way out of its loop, is cleared by nothing else. *)
THEOREM ConnectReturnsConnected == Spec => []ReturnedIsConnected
  BY ServerInvariant, PTL DEF ServerInv

(* Where owner is declared before network_thread, or main makes the        *)
(* connections, each connection is made from the pointer to its owner.     *)
THEOREM OwnerIsAlwaysKnown == Spec => []OwnerIsKnown
  BY ServerInvariant, PTL DEF ServerInv
=============================================================================
