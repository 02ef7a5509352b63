-------------------------------- MODULE Pump --------------------------------
(***************************************************************************)
(* The pump: it numbers every publication with its own counter and sends   *)
(* it to every engine it is connected to at that moment.  The publishers'  *)
(* port is served from the constructor on, while main is still connecting  *)
(* to the engines one by one.                                              *)
(***************************************************************************)
EXTENDS Transport

VARIABLES
    global_request_id_seed,  \* the next id; 64 bits in the code
    pump_pointer,            \* what the publisher server's member pump holds
    engine_connections       \* the engines connected so far

pumpVars == <<global_request_id_seed, pump_pointer, engine_connections>>

PumpTypeOK ==
    /\ global_request_id_seed \in [Pumps -> GlobalIds]
    /\ pump_pointer \in [Pumps -> {"mapped", "unmapped"}]
    /\ engine_connections \in [Pumps -> SUBSET Engines]

(* PublisherServer never sets its member pump, so the seed it counts with  *)
(* is a word at an arbitrary address: one that can be accessed, with an    *)
(* arbitrary value, or not.                                                *)
PumpInit ==
    /\ global_request_id_seed \in [Pumps -> GlobalIds]
    /\ pump_pointer \in [Pumps -> {"mapped", "unmapped"}]
    /\ engine_connections = [p \in Pumps |-> {}]

NextSeedStuck(p) == global_request_id_seed[p]
NextSeedNarrow(p) == (global_request_id_seed[p] + 1) % (IdSpace - 1)

NextSeed(p) == (global_request_id_seed[p] + 1) % IdSpace

PrepareSwapped(p, request) ==
    [type |-> "req_prepare", topic_id |-> global_request_id_seed[p],
     global_id |-> request.topic_id, message |-> request.message]

Prepare(p, request) ==
    [type |-> "req_prepare", topic_id |-> request.topic_id,
     global_id |-> global_request_id_seed[p], message |-> request.message]

(* connect() returns once the connection is up; a refused one is closed,   *)
(* and closing an unconnected socket throws and exits the process.         *)
PumpConnectToEngine(p, e) ==
    /\ p \in up
    /\ e \notin engine_connections[p]
    /\ \/ /\ e \in up
          /\ stream' = Connected(p, e)
          /\ engine_connections' = [engine_connections EXCEPT ![p] = @ \cup {e}]
          /\ UNCHANGED <<up, failed, net>>
       \/ /\ e \notin up
          /\ Exit(p)
          /\ UNCHANGED <<failed, engine_connections>>
    /\ UNCHANGED <<global_request_id_seed, pump_pointer>>

OnPublishReceive(p, b) ==
    /\ Arrived(b, p, "req_publish")
    /\ pump_pointer[p] = "mapped"
    /\ global_request_id_seed' = [global_request_id_seed EXCEPT ![p] = NextSeed(p)]
    /\ net' = Posted(Taken(<<b, p>>), p, engine_connections[p],
                     Prepare(p, Head(net[<<b, p>>])))
    /\ stream' = Touched(p, engine_connections[p])
    /\ UNCHANGED <<up, failed, pump_pointer, engine_connections>>

(* The same call through a pointer to unmapped memory, or through an       *)
(* element of engine_connections that main is still constructing.          *)
OnPublishReceiveWild(p, b) ==
    /\ Arrived(b, p, "req_publish")
    /\ pump_pointer[p] = "unmapped" \/ engine_connections[p] # Engines
    /\ Crash(p)
    /\ UNCHANGED pumpVars

OnPrepareAckReceive(p, e) ==
    /\ Arrived(e, p, "rsp_prepare")
    /\ net' = Taken(<<e, p>>)
    /\ UNCHANGED <<up, failed, stream, pumpVars>>
=============================================================================
