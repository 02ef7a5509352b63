-------------------------------- MODULE PubSub --------------------------------
(***************************************************************************)
(* What a deployment promises those who use it: what is published may be   *)
(* committed to the replicated store, and only what has been committed is  *)
(* logged by subscribers, once by each of them.                            *)
(***************************************************************************)
EXTENDS Sequences, Functions

CONSTANTS Items, Subscribers

VARIABLES
    sent,       \* what has been published
    committed,  \* what the store holds for good
    logs        \* logs[c]: what subscriber c has been delivered, oldest first

pubsubVars == <<sent, committed, logs>>

Init ==
    /\ sent = {}
    /\ committed = {}
    /\ logs = [c \in Subscribers |-> << >>]

Publish(m) ==
    /\ m \notin sent
    /\ sent' = sent \cup {m}
    /\ UNCHANGED <<committed, logs>>

Commit(m) ==
    /\ m \in sent \ committed
    /\ committed' = committed \cup {m}
    /\ UNCHANGED <<sent, logs>>

Log(c, m) ==
    /\ m \in committed \ Range(logs[c])
    /\ logs' = [logs EXCEPT ![c] = Append(@, m)]
    /\ UNCHANGED <<sent, committed>>

Next ==
    \/ \E m \in Items : Publish(m) \/ Commit(m)
    \/ \E c \in Subscribers, m \in Items : Log(c, m)

Spec == Init /\ [][Next]_pubsubVars
=============================================================================
