------------------------------ MODULE Channel ------------------------------
(***************************************************************************)
(* What a connection promises in one direction: the messages sent are      *)
(* delivered once each and in order, until the connection is cut; then a   *)
(* prefix of those still on their way may arrive, and nothing sent later.  *)
(***************************************************************************)
EXTENDS Naturals, Sequences

CONSTANT Message

VARIABLES
    queue,      \* the messages on their way, oldest first
    delivered,  \* the messages delivered, oldest first
    cut         \* whether the connection has been cut

channelVars == <<queue, delivered, cut>>

Init == queue = << >> /\ delivered = << >> /\ cut = FALSE

Send(m) ==
    /\ queue' = IF cut THEN queue ELSE Append(queue, m)
    /\ UNCHANGED <<delivered, cut>>

Deliver ==
    /\ queue # << >>
    /\ delivered' = Append(delivered, Head(queue))
    /\ queue' = Tail(queue)
    /\ UNCHANGED cut

(* Messages at the end of the queue are lost with the connection. *)
Cut ==
    /\ cut' = TRUE
    /\ \E k \in 0..Len(queue) : queue' = SubSeq(queue, 1, k)
    /\ UNCHANGED delivered

Next == (\E m \in Message : Send(m)) \/ Deliver \/ Cut

Spec == Init /\ [][Next]_channelVars
=============================================================================
