------------------------- MODULE MessageConnection -------------------------
(***************************************************************************)
(* One direction of a message_connection: the message_sender of one end    *)
(* and the message_receiver of the other.  Any thread may call             *)
(* send_message(); everything else is a handler that the io_service of the *)
(* end runs, one at a time.  Each message is written and read in two       *)
(* parts, a pre-header of six words and a header that holds the message;   *)
(* no message of this program has a body.                                  *)
(***************************************************************************)
EXTENDS Naturals, Sequences

CONSTANTS
    Threads,   \* the threads that call send_message()
    MaxSends,  \* bound: calls per thread
    None       \* the null req_

ASSUME SendsAssumption == MaxSends \in Nat

Message == Threads \X (1..MaxSends)

ASSUME NoneAssumption == None \notin Message

VARIABLES
    calls,     \* calls[t]: how often t has pushed, and whether it has yet to post
    tx_queue,  \* the sender's concurrent queue
    posted,    \* try_send handlers waiting in its io_service
    req,       \* req_, the message being sent
    write,     \* the async_write under way
    wire,      \* the parts in the socket, oldest first
    reading,   \* the part the receiver's async_read waits for
    received,  \* history: the messages passed to completed_receive
    ends,      \* what became of the two ends
    cut        \* whether the connection is broken

senderVars == <<calls, tx_queue, posted, req, write>>
receiverVars == <<reading, received>>
connectionVars == <<senderVars, wire, receiverVars, ends, cut>>

Parts == {"pre_header", "header"}
Ends == {"sender", "receiver"}

(* A write is under way, or the socket has taken it and the completion     *)
(* handler is still to run.                                                *)
Writes == {"none", "pre_header", "pre_header_sent", "header", "header_sent"}

ConnectionTypeOK ==
    /\ calls \in [Threads -> [pushed : 0..MaxSends, posting : BOOLEAN]]
    /\ tx_queue \in Seq(Message)
    /\ posted \in Nat
    /\ req \in Message \cup {None}
    /\ write \in Writes
    /\ wire \in Seq([part : Parts, req : Message])
    /\ reading \in Parts
    /\ received \in Seq(Message)
    /\ ends \in [Ends -> {"open", "closed", "exited"}]
    /\ cut \in BOOLEAN

Init ==
    /\ calls = [t \in Threads |-> [pushed |-> 0, posting |-> FALSE]]
    /\ tx_queue = << >>
    /\ posted = 0
    /\ req = None
    /\ write = "none"
    /\ wire = << >>
    /\ reading = "pre_header"
    /\ received = << >>
    /\ ends = [e \in Ends |-> "open"]
    /\ cut = FALSE

Running(e) == ends[e] # "exited"

----------------------------------------------------------------------------
(* The sender. *)

(* send_message() pushes the message ... *)
Push(t) ==
    /\ Running("sender")
    /\ calls[t].pushed < MaxSends
    /\ ~calls[t].posting
    /\ calls' = [calls EXCEPT ![t] = [pushed |-> @.pushed + 1, posting |-> TRUE]]
    /\ tx_queue' = Append(tx_queue, <<t, calls[t].pushed + 1>>)
    /\ UNCHANGED <<posted, req, write, wire, receiverVars, ends, cut>>

(* ... and then posts try_send. *)
Post(t) ==
    /\ Running("sender")
    /\ calls[t].posting
    /\ calls' = [calls EXCEPT ![t].posting = FALSE]
    /\ posted' = posted + 1
    /\ UNCHANGED <<tx_queue, req, write, wire, receiverVars, ends, cut>>

SendNextUnchecked ==
    /\ write' = "pre_header"
    /\ IF tx_queue = << >> THEN req' = None /\ UNCHANGED tx_queue
       ELSE req' = Head(tx_queue) /\ tx_queue' = Tail(tx_queue)

(* send_next_message() with req_ null: start_send, or nothing to send. *)
SendNext ==
    IF tx_queue = << >>
    THEN req' = None /\ write' = "none" /\ UNCHANGED tx_queue
    ELSE req' = Head(tx_queue) /\ write' = "pre_header" /\ tx_queue' = Tail(tx_queue)

TrySendAlways ==
    /\ Running("sender")
    /\ posted > 0
    /\ posted' = posted - 1
    /\ SendNext
    /\ UNCHANGED <<calls, wire, receiverVars, ends, cut>>

TrySend ==
    /\ Running("sender")
    /\ posted > 0
    /\ posted' = posted - 1
    /\ IF req = None THEN SendNext ELSE UNCHANGED <<req, write, tx_queue>>
    /\ UNCHANGED <<calls, wire, receiverVars, ends, cut>>

(* handle_prehdr_sent *)
PreHeaderSent ==
    /\ Running("sender")
    /\ write = "pre_header_sent"
    /\ write' = "header"
    /\ UNCHANGED <<calls, tx_queue, posted, req, wire, receiverVars, ends, cut>>

HeaderSentIdle ==
    /\ Running("sender")
    /\ write = "header_sent"
    /\ req' = None
    /\ write' = "none"
    /\ UNCHANGED <<calls, tx_queue, posted, wire, receiverVars, ends, cut>>

(* handle_hdr_sent and next_body_seg: the message is complete, and deleted. *)
HeaderSent ==
    /\ Running("sender")
    /\ write = "header_sent"
    /\ SendNext
    /\ UNCHANGED <<calls, posted, wire, receiverVars, ends, cut>>

----------------------------------------------------------------------------
(* The receiver. *)

PreHeaderRead ==
    /\ ends["receiver"] = "open"
    /\ reading = "pre_header"
    /\ wire # << >>
    /\ wire' = Tail(wire)
    /\ reading' = "header"
    /\ UNCHANGED <<senderVars, received, ends, cut>>

HeaderReadOn ==
    /\ ends["receiver"] = "open"
    /\ reading = "header"
    /\ wire # << >>
    /\ wire' = Tail(wire)
    /\ received' = Append(received, Head(wire).req)
    /\ UNCHANGED <<senderVars, reading, ends, cut>>

(* handle_header_read and next_body_seg: new_rx_message, header_received,   *)
(* completed_receive, and read_new_message.                                 *)
HeaderRead ==
    /\ ends["receiver"] = "open"
    /\ reading = "header"
    /\ wire # << >>
    /\ wire' = Tail(wire)
    /\ received' = Append(received, Head(wire).req)
    /\ reading' = "pre_header"
    /\ UNCHANGED <<senderVars, ends, cut>>

----------------------------------------------------------------------------
(* The socket and the end of the connection. *)

(* The socket takes what is being written. *)
Transmit ==
    /\ Running("sender")
    /\ write \in Parts
    /\ ends["sender"] = "open"
    /\ write' = IF write = "header" THEN "header_sent" ELSE "pre_header_sent"
    /\ wire' = IF cut THEN wire ELSE Append(wire, [part |-> write, req |-> req])
    /\ UNCHANGED <<calls, tx_queue, posted, req, receiverVars, ends, cut>>

(* What close() makes of an end: closed, once only; or its shutdown()      *)
(* throws, as the socket is no longer connected, and the process exits.    *)
Closed(e) ==
    IF ends[e] = "open"
    THEN { [ends EXCEPT ![e] = outcome] : outcome \in {"closed", "exited"} }
    ELSE {ends}

(* A write fails.  req_ stays set, so nothing is sent on this connection   *)
(* again and what is queued is never deleted.                              *)
WriteFails ==
    /\ Running("sender")
    /\ write \in Parts
    /\ cut
    /\ write' = "none"
    /\ ends' \in Closed("sender")
    /\ UNCHANGED <<calls, tx_queue, posted, req, wire, receiverVars, cut>>

(* A read of the connection's other direction fails at the sender's end,   *)
(* a read of this one or a write of the other at the receiver's.           *)
EndCloses(e) ==
    /\ ends[e] = "open"
    /\ cut
    /\ ends' \in Closed(e)
    /\ UNCHANGED <<senderVars, wire, receiverVars, cut>>

(* The connection breaks, or loses more of what it carried. *)
Break ==
    /\ cut' = TRUE
    /\ \E k \in 0..Len(wire) : wire' = SubSeq(wire, 1, k)
    /\ UNCHANGED <<senderVars, receiverVars, ends>>

Next ==
    \/ \E t \in Threads : Push(t) \/ Post(t)
    \/ TrySend
    \/ PreHeaderSent
    \/ HeaderSent
    \/ PreHeaderRead
    \/ HeaderRead
    \/ Transmit
    \/ WriteFails
    \/ \E e \in Ends : EndCloses(e)
    \/ Break

Spec == Init /\ [][Next]_connectionVars

(* The threads return from send_message(), the io_services run their       *)
(* handlers for ever and the socket carries what it is given.              *)
Fairness ==
    /\ \A t \in Threads : WF_connectionVars(Post(t))
    /\ WF_connectionVars(TrySend)
    /\ WF_connectionVars(PreHeaderSent)
    /\ WF_connectionVars(HeaderSent)
    /\ WF_connectionVars(PreHeaderRead)
    /\ WF_connectionVars(HeaderRead)
    /\ WF_connectionVars(Transmit)

FairSpec == Spec /\ Fairness

----------------------------------------------------------------------------
(* Properties. *)

(* The receiver never takes one part of a message for the other: the two   *)
(* async_writes of a message and the two async_reads keep step, however    *)
(* many threads send.                                                      *)
Framed == wire # << >> => Head(wire).part = reading

(* A queued message is never forgotten: a send is under way, whose         *)
(* completion takes the next message, or a try_send is or will be posted   *)
(* (the push to the concurrent queue is outside queue_mutex).              *)
QueueIsAttended ==
    tx_queue # << >> =>
      \/ req # None
      \/ posted > 0
      \/ \E t \in Threads : calls[t].posting

(* Every message a thread sends is received, unless the connection breaks. *)
SentIsReceived ==
    \A m \in Message :
      calls[m[1]].pushed >= m[2] ~> (cut \/ \E i \in DOMAIN received : received[i] = m)

(* The messages whose header is in the socket: the headers are every       *)
(* second part of wire, from the first or the second.                      *)
FirstHeader == IF reading = "header" THEN 1 ELSE 2

OnWire ==
    [i \in 1..((Len(wire) + 2 - FirstHeader) \div 2) |->
        wire[2 * i + FirstHeader - 2].req]

(* The messages whose header is not there yet. *)
Unsent ==
    (IF req # None /\ write # "header_sent" THEN <<req>> ELSE << >>) \o tx_queue

OnTheirWay == IF cut THEN OnWire ELSE OnWire \o Unsent

InChannel == INSTANCE Channel WITH queue <- OnTheirWay, delivered <- received

(* A message_connection is a channel: send_message to completed_receive is *)
(* in order, without loss or duplication until the connection breaks, and  *)
(* without a gap after.                                                    *)
IsAChannel == InChannel!Spec
=============================================================================
