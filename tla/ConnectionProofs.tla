-------------------------- MODULE ConnectionProofs --------------------------
(***************************************************************************)
(* What is proved of a message_connection for any number of threads and    *)
(* calls: type correctness, that no queued message is forgotten, that the  *)
(* receiver stays in step with the sender, and that it is a channel.       *)
(***************************************************************************)
EXTENDS MessageConnection, SequenceTheorems, TLAPS

(* What is written is req_; it may be set with no write under way, once a  *)
(* write has failed.                                                       *)
WriteHasMessage == write # "none" => req \in Message

(* A prefix of a sequence is one. *)
LEMMA Prefix ==
    ASSUME NEW S, NEW s \in Seq(S), NEW k \in 0..Len(s)
    PROVE  /\ SubSeq(s, 1, k) \in Seq(S)
           /\ Len(SubSeq(s, 1, k)) = k
           /\ \A i \in 1..k : SubSeq(s, 1, k)[i] = s[i]
<1>1. \A i \in 1..k : s[i] \in S
    OBVIOUS
<1> QED BY <1>1, SubSeqProperties

(* Types are preserved by every step of either end and of the socket. *)
LEMMA TypeStep ==
    ConnectionTypeOK /\ WriteHasMessage /\ [Next]_connectionVars
      => ConnectionTypeOK' /\ WriteHasMessage'
<1> SUFFICES ASSUME ConnectionTypeOK, WriteHasMessage, [Next]_connectionVars
             PROVE  ConnectionTypeOK' /\ WriteHasMessage'
    OBVIOUS
<1> USE SendsAssumption, NoneAssumption DEF ConnectionTypeOK, Message, WriteHasMessage
<1>1. ASSUME SendNext
      PROVE  /\ req' \in Message \cup {None}
             /\ write' \in Writes
             /\ tx_queue' \in Seq(Message)
             /\ write' # "none" => req' \in Message
    <2>1. CASE tx_queue = << >>
        BY <1>1, <2>1 DEF SendNext, Writes
    <2>2. CASE tx_queue # << >>
        <3>1. Head(tx_queue) \in Message /\ Tail(tx_queue) \in Seq(Message)
            BY <2>2, HeadTailProperties
        <3> QED BY <1>1, <2>2, <3>1 DEF SendNext, Writes
    <2> QED BY <2>1, <2>2
<1>2. ASSUME NEW t \in Threads, Push(t)
      PROVE  ConnectionTypeOK' /\ WriteHasMessage'
    <2>1. calls[t].pushed + 1 \in 1..MaxSends
        BY <1>2 DEF Push
    <2> QED BY <1>2, <2>1 DEF Push, receiverVars
<1>3. ASSUME NEW t \in Threads, Post(t)
      PROVE  ConnectionTypeOK' /\ WriteHasMessage'
    <2>1. calls' \in [Threads -> [pushed : 0..MaxSends, posting : BOOLEAN]]
        BY <1>3 DEF Post
    <2>2. posted' \in Nat
        BY <1>3, SMTT(30) DEF Post
    <2> QED BY <1>3, <2>1, <2>2 DEF Post, receiverVars
<1>4. CASE TrySend
    <2>1. posted' \in Nat
        BY <1>4 DEF TrySend
    <2>2. CASE req = None
        BY <1>1, <1>4, <2>1, <2>2 DEF TrySend, receiverVars
    <2>3. CASE req # None
        BY <1>4, <2>1, <2>3 DEF TrySend, receiverVars
    <2> QED BY <2>2, <2>3
<1>5. CASE PreHeaderSent
    BY <1>5 DEF PreHeaderSent, receiverVars, Writes
<1>6. CASE HeaderSent
    BY <1>1, <1>6 DEF HeaderSent, receiverVars
<1>7. CASE PreHeaderRead
    <2>1. Tail(wire) \in Seq([part : Parts, req : Message])
        BY <1>7, HeadTailProperties DEF PreHeaderRead
    <2> QED BY <1>7, <2>1 DEF PreHeaderRead, senderVars, Parts
<1>8. CASE HeaderRead
    <2>1. /\ Head(wire) \in [part : Parts, req : Message]
          /\ Tail(wire) \in Seq([part : Parts, req : Message])
        BY <1>8, HeadTailProperties DEF HeaderRead
    <2>2. Append(received, Head(wire).req) \in Seq(Message)
        BY <2>1
    <2> QED BY <1>8, <2>1, <2>2 DEF HeaderRead, senderVars, Parts
<1>9. CASE Transmit
    <2>1. [part |-> write, req |-> req] \in [part : Parts, req : Message]
        BY <1>9 DEF Transmit, Parts
    <2>2. wire' \in Seq([part : Parts, req : Message])
        BY <1>9, <2>1, AppendProperties DEF Transmit
    <2> QED BY <1>9, <2>2 DEF Transmit, receiverVars, Writes, Parts
<1>10. ASSUME NEW e \in Ends, ends' \in Closed(e)
       PROVE  ends' \in [Ends -> {"open", "closed", "exited"}]
    BY <1>10 DEF Closed
<1>11. CASE WriteFails
    BY <1>10, <1>11 DEF WriteFails, receiverVars, Writes, Ends
<1>12. ASSUME NEW e \in Ends, EndCloses(e)
       PROVE  ConnectionTypeOK' /\ WriteHasMessage'
    BY <1>10, <1>12 DEF EndCloses, senderVars, receiverVars
<1>13. CASE Break
    <2>1. PICK k \in 0..Len(wire) : wire' = SubSeq(wire, 1, k)
        BY <1>13 DEF Break
    <2>2. SubSeq(wire, 1, k) \in Seq([part : Parts, req : Message])
        BY <2>1, Prefix
    <2> QED BY <1>13, <2>1, <2>2 DEF Break, senderVars, receiverVars
<1>14. CASE UNCHANGED connectionVars
    BY <1>14 DEF connectionVars, senderVars, receiverVars
<1> QED
    BY <1>2, <1>3, <1>4, <1>5, <1>6, <1>7, <1>8, <1>9, <1>11, <1>12, <1>13, <1>14
    DEF Next

----------------------------------------------------------------------------
(* The part the sender transmits next. *)
NextPart == IF write \in {"header", "pre_header_sent"} THEN "header" ELSE "pre_header"

(* Between the part being read and the part to be transmitted next, the    *)
(* wire holds whole messages, or whole messages and one part.              *)
InStep == ~cut => (NextPart = reading <=> Len(wire) % 2 = 0)

(* Every part is the other one than the part before it. *)
Alternates ==
    /\ Framed
    /\ \A i \in 1..(Len(wire) - 1) : wire[i].part # wire[i + 1].part
    /\ ~cut /\ wire # << >> => wire[Len(wire)].part # NextPart
    /\ ~cut /\ wire = << >> => NextPart = reading

ConnectionInv == ConnectionTypeOK /\ WriteHasMessage /\ InStep /\ Alternates

(* The two ends stay in step. *)
LEMMA StepStep ==
    ConnectionInv /\ [Next]_connectionVars => InStep' /\ Alternates'
<1> SUFFICES ASSUME ConnectionInv, [Next]_connectionVars
             PROVE  InStep' /\ Alternates'
    OBVIOUS
<1> USE DEF ConnectionInv
<1>1. wire \in Seq([part : Parts, req : Message]) /\ write \in Writes /\ reading \in Parts
    BY DEF ConnectionTypeOK
(* What leaves the wire, the reader and the next part alone. *)
<1>2. ASSUME UNCHANGED <<wire, reading, cut>>, cut \/ NextPart' = NextPart
      PROVE  InStep' /\ Alternates'
    BY <1>2 DEF InStep, Alternates, Framed
<1>3. ASSUME NEW t \in Threads, Push(t)
      PROVE  InStep' /\ Alternates'
    BY <1>2, <1>3 DEF Push, receiverVars, NextPart
<1>4. ASSUME NEW t \in Threads, Post(t)
      PROVE  InStep' /\ Alternates'
    BY <1>2, <1>4 DEF Post, receiverVars, NextPart
<1>5. CASE TrySend
    <2>1. CASE req = None
        <3>1. write = "none"
            BY <2>1, NoneAssumption DEF WriteHasMessage
        <3>2. write' \in {"none", "pre_header"}
            BY <1>5, <2>1 DEF TrySend, SendNext
        <3> QED BY <1>2, <1>5, <3>1, <3>2 DEF TrySend, receiverVars, NextPart
    <2>2. CASE req # None
        BY <1>2, <1>5, <2>2 DEF TrySend, receiverVars, NextPart
    <2> QED BY <2>1, <2>2
<1>6. CASE PreHeaderSent
    BY <1>2, <1>6 DEF PreHeaderSent, receiverVars, NextPart
<1>7. CASE HeaderSent
    <2>1. write' \in {"none", "pre_header"}
        BY <1>7 DEF HeaderSent, SendNext
    <2> QED BY <1>2, <1>7, <2>1 DEF HeaderSent, receiverVars, NextPart
<1>8. ASSUME wire # << >>, wire' = Tail(wire), reading' # reading, reading' \in Parts,
             UNCHANGED <<write, cut>>
      PROVE  InStep' /\ Alternates'
    <2>1. /\ Len(wire') = Len(wire) - 1
          /\ \A i \in 1..Len(wire') : wire'[i] = wire[i + 1]
          /\ wire' \in Seq([part : Parts, req : Message])
        BY <1>1, <1>8, HeadTailProperties
    <2>2. InStep'
        BY <1>1, <1>8, <2>1 DEF InStep, NextPart, Parts
    <2>3. Framed'
        <3> SUFFICES ASSUME wire' # << >> PROVE wire'[1].part = reading'
            BY <2>1 DEF Framed
        <3>1. Len(wire') \in Nat /\ Len(wire') # 0
            BY <2>1, EmptySeq
        <3>2. Len(wire) \in Nat /\ Len(wire) > 1 /\ 1 \in 1..Len(wire') /\ 2 \in DOMAIN wire
            BY <1>1, <2>1, <3>1
        <3>3. Len(wire) > 1 /\ wire'[1] = wire[2] /\ wire[2] \in [part : Parts, req : Message]
            <4>1. wire'[1] = wire[1 + 1]
                BY <2>1, <3>2
            <4>2. wire[2] \in [part : Parts, req : Message]
                <5>1. 2 \in 1..Len(wire)
                    BY <3>2
                <5> QED BY <1>1, <5>1, ElementOfSeq
            <4> QED BY <3>2, <4>1, <4>2
        <3>4. wire[1].part # wire[2].part /\ wire[1].part = reading
            BY <1>1, <1>8, <3>2 DEF Alternates, Framed
        <3> QED BY <1>1, <1>8, <3>3, <3>4 DEF Parts
    <2>4. \A i \in 1..(Len(wire') - 1) : wire'[i].part # wire'[i + 1].part
        <3> TAKE i \in 1..(Len(wire') - 1)
        <3>1. i + 1 \in 1..(Len(wire) - 1) /\ wire'[i] = wire[i + 1] /\ wire'[i + 1] = wire[i + 2]
            BY <1>1, <2>1
        <3> QED BY <3>1 DEF Alternates
    <2>5. ASSUME ~cut', wire' # << >>
          PROVE  wire'[Len(wire')].part # NextPart'
        <3>1. wire'[Len(wire')] = wire[Len(wire)]
            BY <1>1, <2>1, <2>5
        <3> QED BY <1>8, <2>5, <3>1 DEF Alternates, NextPart
    <2>6. ASSUME ~cut', wire' = << >>
          PROVE  NextPart' = reading'
        <3>1. Len(wire) = 1
            BY <1>1, <2>1, <2>6
        <3>2. wire[1].part # NextPart /\ wire[1].part = reading
            BY <1>1, <1>8, <2>6, <3>1 DEF Alternates, Framed
        <3> QED BY <1>1, <1>8, <3>2 DEF NextPart, Parts
    <2> QED BY <2>2, <2>3, <2>4, <2>5, <2>6 DEF Alternates
<1>9. CASE PreHeaderRead
    BY <1>8, <1>9 DEF PreHeaderRead, senderVars, Parts
<1>10. CASE HeaderRead
    BY <1>8, <1>10 DEF HeaderRead, senderVars, Parts
<1>11. CASE Transmit
    <2>1. CASE cut
        BY <1>2, <1>11, <2>1 DEF Transmit, receiverVars
    <2>2. CASE ~cut
        <3> DEFINE segment == [part |-> write, req |-> req]
        <3>1. segment \in [part : Parts, req : Message] /\ write = NextPart
            BY <1>11 DEF Transmit, Parts, WriteHasMessage, NextPart
        <3>2. /\ wire' = Append(wire, segment) /\ wire' # << >>
              /\ Len(wire') = Len(wire) + 1
              /\ \A i \in 1..Len(wire) : wire'[i] = wire[i]
              /\ wire'[Len(wire) + 1] = segment
            BY <1>1, <1>11, <2>2, <3>1, AppendProperties DEF Transmit
        <3>3. NextPart' # write /\ NextPart' \in Parts /\ reading' = reading /\ cut' = cut
            BY <1>11 DEF Transmit, receiverVars, NextPart, Parts
        <3>4. InStep'
            BY <1>1, <2>2, <3>1, <3>2, <3>3 DEF InStep, Parts
        <3>5. Framed'
            <4>1. CASE wire = << >>
                <5>1. wire'[1] = segment /\ Head(wire') = wire'[1]
                    BY <1>1, <3>2, <4>1
                <5> QED BY <2>2, <3>1, <3>3, <4>1, <5>1 DEF Framed, Alternates
            <4>2. CASE wire # << >>
                <5>1. Head(wire') = Head(wire)
                    BY <1>1, <3>2, <4>2
                <5> QED BY <3>3, <4>2, <5>1 DEF Framed, Alternates
            <4> QED BY <4>1, <4>2
        <3>6. \A i \in 1..(Len(wire') - 1) : wire'[i].part # wire'[i + 1].part
            <4> TAKE i \in 1..(Len(wire') - 1)
            <4>1. CASE i = Len(wire)
                <5>1. wire'[i] = wire[Len(wire)] /\ wire'[i + 1] = segment /\ wire # << >>
                    BY <1>1, <3>2, <4>1
                <5> QED BY <2>2, <3>1, <5>1 DEF Alternates
            <4>2. CASE i # Len(wire)
                <5>1. i \in 1..(Len(wire) - 1) /\ wire'[i] = wire[i] /\ wire'[i + 1] = wire[i + 1]
                    BY <1>1, <3>2, <4>2
                <5> QED BY <5>1 DEF Alternates
            <4> QED BY <4>1, <4>2
        <3> QED BY <3>2, <3>3, <3>4, <3>5, <3>6 DEF Alternates
    <2> QED BY <2>1, <2>2
<1>12. CASE WriteFails
    BY <1>2, <1>12 DEF WriteFails, receiverVars
<1>13. ASSUME NEW e \in Ends, EndCloses(e)
       PROVE  InStep' /\ Alternates'
    BY <1>2, <1>13 DEF EndCloses, senderVars, receiverVars
<1>14. CASE Break
    <2>1. PICK k \in 0..Len(wire) : wire' = SubSeq(wire, 1, k)
        BY <1>14 DEF Break
    <2>2. /\ Len(wire') = k
          /\ wire' \in Seq([part : Parts, req : Message])
          /\ \A i \in 1..k : wire'[i] = wire[i]
        BY <1>1, <2>1, Prefix
    <2>3. wire' # << >> => wire # << >> /\ Head(wire') = Head(wire)
        BY <1>1, <2>2
    <2>4. reading' = reading /\ cut'
        BY <1>14 DEF Break, receiverVars
    <2>5. \A i \in 1..(Len(wire') - 1) : wire'[i].part # wire'[i + 1].part
        BY <1>1, <2>2 DEF Alternates
    <2> QED BY <2>3, <2>4, <2>5 DEF InStep, Alternates, Framed
<1>15. CASE UNCHANGED connectionVars
    BY <1>2, <1>15 DEF connectionVars, senderVars, receiverVars, NextPart
<1> QED
    BY <1>3, <1>4, <1>5, <1>6, <1>7, <1>9, <1>10, <1>11, <1>12, <1>13, <1>14, <1>15
    DEF Next
(* The invariant holds of every behaviour: the base and the step of what   *)
(* follows.                                                                *)
LEMMA InvAlways == Spec => []ConnectionInv
<1>1. Init => ConnectionInv
    <2> SUFFICES ASSUME Init PROVE ConnectionInv
        OBVIOUS
    <2>1. ConnectionTypeOK
        <3>1. calls \in [Threads -> [pushed : 0..MaxSends, posting : BOOLEAN]]
            BY SendsAssumption DEF Init
        <3>2. /\ tx_queue \in Seq(Message) /\ received \in Seq(Message)
              /\ wire \in Seq([part : Parts, req : Message])
            BY EmptySeq DEF Init
        <3> QED BY <3>1, <3>2 DEF Init, ConnectionTypeOK, Parts, Writes
    <2>2. wire = << >> /\ Len(wire) = 0
        BY DEF Init
    <2> QED
        BY <2>1, <2>2 DEF Init, ConnectionInv, WriteHasMessage, InStep, Alternates,
                          Framed, NextPart
<1>2. ConnectionInv /\ [Next]_connectionVars => ConnectionInv'
    BY TypeStep, StepStep DEF ConnectionInv
<1> QED BY <1>1, <1>2, PTL DEF Spec

(* Every variable keeps its type, for any number of threads and calls.     *)
THEOREM ConnectionTypeCorrect == Spec => []ConnectionTypeOK
<1>1. ConnectionInv => ConnectionTypeOK
    BY DEF ConnectionInv
<1> QED BY <1>1, InvAlways, PTL

(* The receiver never mistakes one part of a message for the other         *)
(* (handle_pre_read and handle_header_read alternate as the sender's two   *)
(* writes do).                                                             *)
THEOREM AlwaysFramed == Spec => []Framed
<1>1. ConnectionInv => Framed
    BY DEF ConnectionInv, Alternates
<1> QED BY <1>1, InvAlways, PTL

(* No queued message is ever forgotten: send_message posts after it pushes *)
(* and next_body_seg sends on when a message is complete.                  *)
THEOREM QueueAlwaysAttended == Spec => []QueueIsAttended
<1>1. Init => QueueIsAttended
    BY DEF Init, QueueIsAttended
<1>2. QueueIsAttended /\ ConnectionTypeOK /\ [Next]_connectionVars => QueueIsAttended'
    <2> SUFFICES ASSUME QueueIsAttended, ConnectionTypeOK, [Next]_connectionVars
                 PROVE  QueueIsAttended'
        OBVIOUS
    <2>1. ASSUME SendNext PROVE tx_queue' # << >> => req' # None
        <3>1. tx_queue # << >> => Head(tx_queue) \in Message
            BY HeadTailProperties DEF ConnectionTypeOK
        <3> QED BY <2>1, <3>1, NoneAssumption DEF SendNext
    <2>2. ASSUME NEW t \in Threads, Push(t)
          PROVE  QueueIsAttended'
        <3>1. calls'[t].posting
            BY <2>2 DEF Push, ConnectionTypeOK
        <3> QED BY <3>1 DEF QueueIsAttended
    <2>3. ASSUME NEW t \in Threads, Post(t)
          PROVE  QueueIsAttended'
        BY <2>3 DEF Post, ConnectionTypeOK, QueueIsAttended
    <2>4. CASE TrySend
        BY <2>1, <2>4 DEF TrySend, QueueIsAttended
    <2>5. CASE PreHeaderSent
        BY <2>5 DEF PreHeaderSent, QueueIsAttended
    <2>6. CASE HeaderSent
        BY <2>1, <2>6 DEF HeaderSent, QueueIsAttended
    <2>7. CASE PreHeaderRead
        BY <2>7 DEF PreHeaderRead, senderVars, QueueIsAttended
    <2>8. CASE HeaderRead
        BY <2>8 DEF HeaderRead, senderVars, QueueIsAttended
    <2>9. CASE Transmit
        BY <2>9 DEF Transmit, QueueIsAttended
    <2>10. CASE WriteFails
        BY <2>10 DEF WriteFails, QueueIsAttended
    <2>11. ASSUME NEW e \in Ends, EndCloses(e)
           PROVE  QueueIsAttended'
        BY <2>11 DEF EndCloses, senderVars, QueueIsAttended
    <2>12. CASE Break
        BY <2>12 DEF Break, senderVars, QueueIsAttended
    <2>13. CASE UNCHANGED connectionVars
        BY <2>13 DEF connectionVars, senderVars, QueueIsAttended
    <2> QED
        BY <2>2, <2>3, <2>4, <2>5, <2>6, <2>7, <2>8, <2>9, <2>10, <2>11, <2>12, <2>13
        DEF Next
<1> QED BY <1>1, <1>2, ConnectionTypeCorrect, PTL DEF Spec

----------------------------------------------------------------------------
(***************************************************************************)
(* A message_connection implements a channel, for any number of threads    *)
(* and calls: every step of either end or of the socket sends, delivers or *)
(* loses messages as Channel allows, or leaves the channel as it is.       *)
(***************************************************************************)

----------------------------------------------------------------------------
(* Sequences of messages. *)

(* Appending to the second of two sequences appends to both. *)
LEMMA AppendConcat ==
    ASSUME NEW S, NEW s \in Seq(S), NEW t \in Seq(S), NEW x \in S
    PROVE  s \o Append(t, x) = Append(s \o t, x)
<1>1. /\ Append(t, x) = t \o <<x>>
      /\ Append(s \o t, x) = (s \o t) \o <<x>>
      /\ <<x>> \in Seq(S)
    BY AppendIsConcat, ConcatProperties
<1> QED BY <1>1, ConcatAssociative

(* Moving the first message of the second sequence to the first's end. *)
LEMMA ConcatMove ==
    ASSUME NEW S, NEW s \in Seq(S), NEW t \in Seq(S), NEW x \in S
    PROVE  Append(s, x) \o t = s \o (<<x>> \o t)
<1>1. Append(s, x) = s \o <<x>> /\ <<x>> \in Seq(S)
    BY AppendIsConcat
<1> QED BY <1>1, ConcatAssociative

(* A sequence is its head followed by its tail. *)
LEMMA HeadThenTail ==
    ASSUME NEW S, NEW s \in Seq(S), s # << >>
    PROVE  <<Head(s)>> \o Tail(s) = s
<1>1. /\ Head(s) \in S /\ Head(s) = s[1]
      /\ Tail(s) \in Seq(S) /\ Len(Tail(s)) = Len(s) - 1
      /\ \A i \in 1..Len(Tail(s)) : Tail(s)[i] = s[i + 1]
    BY HeadTailProperties
<1> DEFINE joined == <<Head(s)>> \o Tail(s)
<1>2. /\ joined \in Seq(S) /\ Len(joined) = 1 + Len(Tail(s))
      /\ \A i \in 1..(1 + Len(Tail(s))) :
           joined[i] = IF i <= 1 THEN <<Head(s)>>[i] ELSE Tail(s)[i - 1]
    BY <1>1, ConcatProperties
<1>3. Len(s) \in Nat /\ Len(joined) = Len(s)
    BY <1>1, <1>2
<1>4. ASSUME NEW i \in 1..Len(s) PROVE joined[i] = s[i]
    <2>1. CASE i = 1
        BY <1>1, <1>2, <1>3, <2>1
    <2>2. CASE i # 1
        <3>1. i - 1 \in 1..Len(Tail(s)) /\ (i - 1) + 1 = i
            BY <1>1, <1>3, <2>2
        <3>2. joined[i] = Tail(s)[i - 1] /\ Tail(s)[i - 1] = s[(i - 1) + 1]
            BY <1>1, <1>2, <1>3, <2>2, <3>1
        <3> QED BY <3>1, <3>2
    <2> QED BY <2>1, <2>2
<1> HIDE DEF joined
<1>5. joined = s
    BY <1>2, <1>3, <1>4, SeqEqual
<1> QED BY <1>5 DEF joined

(* Taking the first message of a sequence takes that of a longer one. *)
LEMMA ConcatHeadTail ==
    ASSUME NEW S, NEW s \in Seq(S), NEW t \in Seq(S), s # << >>
    PROVE  /\ s \o t # << >>
           /\ Head(s \o t) = Head(s)
           /\ Tail(s \o t) = Tail(s) \o t
<1>1. /\ Head(s) \in S /\ Tail(s) \in Seq(S) /\ <<Head(s)>> \in Seq(S)
      /\ Tail(s) \o t \in Seq(S)
    BY HeadTailProperties, ConcatProperties
<1>2. s \o t = <<Head(s)>> \o (Tail(s) \o t)
    BY <1>1, HeadThenTail, ConcatAssociative
<1>3. ASSUME NEW u \in Seq(S), NEW x \in S
      PROVE  /\ <<x>> \o u # << >>
             /\ Head(<<x>> \o u) = x
             /\ Tail(<<x>> \o u) = u
    OBVIOUS
<1> QED BY <1>1, <1>2, <1>3

(* A prefix of the first of two sequences is one of both. *)
LEMMA ConcatPrefix ==
    ASSUME NEW S, NEW s \in Seq(S), NEW t \in Seq(S), NEW k \in 0..Len(s)
    PROVE  /\ k \in 0..Len(s \o t)
           /\ SubSeq(s \o t, 1, k) = SubSeq(s, 1, k)
<1>1. /\ s \o t \in Seq(S) /\ Len(s \o t) = Len(s) + Len(t)
      /\ \A i \in 1..Len(s) : (s \o t)[i] = s[i]
    BY ConcatProperties
<1>2. Len(s) \in Nat /\ Len(t) \in Nat /\ k \in 0..Len(s \o t)
    BY <1>1
<1>3. /\ SubSeq(s, 1, k) \in Seq(S) /\ Len(SubSeq(s, 1, k)) = k
      /\ \A i \in 1..k : SubSeq(s, 1, k)[i] = s[i]
    BY Prefix
<1>4. /\ SubSeq(s \o t, 1, k) \in Seq(S) /\ Len(SubSeq(s \o t, 1, k)) = k
      /\ \A i \in 1..k : SubSeq(s \o t, 1, k)[i] = (s \o t)[i]
    BY <1>1, <1>2, Prefix
<1>5. \A i \in 1..k : SubSeq(s \o t, 1, k)[i] = SubSeq(s, 1, k)[i]
    BY <1>1, <1>3, <1>4
<1> QED BY <1>2, <1>3, <1>4, <1>5, SeqEqual
----------------------------------------------------------------------------
(* The messages on their way. *)

(* A count of pairs, with or without the odd one. *)
LEMMA Halves ==
    ASSUME NEW n \in Nat
    PROVE  /\ n \div 2 \in Nat
           /\ 2 * (n \div 2) <= n /\ n <= 2 * (n \div 2) + 1
           /\ n % 2 = 0 <=> n = 2 * (n \div 2)
  OBVIOUS

(* ... and of one more. *)
LEMMA HalvesOfNext ==
    ASSUME NEW n \in Nat
    PROVE  /\ n % 2 = 0 => (n + 1) \div 2 = n \div 2 /\ (n + 1) % 2 # 0
           /\ n % 2 # 0 => /\ (n + 1) \div 2 = n \div 2 + 1
                           /\ 2 * ((n + 1) \div 2) = n + 1
                           /\ (n + 1) % 2 = 0
<1>1. /\ n \div 2 \in Nat /\ (n + 1) \div 2 \in Nat
      /\ 2 * (n \div 2) <= n /\ n <= 2 * (n \div 2) + 1
      /\ 2 * ((n + 1) \div 2) <= n + 1 /\ n + 1 <= 2 * ((n + 1) \div 2) + 1
      /\ n % 2 = 0 <=> n = 2 * (n \div 2)
      /\ (n + 1) % 2 = 0 <=> n + 1 = 2 * ((n + 1) \div 2)
    BY n + 1 \in Nat, Halves
<1>2. ASSUME NEW h \in Nat, NEW k \in Nat,
             2 * h <= n, n <= 2 * h + 1, 2 * k <= n + 1, n + 1 <= 2 * k + 1
      PROVE  /\ n = 2 * h => k = h /\ n + 1 # 2 * k
             /\ n # 2 * h => k = h + 1 /\ 2 * k = n + 1
    BY <1>2
<1> QED BY <1>1, <1>2

(* What OnWire and Unsent hold. *)
OnWireHolds ==
    /\ OnWire \in Seq(Message)
    /\ FirstHeader \in {1, 2}
    /\ Len(OnWire) = (Len(wire) + 2 - FirstHeader) \div 2
    /\ \A i \in 1..Len(OnWire) :
         /\ 2 * i + FirstHeader - 2 \in 1..Len(wire)
         /\ OnWire[i] = wire[2 * i + FirstHeader - 2].req

UnsentHolds == Unsent \in Seq(Message)

(* The messages whose headers are in the socket. *)
LEMMA OnWireMessages == ConnectionTypeOK => OnWireHolds
<1> SUFFICES ASSUME ConnectionTypeOK PROVE OnWireHolds
    OBVIOUS
<1> DEFINE n == (Len(wire) + 2 - FirstHeader) \div 2
<1>1. FirstHeader \in {1, 2} /\ wire \in Seq([part : Parts, req : Message])
    BY DEF FirstHeader, ConnectionTypeOK
<1>2. Len(wire) \in Nat /\ Len(wire) + 2 - FirstHeader \in Nat
    BY <1>1
<1>3. n \in Nat /\ 2 * n <= Len(wire) + 2 - FirstHeader
    BY <1>2, Halves
<1>4. OnWire = [i \in 1..n |-> wire[2 * i + FirstHeader - 2].req]
    BY DEF OnWire
<1> HIDE DEF n
<1>5. ASSUME NEW i \in 1..n
      PROVE  /\ 2 * i + FirstHeader - 2 \in 1..Len(wire)
             /\ wire[2 * i + FirstHeader - 2].req \in Message
    <2>1. 2 * i + FirstHeader - 2 \in 1..Len(wire)
        BY <1>1, <1>2, <1>3
    <2>2. wire[2 * i + FirstHeader - 2] \in [part : Parts, req : Message]
        BY <1>1, <2>1, ElementOfSeq
    <2> QED BY <2>1, <2>2
<1>6. OnWire \in Seq(Message) /\ Len(OnWire) = n
    BY <1>3, <1>4, <1>5, IsASeq
<1> QED BY <1>1, <1>4, <1>5, <1>6 DEF n, OnWireHolds

(* ... and those whose headers are not. *)
LEMMA UnsentMessages == ConnectionTypeOK => UnsentHolds
<1> SUFFICES ASSUME ConnectionTypeOK PROVE Unsent \in Seq(Message)
    BY DEF UnsentHolds
<1>1. CASE req # None /\ write # "header_sent"
    <2>1. <<req>> \in Seq(Message) /\ tx_queue \in Seq(Message)
        BY <1>1 DEF ConnectionTypeOK
    <2> QED BY <1>1, <2>1, ConcatProperties DEF Unsent
<1>2. CASE ~(req # None /\ write # "header_sent")
    BY <1>2, EmptySeq, ConcatProperties DEF Unsent, ConnectionTypeOK
<1> QED BY <1>1, <1>2

(* The same wire and reader hold the same messages. *)
LEMMA OnWireUnchanged ==
    ASSUME UNCHANGED <<wire, reading>>
    PROVE  OnWire' = OnWire
  BY DEF OnWire, FirstHeader

(* send_next_message() moves a message from the queue to req_. *)
LEMMA SendNextUnsent ==
    ASSUME ConnectionTypeOK, SendNext
    PROVE  Unsent' = tx_queue
<1>1. CASE tx_queue = << >>
    BY <1>1, EmptySeq, ConcatEmptySeq DEF SendNext, Unsent
<1>2. CASE tx_queue # << >>
    <2>1. tx_queue \in Seq(Message) /\ Head(tx_queue) \in Message
        BY <1>2, HeadTailProperties DEF ConnectionTypeOK
    <2>2. req' # None /\ write' # "header_sent" /\ req' = Head(tx_queue) /\ tx_queue' = Tail(tx_queue)
        BY <1>2, <2>1, NoneAssumption DEF SendNext
    <2>3. Unsent' = <<Head(tx_queue)>> \o Tail(tx_queue)
        BY <2>2 DEF Unsent
    <2> QED BY <1>2, <2>1, <2>3, HeadThenTail
<1> QED BY <1>1, <1>2
----------------------------------------------------------------------------
(* Each step as a step of the channel. *)

(* Every step of a connection is a step of the channel, or none. *)
LEMMA ChannelStep ==
    ConnectionInv /\ ConnectionTypeOK' /\ [Next]_connectionVars
      => [InChannel!Next]_(InChannel!channelVars)
<1> SUFFICES ASSUME ConnectionInv, ConnectionTypeOK', [Next]_connectionVars
             PROVE  [InChannel!Next]_(InChannel!channelVars)
    OBVIOUS
<1>1. /\ ConnectionTypeOK /\ WriteHasMessage /\ InStep
      /\ OnWire \in Seq(Message) /\ Unsent \in Seq(Message)
      /\ OnWire' \in Seq(Message) /\ Unsent' \in Seq(Message)
      /\ tx_queue \in Seq(Message) /\ tx_queue' \in Seq(Message)
    <2>1. ConnectionTypeOK /\ WriteHasMessage /\ InStep
        BY DEF ConnectionInv
    <2>2. OnWireHolds' /\ UnsentHolds'
        BY OnWireMessages, UnsentMessages, PTL
    <2> QED BY <2>1, <2>2, OnWireMessages, UnsentMessages
            DEF ConnectionTypeOK, OnWireHolds, UnsentHolds
(* Steps that the channel does not see. *)
<1>2. ASSUME OnTheirWay' = OnTheirWay, UNCHANGED <<received, cut>>
      PROVE  UNCHANGED InChannel!channelVars
    BY <1>2 DEF InChannel!channelVars
<1>3. ASSUME OnWire' = OnWire, cut \/ Unsent' = Unsent, UNCHANGED <<received, cut>>
      PROVE  UNCHANGED InChannel!channelVars
    BY <1>2, <1>3 DEF OnTheirWay
<1>4. ASSUME NEW t \in Threads, Push(t)
      PROVE  InChannel!Next
    <2> DEFINE m == <<t, calls[t].pushed + 1>>
    <2>1. m \in Message
        BY <1>1, <1>4, SendsAssumption DEF Push, ConnectionTypeOK, Message
    <2>2. OnWire' = OnWire /\ UNCHANGED <<received, cut, req, write>>
        BY <1>4, OnWireUnchanged DEF Push, receiverVars
    <2>3. Unsent' = Append(Unsent, m)
        <3> DEFINE current == IF req # None /\ write # "header_sent" THEN <<req>> ELSE << >>
        <3>1. current \in Seq(Message)
            BY <1>1, EmptySeq DEF ConnectionTypeOK
        <3>2. Unsent = current \o tx_queue /\ Unsent' = current \o Append(tx_queue, m)
            BY <1>4, <2>2 DEF Unsent, Push
        <3> HIDE DEF current, m
        <3> QED BY <1>1, <2>1, <3>1, <3>2, AppendConcat
    <2>4. OnTheirWay' = IF cut THEN OnTheirWay ELSE Append(OnTheirWay, m)
        <3> HIDE DEF m
        <3>1. OnWire \o Append(Unsent, m) = Append(OnWire \o Unsent, m)
            BY <1>1, <2>1, AppendConcat
        <3> QED BY <2>2, <2>3, <3>1 DEF OnTheirWay
    <2>5. InChannel!Send(m)
        BY <2>2, <2>4 DEF InChannel!Send
    <2> QED BY <2>1, <2>5 DEF InChannel!Next
<1>5. ASSUME NEW t \in Threads, Post(t)
      PROVE  UNCHANGED InChannel!channelVars
    BY <1>3, <1>5, OnWireUnchanged DEF Post, receiverVars, Unsent
<1>6. CASE TrySend
    <2>1. OnWire' = OnWire /\ UNCHANGED <<received, cut>>
        BY <1>6, OnWireUnchanged DEF TrySend, receiverVars
    <2>2. CASE req = None
        <3>1. Unsent = tx_queue
            BY <1>1, <2>2, ConcatEmptySeq DEF Unsent
        <3>2. Unsent' = tx_queue
            BY <1>1, <1>6, <2>2, SendNextUnsent DEF TrySend
        <3> QED BY <1>3, <2>1, <3>1, <3>2
    <2>3. CASE req # None
        BY <1>3, <1>6, <2>1, <2>3 DEF TrySend, Unsent
    <2> QED BY <2>2, <2>3
<1>7. CASE PreHeaderSent
    BY <1>3, <1>7, OnWireUnchanged DEF PreHeaderSent, receiverVars, Unsent
<1>8. CASE HeaderSent
    <2>1. Unsent = tx_queue
        BY <1>1, <1>8, ConcatEmptySeq DEF HeaderSent, Unsent
    <2>2. Unsent' = tx_queue
        BY <1>1, <1>8, SendNextUnsent DEF HeaderSent
    <2> QED BY <1>3, <1>8, <2>1, <2>2, OnWireUnchanged DEF HeaderSent, receiverVars
<1>9. ASSUME wire # << >>, wire' = Tail(wire)
      PROVE  /\ Len(wire) \in Nat \ {0}
             /\ Len(wire') = Len(wire) - 1
             /\ \A i \in 1..Len(wire') : wire'[i] = wire[i + 1]
             /\ Head(wire) = wire[1]
    BY <1>1, <1>9, HeadTailProperties, EmptySeq DEF ConnectionTypeOK
<1>10. /\ FirstHeader \in {1, 2}
       /\ Len(OnWire) = (Len(wire) + 2 - FirstHeader) \div 2
       /\ \A i \in 1..Len(OnWire) :
            /\ 2 * i + FirstHeader - 2 \in 1..Len(wire)
            /\ OnWire[i] = wire[2 * i + FirstHeader - 2].req
    BY <1>1, OnWireMessages DEF OnWireHolds
<1>11. /\ Len(OnWire') = (Len(wire') + 2 - FirstHeader') \div 2
       /\ \A i \in 1..Len(OnWire') :
            /\ 2 * i + FirstHeader' - 2 \in 1..Len(wire')
            /\ OnWire'[i] = wire'[2 * i + FirstHeader' - 2].req
    <2>1. OnWireHolds'
        BY OnWireMessages, PTL
    <2> QED BY <2>1 DEF OnWireHolds
<1>12. CASE PreHeaderRead
    <2>1. FirstHeader = 2 /\ FirstHeader' = 1
        BY <1>12 DEF PreHeaderRead, FirstHeader
    <2>2. Len(OnWire') = Len(OnWire)
        BY <1>9, <1>10, <1>11, <1>12, <2>1 DEF PreHeaderRead
    <2>3. ASSUME NEW i \in 1..Len(OnWire) PROVE OnWire'[i] = OnWire[i]
        <3>1. 2 * i - 1 \in 1..Len(wire') /\ OnWire'[i] = wire'[2 * i - 1].req
            BY <1>11, <2>1, <2>2
        <3>2. OnWire[i] = wire[2 * i].req /\ (2 * i - 1) + 1 = 2 * i
            BY <1>10, <2>1
        <3>3. wire'[2 * i - 1] = wire[(2 * i - 1) + 1]
            BY <1>9, <1>12, <3>1 DEF PreHeaderRead
        <3> QED BY <3>1, <3>2, <3>3
    <2>4. OnWire' = OnWire
        BY <1>1, <2>2, <2>3, SeqEqual
    <2>5. Unsent' = Unsent /\ UNCHANGED <<received, cut>>
        BY <1>12 DEF PreHeaderRead, senderVars, Unsent
    <2> QED BY <1>3, <2>4, <2>5
<1>13. CASE HeaderRead
    <2>1. FirstHeader = 1 /\ FirstHeader' = 2 /\ wire # << >>
        BY <1>13 DEF HeaderRead, FirstHeader
    <2>2. Len(OnWire) \in Nat \ {0} /\ Len(OnWire') = Len(OnWire) - 1
        <3> DEFINE n == Len(wire') + 1
        <3>1. /\ n \in Nat /\ Len(wire) = n
              /\ Len(wire') \in Nat /\ Len(wire') = n - 1
            BY <1>9, <1>13 DEF HeaderRead
        <3>2. Len(OnWire) = (n + 1) \div 2 /\ Len(OnWire') = (n - 1) \div 2
            <4>1. Len(wire) + 2 - FirstHeader = n + 1 /\ Len(wire') + 2 - FirstHeader' = n - 1
                BY <2>1, <3>1
            <4> QED BY <1>10, <1>11, <4>1
        <3> HIDE DEF n
        <3>3. n - 1 \in Nat /\ n + 1 = (n - 1) + 2 /\ n = (n - 1) + 1
            BY <3>1
        <3>4. (n + 1) \div 2 = (n - 1) \div 2 + 1 /\ (n - 1) \div 2 \in Nat
            BY <3>1, <3>3, HalvesOfNext, Halves
        <3> QED BY <3>2, <3>4
    <2>3. OnWire # << >>
        BY <2>2
    <2>4. Head(OnWire) = Head(wire).req
        <3>1. Head(OnWire) = OnWire[1] /\ 1 \in 1..Len(OnWire)
            BY <1>1, <2>2, <2>3
        <3>2. OnWire[1] = wire[2 * 1 + 1 - 2].req
            BY <1>10, <2>1, <3>1
        <3> QED BY <1>9, <1>13, <3>1, <3>2 DEF HeaderRead
    <2>5. ASSUME NEW i \in 1..Len(OnWire') PROVE OnWire'[i] = Tail(OnWire)[i]
        <3>1. OnWire'[i] = wire'[2 * i].req /\ 2 * i \in 1..Len(wire')
            BY <1>11, <2>1
        <3>2. wire'[2 * i] = wire[2 * i + 1]
            BY <1>9, <1>13, <3>1 DEF HeaderRead
        <3>3. Tail(OnWire)[i] = OnWire[i + 1] /\ i + 1 \in 1..Len(OnWire)
            BY <1>1, <2>2, <2>3, HeadTailProperties
        <3>4. OnWire[i + 1] = wire[2 * i + 1].req
            <4>1. OnWire[i + 1] = wire[2 * (i + 1) + 1 - 2].req
                BY <1>10, <2>1, <3>3
            <4>2. 2 * (i + 1) + 1 - 2 = 2 * i + 1
                OBVIOUS
            <4> QED BY <4>1, <4>2
        <3> QED BY <3>1, <3>2, <3>3, <3>4
    <2>6. OnWire' = Tail(OnWire)
        <3>1. Tail(OnWire) \in Seq(Message) /\ Len(Tail(OnWire)) = Len(OnWire')
            BY <1>1, <2>2, <2>3, HeadTailProperties
        <3> QED BY <1>1, <2>5, <3>1, SeqEqual
    <2>7. Unsent' = Unsent /\ cut' = cut /\ received' = Append(received, Head(OnWire))
        BY <1>13, <2>4 DEF HeaderRead, senderVars, Unsent
    <2>8. /\ OnTheirWay # << >>
          /\ Head(OnTheirWay) = Head(OnWire)
          /\ OnTheirWay' = Tail(OnTheirWay)
        <3>1. /\ OnWire \o Unsent # << >>
              /\ Head(OnWire \o Unsent) = Head(OnWire)
              /\ Tail(OnWire \o Unsent) = Tail(OnWire) \o Unsent
            BY <1>1, <2>3, ConcatHeadTail
        <3> QED BY <2>3, <2>6, <2>7, <3>1 DEF OnTheirWay
    <2>9. InChannel!Deliver
        BY <2>7, <2>8 DEF InChannel!Deliver
    <2> QED BY <2>9 DEF InChannel!Next
<1>14. CASE Transmit
    <2>1. CASE cut
        BY <1>3, <1>14, <2>1, OnWireUnchanged DEF Transmit, receiverVars
    <2>2. CASE ~cut
        <3> DEFINE segment == [part |-> write, req |-> req]
        <3>1. segment \in [part : Parts, req : Message] /\ req # None
            BY <1>1, <1>14, NoneAssumption DEF Transmit, Parts, WriteHasMessage
        <3>2. /\ Len(wire) \in Nat /\ Len(wire') = Len(wire) + 1
              /\ \A i \in 1..Len(wire) : wire'[i] = wire[i]
              /\ wire'[Len(wire) + 1] = segment
            BY <1>1, <1>14, <2>2, <3>1, AppendProperties DEF Transmit, ConnectionTypeOK
        <3>3. FirstHeader' = FirstHeader /\ UNCHANGED <<received, cut, req, tx_queue>>
            BY <1>14 DEF Transmit, receiverVars, FirstHeader
        <3>4. reading \in Parts
            BY <1>1 DEF ConnectionTypeOK
        <3>5. ASSUME NEW i \in 1..Len(OnWire), i <= Len(OnWire') PROVE OnWire'[i] = OnWire[i]
            <4>1. i \in 1..Len(OnWire')
                BY <1>1, <3>5
            <4>2. OnWire'[i] = wire'[2 * i + FirstHeader - 2].req
                BY <1>11, <3>3, <4>1
            <4>3. OnWire[i] = wire[2 * i + FirstHeader - 2].req
                  /\ 2 * i + FirstHeader - 2 \in 1..Len(wire)
                BY <1>10
            <4> QED BY <3>2, <4>2, <4>3
        <3> DEFINE pairs == Len(wire) + 2 - FirstHeader
        <3>6. /\ pairs \in Nat /\ pairs = Len(wire) + 2 - FirstHeader
              /\ FirstHeader \in {1, 2} /\ Len(wire) \in Nat
              /\ Len(OnWire) = pairs \div 2
              /\ Len(OnWire') = (pairs + 1) \div 2
              /\ FirstHeader = 2 => pairs = Len(wire)
              /\ FirstHeader = 1 =>
                   pairs = Len(wire) + 1 /\ (Len(wire) % 2 = 0 <=> pairs % 2 # 0)
            <4>1. Len(wire') + 2 - FirstHeader = pairs + 1
                BY <1>10, <3>2
            <4>2. pairs \in Nat /\ (FirstHeader = 1 => pairs = Len(wire) + 1)
                BY <1>10, <3>2
            <4>3. Len(wire) % 2 = 0 <=> (Len(wire) + 1) % 2 # 0
                BY <3>2, HalvesOfNext
            <4> QED BY <1>10, <1>11, <3>2, <3>3, <4>1, <4>2, <4>3
        <3> HIDE DEF pairs
        <3>7. CASE write = "pre_header"
            <4>1. reading = "pre_header" <=> Len(wire) % 2 = 0
                BY <1>1, <2>2, <3>7 DEF InStep, NextPart
            <4>2. Len(OnWire') = Len(OnWire)
                <5>1. pairs % 2 = 0
                    BY <3>4, <3>6, <4>1 DEF FirstHeader, Parts
                <5> QED BY <3>6, <5>1, HalvesOfNext
            <4>3. OnWire' = OnWire
                BY <1>1, <3>5, <4>2, SeqEqual
            <4>4. Unsent' = Unsent
                BY <1>14, <3>3, <3>7 DEF Transmit, Unsent
            <4> QED BY <1>3, <3>3, <4>3, <4>4
        <3>8. CASE write = "header"
            <4>1. reading = "header" <=> Len(wire) % 2 = 0
                BY <1>1, <2>2, <3>8 DEF InStep, NextPart
            <4>2. /\ Len(OnWire') = Len(OnWire) + 1
                  /\ 2 * Len(OnWire') + FirstHeader - 2 = Len(wire) + 1
                <5>1. pairs % 2 # 0
                    BY <3>4, <3>6, <4>1 DEF FirstHeader, Parts
                <5>2. Len(OnWire') = Len(OnWire) + 1 /\ 2 * Len(OnWire') = pairs + 1
                    BY <3>6, <5>1, HalvesOfNext
                <5> QED BY <3>6, <5>2
            <4>3. Len(OnWire) \in Nat /\ Len(OnWire') \in 1..Len(OnWire')
                BY <1>1, <4>2
            <4>4. OnWire'[Len(OnWire')] = req
                <5>1. OnWire'[Len(OnWire')] = wire'[2 * Len(OnWire') + FirstHeader - 2].req
                    BY <1>11, <3>3, <4>3
                <5> QED BY <3>2, <4>2, <5>1
            <4>5. OnWire' = Append(OnWire, req)
                <5>1. /\ Append(OnWire, req) \in Seq(Message)
                      /\ Len(Append(OnWire, req)) = Len(OnWire) + 1
                      /\ \A i \in 1..Len(OnWire) : Append(OnWire, req)[i] = OnWire[i]
                      /\ Append(OnWire, req)[Len(OnWire) + 1] = req
                    BY <1>1, <3>1, AppendProperties
                <5>2. ASSUME NEW i \in 1..Len(OnWire') PROVE OnWire'[i] = Append(OnWire, req)[i]
                    <6>1. CASE i = Len(OnWire')
                        BY <4>2, <4>4, <5>1, <6>1
                    <6>2. CASE i # Len(OnWire')
                        <7>1. i \in 1..Len(OnWire) /\ i <= Len(OnWire')
                            BY <4>2, <4>3, <6>2
                        <7> QED BY <3>5, <5>1, <7>1
                    <6> QED BY <6>1, <6>2
                <5> QED BY <1>1, <4>2, <5>1, <5>2, SeqEqual
            <4>6. Unsent = <<req>> \o tx_queue /\ Unsent' = tx_queue
                <5>1. Unsent' = << >> \o tx_queue
                    BY <1>14, <3>3, <3>8 DEF Transmit, Unsent
                <5>2. Unsent = <<req>> \o tx_queue
                    BY <3>1, <3>8 DEF Unsent
                <5> QED BY <1>1, <5>1, <5>2, ConcatEmptySeq
            <4>7. OnWire' \o Unsent' = OnWire \o Unsent
                BY <1>1, <3>1, <4>5, <4>6, ConcatMove
            <4> QED BY <1>2, <2>2, <3>3, <4>7 DEF OnTheirWay
        <3> QED BY <1>14, <3>7, <3>8 DEF Transmit, Parts
    <2> QED BY <2>1, <2>2
<1>15. CASE WriteFails
    BY <1>3, <1>15, OnWireUnchanged DEF WriteFails, receiverVars
<1>16. ASSUME NEW e \in Ends, EndCloses(e)
       PROVE  UNCHANGED InChannel!channelVars
    BY <1>3, <1>16, OnWireUnchanged DEF EndCloses, senderVars, receiverVars
<1>17. CASE Break
    <2>1. PICK k \in 0..Len(wire) : wire' = SubSeq(wire, 1, k)
        BY <1>17 DEF Break
    <2>2. /\ Len(wire) \in Nat /\ Len(wire') = k
          /\ \A i \in 1..k : wire'[i] = wire[i]
        BY <1>1, <2>1, Prefix DEF ConnectionTypeOK
    <2>3. FirstHeader' = FirstHeader /\ received' = received /\ cut' = TRUE
        BY <1>17 DEF Break, receiverVars, FirstHeader
    <2> DEFINE j == Len(OnWire')
    <2>4. j \in 0..Len(OnWire)
        BY <1>1, <1>10, <1>11, <2>2, <2>3
    <2>5. ASSUME NEW i \in 1..j PROVE OnWire'[i] = OnWire[i]
        <3>1. OnWire'[i] = wire'[2 * i + FirstHeader - 2].req
              /\ 2 * i + FirstHeader - 2 \in 1..k
            BY <1>11, <2>2, <2>3
        <3>2. i \in 1..Len(OnWire) /\ OnWire[i] = wire[2 * i + FirstHeader - 2].req
            BY <1>10, <2>4
        <3> QED BY <2>2, <3>1, <3>2
    <2>6. OnWire' = SubSeq(OnWire, 1, j)
        <3>1. /\ SubSeq(OnWire, 1, j) \in Seq(Message) /\ Len(SubSeq(OnWire, 1, j)) = j
              /\ \A i \in 1..j : SubSeq(OnWire, 1, j)[i] = OnWire[i]
            BY <1>1, <2>4, Prefix
        <3> QED BY <1>1, <2>5, <3>1, SeqEqual
    <2>7. j \in 0..Len(OnTheirWay) /\ OnTheirWay' = SubSeq(OnTheirWay, 1, j)
        <3> HIDE DEF j
        <3>1. /\ j \in 0..Len(OnWire \o Unsent)
              /\ SubSeq(OnWire \o Unsent, 1, j) = SubSeq(OnWire, 1, j)
            BY <1>1, <2>4, ConcatPrefix
        <3> QED BY <2>3, <2>4, <2>6, <3>1 DEF OnTheirWay
    <2>8. InChannel!Cut
        <3> HIDE DEF j
        <3> QED BY <2>3, <2>7 DEF InChannel!Cut
    <2> QED BY <2>8 DEF InChannel!Next
<1>18. CASE UNCHANGED connectionVars
    BY <1>3, <1>18, OnWireUnchanged DEF connectionVars, senderVars, receiverVars, Unsent
<1> QED
    BY <1>4, <1>5, <1>6, <1>7, <1>8, <1>12, <1>13, <1>14, <1>15, <1>16, <1>17, <1>18
    DEF Next

(* A message_connection is a channel: between send_message() of any number *)
(* of threads and completed_receive(), messages are neither lost,          *)
(* duplicated nor reordered until the connection breaks.                   *)
THEOREM ImplementsChannel == Spec => IsAChannel
<1>1. Init => InChannel!Init
    <2> SUFFICES ASSUME Init PROVE InChannel!Init
        OBVIOUS
    <2>1. Unsent = << >>
        BY EmptySeq, ConcatEmptySeq DEF Init, Unsent
    <2>2. OnWire = << >>
        <3>1. Len(wire) = 0 /\ FirstHeader = 2
            BY DEF Init, FirstHeader
        <3>2. (Len(wire) + 2 - FirstHeader) \div 2 = 0
            BY <3>1
        <3> QED BY <3>2 DEF OnWire
    <2>3. OnTheirWay = << >>
        BY <2>1, <2>2, EmptySeq, ConcatEmptySeq DEF OnTheirWay
    <2> QED BY <2>3 DEF Init, InChannel!Init
<1>2. ConnectionInv /\ ConnectionInv' /\ [Next]_connectionVars
        => [InChannel!Next]_(InChannel!channelVars)
    <2>1. ConnectionInv' => ConnectionTypeOK'
        BY DEF ConnectionInv
    <2> QED BY <2>1, ChannelStep
<1> QED BY <1>1, <1>2, InvAlways, PTL DEF Spec, IsAChannel, InChannel!Spec
=============================================================================
