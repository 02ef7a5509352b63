--------------------------- MODULE FirehoseDelivery ---------------------------
(***************************************************************************)
(* A consumer is delivered each publication once, and a deployment is a    *)
(* PubSub.  A nuzzle delivers at the copy that makes the majority and      *)
(* counts on: what it has delivered it has either counted up to the        *)
(* majority or, once it has forgotten it, will be sent by no engine again. *)
(***************************************************************************)
EXTENDS FirehosePubSub, FirehoseReplication

(* A condition on the constants: no topic has more engines than its        *)
(* replication factor, so a count that has come to it counts all of them.  *)
OneGroup == IsFiniteSet(Engines) /\ Cardinality(Engines) <= GroupSize

HasKey(s, k) == \E i \in DOMAIN s : KeyOf(s[i]) = k

KeysOnce(s) == \A i, j \in DOMAIN s : KeyOf(s[i]) = KeyOf(s[j]) => i = j

----------------------------------------------------------------------------
(* The nuzzle's vectors.  With a nuzzle of its own and one request for a   *)
(* topic, a consumer is alone in the vector of the topic, and put there by *)
(* the last of its requests for it.                                        *)
AloneInVector ==
    /\ \A n \in Nuzzles, t \in Topics : consumer_subscriptions[n][t] # << >> =>
         \E c \in Consumers :
           NuzzleConnection[c] = n /\ consumer_subscriptions[n][t] = <<c>>
    /\ \A n \in Nuzzles : delivery[n] # Idle =>
         delivery[n].range = consumer_subscriptions[n][delivery[n].request.topic_id]
    /\ \A n \in Nuzzles : joining[n] # Idle =>
         /\ NuzzleConnection[joining[n][1]] = n
         /\ consumer_subscriptions[n][joining[n][2]] = << >>
    /\ \A c \in Consumers, t \in Topics : LET n == NuzzleConnection[c] IN
         Asks(c, t) \/ HasTopic(net[<<c, n>>], t) =>
           /\ consumer_subscriptions[n][t] = << >>
           /\ joining[n] # Idle => joining[n][2] # t

(* Engine e has a publication and has sent its copy of it to nuzzle n, or  *)
(* never will.                                                             *)
Done(e, n, k) ==
    /\ \E s \in message_buffer[e] : KeyOf(s) = k
    /\ ~HasKey(net[<<e, n>>], k)
    /\ Pending(e, n) => KeyOf(fan_out[e].request) # k

(* Nuzzle n will not come to the majority of a publication any more.       *)
Passed(n, k) ==
    Len(copies[n][k]) >= Majority \/ \A e \in Engines : Done(e, n, k)

(* It has delivered it, or is about to.                                    *)
Reached(n, k) ==
    \/ delivery[n] # Idle /\ KeyOf(delivery[n].request) = k
    \/ \E c \in Consumers :
         NuzzleConnection[c] = n /\ (HasKey(net[<<n, c>>], k) \/ HasKey(log_buffer[c], k))

DeliveredIsPassed == \A n \in Nuzzles, k \in Keys : Reached(n, k) => Passed(n, k)

(* A publication is in one of three places on its way to a consumer: the   *)
(* loop of its nuzzle, the link between them, its log.                     *)
DeliveredInOnePlace ==
    /\ \A n \in Nuzzles, c \in Consumers :
         n # NuzzleConnection[c] => net[<<n, c>>] = << >>
    /\ \A c \in Consumers : LET n == NuzzleConnection[c] IN
         /\ KeysOnce(log_buffer[c])
         /\ KeysOnce(net[<<n, c>>])
         /\ \A k \in Keys : HasKey(net[<<n, c>>], k) => ~HasKey(log_buffer[c], k)
         /\ delivery[n] # Idle =>
              /\ ~HasKey(net[<<n, c>>], KeyOf(delivery[n].request))
              /\ ~HasKey(log_buffer[c], KeyOf(delivery[n].request))

Delivery == AloneInVector /\ DeliveredIsPassed /\ DeliveredInOnePlace
----------------------------------------------------------------------------
(* Keys in sequences. *)

(* Taking the oldest, and adding one. *)
LEMMA TakenKeys ==
    ASSUME NEW S, NEW s \in Seq(S), s # << >>
    PROVE  /\ HasKey(s, KeyOf(Head(s)))
           /\ \A k : HasKey(Tail(s), k) => HasKey(s, k)
           /\ KeysOnce(s) => KeysOnce(Tail(s)) /\ ~HasKey(Tail(s), KeyOf(Head(s)))
<1>1. \A i \in DOMAIN Tail(s) :
        i \in Nat \ {0} /\ i + 1 \in DOMAIN s /\ Tail(s)[i] = s[i + 1]
  OBVIOUS
<1>2. 1 \in DOMAIN s /\ Head(s) = s[1]
  OBVIOUS
<1>3. ASSUME KeysOnce(s), NEW i \in DOMAIN Tail(s), NEW j \in DOMAIN Tail(s),
             KeyOf(Tail(s)[i]) = KeyOf(Tail(s)[j])
      PROVE  i = j
  <2>1. i + 1 = j + 1
    BY <1>1, <1>3 DEF KeysOnce
  <2> QED
    BY <1>1, <2>1
<1>4. ASSUME KeysOnce(s), HasKey(Tail(s), KeyOf(Head(s)))
      PROVE  FALSE
  <2>1. PICK i \in DOMAIN Tail(s) : KeyOf(Tail(s)[i]) = KeyOf(Head(s))
    BY <1>4 DEF HasKey
  <2>2. i + 1 = 1
    BY <1>1, <1>2, <1>4, <2>1 DEF KeysOnce
  <2> QED
    BY <1>1, <2>2
<1>5. \A k : HasKey(Tail(s), k) => HasKey(s, k)
  BY <1>1 DEF HasKey
<1> QED
  BY <1>2, <1>3, <1>4, <1>5 DEF HasKey, KeysOnce

LEMMA SentKeys ==
    ASSUME NEW S, NEW s \in Seq(S), NEW x \in S
    PROVE  /\ \A k : HasKey(Append(s, x), k) => HasKey(s, k) \/ k = KeyOf(x)
           /\ KeysOnce(s) /\ ~HasKey(s, KeyOf(x)) => KeysOnce(Append(s, x))
<1>1. \A i \in DOMAIN Append(s, x) :
        \/ i \in DOMAIN s /\ Append(s, x)[i] = s[i]
        \/ i = Len(s) + 1 /\ Append(s, x)[i] = x
  BY AppendIndices
<1>2. \A k : HasKey(Append(s, x), k) => HasKey(s, k) \/ k = KeyOf(x)
  BY <1>1 DEF HasKey
<1>3. ASSUME KeysOnce(s), ~HasKey(s, KeyOf(x)) PROVE KeysOnce(Append(s, x))
  BY <1>1, <1>3 DEF HasKey, KeysOnce
<1> QED
  BY <1>2, <1>3

(* A queue that is as before, or empty, has no new keys. *)
LEMMA KeptKeys ==
    ASSUME NEW s, NEW r, r = s \/ r = << >>
    PROVE  /\ \A k : HasKey(r, k) => HasKey(s, k)
           /\ KeysOnce(s) => KeysOnce(r)
  BY DEF HasKey, KeysOnce

----------------------------------------------------------------------------
(* What an engine is done with it stays done with. *)

(* The links from engines to nuzzles in steps that send or take elsewhere. *)
LEMMA NoCopyDone ==
    ASSUME NoCopy, NEW e \in Engines, NEW n \in Nuzzles, NEW k, Done(e, n, k)
    PROVE  Done(e, n, k)'
<1>1. net'[<<e, n>>] = net[<<e, n>>] \/ net'[<<e, n>>] = << >>
  BY MajorityLinks DEF NoCopy, Kept, EngineLinks
<1>2. ~HasKey(net'[<<e, n>>], k)
  BY <1>1, KeptKeys DEF Done
<1> QED
  BY <1>2 DEF NoCopy, Done, Pending

(* Numbering sends nothing to nuzzles. *)
LEMMA NumberDone ==
    ASSUME Typed, NEW p \in Pumps, NEW b \in Publishers, OnPublishReceive(p, b), PumpFrame,
           NEW e \in Engines, NEW n \in Nuzzles, NEW k, Done(e, n, k)
    PROVE  Done(e, n, k)'
<1>1. PICK B, m : net' = Posted(Taken(<<b, p>>), p, B, m)
  BY DEF OnPublishReceive
<1>2. <<e, n>> \in Links /\ e # p /\ <<e, n>> # <<b, p>>
  BY LinkEnds, ProcessesDisjoint
<1>3. net'[<<e, n>>] = net[<<e, n>>]
  BY <1>1, <1>2, CopyForm DEF Posted, Taken, Queues
<1> QED
  BY <1>3 DEF PumpFrame, engineVars, Done, Pending

(* An engine stores what it has not stored before. *)
LEMMA PrepareDone ==
    ASSUME Typed, Copying, NEW d \in Engines, NEW p \in Pumps, OnPrepareReceive(d, p),
           \A e \in Engines : message_buffer[e] \subseteq message_buffer'[e],
           NEW e \in Engines, NEW n \in Nuzzles, NEW k, Done(e, n, k)
    PROVE  Done(e, n, k)'
<1> DEFINE link == <<p, d>>
           request == Head(net[link])
           loop == BeginLoop(PublishOf(request), subscriptions[d][request.topic_id])
<1>1. PICK B, m : net' = Posted(Taken(link), d, {p}, m)
  BY DEF OnPrepareReceive
<1>2. <<e, n>> \in Links /\ n # p /\ <<e, n>> # link
  BY LinkEnds, ProcessesDisjoint
<1>3. net'[<<e, n>>] = net[<<e, n>>]
  BY <1>1, <1>2, CopyForm DEF Posted, Taken, Queues
<1>4. fan_out' = [fan_out EXCEPT ![d] = loop] /\ fan_out \in [Engines -> LoopOver(Nuzzles) \cup {Idle}]
  BY CopyForm DEF OnPrepareReceive
<1>5. loop # Idle => loop.request = PublishOf(request)
  BY DEF BeginLoop
<1>6. \A s \in message_buffer[d] : s.global_id # request.global_id
  <2>1. link \in PrepareLinks /\ net[link] # << >> /\ net[link] \in Seq(Messages)
    BY CopyForm, MajorityLinks DEF OnPrepareReceive, Arrived, EngineLinks
  <2>2. 1 \in DOMAIN net[link] /\ request = net[link][1]
    BY <2>1
  <2> QED
    BY <2>1, <2>2 DEF Copying, PreparedOnce
<1>7. PublishOf(request).global_id = request.global_id
  BY DEF PublishOf
<1> HIDE DEF loop, request
<1>8. ASSUME Pending(e, n)' PROVE KeyOf(fan_out'[e].request) # k
  <2>1. CASE e = d
    <3>1. fan_out'[e].request = PublishOf(request)
      BY <1>4, <1>5, <1>8, <2>1 DEF Pending
    <3>2. PICK s \in message_buffer[d] : KeyOf(s) = k
      BY <2>1 DEF Done
    <3> QED
      BY <1>6, <1>7, <3>1, <3>2 DEF KeyOf
  <2>2. CASE e # d
    <3>1. fan_out'[e] = fan_out[e]
      BY <1>4, <2>2
    <3> QED
      BY <1>8, <3>1 DEF Pending, Done
  <2> QED
    BY <2>1, <2>2
<1> QED
  BY <1>3, <1>8 DEF Done

(* A loop sends only to nuzzles it has yet to send to. *)
LEMMA FanOutDone ==
    ASSUME Typed, Copying, NEW d \in Engines, FanOutPublish(d),
           NEW e \in Engines, NEW n \in Nuzzles, NEW k, Done(e, n, k)
    PROVE  Done(e, n, k)'
<1> DEFINE loop == fan_out[d]
           request == loop.request
           vector == subscriptions[d][request.topic_id]
           m == loop.range[loop.next]
<1>1. /\ loop # Idle /\ fan_out' = [fan_out EXCEPT ![d] = AdvanceLoop(loop)]
      /\ message_buffer' = message_buffer
  BY DEF FanOutPublish
<1>2. /\ loop \in LoopOver(Nuzzles) /\ loop.range \in Seq(Nuzzles)
      /\ loop.next \in DOMAIN loop.range /\ request \in RequestPublish /\ request \in Messages
  <2>1. /\ loop \in LoopOver(Nuzzles) /\ loop.range \in Seq(Nuzzles)
        /\ loop.next \in DOMAIN loop.range /\ request \in RequestPublish
    BY <1>1, CopyForm
  <2> QED
    BY <2>1 DEF Messages
<1>3. LoopReads(loop, vector) = {m}
  <2>1. \A i \in DOMAIN loop.range : i \in DOMAIN vector /\ vector[i] = loop.range[i]
    BY <1>1 DEF Copying, LoopsCurrent
  <2> QED
    BY <1>2, <2>1 DEF LoopReads
<1>4. net' = Posted(net, d, {m}, request)
  BY <1>3 DEF FanOutPublish
<1>5. Pending(d, m)
  BY <1>1, <1>2 DEF Pending
<1>6. fan_out'[d] # Idle =>
        /\ fan_out'[d].request = request /\ fan_out'[d].range = loop.range
        /\ fan_out'[d].next = loop.next + 1
  BY <1>1, <1>2, CopyForm DEF AdvanceLoop, LoopOver
<1>7. \A f \in Engines : f # d => fan_out'[f] = fan_out[f]
  BY <1>1, CopyForm
<1> HIDE DEF m, loop, request
<1>8. ASSUME Pending(e, n)' PROVE Pending(e, n) /\ fan_out'[e].request = fan_out[e].request
  <2>1. CASE e = d
    <3>1. fan_out'[d] # Idle /\ \E j \in DOMAIN fan_out'[d].range :
            j >= fan_out'[d].next /\ fan_out'[d].range[j] = n
      BY <1>8, <2>1 DEF Pending
    <3>2. PICK j \in DOMAIN loop.range : j >= loop.next + 1 /\ loop.range[j] = n
      BY <1>6, <3>1
    <3>3. j >= loop.next
      BY <1>2, <3>2
    <3> QED
      BY <1>1, <1>6, <2>1, <3>1, <3>2, <3>3 DEF Pending, loop, request
  <2>2. CASE e # d
    BY <1>7, <1>8, <2>2 DEF Pending
  <2> QED
    BY <2>1, <2>2
<1>9. ~HasKey(net'[<<e, n>>], k)
  <2>1. <<e, n>> \in Links /\ net[<<e, n>>] \in Seq(Messages)
    BY CopyForm, MajorityLinks DEF EngineLinks
  <2>2. CASE e = d /\ n = m
    <3>1. KeyOf(request) # k
      BY <1>5, <2>2 DEF Done, request, loop
    <3>2. net'[<<e, n>>] = net[<<e, n>>] \/ net'[<<e, n>>] = Append(net[<<e, n>>], request)
      BY <1>4, <2>1 DEF Posted
    <3>3. ~HasKey(Append(net[<<e, n>>], request), k)
      BY <1>2, <2>1, <3>1, SentKeys DEF Done
    <3> QED
      BY <3>2, <3>3 DEF Done
  <2>3. CASE ~(e = d /\ n = m)
    <3>1. net'[<<e, n>>] = net[<<e, n>>]
      BY <1>4, <2>1, <2>3 DEF Posted
    <3> QED
      BY <3>1 DEF Done
  <2> QED
    BY <2>2, <2>3
<1> QED
  BY <1>1, <1>8, <1>9 DEF Done

(* Counting a copy takes it from its link. *)
LEMMA CountDone ==
    ASSUME Typed, NEW m \in Nuzzles, NEW d \in Engines, OnPublishReceived(m, d), NuzzleFrame,
           NEW e \in Engines, NEW n \in Nuzzles, NEW k, Done(e, n, k)
    PROVE  Done(e, n, k)'
<1>1. <<e, n>> \in Links /\ <<d, m>> \in Links /\ net[<<e, n>>] \in Seq(Messages) /\ net \in Queues
  BY CopyForm, MajorityLinks DEF EngineLinks
<1>2. net' = Taken(<<d, m>>) /\ net[<<d, m>>] # << >>
  BY DEF OnPublishReceived, Arrived
<1>3. net'[<<e, n>>] = net[<<e, n>>]
        \/ (net[<<e, n>>] # << >> /\ net'[<<e, n>>] = Tail(net[<<e, n>>]))
  BY <1>1, <1>2 DEF Taken, Queues
<1>4. ~HasKey(net'[<<e, n>>], k)
  BY <1>1, <1>3, TakenKeys DEF Done
<1> QED
  BY <1>4 DEF NuzzleFrame, engineVars, Done, Pending

----------------------------------------------------------------------------
(* The nuzzle's count. *)

(* An engine whose copy is counted is done with it. *)
LEMMA CountedIsDone ==
    ASSUME Copying, NEW n \in Nuzzles, NEW k \in Keys, NEW e \in Engines,
           \E i \in DOMAIN copies[n][k] : copies[n][k][i] = e
    PROVE  Done(e, n, k)
<1>1. \E s \in message_buffer[e] : KeyOf(s) = k
  BY DEF Copying, CopiesAreHeld
<1>2. /\ \A j \in DOMAIN net[<<e, n>>] : KeyOf(net[<<e, n>>][j]) # k
      /\ Pending(e, n) => KeyOf(fan_out[e].request) # k
  BY DEF Copying, CopiesAreSentOnce
<1> QED
  BY <1>1, <1>2 DEF Done, HasKey

(* The copy a nuzzle takes was the last of its engine. *)
LEMMA TakenIsDone ==
    ASSUME Typed, Copying, NEW n \in Nuzzles, NEW e \in Engines,
           OnPublishReceived(n, e), NuzzleFrame, NEW k, k = KeyOf(Head(net[<<e, n>>]))
    PROVE  ~Done(e, n, k) /\ Done(e, n, k)'
<1> DEFINE link == <<e, n>>
           request == Head(net[link])
<1>1. /\ link \in CopyLinks /\ link \in Links /\ net \in Queues
      /\ net[link] \in Seq(Messages) /\ net[link] # << >>
  BY CopyForm, MajorityLinks DEF EngineLinks, OnPublishReceived, Arrived
<1>2. 1 \in DOMAIN net[link] /\ request = net[link][1]
  BY <1>1
<1>3. KeysOnce(net[link])
  BY <1>1 DEF Copying, CopiesAreSentOnce, KeysOnce, KeyOf
<1>4. HasKey(net[link], k) /\ ~HasKey(Tail(net[link]), k)
  BY <1>1, <1>3, TakenKeys
<1>5. net'[link] = Tail(net[link])
  BY <1>1 DEF OnPublishReceived, Taken, Queues
<1>6. StoredOf(request) \in message_buffer[e] /\ KeyOf(StoredOf(request)) = k
  BY <1>1, <1>2 DEF Copying, CopiesAreHeld, StoredOf, KeyOf
<1>7. Pending(e, n) => KeyOf(fan_out[e].request) # k
  BY <1>2 DEF Copying, CopiesAreSentOnce, KeyOf
<1>8. UNCHANGED <<message_buffer, fan_out>>
  BY DEF NuzzleFrame, engineVars
<1> QED
  BY <1>4, <1>5, <1>6, <1>7, <1>8 DEF Done, Pending

(* The count passes the majority once. *)
LEMMA CountPasses ==
    ASSUME Typed, Copying, OneGroup, NEW n \in Nuzzles, NEW e \in Engines,
           OnPublishReceived(n, e), NuzzleFrame, NEW key, key = KeyOf(Head(net[<<e, n>>]))
    PROVE  /\ key \in Keys
           /\ \A m \in Nuzzles, k \in Keys : Passed(m, k) => Passed(m, k)'
           /\ Len(Append(copies[n][key], e)) = Majority => ~Passed(n, key) /\ Passed(n, key)'
           /\ Len(Append(copies[n][key], e)) = GroupSize =>
                \A f \in Engines : Done(f, n, key)'
<1> DEFINE received == Append(copies[n][key], e)
<1>1. key \in Keys /\ copies[n][key] \in Seq(Engines)
  <2>1. Head(net[<<e, n>>]) \in RequestPublish
    BY CopyArrived DEF OnPublishReceived
  <2>2. key \in Keys
    BY <2>1 DEF KeyOf, Keys, RequestPublish
  <2> QED
    BY <2>2, CopyForm
<1>2. copies' = [copies EXCEPT ![n][key] = Forgotten(received)]
  BY DEF OnPublishReceived, KeyOf
<1>3. /\ copies'[n][key] = Forgotten(received)
      /\ \A m \in Nuzzles, k \in Keys : m # n \/ k # key => copies'[m][k] = copies[m][k]
  BY <1>1, <1>2, CopyForm
<1>4. ~Done(e, n, key) /\ Done(e, n, key)'
  BY TakenIsDone
<1>5. \A f \in Engines, m \in Nuzzles, k \in Keys : Done(f, m, k) => Done(f, m, k)'
  BY CountDone
<1>6. /\ Majority \in Nat /\ GroupSize \in Nat /\ Len(copies[n][key]) \in Nat
      /\ Len(received) = Len(copies[n][key]) + 1 /\ received \in Seq(Engines)
      /\ DOMAIN received = 1..Len(received)
  BY <1>1, NumbersAssumption DEF Majority
<1>7. \A f \in Engines : (\E i \in DOMAIN received : received[i] = f) => Done(f, n, key)'
  <2> SUFFICES ASSUME NEW f \in Engines, NEW i \in DOMAIN received, received[i] = f
               PROVE  Done(f, n, key)'
    OBVIOUS
  <2>1. \/ i \in DOMAIN copies[n][key] /\ received[i] = copies[n][key][i]
        \/ received[i] = e
    BY <1>1, AppendIndices
  <2>2. CASE i \in DOMAIN copies[n][key] /\ copies[n][key][i] = f
    <3>1. Done(f, n, key)
      BY <1>1, <2>2, CountedIsDone
    <3> QED
      BY <1>1, <1>5, <3>1
  <2> QED
    BY <1>4, <2>1, <2>2
<1>8. \A i, j \in DOMAIN received : received[i] = received[j] => i = j
  <2>1. \A i \in DOMAIN copies[n][key] : copies[n][key][i] # e
    BY <1>1, <1>4, CountedIsDone
  <2>2. \A i, j \in DOMAIN copies[n][key] : copies[n][key][i] = copies[n][key][j] => i = j
    BY <1>1 DEF Copying, CopiesAreSentOnce
  <2>3. \A i \in DOMAIN received :
          \/ i \in DOMAIN copies[n][key] /\ received[i] = copies[n][key][i]
          \/ i = Len(copies[n][key]) + 1 /\ received[i] = e
    BY <1>1, AppendIndices
  <2> HIDE DEF received
  <2> QED
    BY <2>1, <2>2, <2>3
<1> HIDE DEF received
<1>9. ASSUME Len(received) = GroupSize, NEW f \in Engines PROVE Done(f, n, key)'
  <2>1. received \in Injection(1..GroupSize, Engines)
    <3>1. received \in [1..GroupSize -> Engines]
      BY <1>6, <1>9
    <3> QED
      BY <1>6, <1>8, <1>9, <3>1 DEF Injection, IsInjective
  <2>2. /\ IsFiniteSet(Engines) /\ Cardinality(Engines) \in Nat
        /\ Cardinality(1..GroupSize) = GroupSize
    BY <1>6, FS_Interval, FS_CardinalityType, NumbersAssumption DEF OneGroup
  <2>3. Cardinality(1..GroupSize) <= Cardinality(Engines)
    BY <2>1, <2>2, FS_Injection
  <2>4. Cardinality(1..GroupSize) = Cardinality(Engines)
    BY <1>6, <2>2, <2>3 DEF OneGroup
  <2>5. received \in Surjection(1..GroupSize, Engines)
    BY <2>1, <2>2, <2>4, FS_Injection
  <2>6. \E i \in 1..GroupSize : received[i] = f
    BY <2>5 DEF Surjection
  <2> QED
    BY <1>6, <1>7, <1>9, <2>6
<1>10. Len(received) >= Majority => Passed(n, key)'
  <2>1. CASE Len(received) = GroupSize
    BY <1>9, <2>1 DEF Passed
  <2>2. CASE Len(received) # GroupSize
    <3>1. copies'[n][key] = received
      BY <1>3, <2>2 DEF Forgotten
    <3> QED
      BY <3>1 DEF Passed, Majority
  <2> QED
    BY <2>1, <2>2
<1>11. Passed(n, key) => Len(copies[n][key]) >= Majority
  BY <1>4 DEF Passed
<1>12. ASSUME NEW m \in Nuzzles, NEW k \in Keys, Passed(m, k) PROVE Passed(m, k)'
  <2>1. CASE m = n /\ k = key
    <3>1. Len(received) >= Majority
      BY <1>6, <1>11, <1>12, <2>1
    <3> QED
      BY <1>10, <2>1, <3>1
  <2>2. CASE m # n \/ k # key
    <3>1. copies'[m][k] = copies[m][k]
      BY <1>3, <2>2
    <3> QED
      BY <1>5, <1>12, <3>1 DEF Passed, Majority
  <2> QED
    BY <2>1, <2>2
<1>13. ASSUME Len(received) = Majority PROVE ~Passed(n, key) /\ Passed(n, key)'
  BY <1>6, <1>10, <1>11, <1>13
<1> QED
  BY <1>1, <1>9, <1>12, <1>13 DEF received

----------------------------------------------------------------------------
(* The vector a nuzzle's loop runs over. *)

(* What the nuzzles' tables are. *)
LEMMA VectorForm ==
    ASSUME Typed
    PROVE  /\ delivery \in [Nuzzles -> LoopOver(Consumers) \cup {Idle}]
           /\ consumer_subscriptions \in [Nuzzles -> [Topics -> Seq(Consumers)]]
           /\ joining \in [Nuzzles -> (Consumers \X Topics) \cup {Idle}]
           /\ \A n \in Nuzzles : delivery[n] # Idle =>
                /\ delivery[n] \in LoopOver(Consumers)
                /\ delivery[n].range \in Seq(Consumers)
                /\ delivery[n].next \in DOMAIN delivery[n].range
                /\ delivery[n].request \in RequestPublish
                /\ delivery[n].request \in Messages
                /\ delivery[n].request.topic_id \in Topics
<1>1. /\ delivery \in [Nuzzles -> LoopOver(Consumers) \cup {Idle}]
      /\ consumer_subscriptions \in [Nuzzles -> [Topics -> Seq(Consumers)]]
      /\ joining \in [Nuzzles -> (Consumers \X Topics) \cup {Idle}]
  BY DEF Typed, TypeOK, NuzzleTypeOK
<1>2. ASSUME NEW n \in Nuzzles, delivery[n] # Idle
      PROVE  /\ delivery[n] \in LoopOver(Consumers)
             /\ delivery[n].range \in Seq(Consumers)
             /\ delivery[n].next \in DOMAIN delivery[n].range
             /\ delivery[n].request \in RequestPublish
             /\ delivery[n].request \in Messages
             /\ delivery[n].request.topic_id \in Topics
  <2>1. delivery[n] \in LoopOver(Consumers) /\ delivery[n].next <= Len(delivery[n].range)
    BY <1>1, <1>2 DEF Typed, TypeOK, NuzzleTypeOK
  <2>2. /\ delivery[n].range \in Seq(Consumers) /\ delivery[n].request \in RequestPublish
        /\ delivery[n].next \in Nat \ {0}
    BY <2>1 DEF LoopOver
  <2> QED
    BY <2>1, <2>2 DEF Messages, RequestPublish
<1> QED
  BY <1>1, <1>2

(* The loops still run over the vectors. *)
LoopsOverVectors ==
    \A n \in Nuzzles : delivery[n] # Idle =>
      delivery[n].range = consumer_subscriptions[n][delivery[n].request.topic_id]

(* A step that changes no vector keeps the vectors right. *)
LEMMA VectorsLeft ==
    ASSUME AloneInVector, \A l \in RequestLinks : net'[l] = net[l] \/ net'[l] = << >>,
           UNCHANGED <<requests, consumer_subscriptions, joining>>, LoopsOverVectors',
           \A c \in Consumers : NuzzleConnection[c] \in Nuzzles
    PROVE  AloneInVector'
<1>1. \A c \in Consumers, t \in Topics : LET n == NuzzleConnection[c] IN
        /\ HasTopic(net'[<<c, n>>], t) => HasTopic(net[<<c, n>>], t)
        /\ Asks(c, t)' <=> Asks(c, t)
  BY DEF RequestLinks, HasTopic, Asks
<1> QED
  BY <1>1 DEF AloneInVector, LoopsOverVectors

(* Steps of other processes. *)
LEMMA OthersLeaveVectors ==
    ASSUME Typed, AskedOnce, AloneInVector,
           PublisherStep \/ PumpStep \/ EngineStep \/ ConsumerStep \/ TransportStep,
           ~(\E c \in Consumers : ConsumerUpdateSubscription(c))
    PROVE  AloneInVector'
<1>1. LoopsOverVectors /\ \A c \in Consumers : NuzzleConnection[c] \in Nuzzles
  BY UpdateForm DEF AloneInVector, LoopsOverVectors
<1>2. UNCHANGED <<consumer_subscriptions, joining, delivery>>
  BY DEF PublisherStep, PublisherFrame, PumpStep, PumpFrame, EngineStep, EngineFrame,
         ConsumerStep, ConsumerFrame, TransportStep, ProcessFrame, nuzzleVars
<1>3. NothingAsked => AloneInVector'
  BY <1>1, <1>2, VectorsLeft DEF NothingAsked, LoopsOverVectors
<1>4. ASSUME NEW e \in Engines, NEW n \in Nuzzles, EngineSubscribe(e, n), EngineStep
      PROVE  AloneInVector'
  <2>1. net' = Taken(<<n, e>>) /\ UNCHANGED requests
    BY <1>4 DEF EngineSubscribe, EngineStep, EngineFrame, consumerVars
  <2>2. \A l \in RequestLinks : l # <<n, e>> /\ l \in AskLinks
    BY UpdateForm, ProcessesDisjoint DEF AskLinks
  <2>3. \A l \in RequestLinks : net'[l] = net[l]
    BY <2>1, <2>2, UpdateForm, AskLinksLeftAlone
  <2> QED
    BY <1>1, <1>2, <2>1, <2>3, VectorsLeft DEF LoopsOverVectors
<1> QED
  BY <1>3, <1>4, ForwardersAskNothing, EngineAsksNothing, OthersAskNothing

(* A consumer asks for what is not on its way. *)
LEMMA ConsumerLeavesVectors ==
    ASSUME Typed, AskedOnce, AloneInVector, NEW c \in Consumers,
           ConsumerUpdateSubscription(c), ConsumerFrame
    PROVE  AloneInVector'
<1> DEFINE n == NuzzleConnection[c]
           link == <<c, n>>
           r == Head(requests[c])
<1>1. /\ requests[c] \in Seq(Topics \X {0, 1}) /\ requests[c] # << >>
      /\ requests \in [Consumers -> Seq(Topics \X {0, 1})]
      /\ requests' = [requests EXCEPT ![c] = Tail(requests[c])]
      /\ net' = Posted(net, c, {n}, UpdateRequest(r))
      /\ link \in Links /\ net[link] \in Seq(Messages)
      /\ UNCHANGED <<consumer_subscriptions, joining, delivery>>
  BY UpdateForm DEF ConsumerUpdateSubscription, ConsumerFrame, nuzzleVars
<1>2. /\ 1 \in DOMAIN requests[c] /\ r = requests[c][1] /\ r \in Topics \X {0, 1}
      /\ \A i \in DOMAIN Tail(requests[c]) :
           i + 1 \in DOMAIN requests[c] /\ Tail(requests[c])[i] = requests[c][i + 1]
  BY <1>1
<1>3. Asks(c, r[1]) /\ UpdateRequest(r) \in Messages /\ UpdateRequest(r).topic_id = r[1]
  <2>1. r[2] = 1
    BY <1>2 DEF AskedOnce
  <2> QED
    BY <1>2, <2>1 DEF Asks, UpdateRequest, Messages, RequestUpdateSubscription
<1>4. \A d \in Consumers, t \in Topics : Asks(d, t)' => Asks(d, t)
  <2> SUFFICES ASSUME NEW d \in Consumers, NEW t \in Topics,
                      NEW i \in DOMAIN requests'[d], requests'[d][i][1] = t
               PROVE  Asks(d, t)
    BY DEF Asks
  <2>1. CASE d = c
    <3>1. i \in DOMAIN Tail(requests[c]) /\ Tail(requests[c])[i][1] = t
      BY <1>1, <2>1
    <3> QED
      BY <1>2, <2>1, <3>1 DEF Asks
  <2>2. CASE d # c
    BY <1>1, <2>2 DEF Asks
  <2> QED
    BY <2>1, <2>2
<1> HIDE DEF r, n
<1>5. \A t : HasTopic(net'[link], t) => HasTopic(net[link], t) \/ t = r[1]
  <2>1. net'[link] = net[link] \/ net'[link] = Append(net[link], UpdateRequest(r))
    BY <1>1 DEF Posted
  <2> QED
    BY <1>1, <1>3, <2>1, SentTopics
<1>6. \A d \in Consumers : d # c => net'[<<d, NuzzleConnection[d]>>] = net[<<d, NuzzleConnection[d]>>]
  <2> SUFFICES ASSUME NEW d \in Consumers, d # c
               PROVE  net'[<<d, NuzzleConnection[d]>>] = net[<<d, NuzzleConnection[d]>>]
    OBVIOUS
  <2>1. <<d, NuzzleConnection[d]>> \in Links
    BY UpdateForm
  <2> QED
    BY <1>1, <2>1 DEF Posted
<1>7. \A d \in Consumers, t \in Topics :
        Asks(d, t)' \/ HasTopic(net'[<<d, NuzzleConnection[d]>>], t) =>
          Asks(d, t) \/ HasTopic(net[<<d, NuzzleConnection[d]>>], t)
  BY <1>3, <1>4, <1>5, <1>6 DEF n
<1>8. \A d \in Consumers, t \in Topics : LET m == NuzzleConnection[d] IN
        Asks(d, t)' \/ HasTopic(net'[<<d, m>>], t) =>
          /\ consumer_subscriptions'[m][t] = << >>
          /\ joining'[m] # Idle => joining'[m][2] # t
  BY <1>1, <1>7 DEF AloneInVector
<1> QED
  BY <1>1, <1>8, ZenonT(60) DEF AloneInVector

(* A nuzzle counts, delivers, or changes nothing of this. *)
LEMMA NuzzleLeavesVectors ==
    ASSUME Typed, AskedOnce, AloneInVector, NuzzleStep,
           ~(\E n \in Nuzzles, c \in Consumers : NuzzleSubscribe(n, c)),
           ~(\E n \in Nuzzles : NuzzleSubscribed(n))
    PROVE  AloneInVector'
<1>0. NothingAsked /\ \A c \in Consumers : NuzzleConnection[c] \in Nuzzles
  BY NuzzleAsksNothing, UpdateForm
<1>1. PICK n \in Nuzzles :
        \/ \E e \in Engines : NuzzleConnectToEngine(n, e)
        \/ \E e \in Engines : OnPublishReceived(n, e)
        \/ Deliver(n)
        \/ \E c \in Consumers : NuzzleUnsubscribe(n, c)
        \/ \E c \in Consumers : NuzzleUnsubscribeUnknown(n, c)
        \/ NuzzleRaceCrash(n)
  BY DEF NuzzleStep
<1>2. LoopsOverVectors
  BY DEF AloneInVector, LoopsOverVectors
<1>3. ASSUME NEW e \in Engines, OnPublishReceived(n, e)
      PROVE  UNCHANGED <<consumer_subscriptions, joining>> /\ LoopsOverVectors'
  <2> DEFINE request == Head(net[<<e, n>>])
             loop == BeginLoop(request, consumer_subscriptions[n][request.topic_id])
  <2>1. /\ UNCHANGED <<consumer_subscriptions, joining>>
        /\ delivery' = delivery \/ delivery' = [delivery EXCEPT ![n] = loop]
    BY <1>3 DEF OnPublishReceived
  <2>2. loop # Idle =>
          loop.request = request /\ loop.range = consumer_subscriptions[n][request.topic_id]
    BY DEF BeginLoop
  <2> HIDE DEF loop
  <2> QED
    BY <1>2, <2>1, <2>2, VectorForm DEF LoopsOverVectors
<1>4. ASSUME Deliver(n)
      PROVE  UNCHANGED <<consumer_subscriptions, joining>> /\ LoopsOverVectors'
  <2> DEFINE loop == AdvanceLoop(delivery[n])
  <2>1. /\ UNCHANGED <<consumer_subscriptions, joining>> /\ delivery[n] # Idle
        /\ delivery' = [delivery EXCEPT ![n] = loop]
    BY <1>4 DEF Deliver
  <2>2. loop # Idle =>
          loop.request = delivery[n].request /\ loop.range = delivery[n].range
    BY <2>1, VectorForm DEF AdvanceLoop, LoopOver
  <2> HIDE DEF loop
  <2> QED
    BY <1>2, <2>1, <2>2, VectorForm DEF LoopsOverVectors
<1>5. ASSUME NEW c \in Consumers, NuzzleUnsubscribe(n, c) PROVE FALSE
  <2>1. net[<<c, n>>] # << >> /\ Head(net[<<c, n>>]).action = 0
    BY <1>5 DEF NuzzleUnsubscribe, Arrived
  <2> QED
    BY <2>1, ArrivedSubscribes, UpdateForm DEF AskLinks
<1>6. ASSUME \/ \E e \in Engines : NuzzleConnectToEngine(n, e)
             \/ \E c \in Consumers : NuzzleUnsubscribeUnknown(n, c)
             \/ NuzzleRaceCrash(n)
      PROVE  UNCHANGED <<consumer_subscriptions, joining>> /\ LoopsOverVectors'
  <2>1. UNCHANGED <<consumer_subscriptions, joining, delivery>>
    BY <1>6 DEF NuzzleConnectToEngine, NuzzleUnsubscribeUnknown, NuzzleRaceCrash, nuzzleVars
  <2> QED
    BY <1>2, <2>1 DEF LoopsOverVectors
<1>7. UNCHANGED <<consumer_subscriptions, joining>> /\ LoopsOverVectors'
  BY <1>1, <1>3, <1>4, <1>5, <1>6
<1> QED
  BY <1>0, <1>7, VectorsLeft DEF NothingAsked

(* A consumer is joining from when its request leaves the link ... *)
LEMMA JoiningVectors ==
    ASSUME Typed, AskedOnce, SubscribesOnce, AloneInVector, NEW n \in Nuzzles,
           NEW c \in Consumers, NuzzleSubscribe(n, c), NuzzleFrame
    PROVE  AloneInVector'
<1> DEFINE link == <<c, n>>
           t == Head(net[link]).topic_id
<1>1. /\ net \in Queues /\ link \in AskLinks /\ link \in Links
      /\ net[link] \in Seq(Messages) /\ net[link] # << >>
      /\ UNCHANGED <<requests, consumer_subscriptions, delivery>>
      /\ joining' = [joining EXCEPT ![n] = <<c, t>>]
  BY UpdateForm DEF NuzzleSubscribe, NuzzleFrame, consumerVars, AskLinks, Arrived
<1>2. n = NuzzleConnection[c] /\ t \in Topics
  BY <1>1, RequestArrived DEF AskedOnce, NuzzleSubscribe, RequestUpdateSubscription
<1>3. TopicsOnce(net[link])
  BY <1>1 DEF AskedOnce, AskLinks
<1>4. /\ HasTopic(net[link], t) /\ ~HasTopic(Tail(net[link]), t)
      /\ \A u : HasTopic(Tail(net[link]), u) => HasTopic(net[link], u)
  BY <1>1, <1>3, TakenTopics
<1>5. consumer_subscriptions[n][t] = << >> /\ ~Asks(c, t)
  BY <1>2, <1>4 DEF AloneInVector, AskedOnce
<1>6. PICK B, m : net' = Posted(Taken(link), n, B, m)
  BY DEF NuzzleSubscribe
<1>7. \A l \in RequestLinks : net'[l] = IF l = link THEN Tail(net[l]) ELSE net[l]
  <2> SUFFICES ASSUME NEW l \in RequestLinks
               PROVE  net'[l] = IF l = link THEN Tail(net[l]) ELSE net[l]
    OBVIOUS
  <2>1. l \in Links /\ l[1] # n
    BY UpdateForm, ProcessesDisjoint
  <2> QED
    BY <1>1, <1>6, <2>1 DEF Posted, Taken, Queues
<1> HIDE DEF t
<1>8. joining'[n] = <<c, t>> /\ \A m1 \in Nuzzles : m1 # n => joining'[m1] = joining[m1]
  BY <1>1, VectorForm
<1>9. \A d \in Consumers, u \in Topics : Asks(d, u)' <=> Asks(d, u)
  BY <1>1 DEF Asks
<1>10. ASSUME NEW d \in Consumers, NEW u \in Topics, NEW m1, m1 = NuzzleConnection[d],
              Asks(d, u)' \/ HasTopic(net'[<<d, m1>>], u)
       PROVE  /\ consumer_subscriptions'[m1][u] = << >>
              /\ joining'[m1] # Idle => joining'[m1][2] # u
  <2>1. m1 \in Nuzzles /\ <<d, m1>> \in RequestLinks
    BY <1>10, UpdateForm
  <2>2. CASE d = c
    <3>1. m1 = n /\ net'[<<d, m1>>] = Tail(net[link])
      BY <1>2, <1>7, <1>10, <2>1, <2>2
    <3>2. u # t /\ (Asks(c, u) \/ HasTopic(net[link], u))
      BY <1>4, <1>5, <1>9, <1>10, <2>2, <3>1
    <3>3. consumer_subscriptions[n][u] = << >>
      BY <1>2, <3>2 DEF AloneInVector
    <3> QED
      BY <1>1, <1>8, <3>1, <3>2, <3>3
  <2>3. CASE d # c
    <3>1. m1 # n /\ net'[<<d, m1>>] = net[<<d, m1>>]
      BY <1>2, <1>7, <1>10, <2>1, <2>3 DEF SubscribesOnce
    <3> QED
      BY <1>1, <1>8, <1>9, <1>10, <2>1, <3>1 DEF AloneInVector
  <2> QED
    BY <2>2, <2>3
<1>11. \A m1 \in Nuzzles : joining'[m1] # Idle =>
         /\ NuzzleConnection[joining'[m1][1]] = m1
         /\ consumer_subscriptions'[m1][joining'[m1][2]] = << >>
  <2> SUFFICES ASSUME NEW m1 \in Nuzzles, joining'[m1] # Idle
               PROVE  /\ NuzzleConnection[joining'[m1][1]] = m1
                      /\ consumer_subscriptions'[m1][joining'[m1][2]] = << >>
    OBVIOUS
  <2>1. CASE m1 = n
    BY <1>1, <1>2, <1>5, <1>8, <2>1
  <2>2. CASE m1 # n
    BY <1>1, <1>8, <2>2 DEF AloneInVector
  <2> QED
    BY <2>1, <2>2
<1>12. /\ \A m1 \in Nuzzles, u \in Topics : consumer_subscriptions'[m1][u] # << >> =>
            \E d \in Consumers :
              NuzzleConnection[d] = m1 /\ consumer_subscriptions'[m1][u] = <<d>>
       /\ \A m1 \in Nuzzles : delivery'[m1] # Idle => delivery'[m1].range =
            consumer_subscriptions'[m1][delivery'[m1].request.topic_id]
  BY <1>1 DEF AloneInVector
<1> QED
  BY <1>10, <1>11, <1>12 DEF AloneInVector

(* ... to when it is alone in the vector. *)
LEMMA JoinedVectors ==
    ASSUME Typed, AskedOnce, SubscribesOnce, AloneInVector, NEW n \in Nuzzles,
           NuzzleSubscribed(n), NuzzleFrame
    PROVE  AloneInVector'
<1> DEFINE c == joining[n][1]
           t == joining[n][2]
<1>1. /\ joining[n] # Idle /\ UNCHANGED <<net, requests, delivery>>
      /\ joining' = [joining EXCEPT ![n] = Idle]
      /\ consumer_subscriptions' =
           [consumer_subscriptions EXCEPT ![n][t] = Append(@, c)]
  BY DEF NuzzleSubscribed, NuzzleFrame, transportVars, consumerVars
<1>2. c \in Consumers /\ t \in Topics
  BY <1>1, VectorForm
<1>3. NuzzleConnection[c] = n /\ consumer_subscriptions[n][t] = << >>
  BY <1>1 DEF AloneInVector
<1> HIDE DEF c, t
<1>4. /\ consumer_subscriptions'[n][t] = <<c>>
      /\ \A m \in Nuzzles, u \in Topics :
           m # n \/ u # t => consumer_subscriptions'[m][u] = consumer_subscriptions[m][u]
  BY <1>1, <1>2, <1>3, VectorForm
<1>5. joining'[n] = Idle /\ \A m \in Nuzzles : m # n => joining'[m] = joining[m]
  BY <1>1, VectorForm
<1>6. \A m \in Nuzzles, u \in Topics : consumer_subscriptions'[m][u] # << >> =>
        \E d \in Consumers :
          NuzzleConnection[d] = m /\ consumer_subscriptions'[m][u] = <<d>>
  <2> SUFFICES ASSUME NEW m \in Nuzzles, NEW u \in Topics,
                      consumer_subscriptions'[m][u] # << >>
               PROVE  \E d \in Consumers :
                        NuzzleConnection[d] = m /\ consumer_subscriptions'[m][u] = <<d>>
    OBVIOUS
  <2>1. CASE m = n /\ u = t
    BY <1>2, <1>3, <1>4, <2>1
  <2>2. CASE m # n \/ u # t
    BY <1>4, <2>2 DEF AloneInVector
  <2> QED
    BY <2>1, <2>2
<1>7. ASSUME NEW m \in Nuzzles, delivery'[m] # Idle
      PROVE  delivery'[m].range = consumer_subscriptions'[m][delivery'[m].request.topic_id]
  <2>1. /\ delivery[m] # Idle /\ delivery[m].request.topic_id \in Topics
        /\ delivery[m].range # << >>
    BY <1>1, <1>7, VectorForm
  <2>2. delivery[m].range = consumer_subscriptions[m][delivery[m].request.topic_id]
    BY <2>1 DEF AloneInVector
  <2>3. m # n \/ delivery[m].request.topic_id # t
    BY <1>3, <2>1, <2>2
  <2> QED
    BY <1>1, <1>4, <2>1, <2>2, <2>3
<1>8. \A m \in Nuzzles : joining'[m] # Idle =>
        /\ NuzzleConnection[joining'[m][1]] = m
        /\ consumer_subscriptions'[m][joining'[m][2]] = << >>
  <2> SUFFICES ASSUME NEW m \in Nuzzles, m # n, joining[m] # Idle
               PROVE  /\ NuzzleConnection[joining[m][1]] = m
                      /\ consumer_subscriptions'[m][joining[m][2]] = << >>
    BY <1>5
  <2>1. joining[m][2] \in Topics
    BY VectorForm
  <2> QED
    BY <1>4, <2>1 DEF AloneInVector
<1>9. ASSUME NEW d \in Consumers, NEW u \in Topics, NEW m, m = NuzzleConnection[d],
             Asks(d, u)' \/ HasTopic(net'[<<d, m>>], u)
      PROVE  /\ consumer_subscriptions'[m][u] = << >>
             /\ joining'[m] # Idle => joining'[m][2] # u
  <2>1. Asks(d, u) \/ HasTopic(net[<<d, m>>], u)
    BY <1>1, <1>9 DEF Asks
  <2>2. m \in Nuzzles /\ consumer_subscriptions[m][u] = << >>
        /\ (joining[m] # Idle => joining[m][2] # u)
    BY <1>9, <2>1, UpdateForm DEF AloneInVector
  <2>3. m # n \/ u # t
    BY <1>1, <2>2 DEF t
  <2> QED
    BY <1>4, <1>5, <2>2, <2>3
<1> QED
  BY <1>6, <1>7, <1>8, <1>9 DEF AloneInVector

(* Every step keeps each consumer alone in the vectors of its nuzzle. *)
LEMMA NextVectors ==
    ASSUME Typed, AskedOnce, SubscribesOnce, AloneInVector, [Next]_vars
    PROVE  AloneInVector'
<1>1. CASE NuzzleStep
  BY <1>1, NuzzleLeavesVectors, JoiningVectors, JoinedVectors DEF NuzzleStep
<1>2. CASE PublisherStep \/ PumpStep \/ EngineStep \/ ConsumerStep \/ TransportStep
  <2>1. ASSUME NEW c \in Consumers, ConsumerUpdateSubscription(c) PROVE ConsumerFrame
    <3>1. requests' # requests
      <4>1. requests[c] \in Seq(Topics \X {0, 1}) /\ requests[c] # << >>
            /\ requests' = [requests EXCEPT ![c] = Tail(requests[c])]
        BY <2>1, UpdateForm DEF ConsumerUpdateSubscription
      <4>2. requests'[c] = Tail(requests[c])
        BY <4>1, UpdateForm
      <4>3. Len(Tail(requests[c])) # Len(requests[c])
        BY <4>1
      <4> QED
        BY <4>2, <4>3
    <3> QED
      BY <1>2, <3>1
      DEF PublisherStep, PublisherFrame, PumpStep, PumpFrame, EngineStep, EngineFrame,
          ConsumerStep, TransportStep, ProcessFrame, consumerVars
  <2> QED
    BY <1>2, <2>1, OthersLeaveVectors, ConsumerLeavesVectors
<1>3. CASE UNCHANGED vars
  BY <1>3 DEF AloneInVector, Asks, HasTopic, vars, transportVars, nuzzleVars, consumerVars
<1> QED
  BY <1>1, <1>2, <1>3 DEF Next

(* The vectors are empty at first. *)
LEMMA InitVectors == Init => AloneInVector
<1> SUFFICES ASSUME Init PROVE AloneInVector
  OBVIOUS
<1>1. /\ \A n \in Nuzzles, t \in Topics : consumer_subscriptions[n][t] = << >>
      /\ \A n \in Nuzzles : delivery[n] = Idle /\ joining[n] = Idle
      /\ \A c \in Consumers : NuzzleConnection[c] \in Nuzzles
  BY ConsumerAssumption DEF Init, NuzzleInit
<1> QED
  BY <1>1 DEF AloneInVector

----------------------------------------------------------------------------
(* The places of a publication. *)

(* An engine that is done with a publication stays so. *)
LEMMA NextDone ==
    ASSUME Typed, Integrity, OneCounter, IdsSuffice, Replication, RegisteredOnce, Copying,
           [Next]_vars, NEW e \in Engines, NEW n \in Nuzzles, NEW k, Done(e, n, k)
    PROVE  Done(e, n, k)'
<1>1. ASSUME NoCopy PROVE Done(e, n, k)'
  BY <1>1, NoCopyDone
<1>2. CASE PumpStep
  <2>1. ASSUME NEW p \in Pumps, NEW b \in Publishers, OnPublishReceive(p, b)
        PROVE  Done(e, n, k)'
    BY <1>2, <2>1, NumberDone DEF PumpStep
  <2> QED
    BY <1>1, <1>2, <2>1, PumpQuiet DEF QuietStep
<1>3. CASE EngineStep
  <2>1. ASSUME NEW d \in Engines, NEW p \in Pumps, OnPrepareReceive(d, p)
        PROVE  Done(e, n, k)'
    BY <2>1, PrepareDone, StepReplacesNothing
  <2>2. ASSUME NEW d \in Engines, FanOutPublish(d) PROVE Done(e, n, k)'
    BY <2>2, FanOutDone
  <2> QED
    BY <1>1, <1>3, <2>1, <2>2, EngineQuiet DEF QuietStep
<1>4. CASE NuzzleStep
  <2>1. ASSUME NEW m \in Nuzzles, NEW d \in Engines, OnPublishReceived(m, d)
        PROVE  Done(e, n, k)'
    BY <1>4, <2>1, CountDone DEF NuzzleStep
  <2>2. ASSUME NEW m \in Nuzzles, Deliver(m) PROVE Done(e, n, k)'
    BY <1>1, <1>4, <2>2, DeliverAdds DEF NuzzleStep
  <2> QED
    BY <1>1, <1>4, <2>1, <2>2, NuzzleQuiet DEF QuietStep
<1>5. CASE ConsumerStep
  <2>1. ASSUME NEW c \in Consumers, NEW m \in Nuzzles, OnPublishLogged(c, m)
        PROVE  Done(e, n, k)'
    BY <1>1, <1>5, <2>1, LogAdds DEF ConsumerStep
  <2> QED
    BY <1>1, <1>5, <2>1, ConsumerQuiet DEF QuietStep
<1>6. CASE PublisherStep \/ TransportStep
  BY <1>1, <1>6, PublisherQuiet, TransportQuiet DEF QuietStep
<1>7. CASE UNCHANGED vars
  <2>1. NoCopy
    BY <1>7, KeptIsQuiet
    DEF vars, transportVars, nuzzleVars, consumerVars, Kept, QuietStep
  <2> QED
    BY <1>1, <2>1
<1> QED
  BY <1>2, <1>3, <1>4, <1>5, <1>6, <1>7 DEF Next

(* What a nuzzle has passed stays passed. *)
LEMMA NextPassed ==
    ASSUME Typed, Integrity, OneCounter, IdsSuffice, OneGroup, Replication, RegisteredOnce,
           Copying, [Next]_vars, NEW n \in Nuzzles, NEW k \in Keys, Passed(n, k)
    PROVE  Passed(n, k)'
<1>1. ASSUME NEW m \in Nuzzles, NEW e \in Engines, OnPublishReceived(m, e), NuzzleFrame
      PROVE  Passed(n, k)'
  <2>1. PICK key : key = KeyOf(Head(net[<<e, m>>]))
    OBVIOUS
  <2> QED
    BY <1>1, <2>1, CountPasses
<1>2. CASE UNCHANGED copies
  <2>1. \A e \in Engines : Done(e, n, k) => Done(e, n, k)'
    BY NextDone
  <2> QED
    BY <1>2, <2>1 DEF Passed, Majority
<1>3. UNCHANGED copies \/ (NuzzleFrame /\ \E m \in Nuzzles, e \in Engines : OnPublishReceived(m, e))
  BY DEF Next, PublisherStep, PublisherFrame, PumpStep, PumpFrame, EngineStep, EngineFrame,
         NuzzleStep, NuzzleConnectToEngine, Deliver, NuzzleSubscribe, NuzzleSubscribed,
         NuzzleUnsubscribe, NuzzleUnsubscribeUnknown, NuzzleRaceCrash, ConsumerStep,
         ConsumerFrame, TransportStep, ProcessFrame, nuzzleVars, vars
<1> QED
  BY <1>1, <1>2, <1>3

(* Links to consumers, and from where. *)
LEMMA PlaceForm ==
    ASSUME Typed
    PROVE  /\ \A c \in Consumers : NuzzleConnection[c] \in Nuzzles
           /\ \A n \in Nuzzles, c \in Consumers :
                /\ <<n, c>> \in DeliveryLinks /\ <<n, c>> \in Links
                /\ net[<<n, c>>] \in Seq(Messages)
           /\ \A c \in Consumers : log_buffer[c] \in Seq(RequestPublish)
           /\ log_buffer \in [Consumers -> Seq(RequestPublish)]
           /\ \A n \in Nuzzles : delivery[n] # Idle => KeyOf(delivery[n].request) \in Keys
<1>1. \A n \in Nuzzles, c \in Consumers : <<n, c>> \in DeliveryLinks
  BY MajorityLinks
<1>2. log_buffer \in [Consumers -> Seq(RequestPublish)]
  BY DEF Typed, TypeOK, ConsumerTypeOK
<1>3. \A n \in Nuzzles : delivery[n] # Idle => KeyOf(delivery[n].request) \in Keys
  BY VectorForm DEF KeyOf, Keys, RequestPublish
<1> QED
  BY <1>1, <1>2, <1>3, CopyForm, MajorityLinks, ConsumerAssumption

(* A step that delivers nothing puts nothing into a place. *)
LEMMA NoDeliveryPlaces ==
    ASSUME Typed, DeliveredInOnePlace, NoDelivery
    PROVE  DeliveredInOnePlace' /\ \A n \in Nuzzles, k \in Keys : Reached(n, k)' => Reached(n, k)
<1>1. UNCHANGED <<delivery, log_buffer>>
  BY DEF NoDelivery
<1>2. \A n \in Nuzzles, c \in Consumers :
        net'[<<n, c>>] = net[<<n, c>>] \/ net'[<<n, c>>] = << >>
  BY PlaceForm DEF NoDelivery, Kept
<1>3. \A n \in Nuzzles, c \in Consumers :
        /\ \A k : HasKey(net'[<<n, c>>], k) => HasKey(net[<<n, c>>], k)
        /\ KeysOnce(net[<<n, c>>]) => KeysOnce(net'[<<n, c>>])
  BY <1>2, KeptKeys
<1>4. \A n \in Nuzzles, k \in Keys : Reached(n, k)' => Reached(n, k)
  BY <1>1, <1>3 DEF Reached
<1>5. \A n \in Nuzzles, c \in Consumers : n # NuzzleConnection[c] => net'[<<n, c>>] = << >>
  BY <1>2 DEF DeliveredInOnePlace
<1>6. ASSUME NEW c \in Consumers, NEW n, n = NuzzleConnection[c]
      PROVE  /\ KeysOnce(log_buffer'[c])
             /\ KeysOnce(net'[<<n, c>>])
             /\ \A k \in Keys : HasKey(net'[<<n, c>>], k) => ~HasKey(log_buffer'[c], k)
             /\ delivery'[n] # Idle =>
                  /\ ~HasKey(net'[<<n, c>>], KeyOf(delivery'[n].request))
                  /\ ~HasKey(log_buffer'[c], KeyOf(delivery'[n].request))
  <2>1. n \in Nuzzles
    BY <1>6, PlaceForm
  <2> QED
    BY <1>1, <1>3, <1>6, <2>1 DEF DeliveredInOnePlace
<1> QED
  BY <1>4, <1>5, <1>6 DEF DeliveredInOnePlace

(* A count that comes to the majority begins the only delivery. *)
LEMMA CountPlaces ==
    ASSUME Typed, Copying, OneGroup, DeliveredIsPassed, DeliveredInOnePlace,
           NEW n \in Nuzzles, NEW e \in Engines, OnPublishReceived(n, e), NuzzleFrame
    PROVE  /\ DeliveredInOnePlace'
           /\ \A m \in Nuzzles, k \in Keys : Reached(m, k)' => Reached(m, k) \/ Passed(m, k)'
<1> DEFINE link == <<e, n>>
           request == Head(net[link])
           range == consumer_subscriptions[n][request.topic_id]
<1>1. PICK key : key = KeyOf(request)
  OBVIOUS
<1>2. /\ net' = Taken(link) /\ log_buffer' = log_buffer
      /\ \/ delivery' = delivery
         \/ /\ Len(Append(copies[n][key], e)) = Majority
            /\ delivery' = [delivery EXCEPT ![n] = BeginLoop(request, range)]
  BY <1>1 DEF OnPublishReceived, NuzzleFrame, consumerVars, CompletesMajority, KeyOf
<1>3. key \in Keys /\ (Len(Append(copies[n][key], e)) = Majority => ~Passed(n, key) /\ Passed(n, key)')
  BY <1>1, CountPasses
<1>4. Len(Append(copies[n][key], e)) = Majority => ~Reached(n, key)
  BY <1>3 DEF DeliveredIsPassed
<1>5. \A m \in Nuzzles, c \in Consumers : net'[<<m, c>>] = net[<<m, c>>]
  <2> SUFFICES ASSUME NEW m \in Nuzzles, NEW c \in Consumers PROVE net'[<<m, c>>] = net[<<m, c>>]
    OBVIOUS
  <2>1. <<m, c>> # link /\ <<m, c>> \in Links
    BY PlaceForm, ProcessesDisjoint
  <2> QED
    BY <1>2, <2>1, CopyForm DEF Taken, Queues
<1>6. BeginLoop(request, range) # Idle => BeginLoop(request, range).request = request
  BY DEF BeginLoop
<1>7. \A m \in Nuzzles : delivery'[m] # Idle =>
        \/ delivery[m] # Idle /\ delivery'[m].request = delivery[m].request
        \/ /\ m = n /\ KeyOf(delivery'[m].request) = key
           /\ ~Reached(n, key) /\ Passed(n, key)'
  <2> HIDE DEF request, range
  <2>1. CASE delivery' = delivery
    BY <2>1
  <2>2. CASE /\ Len(Append(copies[n][key], e)) = Majority
             /\ delivery' = [delivery EXCEPT ![n] = BeginLoop(request, range)]
    BY <1>1, <1>3, <1>4, <1>6, <2>2, VectorForm
  <2> QED
    BY <1>2, <2>1, <2>2
<1>8. ASSUME NEW m \in Nuzzles, NEW k \in Keys, Reached(m, k)'
      PROVE  Reached(m, k) \/ Passed(m, k)'
  BY <1>2, <1>5, <1>7, <1>8 DEF Reached
<1>9. ASSUME NEW c \in Consumers, NEW m, m = NuzzleConnection[c], delivery'[m] # Idle
      PROVE  /\ ~HasKey(net'[<<m, c>>], KeyOf(delivery'[m].request))
             /\ ~HasKey(log_buffer'[c], KeyOf(delivery'[m].request))
  <2>1. m \in Nuzzles
    BY <1>9, PlaceForm
  <2>2. CASE delivery[m] # Idle /\ delivery'[m].request = delivery[m].request
    BY <1>2, <1>5, <1>9, <2>1, <2>2 DEF DeliveredInOnePlace
  <2>3. CASE m = n /\ KeyOf(delivery'[m].request) = key /\ ~Reached(n, key)
    BY <1>2, <1>5, <1>9, <2>1, <2>3 DEF Reached
  <2> QED
    BY <1>7, <1>9, <2>1, <2>2, <2>3
<1>10. DeliveredInOnePlace'
  <2>1. \A c \in Consumers : LET m == NuzzleConnection[c] IN
          /\ KeysOnce(log_buffer'[c])
          /\ KeysOnce(net'[<<m, c>>])
          /\ \A k \in Keys : HasKey(net'[<<m, c>>], k) => ~HasKey(log_buffer'[c], k)
    BY <1>2, <1>5, PlaceForm DEF DeliveredInOnePlace
  <2>2. \A m \in Nuzzles, c \in Consumers : m # NuzzleConnection[c] => net'[<<m, c>>] = << >>
    BY <1>5 DEF DeliveredInOnePlace
  <2> QED
    BY <1>9, <2>1, <2>2 DEF DeliveredInOnePlace
<1> QED
  BY <1>8, <1>10

(* A nuzzle's loop sends to the one consumer of the vector, and ends. *)
LEMMA DeliverPlaces ==
    ASSUME Typed, AloneInVector, DeliveredInOnePlace, NEW n \in Nuzzles,
           Deliver(n), NuzzleFrame
    PROVE  /\ DeliveredInOnePlace'
           /\ \A m \in Nuzzles, k \in Keys : Reached(m, k)' => Reached(m, k)
<1>1. PICK r : r = delivery[n].request
  OBVIOUS
<1>2. delivery[n] # Idle /\ log_buffer' = log_buffer
  BY DEF Deliver, NuzzleFrame, consumerVars
<1>3. /\ r \in Messages /\ r.topic_id \in Topics /\ KeyOf(r) \in Keys
      /\ delivery[n].range \in Seq(Consumers) /\ delivery[n].next \in DOMAIN delivery[n].range
  BY <1>1, <1>2, VectorForm, PlaceForm
<1>4. PICK c \in Consumers :
        NuzzleConnection[c] = n /\ consumer_subscriptions[n][r.topic_id] = <<c>>
          /\ delivery[n].range = <<c>>
  <2>1. delivery[n].range = consumer_subscriptions[n][r.topic_id]
    BY <1>1, <1>2 DEF AloneInVector
  <2>2. consumer_subscriptions[n][r.topic_id] # << >>
    BY <1>3, <2>1
  <2> QED
    BY <1>3, <2>1, <2>2 DEF AloneInVector
<1>5. delivery[n].next = 1 /\ Len(delivery[n].range) = 1
  BY <1>3, <1>4
<1>6. LoopReads(delivery[n], consumer_subscriptions[n][r.topic_id]) = {c}
  BY <1>4, <1>5 DEF LoopReads
<1>7. net' = Posted(net, n, {c}, r)
  BY <1>1, <1>6 DEF Deliver
<1>8. delivery' = [delivery EXCEPT ![n] = Idle]
  BY <1>5 DEF Deliver, AdvanceLoop
<1>9. delivery'[n] = Idle /\ \A m \in Nuzzles : m # n => delivery'[m] = delivery[m]
  BY <1>8, VectorForm
<1>10. \A m \in Nuzzles, d \in Consumers : m # n \/ d # c => net'[<<m, d>>] = net[<<m, d>>]
  BY <1>7, PlaceForm DEF Posted
<1>11. net'[<<n, c>>] = net[<<n, c>>] \/ net'[<<n, c>>] = Append(net[<<n, c>>], r)
  BY <1>7, PlaceForm DEF Posted
<1>12. /\ \A k : HasKey(net'[<<n, c>>], k) => HasKey(net[<<n, c>>], k) \/ k = KeyOf(r)
       /\ KeysOnce(net'[<<n, c>>])
  <2>1. net[<<n, c>>] \in Seq(Messages)
    BY PlaceForm
  <2>2. KeysOnce(net[<<n, c>>]) /\ ~HasKey(net[<<n, c>>], KeyOf(r))
    BY <1>1, <1>2, <1>4 DEF DeliveredInOnePlace
  <2> QED
    BY <1>3, <1>11, <2>1, <2>2, SentKeys
<1>13. ~HasKey(log_buffer[c], KeyOf(r))
  BY <1>1, <1>2, <1>4 DEF DeliveredInOnePlace
<1>14. ASSUME NEW m \in Nuzzles, NEW k \in Keys, Reached(m, k)' PROVE Reached(m, k)
  <2>1. Reached(n, KeyOf(r))
    BY <1>1, <1>2 DEF Reached
  <2>2. CASE delivery'[m] # Idle /\ KeyOf(delivery'[m].request) = k
    BY <1>9, <2>2 DEF Reached
  <2>3. ASSUME NEW d \in Consumers, NuzzleConnection[d] = m,
               HasKey(net'[<<m, d>>], k) \/ HasKey(log_buffer'[d], k)
        PROVE  Reached(m, k)
    <3>1. CASE HasKey(log_buffer[d], k)
      BY <2>3, <3>1 DEF Reached
    <3>2. CASE HasKey(net'[<<m, d>>], k) /\ m = n /\ d = c
      <4>1. HasKey(net[<<n, c>>], k) \/ k = KeyOf(r)
        BY <1>12, <3>2
      <4> QED
        BY <2>1, <2>3, <3>2, <4>1 DEF Reached
    <3>3. CASE HasKey(net'[<<m, d>>], k) /\ (m # n \/ d # c)
      <4>1. HasKey(net[<<m, d>>], k)
        BY <1>10, <3>3
      <4> QED
        BY <2>3, <4>1 DEF Reached
    <3> QED
      BY <1>2, <2>3, <3>1, <3>2, <3>3
  <2> QED
    BY <1>14, <2>2, <2>3 DEF Reached
<1>15. \A m \in Nuzzles, d \in Consumers : m # NuzzleConnection[d] => net'[<<m, d>>] = << >>
  <2> SUFFICES ASSUME NEW m \in Nuzzles, NEW d \in Consumers, m # NuzzleConnection[d]
               PROVE  net'[<<m, d>>] = << >>
    OBVIOUS
  <2>1. m # n \/ d # c
    BY <1>4
  <2> QED
    BY <1>10, <2>1 DEF DeliveredInOnePlace
<1>16. ASSUME NEW d \in Consumers, NEW m, m = NuzzleConnection[d]
       PROVE  /\ KeysOnce(log_buffer'[d])
              /\ KeysOnce(net'[<<m, d>>])
              /\ \A k \in Keys : HasKey(net'[<<m, d>>], k) => ~HasKey(log_buffer'[d], k)
              /\ delivery'[m] # Idle =>
                   /\ ~HasKey(net'[<<m, d>>], KeyOf(delivery'[m].request))
                   /\ ~HasKey(log_buffer'[d], KeyOf(delivery'[m].request))
  <2>1. m \in Nuzzles
    BY <1>16, PlaceForm
  <2>2. /\ KeysOnce(log_buffer[d]) /\ KeysOnce(net[<<m, d>>])
        /\ \A k \in Keys : HasKey(net[<<m, d>>], k) => ~HasKey(log_buffer[d], k)
    BY <1>16, <2>1 DEF DeliveredInOnePlace
  <2>3. CASE d = c
    <3>1. m = n
      BY <1>4, <1>16, <2>3
    <3>2. \A k \in Keys : HasKey(net'[<<n, c>>], k) => ~HasKey(log_buffer[c], k)
      BY <1>12, <1>13, <2>2, <2>3, <3>1
    <3> QED
      BY <1>2, <1>9, <1>12, <2>2, <2>3, <3>1, <3>2
  <2>4. CASE d # c
    <3>1. net'[<<m, d>>] = net[<<m, d>>]
      BY <1>10, <2>1, <2>4
    <3>2. delivery'[m] # Idle =>
            /\ ~HasKey(net[<<m, d>>], KeyOf(delivery'[m].request))
            /\ ~HasKey(log_buffer[d], KeyOf(delivery'[m].request))
      BY <1>9, <1>16, <2>1 DEF DeliveredInOnePlace
    <3> QED
      BY <1>2, <2>2, <3>1, <3>2
  <2> QED
    BY <2>3, <2>4
<1> QED
  BY <1>14, <1>15, <1>16 DEF DeliveredInOnePlace

(* A consumer logs what was on the link from its nuzzle. *)
LEMMA LogPlaces ==
    ASSUME Typed, DeliveredInOnePlace, NEW c \in Consumers, NEW n \in Nuzzles,
           OnPublishLogged(c, n), ConsumerFrame
    PROVE  /\ n = NuzzleConnection[c]
           /\ ~HasKey(log_buffer[c], KeyOf(Head(net[<<n, c>>])))
           /\ DeliveredInOnePlace'
           /\ \A m \in Nuzzles, k \in Keys : Reached(m, k)' => Reached(m, k)
<1> DEFINE link == <<n, c>>
<1>1. PICK r : r = Head(net[link])
  OBVIOUS
<1>2. /\ net' = Taken(link) /\ net[link] # << >> /\ UNCHANGED delivery
      /\ log_buffer' = [log_buffer EXCEPT ![c] = Append(log_buffer[c], r)]
  BY <1>1 DEF OnPublishLogged, ConsumerFrame, nuzzleVars, Arrived
<1>3. n = NuzzleConnection[c]
  BY <1>2 DEF DeliveredInOnePlace
<1>4. /\ r \in RequestPublish /\ KeyOf(r) \in Keys
      /\ log_buffer[c] \in Seq(RequestPublish) /\ net[link] \in Seq(Messages)
      /\ link \in Links /\ net \in Queues
  <2>1. r \in RequestPublish
    BY <1>1, DeliveryArrived DEF OnPublishLogged
  <2> QED
    BY <2>1, PlaceForm, CopyForm DEF KeyOf, Keys, RequestPublish
<1>5. /\ HasKey(net[link], KeyOf(r)) /\ KeysOnce(net[link]) /\ KeysOnce(log_buffer[c])
      /\ \A k \in Keys : HasKey(net[link], k) => ~HasKey(log_buffer[c], k)
  BY <1>1, <1>2, <1>3, <1>4, TakenKeys DEF DeliveredInOnePlace
<1>6. /\ net'[link] = Tail(net[link])
      /\ \A l \in Links : l # link => net'[l] = net[l]
  BY <1>2, <1>4 DEF Taken, Queues
<1>7. /\ KeysOnce(net'[link]) /\ ~HasKey(net'[link], KeyOf(r))
      /\ \A k : HasKey(net'[link], k) => HasKey(net[link], k)
  BY <1>1, <1>2, <1>4, <1>5, <1>6, TakenKeys
<1>8. /\ log_buffer'[c] = Append(log_buffer[c], r)
      /\ \A d \in Consumers : d # c => log_buffer'[d] = log_buffer[d]
  BY <1>2, PlaceForm
<1>9. /\ KeysOnce(log_buffer'[c])
      /\ \A k : HasKey(log_buffer'[c], k) => HasKey(log_buffer[c], k) \/ k = KeyOf(r)
  BY <1>4, <1>5, <1>8, SentKeys
<1>10. \A m \in Nuzzles, d \in Consumers : m # n \/ d # c => net'[<<m, d>>] = net[<<m, d>>]
  BY <1>6, PlaceForm
<1>11. ASSUME NEW m \in Nuzzles, NEW k \in Keys, Reached(m, k)' PROVE Reached(m, k)
  <2>1. ASSUME NEW d \in Consumers, NuzzleConnection[d] = m,
               HasKey(net'[<<m, d>>], k) \/ HasKey(log_buffer'[d], k)
        PROVE  HasKey(net[<<m, d>>], k) \/ HasKey(log_buffer[d], k)
    <3>1. CASE d = c
      BY <1>3, <1>5, <1>7, <1>9, <2>1, <3>1
    <3>2. CASE d # c
      BY <1>8, <1>10, <2>1, <3>2
    <3> QED
      BY <3>1, <3>2
  <2> QED
    BY <1>2, <1>11, <2>1 DEF Reached
<1>12. \A m \in Nuzzles, d \in Consumers : m # NuzzleConnection[d] => net'[<<m, d>>] = << >>
  <2> SUFFICES ASSUME NEW m \in Nuzzles, NEW d \in Consumers, m # NuzzleConnection[d]
               PROVE  net'[<<m, d>>] = << >>
    OBVIOUS
  <2>1. m # n \/ d # c
    BY <1>3
  <2> QED
    BY <1>10, <2>1 DEF DeliveredInOnePlace
<1>13. ASSUME NEW d \in Consumers, NEW m, m = NuzzleConnection[d]
       PROVE  /\ KeysOnce(log_buffer'[d])
              /\ KeysOnce(net'[<<m, d>>])
              /\ \A k \in Keys : HasKey(net'[<<m, d>>], k) => ~HasKey(log_buffer'[d], k)
              /\ delivery'[m] # Idle =>
                   /\ ~HasKey(net'[<<m, d>>], KeyOf(delivery'[m].request))
                   /\ ~HasKey(log_buffer'[d], KeyOf(delivery'[m].request))
  <2>1. m \in Nuzzles
    BY <1>13, PlaceForm
  <2>2. /\ KeysOnce(log_buffer[d]) /\ KeysOnce(net[<<m, d>>])
        /\ \A k \in Keys : HasKey(net[<<m, d>>], k) => ~HasKey(log_buffer[d], k)
        /\ delivery[m] # Idle =>
             /\ ~HasKey(net[<<m, d>>], KeyOf(delivery[m].request))
             /\ ~HasKey(log_buffer[d], KeyOf(delivery[m].request))
    BY <1>13, <2>1 DEF DeliveredInOnePlace
  <2>3. CASE d = c
    <3>1. m = n
      BY <1>3, <1>13, <2>3
    <3>2. \A k \in Keys : HasKey(net'[link], k) => ~HasKey(log_buffer'[c], k)
      BY <1>5, <1>7, <1>9
    <3>3. delivery[n] # Idle =>
            ~HasKey(net'[link], KeyOf(delivery[n].request))
              /\ ~HasKey(log_buffer'[c], KeyOf(delivery[n].request))
      BY <1>5, <1>7, <1>9, <2>2, <2>3, <3>1
    <3> QED
      BY <1>2, <1>7, <1>9, <2>3, <3>1, <3>2, <3>3
  <2>4. CASE d # c
    BY <1>2, <1>8, <1>10, <2>1, <2>2, <2>4
  <2> QED
    BY <2>3, <2>4
<1> QED
  BY <1>1, <1>3, <1>4, <1>5, <1>11, <1>12, <1>13 DEF DeliveredInOnePlace

(* Every step keeps each publication in one place, once delivered. *)
LEMMA NextPlaces ==
    ASSUME Typed, Integrity, OneCounter, IdsSuffice, OneGroup, Replication, RegisteredOnce,
           Copying, Delivery, [Next]_vars
    PROVE  DeliveredInOnePlace' /\ DeliveredIsPassed'
<1> DEFINE Right ==
             /\ DeliveredInOnePlace'
             /\ \A n \in Nuzzles, k \in Keys : Reached(n, k)' => Reached(n, k) \/ Passed(n, k)'
<1>0. \A n \in Nuzzles, k \in Keys : Reached(n, k) => Passed(n, k)'
  BY NextPassed DEF Delivery, DeliveredIsPassed
<1> SUFFICES Right
  BY <1>0 DEF DeliveredIsPassed
<1>1. NoDelivery => Right
  BY NoDeliveryPlaces DEF Delivery
<1>2. QuietStep => Right
  BY <1>1 DEF QuietStep
<1>3. CASE PumpStep
  <2>1. ASSUME NEW p \in Pumps, NEW b \in Publishers, OnPublishReceive(p, b)
        PROVE  Right
    BY <1>1, <1>3, <2>1, NumberCopying DEF PumpStep, OneGroup
  <2> QED
    BY <1>2, <1>3, <2>1, PumpQuiet
<1>4. CASE EngineStep
  <2>1. ASSUME NEW e \in Engines, NEW p \in Pumps, OnPrepareReceive(e, p)
        PROVE  Right
    BY <1>1, <1>4, <2>1, PrepareCopying, StepReplacesNothing DEF EngineStep, OneGroup
  <2>2. ASSUME NEW e \in Engines, FanOutPublish(e) PROVE Right
    BY <1>1, <1>4, <2>2, FanOutCopying DEF EngineStep
  <2> QED
    BY <1>2, <1>4, <2>1, <2>2, EngineQuiet
<1>5. CASE NuzzleStep
  <2>1. ASSUME NEW n \in Nuzzles, NEW e \in Engines, OnPublishReceived(n, e)
        PROVE  Right
    BY <1>5, <2>1, CountPlaces DEF NuzzleStep, Delivery
  <2>2. ASSUME NEW n \in Nuzzles, Deliver(n) PROVE Right
    BY <1>5, <2>2, DeliverPlaces DEF NuzzleStep, Delivery
  <2> QED
    BY <1>2, <1>5, <2>1, <2>2, NuzzleQuiet
<1>6. CASE ConsumerStep
  <2>1. ASSUME NEW c \in Consumers, NEW n \in Nuzzles, OnPublishLogged(c, n)
        PROVE  Right
    BY <1>6, <2>1, LogPlaces DEF ConsumerStep, Delivery
  <2> QED
    BY <1>2, <1>6, <2>1, ConsumerQuiet
<1>7. CASE PublisherStep \/ TransportStep
  BY <1>2, <1>7, PublisherQuiet, TransportQuiet
<1>8. CASE UNCHANGED vars
  <2>1. QuietStep
    BY <1>8, KeptIsQuiet DEF vars, transportVars, nuzzleVars, consumerVars, Kept
  <2> QED
    BY <1>2, <2>1
<1> QED
  BY <1>3, <1>4, <1>5, <1>6, <1>7, <1>8 DEF Next

(* Nothing is anywhere at first. *)
LEMMA InitDelivery == Init => Delivery
<1> SUFFICES ASSUME Init PROVE Delivery
  OBVIOUS
<1>1. /\ \A n \in Nuzzles, c \in Consumers : net[<<n, c>>] = << >>
      /\ \A n \in Nuzzles : delivery[n] = Idle
      /\ \A c \in Consumers : log_buffer[c] = << >>
      /\ \A c \in Consumers : NuzzleConnection[c] \in Nuzzles
  BY MajorityLinks, WatchedWriters, ConsumerAssumption
  DEF Init, TransportInit, NuzzleInit, ConsumerInit
<1>2. KeysOnce(<< >>) /\ \A k : ~HasKey(<< >>, k)
  BY DEF KeysOnce, HasKey
<1>3. DeliveredIsPassed
  BY <1>1, <1>2 DEF DeliveredIsPassed, Reached
<1>4. DeliveredInOnePlace
  BY <1>1, <1>2 DEF DeliveredInOnePlace
<1> QED
  BY <1>3, <1>4, InitVectors DEF Delivery

----------------------------------------------------------------------------
(* The theorems. *)

(* All that the theorems rest on. *)
Delivering ==
    Typed /\ Integrity /\ Replication /\ AskedOnce /\ RegisteredOnce /\ Copying /\ Delivery

(* Together they are inductive. *)
LEMMA AlwaysDelivering ==
    ASSUME OneCounter, IdsSuffice, SubscribesOnce, OneGroup
    PROVE  Spec => []Delivering
<1>0. IsFiniteSet(Engines)
  BY DEF OneGroup
<1>1. Init => Integrity /\ Replication /\ AskedOnce /\ Delivery
  <2>1. Init => Integrity
    BY DEF Init, TransportInit, EngineInit, NuzzleInit, ConsumerInit, Integrity,
           QueuesFrom, LoopFrom
  <2> QED
    BY <2>1, InitReplication, InitAskedOnce, InitDelivery
<1>2. Init => Copying
  <2> SUFFICES ASSUME Init PROVE Copying
    OBVIOUS
  <2>1. /\ \A l \in WatchedLinks : net[l] = << >>
        /\ \A e \in Engines : fan_out[e] = Idle
        /\ \A n \in Nuzzles, k \in Keys : copies[n][k] = << >>
    BY WatchedWriters DEF Init, TransportInit, EngineInit, NuzzleInit
  <2> QED
    BY <2>1, MajorityLinks
    DEF Copying, PreparedOnce, LoopsCurrent, CopiesAreHeld, CopiesAreSentOnce, Pending,
        WatchedLinks, EngineLinks
<1>3. AskedOnce => RegisteredOnce
  BY DEF AskedOnce, RegisteredOnce, TopicsOnce, UpdateLinks
<1>4. Typed /\ AskedOnce /\ [Next]_vars => AskedOnce'
  BY NextAskedOnce
<1>5. Typed /\ Integrity /\ Replication /\ [Next]_vars => Replication'
  BY NextReplication
<1>6. Typed /\ Integrity /\ Replication /\ RegisteredOnce /\ Copying /\ [Next]_vars
        => Copying'
  BY <1>0, NextCopying
<1>7. Delivering /\ [Next]_vars => Delivery'
  BY NextPlaces, NextVectors DEF Delivery, Delivering
<1>8. Delivering <=> Typed /\ Integrity /\ Replication /\ AskedOnce /\ RegisteredOnce
                       /\ Copying /\ Delivery
  BY DEF Delivering
<1> QED
  BY <1>1, <1>2, <1>3, <1>4, <1>5, <1>6, <1>7, <1>8, NextIntegrity, TypedAlways, PTL DEF Spec

(* No consumer is delivered a publication twice, however many copies of it *)
(* arrive, in whatever order and whoever exits: the nuzzle delivers at the *)
(* copy that makes the majority (on_publish_receive), and forgets a        *)
(* publication only when no engine will send it another.  It rests on one  *)
(* pump, ids enough, one request of a consumer for a topic and no more     *)
(* engines than GROUP_SIZE: were there more, the copies that come after a  *)
(* publication was forgotten would be counted, and could deliver it, again.*)
THEOREM DeliveredAlwaysOnce ==
    ASSUME OneCounter, IdsSuffice, SubscribesOnce, OneGroup
    PROVE  Spec => []DeliveredOnce
<1>1. Delivering => DeliveredOnce
  <2> SUFFICES ASSUME Delivering, NEW c \in Consumers PROVE IsInjective(log_buffer[c])
    BY DEF DeliveredOnce
  <2>1. KeysOnce(log_buffer[c])
    BY DEF Delivering, Delivery, DeliveredInOnePlace
  <2> QED
    BY <2>1 DEF KeysOnce, IsInjective
<1> QED
  BY <1>1, AlwaysDelivering, PTL

----------------------------------------------------------------------------
(* A deployment is a PubSub. *)

(* A publication is numbered once: it has one entry, and is waiting no     *)
(* longer when it has.                                                     *)
NumberedOnce ==
    /\ \A s, t \in Stored : InUse(s) /\ InUse(t) /\ s.message = t.message => s = t
    /\ \A s \in Stored : InUse(s) => ~Waiting(s.message)

(* What is on its way to an engine was published. *)
LEMMA EntriesArePublished ==
    ASSUME Typed, Integrity, NEW s \in Stored, Prepared(s)
    PROVE  ItemOf(s) \in published
<1>1. PICK l \in PrepareLinks : \E i \in DOMAIN net[l] : StoredOf(net[l][i]) = s
  BY DEF Prepared
<1>2. PICK i \in DOMAIN net[l] : StoredOf(net[l][i]) = s
  BY <1>1
<1>3. l \in Links /\ net[l][i] \in RequestPrepare
  BY <1>1, <1>2, ForwardLinks
<1>4. <<net[l][i].topic_id, net[l][i].message>> \in published
  BY <1>2, <1>3 DEF Integrity, QueuesFrom, FromPublished, CarriesPublication, RequestPrepare
<1> QED
  BY <1>2, <1>4 DEF ItemOf, StoredOf

(* What engines hold was published. *)
StoredIsPublished ==
    \A e \in Engines : \A s \in message_buffer[e] : ItemOf(s) \in published

(* An engine stores what has been prepared, and nothing else is stored. *)
LEMMA NextStoredPublished ==
    ASSUME Typed, Integrity, StoredIsPublished, [Next]_vars
    PROVE  StoredIsPublished'
<1>1. published \subseteq published'
  BY DEF Next, PublisherStep, Publish, PumpStep, PumpFrame, EngineStep, EngineFrame,
         NuzzleStep, NuzzleFrame, ConsumerStep, ConsumerFrame, TransportStep, ProcessFrame,
         publisherVars, vars
<1>2. CASE UNCHANGED message_buffer
  BY <1>1, <1>2 DEF StoredIsPublished
<1>3. ASSUME NEW d \in Engines, NEW p \in Pumps, OnPrepareReceive(d, p)
      PROVE  StoredIsPublished'
  <2>1. PICK r : r = Head(net[<<p, d>>])
    OBVIOUS
  <2>2. message_buffer' = [message_buffer EXCEPT ![d] = Store(message_buffer[d], r)]
    BY <1>3, <2>1 DEF OnPrepareReceive
  <2>3. <<p, d>> \in PrepareLinks /\ net[<<p, d>>] # << >> /\ net[<<p, d>>] \in Seq(Messages)
    BY <1>3, ForwardLinks, MajorityLinks DEF OnPrepareReceive, Arrived
  <2>4. 1 \in DOMAIN net[<<p, d>>] /\ r = net[<<p, d>>][1]
    BY <2>1, <2>3
  <2>5. r \in RequestPrepare
    BY <2>3, <2>4, ForwardLinks
  <2>6. StoredOf(r) \in Stored
    BY <2>5 DEF StoredOf, Stored, RequestPrepare
  <2>7. ItemOf(StoredOf(r)) \in published
    BY <2>3, <2>4, <2>6, EntriesArePublished DEF Prepared
  <2>8. \A e \in Engines : \A s \in message_buffer'[e] : s \in message_buffer[e] \/ s = StoredOf(r)
    BY <2>2, CopyForm DEF Store
  <2> QED
    BY <1>1, <2>7, <2>8 DEF StoredIsPublished
<1>4. CASE EngineStep
  <2>1. CASE ~\E d \in Engines, p \in Pumps : OnPrepareReceive(d, p)
    BY <1>2, <1>4, <2>1
    DEF EngineStep, FanOutPublish, EngineSubscribe, EngineUnsubscribe,
        EngineUnsubscribeUnknown, EngineRaceCrash, engineVars
  <2> QED
    BY <1>3, <2>1
<1>5. CASE PublisherStep \/ PumpStep \/ NuzzleStep \/ ConsumerStep \/ TransportStep
  BY <1>2, <1>5
  DEF PublisherStep, PumpStep, NuzzleStep, ConsumerStep, TransportStep, PublisherFrame,
      PumpFrame, NuzzleFrame, ConsumerFrame, ProcessFrame, engineVars
<1>6. CASE UNCHANGED vars
  BY <1>2, <1>6 DEF vars, engineVars
<1> QED
  BY <1>4, <1>5, <1>6 DEF Next

(* Publishing puts one more publication among those that wait. *)
LEMMA PublishNumberedOnce ==
    ASSUME Typed, Integrity, WaitsOnce, StoredIsPublished, NumberedOnce, PublisherStep
    PROVE  NumberedOnce'
<1>1. PICK b \in Publishers : Publish(b)
  BY DEF PublisherStep
<1>2. PICK m : m = <<b, request_id[b] + 1>>
  OBVIOUS
<1>3. /\ net' = Posted(net, b, {NextPump(b)}, Publication(b))
      /\ message_buffer' = message_buffer
  BY <1>1 DEF Publish, PublisherStep, PublisherFrame, engineVars
<1>4. /\ request_id[b] \in Nat /\ Publication(b).message = m /\ m \in Publications
      /\ Publication(b) \in Messages
  <2>1. /\ request_id[b] \in 0..MaxPublish /\ request_id[b] < MaxPublish
        /\ topic_id[b] \in Topics
    BY <1>1 DEF Publish, Typed, TypeOK, PublisherTypeOK
  <2>2. request_id[b] \in Nat /\ request_id[b] + 1 \in 1..MaxPublish
    BY <2>1, NumbersAssumption
  <2>3. (request_id[b] + 1) % IdSpace \in GlobalIds
    BY <2>2, IdsWrap
  <2> QED
    BY <1>2, <2>1, <2>2, <2>3 DEF Publication, Publications, Messages, RequestPublish
<1>5. \A l \in PrepareLinks : net'[l] = net[l]
  <2>1. \A l \in PrepareLinks : l \in Links /\ l[1] # b
    BY ForwardLinks, ProcessesDisjoint
  <2> QED
    BY <1>3, <2>1 DEF Posted
<1>6. \A s : InUse(s)' <=> InUse(s)
  BY <1>3, <1>5 DEF InUse, Prepared
<1>7. \A s \in Stored : InUse(s) => s.message # m
  <2> SUFFICES ASSUME NEW s \in Stored, InUse(s), s.message = m PROVE FALSE
    OBVIOUS
  <2>1. ItemOf(s) \in published
    BY EntriesArePublished DEF InUse, StoredIsPublished
  <2>2. s.topic_id \in Topics /\ ItemOf(s) = <<s.topic_id, m>>
    BY DEF Stored, ItemOf
  <2> QED
    BY <1>2, <1>4, <2>1, <2>2 DEF WaitsOnce
<1>8. \A x : Waiting(x)' => Waiting(x) \/ x = m
  <2> SUFFICES ASSUME NEW l \in PublishLinks, NEW i \in DOMAIN net'[l],
                      net'[l][i].message # m
               PROVE  i \in DOMAIN net[l] /\ net'[l][i] = net[l][i]
    BY DEF Waiting
  <2>1. l \in Links /\ net[l] \in Seq(Messages)
    BY ForwardLinks
  <2>2. CASE net'[l] = net[l]
    BY <2>2
  <2>3. CASE net'[l] = Append(net[l], Publication(b))
    <3>1. \/ i \in DOMAIN net[l] /\ Append(net[l], Publication(b))[i] = net[l][i]
          \/ Append(net[l], Publication(b))[i] = Publication(b)
      BY <1>4, <2>1, <2>3, AppendIndices
    <3> QED
      BY <1>4, <2>3, <3>1
  <2> QED
    BY <1>3, <2>1, <2>2, <2>3 DEF Posted
<1> QED
  BY <1>6, <1>7, <1>8 DEF NumberedOnce

(* Numbering takes one of them, and makes the only entry of it. *)
LEMMA NumberNumberedOnce ==
    ASSUME Typed, OneCounter, WaitsOnce, NumberedOnce,
           NEW p \in Pumps, NEW b \in Publishers, OnPublishReceive(p, b), PumpFrame
    PROVE  NumberedOnce'
<1> DEFINE link == <<b, p>>
<1>1. PICK r : r = Head(net[link])
  OBVIOUS
<1>2. PICK q : q = Prepare(p, r)
  OBVIOUS
<1>3. /\ net' = Posted(Taken(link), p, engine_connections[p], q)
      /\ message_buffer' = message_buffer /\ net[link] # << >>
  BY <1>1, <1>2 DEF OnPublishReceive, Arrived, PumpFrame, engineVars
<1>4. /\ link \in PublishLinks /\ p \notin Publishers /\ net \in Queues
      /\ PublishLinks \subseteq Links /\ PrepareLinks \subseteq Links
      /\ \A l \in PublishLinks \cup PrepareLinks : net[l] \in Seq(Messages)
      /\ \A l \in PublishLinks : l[1] \in Publishers /\ l = <<l[1], p>>
      /\ \A l \in PrepareLinks : l # link
  <2>1. \A l \in PublishLinks : l[1] \in Publishers /\ l[2] = p /\ l = <<l[1], l[2]>>
    BY DEF PublishLinks, OneCounter
  <2> QED
    BY <2>1, ForwardLinks, ProcessesDisjoint, CopyForm DEF PublishLinks
<1>5. 1 \in DOMAIN net[link] /\ r = net[link][1] /\ r \in RequestPublish
  <2>1. 1 \in DOMAIN net[link] /\ r = net[link][1]
    BY <1>1, <1>3, <1>4
  <2> QED
    BY <1>4, <2>1, ForwardLinks
<1>6. q \in Messages /\ q.message = r.message
  <2>1. global_request_id_seed[p] \in GlobalIds
    BY DEF Typed, TypeOK, PumpTypeOK
  <2> QED
    BY <1>2, <1>5, <2>1 DEF Prepare, RequestPublish, RequestPrepare, Messages
<1>7. /\ net'[link] = Tail(net[link])
      /\ \A l \in PublishLinks : l # link => net'[l] = net[l]
      /\ \A l \in PrepareLinks : net'[l] = net[l] \/ net'[l] = Append(net[l], q)
  BY <1>3, <1>4 DEF Posted, Taken, Queues
<1>8. \A i \in DOMAIN net'[link] :
        i \in Nat \ {0} /\ i + 1 \in DOMAIN net[link] /\ net'[link][i] = net[link][i + 1]
  <2>1. net[link] \in Seq(Messages)
    BY <1>4
  <2> QED
    BY <1>3, <1>7, <2>1, TailIndices, ZenonT(60)
<1>9. ASSUME NEW x, Waiting(x)' PROVE Waiting(x) /\ x # r.message
  <2>0. PICK l \in PublishLinks : \E i \in DOMAIN net'[l] : net'[l][i].message = x
    BY <1>9 DEF Waiting
  <2>1. PICK i \in DOMAIN net'[l] : net'[l][i].message = x
    BY <2>0
  <2>2. CASE l = link
    <3>1. /\ i \in Nat \ {0} /\ i + 1 \in DOMAIN net[link] /\ net[link][i + 1].message = x
      BY <1>8, <2>1, <2>2
    <3>2. x # r.message
      <4>1. x = r.message => i + 1 = 1
        BY <1>4, <1>5, <3>1 DEF WaitsOnce
      <4> QED
        BY <3>1, <4>1
    <3> QED
      BY <1>4, <3>1, <3>2 DEF Waiting
  <2>3. CASE l # link
    <3>1. i \in DOMAIN net[l] /\ net[l][i].message = x
      BY <1>7, <2>1, <2>3
    <3>2. x[1] = l[1] /\ r.message[1] = b
      BY <1>4, <1>5, <3>1 DEF WaitsOnce
    <3>3. l[1] # b
      BY <1>4, <2>3
    <3> QED
      BY <3>1, <3>2, <3>3 DEF Waiting
  <2> QED
    BY <2>2, <2>3
<1>10. Waiting(r.message)
  BY <1>4, <1>5 DEF Waiting
<1>11. \A s : InUse(s)' => InUse(s) \/ s = StoredOf(q)
  <2> SUFFICES ASSUME NEW l \in PrepareLinks, NEW i \in DOMAIN net'[l],
                      StoredOf(net'[l][i]) # StoredOf(q)
               PROVE  i \in DOMAIN net[l] /\ net'[l][i] = net[l][i]
    BY <1>3 DEF InUse, Prepared
  <2>1. net[l] \in Seq(Messages)
    BY <1>4
  <2>2. CASE net'[l] = net[l]
    BY <2>2
  <2>3. CASE net'[l] = Append(net[l], q)
    <3>1. \/ i \in DOMAIN net[l] /\ Append(net[l], q)[i] = net[l][i]
          \/ Append(net[l], q)[i] = q
      BY <1>6, <2>1, <2>3, AppendIndices
    <3> QED
      BY <2>3, <3>1
  <2> QED
    BY <1>7, <2>2, <2>3
<1>12. StoredOf(q).message = r.message
  BY <1>6 DEF StoredOf
<1>13. ASSUME NEW s \in Stored, NEW t \in Stored, InUse(s)', InUse(t)', s.message = t.message
       PROVE  s = t
  BY <1>10, <1>11, <1>12, <1>13 DEF NumberedOnce
<1>14. ASSUME NEW s \in Stored, InUse(s)' PROVE ~Waiting(s.message)'
  <2>1. PICK x : x = s.message
    OBVIOUS
  <2>2. Waiting(x)' => Waiting(x) /\ x # r.message
    BY <1>9
  <2> QED
    BY <1>11, <1>12, <1>14, <2>1, <2>2 DEF NumberedOnce
<1> QED
  BY <1>13, <1>14 DEF NumberedOnce

(* No other step makes an entry or has a publication wait. *)
LEMMA NextNumberedOnce ==
    ASSUME Typed, Integrity, OneCounter, Replication, StoredIsPublished, NumberedOnce,
           [Next]_vars
    PROVE  NumberedOnce'
<1>1. NothingNew => NumberedOnce'
  <2>1. NothingNew => \A m : Waiting(m)' => Waiting(m)
    BY DEF Waiting, NothingNew
  <2> QED
    BY <2>1 DEF NothingNew, NumberedOnce
<1>2. CASE PublisherStep
  BY <1>2, PublishNumberedOnce DEF Replication
<1>3. CASE PumpStep
  <2>1. CASE \E p \in Pumps, b \in Publishers : OnPublishReceive(p, b)
    BY <1>3, <2>1, NumberNumberedOnce DEF PumpStep, Replication
  <2>2. CASE ~\E p \in Pumps, b \in Publishers : OnPublishReceive(p, b)
    BY <1>1, <1>3, <2>2, PumpNothingNew
  <2> QED
    BY <2>1, <2>2
<1>4. CASE EngineStep \/ NuzzleStep \/ ConsumerStep \/ TransportStep
  BY <1>1, <1>4, EngineNothingNew, NuzzleNothingNew, ConsumerNothingNew, TransportNothingNew
<1>5. CASE UNCHANGED vars
  <2>1. NothingNew
    BY <1>5 DEF vars, transportVars, publisherVars, pumpVars, engineVars,
                NothingNew, InUse, Prepared
  <2> QED
    BY <1>1, <2>1
<1> QED
  BY <1>2, <1>3, <1>4, <1>5 DEF Next

(* A publisher publishes what it has not published before. *)
LEMMA PublishMaps ==
    ASSUME Typed, WaitsOnce, PublisherStep
    PROVE  \E m \in Topics \X Publications : Abstract!Publish(m)
<1>1. PICK b \in Publishers : Publish(b)
  BY DEF PublisherStep
<1>2. PICK m : m = <<topic_id[b], <<b, request_id[b] + 1>>>>
  OBVIOUS
<1>3. /\ published' = published \cup {m}
      /\ UNCHANGED <<message_buffer, log_buffer>>
  BY <1>1, <1>2 DEF Publish, PublisherStep, PublisherFrame, engineVars, consumerVars
<1>4. request_id[b] \in Nat /\ m \in Topics \X Publications
  <2>1. /\ request_id[b] \in 0..MaxPublish /\ request_id[b] < MaxPublish
        /\ topic_id[b] \in Topics
    BY <1>1 DEF Publish, Typed, TypeOK, PublisherTypeOK
  <2> QED
    BY <1>2, <2>1, NumbersAssumption DEF Publications
<1>5. m \notin published
  <2>1. m \in published => request_id[b] + 1 <= request_id[b]
    BY <1>2, <1>4 DEF WaitsOnce
  <2> QED
    BY <1>4, <2>1
<1>6. MajorityStored' = MajorityStored /\ LoggedItems' = LoggedItems
  BY <1>3 DEF MajorityStored, StoredBy, LoggedItems
<1> QED
  BY <1>3, <1>4, <1>5, <1>6 DEF Abstract!Publish

(* The engines that have stored an item. *)
StoresOf(m) == { e \in Engines : m \in StoredBy(e) }

(* The more engines have stored an item, the more it is stored. *)
LEMMA MoreStores ==
    ASSUME IsFiniteSet(Engines), NEW S \in SUBSET Engines, NEW T \in SUBSET S,
           2 * Cardinality(T) > GroupSize
    PROVE  2 * Cardinality(S) > GroupSize
<1>1. IsFiniteSet(S) /\ IsFiniteSet(T)
  BY FS_Subset
<1>2. Cardinality(T) <= Cardinality(S) /\ Cardinality(S) \in Nat /\ Cardinality(T) \in Nat
  BY <1>1, FS_Subset, FS_CardinalityType
<1> QED
  BY <1>2, NumbersAssumption

(* An engine that stores a publication commits no other. *)
LEMMA StoreMaps ==
    ASSUME Typed, Integrity, IsFiniteSet(Engines), StoredIsPublished',
           \A e \in Engines : message_buffer[e] \subseteq message_buffer'[e],
           NEW d \in Engines, NEW p \in Pumps, OnPrepareReceive(d, p), EngineFrame
    PROVE  \/ \E m \in Topics \X Publications : Abstract!Commit(m)
           \/ UNCHANGED <<published, MajorityStored, LoggedItems>>
<1>1. PICK r : r = Head(net[<<p, d>>])
  OBVIOUS
<1>2. PICK m : m = ItemOf(r)
  OBVIOUS
<1>3. /\ message_buffer' = [message_buffer EXCEPT ![d] = Store(message_buffer[d], r)]
      /\ UNCHANGED <<published, log_buffer>>
  BY <1>1 DEF OnPrepareReceive, EngineFrame, publisherVars, consumerVars
<1>4. StoredOf(r) \in message_buffer'[d] /\ ItemOf(StoredOf(r)) = m
  <2>1. StoredOf(r) \in message_buffer'[d]
    BY <1>3, CopyForm DEF Store
  <2> QED
    BY <1>2, <2>1 DEF StoredOf, ItemOf
<1>5. m \in published'
  BY <1>4 DEF StoredIsPublished
<1>6. m \in Topics \X Publications
  <2>1. published \subseteq Topics \X Publications
    BY DEF Typed, TypeOK, PublisherTypeOK
  <2> QED
    BY <1>3, <1>5, <2>1
<1>7. \A e \in Engines : \A s \in message_buffer'[e] : s \in message_buffer[e] \/ ItemOf(s) = m
  <2>1. \A e \in Engines : \A s \in message_buffer'[e] :
          s \in message_buffer[e] \/ s = StoredOf(r)
    BY <1>3, CopyForm DEF Store
  <2> QED
    BY <1>4, <2>1
<1>8. \A x : StoresOf(x) \subseteq StoresOf(x)' /\ (x # m => StoresOf(x)' = StoresOf(x))
  <2>1. \A e \in Engines : \A x :
          /\ x \in StoredBy(e) => x \in StoredBy(e)'
          /\ x \in StoredBy(e)' => x \in StoredBy(e) \/ x = m
    <3> SUFFICES ASSUME NEW e \in Engines, NEW x
                 PROVE  /\ x \in StoredBy(e) => x \in StoredBy(e)'
                        /\ x \in StoredBy(e)' => x \in StoredBy(e) \/ x = m
      OBVIOUS
    <3> QED
      BY <1>7 DEF StoredBy
  <2> QED
    BY <2>1 DEF StoresOf
<1>9. MajorityStored \subseteq MajorityStored' /\ MajorityStored' \subseteq MajorityStored \cup {m}
  <2>1. ASSUME NEW x \in MajorityStored PROVE x \in MajorityStored'
    <3>1. x \in Topics \X Publications /\ 2 * Cardinality(StoresOf(x)) > GroupSize
      BY DEF MajorityStored, StoresOf
    <3>2. StoresOf(x)' \in SUBSET Engines
      BY DEF StoresOf
    <3>3. 2 * Cardinality(StoresOf(x)') > GroupSize
      BY <1>8, <3>1, <3>2, MoreStores
    <3> QED
      BY <3>1, <3>3 DEF MajorityStored, StoresOf
  <2>2. ASSUME NEW x \in MajorityStored', x # m PROVE x \in MajorityStored
    <3>1. x \in Topics \X Publications /\ 2 * Cardinality(StoresOf(x)') > GroupSize
      BY DEF MajorityStored, StoresOf
    <3> QED
      BY <1>8, <2>2, <3>1 DEF MajorityStored, StoresOf
  <2> QED
    BY <2>1, <2>2
<1>10. LoggedItems' = LoggedItems
  BY <1>3 DEF LoggedItems
<1>11. CASE MajorityStored' = MajorityStored
  BY <1>3, <1>10, <1>11
<1>12. CASE MajorityStored' # MajorityStored
  <2>1. m \notin MajorityStored /\ MajorityStored' = MajorityStored \cup {m}
    BY <1>9, <1>12
  <2>2. Abstract!Commit(m)
    BY <1>3, <1>5, <1>10, <2>1 DEF Abstract!Commit
  <2> QED
    BY <1>6, <2>2
<1> QED
  BY <1>11, <1>12

(* The items of a log that has been added to. *)
LEMMA AppendedItems ==
    ASSUME NEW s \in Seq(RequestPublish), NEW r \in RequestPublish
    PROVE  [i \in DOMAIN Append(s, r) |-> ItemOf(Append(s, r)[i])]
             = Append([i \in DOMAIN s |-> ItemOf(s[i])], ItemOf(r))
<1> DEFINE items == [i \in DOMAIN s |-> ItemOf(s[i])]
<1>1. DOMAIN s = 1..Len(s) /\ Len(s) \in Nat
  OBVIOUS
<1>2. items \in Seq(Topics \X Publications) /\ Len(items) = Len(s)
  <2>1. \A i \in DOMAIN s : ItemOf(s[i]) \in Topics \X Publications
    <3>1. \A x \in RequestPublish : ItemOf(x) \in Topics \X Publications
      BY DEF ItemOf, RequestPublish
    <3>2. \A i \in DOMAIN s : s[i] \in RequestPublish
      OBVIOUS
    <3> QED
      BY <3>1, <3>2
  <2>2. items \in [1..Len(s) -> Topics \X Publications]
    BY <1>1, <2>1
  <2> QED
    BY <1>1, <2>2
<1>3. DOMAIN Append(s, r) = 1..(Len(s) + 1) /\ DOMAIN Append(items, ItemOf(r)) = 1..(Len(s) + 1)
  BY <1>1, <1>2
<1>4. ASSUME NEW i \in 1..(Len(s) + 1)
      PROVE  Append(items, ItemOf(r))[i] = ItemOf(Append(s, r)[i])
  <2>1. CASE i = Len(s) + 1
    BY <1>1, <1>2, <2>1
  <2>2. CASE i # Len(s) + 1
    <3>1. i \in DOMAIN s /\ Append(s, r)[i] = s[i]
      BY <1>1, <2>2
    <3>2. Append(items, ItemOf(r))[i] = items[i]
      BY <1>1, <1>2, <2>2
    <3> QED
      BY <3>1, <3>2
  <2> QED
    BY <2>1, <2>2
<1>5. Append(items, ItemOf(r)) = [i \in 1..(Len(s) + 1) |-> Append(items, ItemOf(r))[i]]
  BY <1>2, <1>3
<1> QED
  BY <1>3, <1>4, <1>5

(* What is delivered is an entry, and its item is stored by a majority. *)
LEMMA DeliveredItems ==
    ASSUME Typed, DeliveredIsStored, IsFiniteSet(Engines), NEW r \in RequestPublish,
           IsDelivered(r)
    PROVE  StoredOf(r) \in Stored /\ InUse(StoredOf(r)) /\ ItemOf(r) \in MajorityStored
<1>1. 2 * Cardinality(Holders(r)) > GroupSize
  BY DeliveredElements DEF DeliveredIsStored
<1>2. Holders(r) # {}
  BY <1>1, FS_EmptySet, NumbersAssumption
<1>3. StoredOf(r) \in Stored /\ InUse(StoredOf(r))
  BY <1>2 DEF Holders, InUse, StoredOf, Stored, RequestPublish
<1>4. Holders(r) \subseteq StoresOf(ItemOf(r)) /\ StoresOf(ItemOf(r)) \subseteq Engines
  BY DEF Holders, StoresOf, StoredBy, StoredOf, ItemOf
<1>5. 2 * Cardinality(StoresOf(ItemOf(r))) > GroupSize
  BY <1>1, <1>4, MoreStores
<1> QED
  BY <1>3, <1>5 DEF MajorityStored, StoresOf, ItemOf, RequestPublish

(* A consumer logs what a majority has stored and it has not logged. *)
LEMMA LogMaps ==
    ASSUME Typed, DeliveredIsStored, IsFiniteSet(Engines), NumberedOnce, DeliveredInOnePlace,
           NEW c \in Consumers, NEW n \in Nuzzles, OnPublishLogged(c, n), ConsumerFrame
    PROVE  \E m \in Topics \X Publications : Abstract!Log(c, m)
<1> DEFINE link == <<n, c>>
<1>1. PICK r : r = Head(net[link])
  OBVIOUS
<1>2. PICK m : m = ItemOf(r)
  OBVIOUS
<1>3. /\ log_buffer' = [log_buffer EXCEPT ![c] = Append(log_buffer[c], r)]
      /\ UNCHANGED <<published, message_buffer>> /\ net[link] # << >>
  BY <1>1 DEF OnPublishLogged, Arrived, ConsumerFrame, publisherVars, engineVars
<1>4. r \in RequestPublish /\ log_buffer[c] \in Seq(RequestPublish)
  BY <1>1, DeliveryArrived, PlaceForm DEF OnPublishLogged
<1>5. IsDelivered(r)
  <2>1. link \in DeliveryLinks /\ net[link] \in Seq(Messages)
    BY PlaceForm
  <2>2. 1 \in DOMAIN net[link] /\ r = net[link][1]
    BY <1>1, <1>3, <2>1
  <2> QED
    BY <2>1, <2>2 DEF IsDelivered
<1>6. m \in MajorityStored /\ StoredOf(r) \in Stored /\ InUse(StoredOf(r))
  BY <1>2, <1>4, <1>5, DeliveredItems
<1>7. ASSUME NEW i \in DOMAIN log_buffer[c], ItemOf(log_buffer[c][i]) = m PROVE FALSE
  <2>1. PICK s : s = log_buffer[c][i]
    OBVIOUS
  <2>2. s \in RequestPublish /\ IsDelivered(s)
    BY <1>4, <2>1 DEF IsDelivered
  <2>3. StoredOf(s) \in Stored /\ InUse(StoredOf(s))
    BY <2>2, DeliveredItems
  <2>4. StoredOf(s).message = StoredOf(r).message
    BY <1>2, <1>7, <2>1 DEF StoredOf, ItemOf
  <2>5. StoredOf(s) = StoredOf(r)
    BY <1>6, <2>3, <2>4 DEF NumberedOnce
  <2>6. KeyOf(s) = KeyOf(r)
    BY <2>5 DEF StoredOf, KeyOf
  <2>7. HasKey(log_buffer[c], KeyOf(r))
    BY <2>1, <2>6 DEF HasKey
  <2> QED
    BY <1>1, <2>7, LogPlaces
<1>8. m \notin Abstract!Range(LoggedItems[c])
  BY <1>7 DEF LoggedItems, Abstract!Range
<1>9. LoggedItems' = [LoggedItems EXCEPT ![c] = Append(LoggedItems[c], m)]
  <2>1. /\ log_buffer'[c] = Append(log_buffer[c], r)
        /\ \A d \in Consumers : d # c => log_buffer'[d] = log_buffer[d]
    BY <1>3, PlaceForm
  <2>2. LoggedItems'[c] = Append(LoggedItems[c], m)
    BY <1>2, <1>4, <2>1, AppendedItems DEF LoggedItems
  <2>3. \A d \in Consumers : d # c => LoggedItems'[d] = LoggedItems[d]
    BY <2>1 DEF LoggedItems
  <2>4. /\ LoggedItems = [d \in Consumers |-> LoggedItems[d]]
        /\ LoggedItems' = [d \in Consumers |-> LoggedItems'[d]]
    BY DEF LoggedItems
  <2> QED
    BY <2>2, <2>3, <2>4
<1>10. MajorityStored' = MajorityStored
  BY <1>3 DEF MajorityStored, StoredBy
<1>11. Abstract!Log(c, m)
  BY <1>3, <1>6, <1>8, <1>9, <1>10 DEF Abstract!Log
<1> QED
  BY <1>6, <1>11 DEF MajorityStored

(* Nothing else is seen from without. *)
LEMMA OtherStepsMap ==
    ASSUME \/ PumpStep \/ NuzzleStep \/ TransportStep \/ UNCHANGED vars
           \/ EngineStep /\ ~(\E e \in Engines, p \in Pumps : OnPrepareReceive(e, p))
           \/ ConsumerStep /\ ~(\E c \in Consumers, n \in Nuzzles : OnPublishLogged(c, n))
    PROVE  UNCHANGED <<published, MajorityStored, LoggedItems>>
<1>1. UNCHANGED <<published, message_buffer, log_buffer>>
  <2>1. CASE PumpStep \/ NuzzleStep \/ TransportStep
    BY <2>1 DEF PumpStep, PumpFrame, NuzzleStep, NuzzleFrame, TransportStep, ProcessFrame,
                publisherVars, engineVars, consumerVars
  <2>2. CASE EngineStep /\ ~(\E e \in Engines, p \in Pumps : OnPrepareReceive(e, p))
    BY <2>2 DEF EngineStep, EngineFrame, FanOutPublish, EngineSubscribe, EngineUnsubscribe,
                EngineUnsubscribeUnknown, EngineRaceCrash, engineVars, publisherVars,
                consumerVars
  <2>3. CASE ConsumerStep
               /\ ~(\E c \in Consumers, n \in Nuzzles : OnPublishLogged(c, n))
    BY <2>3 DEF ConsumerStep, ConsumerFrame, ConsumerUpdateSubscription, engineVars,
                publisherVars
  <2>4. CASE UNCHANGED vars
    BY <2>4 DEF vars, engineVars, publisherVars, consumerVars
  <2> QED
    BY <2>1, <2>2, <2>3, <2>4
<1> QED
  BY <1>1 DEF MajorityStored, StoredBy, LoggedItems

(* Every step of a deployment is one of PubSub's, or none of them. *)
LEMMA NextMaps ==
    ASSUME Delivering, DeliveredIsStored, StoredIsPublished', NumberedOnce,
           IsFiniteSet(Engines), [Next]_vars
    PROVE  [Abstract!Next]_(Abstract!pubsubVars)
<1>1. Typed /\ Integrity /\ Replication /\ DeliveredInOnePlace /\ WaitsOnce
  BY DEF Delivering, Delivery, Replication
<1>2. UNCHANGED <<published, MajorityStored, LoggedItems>> => UNCHANGED Abstract!pubsubVars
  BY DEF Abstract!pubsubVars
<1>3. CASE PublisherStep
  BY <1>1, <1>3, PublishMaps DEF Abstract!Next
<1>4. CASE EngineStep
  <2>1. ASSUME NEW e \in Engines, NEW p \in Pumps, OnPrepareReceive(e, p)
        PROVE  [Abstract!Next]_(Abstract!pubsubVars)
    <3>1. \A d \in Engines : message_buffer[d] \subseteq message_buffer'[d]
      BY <1>1, StepReplacesNothing
    <3> QED
      BY <1>1, <1>2, <1>4, <2>1, <3>1, StoreMaps DEF Abstract!Next, EngineStep
  <2> QED
    BY <1>2, <1>4, <2>1, OtherStepsMap
<1>5. CASE ConsumerStep
  <2>1. ASSUME NEW c \in Consumers, NEW n \in Nuzzles, OnPublishLogged(c, n)
        PROVE  [Abstract!Next]_(Abstract!pubsubVars)
    BY <1>1, <1>5, <2>1, LogMaps DEF Abstract!Next, ConsumerStep
  <2> QED
    BY <1>2, <1>5, <2>1, OtherStepsMap
<1>6. CASE PumpStep \/ NuzzleStep \/ TransportStep \/ UNCHANGED vars
  BY <1>2, <1>6, OtherStepsMap
<1> QED
  BY <1>3, <1>4, <1>5, <1>6 DEF Next

(* Nothing is published, committed or logged at first. *)
LEMMA InitMaps ==
    ASSUME IsFiniteSet(Engines)
    PROVE  Init => Abstract!Init /\ StoredIsPublished /\ NumberedOnce
<1> SUFFICES ASSUME Init PROVE Abstract!Init /\ StoredIsPublished /\ NumberedOnce
  OBVIOUS
<1>1. /\ published = {} /\ \A e \in Engines : message_buffer[e] = {}
      /\ \A c \in Consumers : log_buffer[c] = << >>
  BY DEF Init, PublisherInit, EngineInit, ConsumerInit
<1>2. \A l \in PrepareLinks : net[l] = << >>
  BY DEF Init, TransportInit, PrepareLinks, Links, Connections
<1>3. \A s : ~InUse(s)
  BY <1>1, <1>2 DEF InUse, Prepared
<1>4. MajorityStored = {}
  <2>1. \A m : StoresOf(m) = {}
    BY <1>1 DEF StoresOf, StoredBy
  <2>2. \A m : Cardinality(StoresOf(m)) = 0
    BY <2>1, FS_EmptySet
  <2> QED
    BY <2>2, NumbersAssumption DEF MajorityStored, StoresOf
<1>5. LoggedItems = [c \in Consumers |-> << >>]
  <2>1. \A c \in Consumers : [i \in DOMAIN log_buffer[c] |-> ItemOf(log_buffer[c][i])] = << >>
    <3> SUFFICES ASSUME NEW s, s = << >> PROVE [i \in DOMAIN s |-> ItemOf(s[i])] = << >>
      BY <1>1
    <3>1. DOMAIN s = {}
      OBVIOUS
    <3> QED
      BY <3>1
  <2> QED
    BY <2>1 DEF LoggedItems
<1> QED
  BY <1>1, <1>3, <1>4, <1>5 DEF Abstract!Init, StoredIsPublished, NumberedOnce

(* A deployment implements PubSub under the same conditions: publications  *)
(* are made, committed to a majority of the engines and then logged, once  *)
(* by each consumer, and nothing that is lost, raced for or ends takes any *)
(* of it back (Publisher::publish, Engine's on_prepare_receive, Consumer's *)
(* on_publish_receive).                                                    *)
THEOREM DeploymentIsAPubSub ==
    ASSUME OneCounter, IdsSuffice, SubscribesOnce, OneGroup
    PROVE  Spec => ImplementsPubSub
<1>0. IsFiniteSet(Engines)
  BY DEF OneGroup
<1>1. Init => Abstract!Init /\ StoredIsPublished /\ NumberedOnce
  BY <1>0, InitMaps
<1>2. Delivering /\ StoredIsPublished /\ [Next]_vars => StoredIsPublished'
  BY NextStoredPublished DEF Delivering
<1>3. Delivering /\ StoredIsPublished /\ NumberedOnce /\ [Next]_vars => NumberedOnce'
  BY NextNumberedOnce DEF Delivering
<1>4. Delivering /\ DeliveredIsStored /\ StoredIsPublished' /\ NumberedOnce /\ [Next]_vars
        => [Abstract!Next]_(Abstract!pubsubVars)
  BY <1>0, NextMaps
<1>5. Spec => []DeliveredIsStored
  BY <1>0, DeliveredIsAlwaysStored
<1>6. Spec => []Delivering
  BY AlwaysDelivering
<1> QED
  BY <1>1, <1>2, <1>3, <1>4, <1>5, <1>6, PTL DEF Spec, ImplementsPubSub, Abstract!Spec
=============================================================================
