------------------------- MODULE FirehoseReplication -------------------------
(***************************************************************************)
(* The replicas of a deployment whose publications are all numbered by one *)
(* counter that does not come round: different publications never share an *)
(* id, so engines never disagree and nothing stored is replaced, and what  *)
(* is delivered is stored by a majority of the group.                      *)
(***************************************************************************)
EXTENDS FirehoseRegistration, FiniteSetTheorems

(* The two conditions, on the constants. *)
OneCounter == \E p : Pumps = {p}
IdsSuffice == IsFiniteSet(Publishers) /\ Cardinality(Publications) <= IdSpace

PublishLinks == Publishers \X Pumps
PrepareLinks == Pumps \X Engines

(* Publications waiting to be numbered. *)
Waiting(m) == \E l \in PublishLinks : \E i \in DOMAIN net[l] : net[l][i].message = m

(* Publications that have been sent and are not waiting any more: they     *)
(* have been numbered or lost.                                             *)
Spent == { m \in Publications : (\E t \in Topics : <<t, m>> \in published) /\ ~Waiting(m) }

(* Entries that engines hold or that are on their way to one. *)
Prepared(s) == \E l \in PrepareLinks : \E i \in DOMAIN net[l] : StoredOf(net[l][i]) = s
InUse(s) == Prepared(s) \/ \E e \in Engines : s \in message_buffer[e]

(* How far id i lies behind the next id s of the counter. *)
Behind(i, s) == IF i < s THEN s - i ELSE s - i + IdSpace

(* No publication waits twice, and none is one its publisher has yet to    *)
(* make.                                                                   *)
WaitsOnce ==
    /\ \A l \in PublishLinks : \A i, j \in DOMAIN net[l] :
         net[l][i].message = net[l][j].message => i = j
    /\ \A l \in PublishLinks : \A i \in DOMAIN net[l] : net[l][i].message[1] = l[1]
    /\ \A t \in Topics, m \in Publications : <<t, m>> \in published => m[2] <= request_id[m[1]]

(* The ids in use lie no further behind the counter than publications have *)
(* been spent, and each of them belongs to one publication.                *)
IdsAreUsedOnce ==
    /\ \A s \in Stored, p \in Pumps : InUse(s) =>
         Behind(s.global_id, global_request_id_seed[p]) <= Cardinality(Spent)
    /\ \A s, t \in Stored : InUse(s) /\ InUse(t) /\ s.global_id = t.global_id => s = t

Replication == WaitsOnce /\ IdsAreUsedOnce

----------------------------------------------------------------------------
(* Links and sets of publications. *)

(* The two kinds of links that carry publications to pumps and engines. *)
LEMMA ForwardLinks ==
    ASSUME Typed
    PROVE  /\ PublishLinks \subseteq Links /\ PrepareLinks \subseteq Links
           /\ \A l \in PublishLinks : l[1] \in Publishers /\ l[2] \in Pumps
           /\ \A l \in PrepareLinks : l[1] \in Pumps /\ l[2] \in Engines
           /\ \A l \in PublishLinks \cup PrepareLinks : net[l] \in Seq(Messages)
           /\ \A l \in PublishLinks : \A i \in DOMAIN net[l] : net[l][i] \in RequestPublish
           /\ \A l \in PrepareLinks : \A i \in DOMAIN net[l] : net[l][i] \in RequestPrepare
<1>1. PublishLinks \subseteq Links /\ PrepareLinks \subseteq Links
  BY DEF PublishLinks, PrepareLinks, Links, Connections
<1>2. /\ \A l \in PublishLinks : l[1] \in Publishers /\ l[2] \in Pumps
      /\ \A l \in PrepareLinks : l[1] \in Pumps /\ l[2] \in Engines
  BY DEF PublishLinks, PrepareLinks
<1>3. net \in [Links -> Seq(Messages)]
  BY DEF Typed, TypeOK, TransportTypeOK
<1>4. \A l \in PublishLinks : \A i \in DOMAIN net[l] : net[l][i] \in RequestPublish
  BY <1>1, <1>2, ProcessesDisjoint DEF Typed, SupportedOnly, Supports
<1>5. \A l \in PrepareLinks : \A i \in DOMAIN net[l] : net[l][i] \in RequestPrepare
  BY <1>1, <1>2, ProcessesDisjoint DEF Typed, SupportedOnly, Supports
<1> QED
  BY <1>1, <1>2, <1>3, <1>4, <1>5

(* Publications are finitely many, and so are the spent ones. *)
LEMMA SpentFinite ==
    ASSUME IdsSuffice, NEW S \in SUBSET Publications
    PROVE  /\ IsFiniteSet(Publications) /\ IsFiniteSet(S)
           /\ Cardinality(S) \in Nat /\ Cardinality(S) <= Cardinality(Publications)
           /\ \A T \in SUBSET S : Cardinality(T) \in Nat /\ Cardinality(T) <= Cardinality(S)
<1>1. IsFiniteSet(1..MaxPublish)
  BY FS_Interval, NumbersAssumption
<1>2. IsFiniteSet(Publications)
  BY <1>1, FS_Product DEF IdsSuffice, Publications
<1>3. IsFiniteSet(S) /\ Cardinality(S) <= Cardinality(Publications)
  BY <1>2, FS_Subset
<1>4. \A T \in SUBSET S : IsFiniteSet(T) /\ Cardinality(T) <= Cardinality(S)
  BY <1>3, FS_Subset
<1> QED
  BY <1>2, <1>3, <1>4, FS_CardinalityType

(* A step that numbers nothing and prepares nothing new. *)
NothingNew ==
    /\ \A l \in PublishLinks : net'[l] = net[l] \/ net'[l] = << >>
    /\ \A s \in Stored : InUse(s)' => InUse(s)
    /\ UNCHANGED <<published, request_id, global_request_id_seed>>

(* Such a step keeps ids apart. *)
LEMMA NothingNewReplication ==
    ASSUME Typed, IdsSuffice, Replication, NothingNew
    PROVE  Replication'
<1>1. WaitsOnce'
  BY DEF Replication, WaitsOnce, NothingNew
<1>2. Spent \subseteq Spent'
  <2>1. \A m : Waiting(m)' => Waiting(m)
    BY DEF Waiting, NothingNew
  <2> QED
    BY <2>1 DEF Spent, NothingNew
<1>3. Cardinality(Spent) \in Nat /\ Cardinality(Spent') \in Nat
        /\ Cardinality(Spent) <= Cardinality(Spent')
  <2>1. Spent' \subseteq Publications
    BY DEF Spent
  <2> QED
    BY <1>2, <2>1, SpentFinite
<1>4. IdsAreUsedOnce'
  <2>1. ASSUME NEW s \in Stored, NEW p \in Pumps, InUse(s)'
        PROVE  Behind(s.global_id, global_request_id_seed'[p]) <= Cardinality(Spent')
    <3>1. Behind(s.global_id, global_request_id_seed[p]) <= Cardinality(Spent)
      BY <2>1 DEF NothingNew, Replication, IdsAreUsedOnce
    <3>2. Behind(s.global_id, global_request_id_seed[p]) \in Int
      BY NumbersAssumption DEF Behind, Stored, GlobalIds, Typed, TypeOK, PumpTypeOK
    <3> QED
      BY <1>3, <3>1, <3>2 DEF NothingNew
  <2>2. ASSUME NEW s \in Stored, NEW t \in Stored, InUse(s)', InUse(t)',
               s.global_id = t.global_id
        PROVE  s = t
    BY <2>2 DEF NothingNew, Replication, IdsAreUsedOnce
  <2> QED
    BY <2>1, <2>2 DEF IdsAreUsedOnce
<1> QED
  BY <1>1, <1>4 DEF Replication

----------------------------------------------------------------------------
(* The steps that are not a publication and number none. *)

ForwardLinksKept ==
    \A l \in PublishLinks \cup PrepareLinks : net'[l] = net[l] \/ net'[l] = << >>

(* Losing what is on the links is nothing new. *)
LEMMA LosingIsNothingNew ==
    ASSUME ForwardLinksKept,
           UNCHANGED <<published, request_id, global_request_id_seed, message_buffer>>
    PROVE  NothingNew
<1>1. \A s : InUse(s)' => InUse(s)
  BY DEF ForwardLinksKept, InUse, Prepared
<1> QED
  BY <1>1 DEF ForwardLinksKept, NothingNew

(* So are sending from elsewhere, taking from elsewhere, and exiting. *)
LEMMA SendElsewhere ==
    ASSUME NEW n, NEW a, a \notin Publishers \cup Pumps, NEW B, NEW m,
           NEW l \in PublishLinks \cup PrepareLinks, l \in Links
    PROVE  Posted(n, a, B, m)[l] = n[l]
  BY DEF Posted, PublishLinks, PrepareLinks

(* Taking a message off another link leaves these links alone. *)
LEMMA TakeElsewhere ==
    ASSUME net \in Queues, NEW a, a \notin Publishers \cup Pumps, NEW b,
           NEW l \in PublishLinks \cup PrepareLinks, l \in Links
    PROVE  Taken(<<a, b>>)[l] = net[l]
  BY DEF Taken, Queues, PublishLinks, PrepareLinks

(* The end of a process only empties them. *)
LEMMA ExitElsewhere ==
    ASSUME NEW d, Exit(d), NEW l \in Links
    PROVE  net'[l] = net[l] \/ net'[l] = << >>
  BY DEF Exit

(* A pump's steps but for numbering a publication. *)
LEMMA PumpNothingNew ==
    ASSUME Typed, PumpStep, ~(\E p \in Pumps, b \in Publishers : OnPublishReceive(p, b))
    PROVE  NothingNew
<1>0. UNCHANGED <<published, request_id, message_buffer>>
  BY DEF PumpStep, PumpFrame, publisherVars, engineVars
<1>1. /\ PublishLinks \subseteq Links /\ PrepareLinks \subseteq Links /\ net \in Queues
  BY ForwardLinks, TransportForm DEF Typed, TypeOK, TransportTyped
<1>2. PICK p \in Pumps :
        \/ \E e \in Engines : PumpConnectToEngine(p, e)
        \/ \E b \in Publishers : OnPublishReceiveWild(p, b)
        \/ \E e \in Engines : OnPrepareAckReceive(p, e)
  BY DEF PumpStep
<1>3. ASSUME NEW e \in Engines, PumpConnectToEngine(p, e)
      PROVE  ForwardLinksKept /\ UNCHANGED global_request_id_seed
  BY <1>1, <1>3, ExitElsewhere DEF PumpConnectToEngine, ForwardLinksKept
<1>4. ASSUME NEW b \in Publishers, OnPublishReceiveWild(p, b)
      PROVE  ForwardLinksKept /\ UNCHANGED global_request_id_seed
  BY <1>1, <1>4, ExitElsewhere
  DEF OnPublishReceiveWild, Crash, ForwardLinksKept, pumpVars
<1>5. ASSUME NEW e \in Engines, OnPrepareAckReceive(p, e)
      PROVE  ForwardLinksKept /\ UNCHANGED global_request_id_seed
  <2>1. e \notin Publishers \cup Pumps
    BY ProcessesDisjoint
  <2> QED
    BY <1>1, <1>5, <2>1, TakeElsewhere
    DEF OnPrepareAckReceive, ForwardLinksKept, pumpVars
<1> QED
  BY <1>0, <1>2, <1>3, <1>4, <1>5, LosingIsNothingNew

(* A nuzzle's steps. *)
LEMMA NuzzleNothingNew ==
    ASSUME Typed, NuzzleStep
    PROVE  NothingNew
<1>0. UNCHANGED <<published, request_id, global_request_id_seed, message_buffer>>
  BY DEF NuzzleStep, NuzzleFrame, publisherVars, pumpVars, engineVars
<1>1. /\ PublishLinks \subseteq Links /\ PrepareLinks \subseteq Links /\ net \in Queues
  BY ForwardLinks, TransportForm DEF Typed, TypeOK, TransportTyped
<1>2. PICK n \in Nuzzles :
        \/ \E e \in Engines : NuzzleConnectToEngine(n, e)
        \/ \E e \in Engines : OnPublishReceived(n, e)
        \/ Deliver(n)
        \/ \E c \in Consumers : NuzzleSubscribe(n, c) \/ NuzzleUnsubscribe(n, c)
        \/ NuzzleSubscribed(n)
        \/ \E c \in Consumers : NuzzleUnsubscribeUnknown(n, c)
        \/ NuzzleRaceCrash(n)
  BY DEF NuzzleStep
<1>3. n \notin Publishers \cup Pumps
  BY ProcessesDisjoint
<1>4. ASSUME NEW e \in Engines, NuzzleConnectToEngine(n, e)
      PROVE  ForwardLinksKept
  BY <1>1, <1>4, ExitElsewhere DEF NuzzleConnectToEngine, ForwardLinksKept
<1>5. ASSUME NEW e \in Engines, OnPublishReceived(n, e)
      PROVE  ForwardLinksKept
  <2>1. e \notin Publishers \cup Pumps
    BY ProcessesDisjoint
  <2> QED
    BY <1>1, <1>5, <2>1, TakeElsewhere DEF OnPublishReceived, ForwardLinksKept
<1>6. ASSUME Deliver(n)
      PROVE  ForwardLinksKept
  <2>1. PICK c : net' = Posted(net, n, {c}, delivery[n].request)
    BY <1>6 DEF Deliver
  <2> QED
    BY <1>1, <1>3, <2>1, SendElsewhere DEF ForwardLinksKept
<1>7. ASSUME NEW c \in Consumers, NuzzleSubscribe(n, c) \/ NuzzleUnsubscribe(n, c)
      PROVE  ForwardLinksKept
  <2> DEFINE request == Head(net[<<c, n>>])
  <2>1. PICK sender_id \in SenderIds :
          net' = Posted(Taken(<<c, n>>), n, nuzzle_engines[n],
                        Forward(request, sender_id))
    BY <1>7 DEF NuzzleSubscribe, NuzzleUnsubscribe
  <2>2. c \notin Publishers \cup Pumps
    BY ProcessesDisjoint
  <2>3. \A l \in PublishLinks \cup PrepareLinks : net'[l] = Taken(<<c, n>>)[l]
    BY <1>1, <1>3, <2>1, SendElsewhere
  <2>4. \A l \in PublishLinks \cup PrepareLinks : Taken(<<c, n>>)[l] = net[l]
    BY <1>1, <2>2, TakeElsewhere
  <2> QED
    BY <2>3, <2>4 DEF ForwardLinksKept
<1>8. ASSUME NuzzleSubscribed(n)
      PROVE  ForwardLinksKept
  BY <1>8 DEF NuzzleSubscribed, transportVars, ForwardLinksKept
<1>9. ASSUME Exit(n)
      PROVE  ForwardLinksKept
  BY <1>1, <1>9, ExitElsewhere DEF ForwardLinksKept
<1>10. ForwardLinksKept
  BY <1>2, <1>4, <1>5, <1>6, <1>7, <1>8, <1>9
  DEF NuzzleUnsubscribeUnknown, NuzzleRaceCrash, Crash
<1> QED
  BY <1>0, <1>10, LosingIsNothingNew

(* A consumer's steps, and the network's. *)
LEMMA ConsumerNothingNew ==
    ASSUME Typed, ConsumerStep
    PROVE  NothingNew
<1>0. UNCHANGED <<published, request_id, global_request_id_seed, message_buffer>>
  BY DEF ConsumerStep, ConsumerFrame, publisherVars, pumpVars, engineVars
<1>1. /\ PublishLinks \subseteq Links /\ PrepareLinks \subseteq Links /\ net \in Queues
  BY ForwardLinks, TransportForm DEF Typed, TypeOK, TransportTyped
<1>2. PICK c \in Consumers :
        \/ ConsumerUpdateSubscription(c)
        \/ \E n \in Nuzzles : OnPublishLogged(c, n)
  BY DEF ConsumerStep
<1>3. c \notin Publishers \cup Pumps
  BY ProcessesDisjoint
<1>4. CASE ConsumerUpdateSubscription(c)
  <2>1. ForwardLinksKept
    BY <1>1, <1>3, <1>4, SendElsewhere DEF ConsumerUpdateSubscription, ForwardLinksKept
  <2> QED
    BY <1>0, <2>1, LosingIsNothingNew
<1>5. ASSUME NEW n \in Nuzzles, OnPublishLogged(c, n)
      PROVE  NothingNew
  <2>1. n \notin Publishers \cup Pumps
    BY ProcessesDisjoint
  <2>2. ForwardLinksKept
    BY <1>1, <1>5, <2>1, TakeElsewhere DEF OnPublishLogged, ForwardLinksKept
  <2> QED
    BY <1>0, <2>2, LosingIsNothingNew
<1> QED
  BY <1>2, <1>4, <1>5

(* Losses, closes and exits carry no publication further. *)
LEMMA TransportNothingNew ==
    ASSUME Typed, TransportStep
    PROVE  NothingNew
<1>0. UNCHANGED <<published, request_id, global_request_id_seed, message_buffer>>
  BY DEF TransportStep, ProcessFrame, publisherVars, pumpVars, engineVars
<1>1. /\ PublishLinks \subseteq Links /\ PrepareLinks \subseteq Links /\ net \in Queues
  BY ForwardLinks, TransportForm DEF Typed, TypeOK, TransportTyped
<1>2. ASSUME NEW d, Exit(d) PROVE ForwardLinksKept
  BY <1>1, <1>2, ExitElsewhere DEF ForwardLinksKept
<1>3. ASSUME NEW l \in Links, LoseInFlight(l) PROVE ForwardLinksKept
  BY <1>1, <1>3 DEF LoseInFlight, Queues, ForwardLinksKept
<1>4. ForwardLinksKept
  BY <1>2, <1>3
  DEF TransportStep, Kill, Crash, PeerClosed, PeerReset, ForwardLinksKept
<1> QED
  BY <1>0, <1>4, LosingIsNothingNew

(* An engine stores what was on its way to it. *)
LEMMA PrepareNothingNew ==
    ASSUME Typed, NEW e \in Engines, NEW p \in Pumps, OnPrepareReceive(e, p),
           UNCHANGED <<published, request_id, global_request_id_seed>>
    PROVE  NothingNew
<1> DEFINE request == Head(net[<<p, e>>])
           link == <<p, e>>
<1>1. /\ PublishLinks \subseteq Links /\ PrepareLinks \subseteq Links /\ net \in Queues
  BY ForwardLinks, TransportForm DEF Typed, TypeOK, TransportTyped
<1>2. /\ link \in PrepareLinks /\ link \notin PublishLinks
      /\ e \notin Publishers \cup Pumps
  BY ProcessesDisjoint DEF PrepareLinks, PublishLinks
<1>3. net[link] \in Seq(Messages) /\ net[link] # << >>
  BY <1>1, <1>2 DEF OnPrepareReceive, Arrived, Queues
<1>4. Taken(link) \in Queues
  BY <1>1, <1>2, <1>3, TakenQueues
<1>5. \A l \in PublishLinks \cup PrepareLinks : net'[l] = Taken(link)[l]
  <2>1. net' = Posted(Taken(link), e, {p}, PrepareAck(request))
    BY DEF OnPrepareReceive
  <2> QED
    BY <1>1, <1>2, <2>1, SendElsewhere
<1>6. \A l \in PublishLinks : net'[l] = net[l]
  BY <1>1, <1>2, <1>5 DEF Taken, Queues
<1>7. \A s : Prepared(s)' => Prepared(s)
  <2> SUFFICES ASSUME NEW s, NEW l \in PrepareLinks, NEW i \in DOMAIN net'[l],
                      StoredOf(net'[l][i]) = s
               PROVE  Prepared(s)
    BY DEF Prepared
  <2>1. CASE l = link
    <3>1. net'[l] = Tail(net[l])
      BY <1>1, <1>2, <1>5, <2>1 DEF Taken, Queues
    <3>2. i + 1 \in DOMAIN net[l] /\ net'[l][i] = net[l][i + 1]
      BY <1>3, <2>1, <3>1
    <3> QED
      BY <3>2 DEF Prepared
  <2>2. CASE l # link
    BY <1>1, <1>2, <1>5, <2>2 DEF Taken, Queues, Prepared
  <2> QED
    BY <2>1, <2>2
<1>8. Prepared(StoredOf(request))
  <2>1. 1 \in DOMAIN net[link] /\ request = net[link][1]
    BY <1>3
  <2> QED
    BY <1>2, <2>1 DEF Prepared
<1>9. \A d \in Engines : message_buffer'[d] \subseteq message_buffer[d] \cup {StoredOf(request)}
  BY DEF OnPrepareReceive, Store, Typed, TypeOK, EngineTypeOK
<1> QED
  BY <1>6, <1>7, <1>8, <1>9 DEF NothingNew, InUse

(* An engine's steps. *)
LEMMA EngineNothingNew ==
    ASSUME Typed, EngineStep
    PROVE  NothingNew
<1>0. UNCHANGED <<published, request_id, global_request_id_seed>>
  BY DEF EngineStep, EngineFrame, publisherVars, pumpVars
<1>1. /\ PublishLinks \subseteq Links /\ PrepareLinks \subseteq Links /\ net \in Queues
  BY ForwardLinks, TransportForm DEF Typed, TypeOK, TransportTyped
<1>2. PICK e \in Engines :
        \/ \E p \in Pumps : OnPrepareReceive(e, p)
        \/ FanOutPublish(e)
        \/ \E n \in Nuzzles : EngineSubscribe(e, n) \/ EngineUnsubscribe(e, n)
        \/ \E n \in Nuzzles : EngineUnsubscribeUnknown(e, n) \/ EngineRaceCrash(e, n)
  BY DEF EngineStep
<1>3. e \notin Publishers \cup Pumps
  BY ProcessesDisjoint
<1>4. CASE FanOutPublish(e)
  <2>1. PICK n : net' = Posted(net, e, {n}, fan_out[e].request)
    BY <1>4 DEF FanOutPublish
  <2>2. ForwardLinksKept /\ UNCHANGED message_buffer
    BY <1>1, <1>3, <1>4, <2>1, SendElsewhere DEF FanOutPublish, ForwardLinksKept
  <2> QED
    BY <1>0, <2>2, LosingIsNothingNew
<1>5. ASSUME NEW n \in Nuzzles, EngineSubscribe(e, n) \/ EngineUnsubscribe(e, n)
      PROVE  NothingNew
  <2>1. n \notin Publishers \cup Pumps
    BY ProcessesDisjoint
  <2>2. net' = Taken(<<n, e>>) /\ UNCHANGED message_buffer
    BY <1>5 DEF EngineSubscribe, EngineUnsubscribe
  <2>3. ForwardLinksKept
    BY <1>1, <2>1, <2>2, TakeElsewhere DEF ForwardLinksKept
  <2> QED
    BY <1>0, <2>2, <2>3, LosingIsNothingNew
<1>6. ASSUME NEW n \in Nuzzles,
             EngineUnsubscribeUnknown(e, n) \/ EngineRaceCrash(e, n)
      PROVE  NothingNew
  <2>1. Exit(e) /\ UNCHANGED message_buffer
    BY <1>6 DEF EngineUnsubscribeUnknown, EngineRaceCrash, Crash, engineVars
  <2>2. ForwardLinksKept
    BY <1>1, <2>1, ExitElsewhere DEF ForwardLinksKept
  <2> QED
    BY <1>0, <2>1, <2>2, LosingIsNothingNew
<1> QED
  BY <1>0, <1>2, <1>4, <1>5, <1>6, PrepareNothingNew

----------------------------------------------------------------------------
(* A publication is made, and one is numbered. *)

(* A new publication has no id yet. *)
LEMMA PublishReplication ==
    ASSUME Typed, Integrity, IdsSuffice, Replication, PublisherStep
    PROVE  Replication'
<1>1. PICK b \in Publishers : Publish(b)
  BY DEF PublisherStep
<1> DEFINE m == <<b, request_id[b] + 1>>
           link == <<b, NextPump(b)>>
<1>2. /\ published' = published \cup {<<topic_id[b], m>>}
      /\ request_id' = [request_id EXCEPT ![b] = @ + 1]
      /\ net' = Posted(net, b, {NextPump(b)}, Publication(b))
      /\ UNCHANGED <<global_request_id_seed, message_buffer>>
  BY <1>1 DEF Publish, PublisherStep, PublisherFrame, pumpVars, engineVars
<1>3. /\ request_id \in [Publishers -> Nat] /\ topic_id[b] \in Topics
      /\ m \in Publications /\ Publication(b).message = m
  BY <1>1, NumbersAssumption
  DEF Publish, Publication, Publications, Typed, TypeOK, PublisherTypeOK
<1>4. /\ PublishLinks \subseteq Links /\ PrepareLinks \subseteq Links
      /\ \A l \in PublishLinks : net[l] \in Seq(Messages) /\ l[1] \in Publishers
      /\ \A l \in PrepareLinks : l[1] # b
      /\ \A l \in PublishLinks : \A i \in DOMAIN net[l] : net[l][i] \in RequestPublish
  BY ForwardLinks, ProcessesDisjoint
<1>5. \A l \in PublishLinks : 
        net'[l] = net[l] \/ (l[1] = b /\ net'[l] = Append(net[l], Publication(b)))
  BY <1>2, <1>4 DEF Posted
<1>6. \A l \in PrepareLinks : net'[l] = net[l]
  BY <1>2, <1>4 DEF Posted
<1>7. \A t \in Topics : <<t, m>> \notin published
  BY <1>3 DEF Replication, WaitsOnce
<1>8. \A l \in PublishLinks : \A i \in DOMAIN net[l] :
        net[l][i].message \in Publications /\ net[l][i].message # m
  <2> SUFFICES ASSUME NEW l \in PublishLinks, NEW i \in DOMAIN net[l]
               PROVE  net[l][i].message \in Publications /\ net[l][i].message # m
    OBVIOUS
  <2>1. net[l][i] \in RequestPublish
    BY <1>4
  <2>2. <<net[l][i].topic_id, net[l][i].message>> \in published
    BY <1>4, <2>1
    DEF Integrity, QueuesFrom, FromPublished, CarriesPublication, RequestPublish
  <2> QED
    BY <1>7, <2>1, <2>2 DEF RequestPublish
<1>9. \A l \in PublishLinks : \A i \in DOMAIN net'[l] :
        \/ i \in DOMAIN net[l] /\ net'[l][i] = net[l][i]
        \/ l[1] = b /\ i = Len(net[l]) + 1 /\ net'[l][i].message = m
  <2> SUFFICES ASSUME NEW l \in PublishLinks, NEW i \in DOMAIN net'[l]
               PROVE  \/ i \in DOMAIN net[l] /\ net'[l][i] = net[l][i]
                      \/ l[1] = b /\ i = Len(net[l]) + 1 /\ net'[l][i].message = m
    OBVIOUS
  <2>1. CASE net'[l] = net[l]
    BY <2>1
  <2>2. CASE l[1] = b /\ net'[l] = Append(net[l], Publication(b))
    <3>1. net[l] \in Seq(Messages)
      BY <1>4
    <3>2. CASE i = Len(net[l]) + 1
      BY <1>3, <2>2, <3>1, <3>2
    <3>3. CASE i # Len(net[l]) + 1
      BY <2>2, <3>1, <3>3
    <3> QED
      BY <3>2, <3>3
  <2> QED
    BY <1>5, <2>1, <2>2
<1>10. WaitsOnce'
  <2>1. \A l \in PublishLinks : \A i, j \in DOMAIN net'[l] :
          net'[l][i].message = net'[l][j].message => i = j
    BY <1>8, <1>9 DEF Replication, WaitsOnce
  <2>2. \A l \in PublishLinks : \A i \in DOMAIN net'[l] : net'[l][i].message[1] = l[1]
    BY <1>9 DEF Replication, WaitsOnce
  <2>3. \A t \in Topics, x \in Publications : <<t, x>> \in published' => x[2] <= request_id'[x[1]]
    <3> SUFFICES ASSUME NEW t \in Topics, NEW x \in Publications, <<t, x>> \in published'
                 PROVE  x[2] <= request_id'[x[1]]
      OBVIOUS
    <3>1. x[1] \in Publishers /\ x[2] \in Nat
      BY NumbersAssumption DEF Publications
    <3>2. request_id'[x[1]] >= request_id[x[1]]
      BY <1>2, <1>3, <3>1
    <3>3. CASE <<t, x>> \in published
      BY <1>2, <1>3, <3>1, <3>2, <3>3 DEF Replication, WaitsOnce
    <3>4. CASE x = m
      BY <1>2, <1>3, <3>4
    <3> QED
      BY <1>2, <3>3, <3>4
  <2> QED
    BY <2>1, <2>2, <2>3 DEF WaitsOnce
<1>11. Cardinality(Spent) \in Nat /\ Cardinality(Spent') \in Nat
         /\ Cardinality(Spent) <= Cardinality(Spent')
  <2>1. Spent \subseteq Spent' /\ Spent' \subseteq Publications
    <3> SUFFICES ASSUME NEW x \in Spent PROVE x \in Spent'
      BY DEF Spent
    <3>1. PICK t \in Topics : <<t, x>> \in published
      BY DEF Spent
    <3>2. x # m /\ ~Waiting(x) /\ x \in Publications
      BY <1>7, <3>1 DEF Spent
    <3>3. ~Waiting(x)'
      BY <1>9, <3>2 DEF Waiting
    <3> QED
      BY <1>2, <3>1, <3>2, <3>3 DEF Spent
  <2> QED
    BY <2>1, SpentFinite
<1>12. \A s : InUse(s)' <=> InUse(s)
  BY <1>2, <1>6 DEF InUse, Prepared
<1>13. IdsAreUsedOnce'
  <2>1. ASSUME NEW s \in Stored, NEW p \in Pumps, InUse(s)'
        PROVE  Behind(s.global_id, global_request_id_seed'[p]) <= Cardinality(Spent')
    <3>1. Behind(s.global_id, global_request_id_seed[p]) <= Cardinality(Spent)
      BY <1>12, <2>1 DEF Replication, IdsAreUsedOnce
    <3>2. Behind(s.global_id, global_request_id_seed[p]) \in Int
      BY NumbersAssumption DEF Behind, Stored, GlobalIds, Typed, TypeOK, PumpTypeOK
    <3> QED
      BY <1>2, <1>11, <3>1, <3>2
  <2> QED
    BY <1>12, <2>1 DEF Replication, IdsAreUsedOnce
<1> QED
  BY <1>10, <1>13 DEF Replication

(* The counter goes to the next id, and from the last to the first. *)
LEMMA Successor ==
    \A k \in GlobalIds : (k + 1) % IdSpace = IF k = IdSpace - 1 THEN 0 ELSE k + 1
  BY NumbersAssumption, SMTT(30) DEF GlobalIds

(* An id that is not the next one falls back by one place, and the one     *)
(* just given is one place behind.                                         *)
LEMMA BehindSuccessor ==
    ASSUME NEW i \in GlobalIds, NEW k \in GlobalIds
    PROVE  /\ Behind(i, k) \in Nat
           /\ Behind(k, k) = IdSpace
           /\ Behind(k, (k + 1) % IdSpace) <= 1
           /\ i # k => Behind(i, (k + 1) % IdSpace) <= Behind(i, k) + 1
  BY Successor, NumbersAssumption DEF Behind, GlobalIds

(* What is left of a queue when its oldest message has been taken. *)
LEMMA TailIndices ==
    ASSUME NEW S, NEW s \in Seq(S), s # << >>
    PROVE  \A i \in DOMAIN Tail(s) :
             i \in Nat \ {0} /\ i + 1 \in DOMAIN s /\ Tail(s)[i] = s[i + 1]
  OBVIOUS

(* The one pump gives a publication the next id, which nothing has. *)
LEMMA NumberReplication ==
    ASSUME Typed, Integrity, OneCounter, IdsSuffice, Replication,
           NEW p \in Pumps, NEW b \in Publishers, OnPublishReceive(p, b), PumpFrame
    PROVE  Replication'
<1> DEFINE link == <<b, p>>
           r == Head(net[link])
           k == global_request_id_seed[p]
           q == Prepare(p, r)
           s0 == StoredOf(q)
<1>1. /\ net' = Posted(Taken(link), p, engine_connections[p], q)
      /\ global_request_id_seed' = [global_request_id_seed EXCEPT ![p] = (k + 1) % IdSpace]
      /\ UNCHANGED <<published, request_id, message_buffer>>
      /\ net[link] # << >>
  BY DEF OnPublishReceive, Arrived, NextSeed, PumpFrame, publisherVars, engineVars
<1>2. /\ link \in PublishLinks /\ p \notin Publishers
      /\ PublishLinks \subseteq Links /\ PrepareLinks \subseteq Links
      /\ net \in Queues
      /\ \A l \in PublishLinks \cup PrepareLinks : net[l] \in Seq(Messages)
      /\ \A l \in PublishLinks : l[1] \in Publishers /\ l = <<l[1], p>>
      /\ \A l \in PrepareLinks : l[1] \notin Publishers /\ l # link
  <2>1. \A l \in PublishLinks : l[1] \in Publishers /\ l[2] = p /\ l = <<l[1], l[2]>>
    BY DEF PublishLinks, OneCounter
  <2> QED
    BY <2>1, ForwardLinks, ProcessesDisjoint, TransportForm
    DEF PublishLinks, Typed, TypeOK, TransportTyped
<1>3. PICK m \in Publications :
        /\ 1 \in DOMAIN net[link] /\ r = net[link][1]
        /\ r \in RequestPublish /\ r.message = m /\ r.topic_id \in Topics
        /\ <<r.topic_id, m>> \in published
  <2>1. 1 \in DOMAIN net[link] /\ r = net[link][1]
    BY <1>1, <1>2
  <2>2. r \in RequestPublish
    BY <1>2, <2>1, ForwardLinks
  <2>3. <<r.topic_id, r.message>> \in published
    BY <1>2, <2>1, <2>2
    DEF Integrity, QueuesFrom, FromPublished, CarriesPublication, RequestPublish
  <2> QED
    BY <2>1, <2>2, <2>3 DEF RequestPublish
<1>4. k \in GlobalIds /\ q \in RequestPrepare /\ s0 \in Stored /\ s0.global_id = k
  <2>1. k \in GlobalIds
    BY DEF Typed, TypeOK, PumpTypeOK
  <2> QED
    BY <1>3, <2>1 DEF Prepare, RequestPrepare, StoredOf, Stored
<1> HIDE DEF r, q, s0
<1>5. /\ net'[link] = Tail(net[link])
      /\ \A l \in PublishLinks : l # link => net'[l] = net[l]
  BY <1>1, <1>2 DEF Posted, Taken, Queues
<1>6. \A l \in PrepareLinks : net'[l] = net[l] \/ net'[l] = Append(net[l], q)
  BY <1>1, <1>2 DEF Posted, Taken, Queues
<1>7. \A i \in DOMAIN net'[link] :
        i \in Nat \ {0} /\ i + 1 \in DOMAIN net[link] /\ net'[link][i] = net[link][i + 1]
  <2>1. net[link] \in Seq(Messages)
    BY <1>2
  <2> QED
    BY <1>1, <1>5, <2>1, TailIndices, ZenonT(60)
<1>8. WaitsOnce'
  <2>1. ASSUME NEW l \in PublishLinks, NEW i \in DOMAIN net'[l], NEW j \in DOMAIN net'[l],
               net'[l][i].message = net'[l][j].message
        PROVE  i = j
    <3>1. CASE l = link
      <4>1. /\ i \in Nat /\ i + 1 \in DOMAIN net[link] /\ net'[link][i] = net[link][i + 1]
            /\ j \in Nat /\ j + 1 \in DOMAIN net[link] /\ net'[link][j] = net[link][j + 1]
        BY <1>7, <2>1, <3>1
      <4>2. i + 1 = j + 1
        BY <1>2, <2>1, <3>1, <4>1 DEF Replication, WaitsOnce
      <4> QED
        BY <4>1, <4>2
    <3>2. CASE l # link
      BY <1>5, <2>1, <3>2 DEF Replication, WaitsOnce
    <3> QED
      BY <3>1, <3>2
  <2>2. ASSUME NEW l \in PublishLinks, NEW i \in DOMAIN net'[l]
        PROVE  net'[l][i].message[1] = l[1]
    <3>1. CASE l = link
      <4>1. /\ i + 1 \in DOMAIN net[link]
            /\ net'[link][i].message = net[link][i + 1].message
        BY <1>7, <2>2, <3>1
      <4>2. net[link][i + 1].message[1] = l[1]
        BY <1>2, <3>1, <4>1 DEF Replication, WaitsOnce
      <4> QED
        BY <3>1, <4>1, <4>2
    <3>2. CASE l # link
      BY <1>5, <2>2, <3>2 DEF Replication, WaitsOnce
    <3> QED
      BY <3>1, <3>2
  <2> QED
    BY <1>1, <2>1, <2>2 DEF Replication, WaitsOnce
<1>9. ~Waiting(m)'
  <2> SUFFICES ASSUME NEW l \in PublishLinks, NEW i \in DOMAIN net'[l],
                      net'[l][i].message = m
               PROVE  FALSE
    BY DEF Waiting
  <2>1. m[1] = b
    BY <1>2, <1>3 DEF Replication, WaitsOnce
  <2>2. l = link
    <3>1. l[1] = m[1]
      BY <1>8 DEF WaitsOnce
    <3> QED
      BY <1>2, <2>1, <3>1
  <2>3. i \in Nat \ {0} /\ i + 1 \in DOMAIN net[link] /\ net[link][i + 1].message = m
    BY <1>7, <2>2
  <2>4. i + 1 = 1
    BY <1>2, <1>3, <2>3 DEF Replication, WaitsOnce
  <2> QED
    BY <2>3, <2>4
<1>10. m \notin Spent /\ Spent \cup {m} \subseteq Spent' /\ Spent' \subseteq Publications
  <2>1. Waiting(m)
    BY <1>2, <1>3 DEF Waiting
  <2>2. ASSUME NEW x, Waiting(x)' PROVE Waiting(x)
    <3>0. PICK l \in PublishLinks : \E i \in DOMAIN net'[l] : net'[l][i].message = x
      BY <2>2 DEF Waiting
    <3>1. PICK i \in DOMAIN net'[l] : net'[l][i].message = x
      BY <3>0
    <3>2. CASE l = link
      <4>1. i + 1 \in DOMAIN net[link] /\ net'[link][i] = net[link][i + 1]
        BY <1>7, <3>2
      <4> QED
        BY <1>2, <3>1, <3>2, <4>1 DEF Waiting
    <3>3. CASE l # link
      BY <1>5, <3>1, <3>3 DEF Waiting
    <3> QED
      BY <3>2, <3>3
  <2>3. m \in Spent'
    BY <1>1, <1>3, <1>9 DEF Spent
  <2> QED
    BY <1>1, <2>1, <2>2, <2>3 DEF Spent
<1>11. /\ Cardinality(Spent) \in Nat /\ Cardinality(Spent') \in Nat
       /\ Cardinality(Spent) + 1 <= Cardinality(Spent')
       /\ Cardinality(Spent') <= IdSpace /\ IdSpace \in Nat
  <2>1. Spent \cup {m} \in SUBSET Spent' /\ Spent' \in SUBSET Publications
        /\ Spent \in SUBSET Spent'
    BY <1>10
  <2>2. IsFiniteSet(Spent) /\ Cardinality(Spent) \in Nat
    BY <2>1, SpentFinite
  <2>3. Cardinality(Spent \cup {m}) = Cardinality(Spent) + 1
    BY <1>10, <2>2, FS_AddElement
  <2>4. /\ Cardinality(Spent') \in Nat /\ Cardinality(Publications) \in Nat
        /\ Cardinality(Spent') <= Cardinality(Publications)
        /\ Cardinality(Spent \cup {m}) <= Cardinality(Spent')
    BY <2>1, SpentFinite
  <2> QED
    BY <2>2, <2>3, <2>4, NumbersAssumption DEF IdsSuffice
<1>12. \A s : InUse(s)' => InUse(s) \/ s = s0
  <2> SUFFICES ASSUME NEW s, NEW l \in PrepareLinks, NEW i \in DOMAIN net'[l],
                      StoredOf(net'[l][i]) = s
               PROVE  Prepared(s) \/ s = s0
    BY <1>1 DEF InUse, Prepared
  <2>1. net[l] \in Seq(Messages) /\ q \in Messages
    BY <1>2, <1>4 DEF Messages
  <2>2. CASE net'[l] = net[l]
    BY <2>2 DEF Prepared
  <2>3. CASE net'[l] = Append(net[l], q) /\ i # Len(net[l]) + 1
    <3>1. i \in DOMAIN net[l] /\ net'[l][i] = net[l][i]
      BY <2>1, <2>3
    <3> QED
      BY <3>1 DEF Prepared
  <2>4. CASE net'[l] = Append(net[l], q) /\ i = Len(net[l]) + 1
    BY <2>1, <2>4 DEF s0
  <2> QED
    BY <1>6, <2>2, <2>3, <2>4
<1>13. \A s \in Stored : InUse(s) =>
         /\ s.global_id \in GlobalIds /\ s.global_id # k
         /\ Behind(s.global_id, k) <= Cardinality(Spent)
  <2> SUFFICES ASSUME NEW s \in Stored, InUse(s)
               PROVE  /\ s.global_id \in GlobalIds /\ s.global_id # k
                      /\ Behind(s.global_id, k) <= Cardinality(Spent)
    OBVIOUS
  <2>1. Behind(s.global_id, k) <= Cardinality(Spent)
    BY DEF Replication, IdsAreUsedOnce
  <2>2. Behind(k, k) = IdSpace
    BY <1>4, BehindSuccessor
  <2> QED
    BY <1>11, <2>1, <2>2 DEF Stored
<1>14. IdsAreUsedOnce'
  <2>1. ASSUME NEW s \in Stored, NEW o \in Pumps, InUse(s)'
        PROVE  Behind(s.global_id, global_request_id_seed'[o]) <= Cardinality(Spent')
    <3>1. global_request_id_seed'[o] = (k + 1) % IdSpace
      BY <1>1 DEF OneCounter, Typed, TypeOK, PumpTypeOK
    <3>2. CASE s = s0
      <4>1. Behind(k, (k + 1) % IdSpace) <= 1
        BY <1>4, BehindSuccessor
      <4>2. Behind(k, (k + 1) % IdSpace) \in Int
        BY <1>4, Successor, NumbersAssumption DEF Behind, GlobalIds
      <4> QED
        BY <1>4, <1>11, <3>1, <3>2, <4>1, <4>2
    <3>3. CASE s # s0
      <4>1. /\ s.global_id \in GlobalIds /\ s.global_id # k
            /\ Behind(s.global_id, k) <= Cardinality(Spent)
        BY <1>12, <1>13, <2>1, <3>3
      <4>2. /\ Behind(s.global_id, k) \in Nat
            /\ Behind(s.global_id, (k + 1) % IdSpace) <= Behind(s.global_id, k) + 1
        BY <1>4, <4>1, BehindSuccessor
      <4>3. Behind(s.global_id, (k + 1) % IdSpace) \in Int
        BY <1>4, <4>1, Successor, NumbersAssumption DEF Behind, GlobalIds
      <4> QED
        BY <1>11, <3>1, <4>1, <4>2, <4>3
    <3> QED
      BY <3>2, <3>3
  <2>2. ASSUME NEW s \in Stored, NEW t \in Stored, InUse(s)', InUse(t)',
               s.global_id = t.global_id
        PROVE  s = t
    <3>1. (InUse(s) \/ s = s0) /\ (InUse(t) \/ t = s0)
      BY <1>12, <2>2
    <3> QED
      BY <1>4, <1>13, <2>2, <3>1 DEF Replication, IdsAreUsedOnce
  <2> QED
    BY <2>1, <2>2 DEF IdsAreUsedOnce
<1> QED
  BY <1>8, <1>14 DEF Replication

----------------------------------------------------------------------------
(* The theorems. *)

(* Replication is inductive, given Typed and Integrity. *)
LEMMA NextReplication ==
    ASSUME OneCounter, IdsSuffice
    PROVE  Typed /\ Integrity /\ Replication /\ [Next]_vars => Replication'
<1> SUFFICES ASSUME Typed, Integrity, Replication, [Next]_vars PROVE Replication'
  OBVIOUS
<1>1. CASE PublisherStep
  BY <1>1, PublishReplication
<1>2. CASE PumpStep
  <2>1. CASE \E p \in Pumps, b \in Publishers : OnPublishReceive(p, b)
    BY <1>2, <2>1, NumberReplication DEF PumpStep
  <2>2. CASE ~\E p \in Pumps, b \in Publishers : OnPublishReceive(p, b)
    BY <1>2, <2>2, PumpNothingNew, NothingNewReplication
  <2> QED
    BY <2>1, <2>2
<1>3. CASE EngineStep
  BY <1>3, EngineNothingNew, NothingNewReplication
<1>4. CASE NuzzleStep
  BY <1>4, NuzzleNothingNew, NothingNewReplication
<1>5. CASE ConsumerStep
  BY <1>5, ConsumerNothingNew, NothingNewReplication
<1>6. CASE TransportStep
  BY <1>6, TransportNothingNew, NothingNewReplication
<1>7. CASE UNCHANGED vars
  <2>1. NothingNew
    BY <1>7 DEF vars, transportVars, publisherVars, pumpVars, engineVars,
                NothingNew, InUse, Prepared
  <2> QED
    BY <2>1, NothingNewReplication
<1> QED
  BY <1>1, <1>2, <1>3, <1>4, <1>5, <1>6, <1>7 DEF Next

(* Nothing is waiting and no id is in use at the start. *)
LEMMA InitReplication ==
    ASSUME IdsSuffice
    PROVE  Init => Replication
<1> SUFFICES ASSUME Init PROVE Replication
  OBVIOUS
<1>1. PublishLinks \subseteq Links /\ PrepareLinks \subseteq Links
  BY DEF PublishLinks, PrepareLinks, Links, Connections
<1>2. \A l \in PublishLinks \cup PrepareLinks : net[l] = << >>
  BY <1>1 DEF Init, TransportInit
<1>3. \A s : ~InUse(s)
  BY <1>2 DEF Init, EngineInit, InUse, Prepared
<1>4. WaitsOnce
  BY <1>2 DEF Init, PublisherInit, WaitsOnce
<1> QED
  BY <1>3, <1>4 DEF Replication, IdsAreUsedOnce

(* With one pump and ids enough for every publication, no two engines ever *)
(* hold different publications under one id, whatever fails and wherever   *)
(* the counter starts: the pump's ++ on global_request_id_seed is the only *)
(* thing that keeps the engines' message_buffers apart.                    *)
THEOREM ReplicasAlwaysAgree ==
    ASSUME OneCounter, IdsSuffice
    PROVE  Spec => []ReplicasAgree
<1>1. Init => Replication
  BY InitReplication
<1>2. Typed /\ Integrity /\ Replication /\ [Next]_vars => Replication'
  BY NextReplication
<1>3. Typed /\ Replication => ReplicasAgree
  <2> SUFFICES ASSUME Typed, Replication, NEW e \in Engines, NEW f \in Engines,
                      NEW r \in message_buffer[e], NEW s \in message_buffer[f],
                      SameKey(r, s)
               PROVE  r = s
    BY DEF ReplicasAgree
  <2>1. r \in Stored /\ s \in Stored
    BY DEF Typed, TypeOK, EngineTypeOK
  <2> QED
    BY <2>1 DEF Replication, IdsAreUsedOnce, InUse, SameKey
<1>4. Init => Integrity
  BY DEF Init, TransportInit, EngineInit, NuzzleInit, ConsumerInit, Integrity,
         QueuesFrom, LoopFrom
<1> QED
  BY <1>1, <1>2, <1>3, <1>4, NextIntegrity, TypedAlways, PTL DEF Spec

(* An engine that stores a publication replaces nothing but itself. *)
LEMMA StepReplacesNothing ==
    ASSUME Typed, Replication, [Next]_vars
    PROVE  \A e \in Engines : message_buffer[e] \subseteq message_buffer'[e]
<1>1. CASE UNCHANGED message_buffer
  BY <1>1
<1>2. ASSUME NEW d \in Engines, NEW p \in Pumps, OnPrepareReceive(d, p),
             NEW e \in Engines, NEW r \in message_buffer[e]
      PROVE  r \in message_buffer'[e]
  <2> DEFINE request == Head(net[<<p, d>>])
  <2>1. message_buffer' = [message_buffer EXCEPT ![d] = Store(@, request)]
    BY <1>2 DEF OnPrepareReceive
  <2>2. message_buffer \in [Engines -> SUBSET Stored] /\ r \in Stored
    BY DEF Typed, TypeOK, EngineTypeOK
  <2>3. request \in RequestPrepare /\ net[<<p, d>>] # << >>
        /\ net[<<p, d>>] \in Seq(Messages) /\ <<p, d>> \in PrepareLinks
    BY <1>2, PrepareArrived DEF OnPrepareReceive, Queues, PrepareLinks
  <2>4. InUse(StoredOf(request)) /\ StoredOf(request) \in Stored
    <3>1. 1 \in DOMAIN net[<<p, d>>] /\ request = net[<<p, d>>][1]
      BY <2>3
    <3>2. StoredOf(request) \in Stored
      BY <2>3 DEF StoredOf, Stored, RequestPrepare
    <3> QED
      BY <2>3, <3>1, <3>2 DEF InUse, Prepared
  <2> HIDE DEF request
  <2>5. SameKey(r, request) => r = StoredOf(request)
    BY <2>2, <2>4 DEF InUse, Replication, IdsAreUsedOnce, SameKey, StoredOf
  <2>6. r \in Store(message_buffer[e], request)
    BY <2>5 DEF Store
  <2> QED
    BY <2>1, <2>2, <2>6
<1>3. CASE EngineStep
  <2>1. CASE \E d \in Engines, p \in Pumps : OnPrepareReceive(d, p)
    BY <1>2, <2>1
  <2>2. CASE ~\E d \in Engines, p \in Pumps : OnPrepareReceive(d, p)
    BY <1>1, <1>3, <2>2
    DEF EngineStep, FanOutPublish, EngineSubscribe, EngineUnsubscribe,
        EngineUnsubscribeUnknown, EngineRaceCrash, engineVars
  <2> QED
    BY <2>1, <2>2
<1>4. CASE PublisherStep \/ PumpStep \/ NuzzleStep \/ ConsumerStep \/ TransportStep
  BY <1>1, <1>4
  DEF PublisherStep, PumpStep, NuzzleStep, ConsumerStep, TransportStep, PublisherFrame,
      PumpFrame, NuzzleFrame, ConsumerFrame, ProcessFrame, engineVars
<1>5. CASE UNCHANGED vars
  BY <1>1, <1>5 DEF vars, engineVars
<1> QED
  BY <1>3, <1>4, <1>5 DEF Next

(* ... and no engine ever replaces what it has stored: the assignment that *)
(* follows insert() in on_prepare_receive stores what is there already.    *)
THEOREM StoredIsNeverReplaced ==
    ASSUME OneCounter, IdsSuffice
    PROVE  Spec => NothingReplaced
<1>1. Init => Replication
  BY InitReplication
<1>2. Typed /\ Integrity /\ Replication /\ [Next]_vars => Replication'
  BY NextReplication
<1>3. Init => Integrity
  BY DEF Init, TransportInit, EngineInit, NuzzleInit, ConsumerInit, Integrity,
         QueuesFrom, LoopFrom
<1>4. Typed /\ Replication /\ [Next]_vars
        => [\A e \in Engines : message_buffer[e] \subseteq message_buffer'[e]]_vars
  BY StepReplacesNothing
<1> QED
  BY <1>1, <1>2, <1>3, <1>4, NextIntegrity, TypedAlways, PTL DEF Spec, NothingReplaced

----------------------------------------------------------------------------
(***************************************************************************)
(* What a consumer is delivered is stored by a majority of the group, in a *)
(* deployment in which ids are unique and every nuzzle is registered once  *)
(* with an engine: the nuzzle counts copies, and no engine sends it two of *)
(* one publication, nor one of a publication it does not hold.             *)
(***************************************************************************)

CopyLinks == Engines \X Nuzzles
DeliveryLinks == Nuzzles \X Consumers
EngineLinks == PrepareLinks \cup CopyLinks

KeyOf(r) == <<r.topic_id, r.global_id>>

(* The loop of engine e has yet to send its publication to nuzzle n. *)
Pending(e, n) ==
    fan_out[e] # Idle /\ \E j \in DOMAIN fan_out[e].range :
                           j >= fan_out[e].next /\ fan_out[e].range[j] = n

(* An engine is sent each publication once. *)
PreparedOnce ==
    \A l \in PrepareLinks : \A i \in DOMAIN net[l] :
      /\ \A j \in DOMAIN net[l] : net[l][i].global_id = net[l][j].global_id => i = j
      /\ \A s \in message_buffer[l[2]] : s.global_id # net[l][i].global_id

(* The range of a loop is what the vector began with, and begins with. *)
LoopsCurrent ==
    \A e \in Engines : fan_out[e] # Idle =>
      \A i \in DOMAIN fan_out[e].range :
        /\ i \in DOMAIN subscriptions[e][fan_out[e].request.topic_id]
        /\ subscriptions[e][fan_out[e].request.topic_id][i] = fan_out[e].range[i]

(* An engine holds what it sends, has yet to send, or is counted for. *)
CopiesAreHeld ==
    /\ \A l \in CopyLinks : \A i \in DOMAIN net[l] :
         StoredOf(net[l][i]) \in message_buffer[l[1]]
    /\ \A e \in Engines : fan_out[e] # Idle =>
         StoredOf(fan_out[e].request) \in message_buffer[e]
    /\ \A n \in Nuzzles, k \in Keys : \A i \in DOMAIN copies[n][k] :
         \E s \in message_buffer[copies[n][k][i]] : KeyOf(s) = k

(* Of one publication an engine has at most one copy on its way to a       *)
(* nuzzle, yet to be sent to it, or counted there.                         *)
CopiesAreSentOnce ==
    /\ \A l \in CopyLinks : \A i, j \in DOMAIN net[l] :
         net[l][i].global_id = net[l][j].global_id => i = j
    /\ \A e \in Engines, n \in Nuzzles : Pending(e, n) =>
         \A i \in DOMAIN net[<<e, n>>] :
           net[<<e, n>>][i].global_id # fan_out[e].request.global_id
    /\ \A n \in Nuzzles, k \in Keys : \A i, j \in DOMAIN copies[n][k] :
         copies[n][k][i] = copies[n][k][j] => i = j
    /\ \A n \in Nuzzles, k \in Keys, e \in Engines :
         (\E i \in DOMAIN copies[n][k] : copies[n][k][i] = e) =>
           /\ \A j \in DOMAIN net[<<e, n>>] : KeyOf(net[<<e, n>>][j]) # k
           /\ Pending(e, n) => KeyOf(fan_out[e].request) # k

Copying == PreparedOnce /\ LoopsCurrent /\ CopiesAreHeld /\ CopiesAreSentOnce

----------------------------------------------------------------------------
(* Links, loops and tables. *)

(* The links that engines and consumers read or engines write. *)
LEMMA MajorityLinks ==
    /\ EngineLinks \cup DeliveryLinks \subseteq Links
    /\ \A l \in PrepareLinks : l[1] \in Pumps /\ l[2] \in Engines /\ l = <<l[1], l[2]>>
    /\ \A l \in CopyLinks : l[1] \in Engines /\ l[2] \in Nuzzles /\ l = <<l[1], l[2]>>
    /\ \A l \in DeliveryLinks : l[1] \in Nuzzles /\ l[2] \in Consumers /\ l = <<l[1], l[2]>>
    /\ \A e \in Engines, n \in Nuzzles : <<e, n>> \in CopyLinks
    /\ \A p \in Pumps, e \in Engines : <<p, e>> \in PrepareLinks
    /\ \A n \in Nuzzles, c \in Consumers : <<n, c>> \in DeliveryLinks
<1>1. PrepareLinks \subseteq Links
  BY DEF PrepareLinks, Links, Connections
<1>2. ASSUME NEW l \in CopyLinks PROVE l \in Links
  <2>1. PICK e \in Engines, n \in Nuzzles : l = <<e, n>>
    BY DEF CopyLinks
  <2> QED
    BY <2>1, LinkEnds
<1>3. ASSUME NEW l \in DeliveryLinks PROVE l \in Links
  <2>1. PICK n \in Nuzzles, c \in Consumers : l = <<n, c>>
    BY DEF DeliveryLinks
  <2> QED
    BY <2>1, LinkEnds
<1> QED
  BY <1>1, <1>2, <1>3 DEF EngineLinks, PrepareLinks, CopyLinks, DeliveryLinks

(* What travels on them, and what the tables are. *)
LEMMA CopyForm ==
    ASSUME Typed
    PROVE  /\ net \in Queues
           /\ \A l \in EngineLinks \cup DeliveryLinks : net[l] \in Seq(Messages)
           /\ \A l \in CopyLinks : \A i \in DOMAIN net[l] : net[l][i] \in RequestPublish
           /\ \A l \in PrepareLinks : \A i \in DOMAIN net[l] : net[l][i] \in RequestPrepare
           /\ message_buffer \in [Engines -> SUBSET Stored]
           /\ subscriptions \in [Engines -> [Topics -> Seq(Nuzzles)]]
           /\ copies \in [Nuzzles -> [Keys -> Seq(Engines)]]
           /\ fan_out \in [Engines -> LoopOver(Nuzzles) \cup {Idle}]
           /\ \A e \in Engines : fan_out[e] # Idle =>
                /\ fan_out[e] \in LoopOver(Nuzzles)
                /\ fan_out[e].next \in DOMAIN fan_out[e].range
                /\ fan_out[e].range \in Seq(Nuzzles)
                /\ fan_out[e].request \in RequestPublish
<1>1. net \in Queues
  BY TransportForm DEF Typed, TypeOK, TransportTyped
<1>2. \A l \in CopyLinks : \A i \in DOMAIN net[l] : net[l][i] \in RequestPublish
  BY MajorityLinks, ProcessesDisjoint DEF EngineLinks, Typed, SupportedOnly, Supports
<1>3. /\ message_buffer \in [Engines -> SUBSET Stored]
      /\ subscriptions \in [Engines -> [Topics -> Seq(Nuzzles)]]
      /\ copies \in [Nuzzles -> [Keys -> Seq(Engines)]]
      /\ fan_out \in [Engines -> LoopOver(Nuzzles) \cup {Idle}]
  BY DEF Typed, TypeOK, EngineTypeOK, NuzzleTypeOK
<1>4. ASSUME NEW e \in Engines, fan_out[e] # Idle
      PROVE  /\ fan_out[e] \in LoopOver(Nuzzles)
             /\ fan_out[e].next \in DOMAIN fan_out[e].range
             /\ fan_out[e].range \in Seq(Nuzzles)
             /\ fan_out[e].request \in RequestPublish
  <2>1. fan_out[e] \in LoopOver(Nuzzles) /\ fan_out[e].next <= Len(fan_out[e].range)
    BY <1>3, <1>4 DEF Typed, TypeOK, EngineTypeOK
  <2>2. /\ fan_out[e].range \in Seq(Nuzzles) /\ fan_out[e].request \in RequestPublish
        /\ fan_out[e].next \in Nat \ {0}
    BY <2>1 DEF LoopOver
  <2> QED
    BY <2>1, <2>2
<1>5. \A l \in EngineLinks \cup DeliveryLinks : net[l] \in Seq(Messages)
  BY <1>1, MajorityLinks DEF Queues
<1> QED
  BY <1>1, <1>2, <1>3, <1>4, <1>5, ForwardLinks

(* What a queue holds once a message has been appended. *)
LEMMA AppendIndices ==
    ASSUME NEW S, NEW s \in Seq(S), NEW x \in S
    PROVE  \A i \in DOMAIN Append(s, x) :
             \/ i \in DOMAIN s /\ i # Len(s) + 1 /\ Append(s, x)[i] = s[i]
             \/ i = Len(s) + 1 /\ i \notin DOMAIN s /\ Append(s, x)[i] = x
  OBVIOUS

(* ... and what it held before is where it was. *)
LEMMA AppendKeeps ==
    ASSUME NEW S, NEW s \in Seq(S), NEW x \in S
    PROVE  \A i \in DOMAIN s : i \in DOMAIN Append(s, x) /\ Append(s, x)[i] = s[i]
  OBVIOUS

----------------------------------------------------------------------------
(* The steps in which no engine, nuzzle or consumer handles a publication. *)

Kept(L) == \A l \in L : net'[l] = net[l] \/ net'[l] = << >>

(* No copy is sent, stored or counted, and a vector is at most added to. *)
NoCopy ==
    /\ Kept(EngineLinks)
    /\ UNCHANGED <<message_buffer, fan_out, copies>>
    /\ \A e \in Engines, t \in Topics :
         \/ subscriptions'[e][t] = subscriptions[e][t]
         \/ \E n \in Nuzzles : subscriptions'[e][t] = Append(subscriptions[e][t], n)

(* Nothing is delivered. *)
NoDelivery == Kept(DeliveryLinks) /\ UNCHANGED <<delivery, log_buffer>>

(* Such a step keeps the count right. *)
LEMMA NoCopyCopying ==
    ASSUME Typed, Copying, NoCopy
    PROVE  Copying'
<1>0. /\ Kept(EngineLinks) /\ UNCHANGED <<message_buffer, fan_out, copies>>
      /\ PrepareLinks \subseteq EngineLinks /\ CopyLinks \subseteq EngineLinks
  BY DEF NoCopy, EngineLinks
<1>1. PreparedOnce'
  BY <1>0 DEF Copying, PreparedOnce, Kept
<1>2. LoopsCurrent'
  <2> SUFFICES ASSUME NEW e \in Engines, fan_out[e] # Idle,
                      NEW i \in DOMAIN fan_out[e].range
               PROVE  /\ i \in DOMAIN subscriptions'[e][fan_out[e].request.topic_id]
                      /\ subscriptions'[e][fan_out[e].request.topic_id][i]
                           = fan_out[e].range[i]
    BY <1>0 DEF LoopsCurrent
  <2> DEFINE t == fan_out[e].request.topic_id
             vector == subscriptions[e][t]
  <2>1. t \in Topics
    BY CopyForm DEF RequestPublish
  <2>2. vector \in Seq(Nuzzles)
    BY <2>1, CopyForm
  <2>3. i \in DOMAIN vector /\ vector[i] = fan_out[e].range[i]
    BY DEF Copying, LoopsCurrent
  <2>4. subscriptions'[e][t] = vector \/ \E n \in Nuzzles : subscriptions'[e][t] = Append(vector, n)
    BY <2>1 DEF NoCopy
  <2>5. CASE subscriptions'[e][t] = vector
    BY <2>3, <2>5
  <2>6. ASSUME NEW n \in Nuzzles, subscriptions'[e][t] = Append(vector, n)
        PROVE  i \in DOMAIN subscriptions'[e][t] /\ subscriptions'[e][t][i] = vector[i]
    BY <2>2, <2>3, <2>6, SMTT(30)
  <2> QED
    BY <2>3, <2>4, <2>5, <2>6
<1>3. CopiesAreHeld'
  BY <1>0 DEF Copying, CopiesAreHeld, Kept
<1>4. CopiesAreSentOnce'
  <2>1. \A e \in Engines, n \in Nuzzles : <<e, n>> \in CopyLinks
    BY MajorityLinks
  <2>2. \A e, n : Pending(e, n)' <=> Pending(e, n)
    BY <1>0 DEF Pending
  <2>3. \A l \in CopyLinks : \A i \in DOMAIN net'[l] :
          i \in DOMAIN net[l] /\ net'[l][i] = net[l][i]
    BY <1>0 DEF Kept
  <2> QED
    BY <1>0, <2>1, <2>2, <2>3 DEF Copying, CopiesAreSentOnce
<1> QED
  BY <1>1, <1>2, <1>3, <1>4 DEF Copying

(* The links that carry publications from the pumps on. *)
WatchedLinks == EngineLinks \cup DeliveryLinks

(* A step that neither sends, stores, counts nor delivers a copy. *)
QuietStep == NoCopy /\ NoDelivery

(* A step that leaves the links and the tables alone is one. *)
LEMMA KeptIsQuiet ==
    ASSUME Kept(WatchedLinks),
           UNCHANGED <<engineVars, copies, delivery, log_buffer>>
    PROVE  QuietStep
  BY DEF Kept, WatchedLinks, QuietStep, NoCopy, NoDelivery, engineVars

(* Sending and taking change the links they are about, exits only empty some. *)
LEMMA LinksLeftAlone ==
    /\ \A n, a, B, m : \A l \in Links : l[1] # a => Posted(n, a, B, m)[l] = n[l]
    /\ net \in Queues => \A k : \A l \in Links : l # k => Taken(k)[l] = net[l]
    /\ \A d : Exit(d) => Kept(WatchedLinks)
<1>1. \A n, a, B, m : \A l \in Links : l[1] # a => Posted(n, a, B, m)[l] = n[l]
  BY DEF Posted
<1>2. net \in Queues => \A k : \A l \in Links : l # k => Taken(k)[l] = net[l]
  BY DEF Taken, Queues
<1>3. \A d : Exit(d) => Kept(WatchedLinks)
  BY MajorityLinks, ExitElsewhere DEF WatchedLinks, Kept
<1> QED
  BY <1>1, <1>2, <1>3

(* No process but an engine or a pump writes the engines' links, and only  *)
(* a nuzzle writes a consumer's.                                           *)
LEMMA WatchedWriters ==
    /\ \A l \in WatchedLinks : l \in Links
    /\ \A l \in WatchedLinks :
         /\ l[1] \in Pumps \cup Engines \cup Nuzzles /\ l[2] \in Engines \cup Nuzzles \cup Consumers
         /\ l[1] \in Pumps => l[2] \in Engines
         /\ l[1] \in Engines => l[2] \in Nuzzles
         /\ l[1] \in Nuzzles => l[2] \in Consumers
    /\ \A b \in Publishers \cup Consumers, l \in WatchedLinks : l[1] # b
    /\ \A l \in WatchedLinks :
         /\ \A e \in Engines, p \in Pumps : l # <<e, p>>
         /\ \A n \in Nuzzles, e \in Engines : l # <<n, e>>
         /\ \A c \in Consumers, n \in Nuzzles : l # <<c, n>>
<1>1. \A l \in WatchedLinks :
        \/ l[1] \in Pumps /\ l[2] \in Engines
        \/ l[1] \in Engines /\ l[2] \in Nuzzles
        \/ l[1] \in Nuzzles /\ l[2] \in Consumers
  BY MajorityLinks DEF WatchedLinks, EngineLinks
<1>2. \A l \in WatchedLinks : l \in Links
  BY MajorityLinks DEF WatchedLinks
<1>3. \A b \in Publishers \cup Consumers, l \in WatchedLinks : l[1] # b
  BY <1>1, ProcessesDisjoint
<1>4. ASSUME NEW l \in WatchedLinks
      PROVE  /\ \A e \in Engines, p \in Pumps : l # <<e, p>>
             /\ \A n \in Nuzzles, e \in Engines : l # <<n, e>>
             /\ \A c \in Consumers, n \in Nuzzles : l # <<c, n>>
  BY <1>1, ProcessesDisjoint
<1> QED
  BY <1>1, <1>2, <1>3, <1>4, ProcessesDisjoint

(* Publishers. *)
LEMMA PublisherQuiet ==
    ASSUME PublisherStep
    PROVE  QuietStep
<1>1. PICK b \in Publishers : net' = Posted(net, b, {NextPump(b)}, Publication(b))
  BY DEF PublisherStep, Publish
<1>2. Kept(WatchedLinks)
  BY <1>1, WatchedWriters, LinksLeftAlone DEF Kept
<1> QED
  BY <1>2, KeptIsQuiet DEF PublisherStep, PublisherFrame, nuzzleVars, consumerVars

(* Pumps, but for numbering a publication. *)
LEMMA PumpQuiet ==
    ASSUME Typed, PumpStep, ~(\E p \in Pumps, b \in Publishers : OnPublishReceive(p, b))
    PROVE  QuietStep
<1>1. PICK p \in Pumps :
        \/ \E e \in Engines : PumpConnectToEngine(p, e)
        \/ \E b \in Publishers : OnPublishReceiveWild(p, b)
        \/ \E e \in Engines : OnPrepareAckReceive(p, e)
  BY DEF PumpStep
<1>2. ASSUME NEW e \in Engines, PumpConnectToEngine(p, e) PROVE Kept(WatchedLinks)
  BY <1>2, LinksLeftAlone DEF PumpConnectToEngine, Kept
<1>3. ASSUME NEW b \in Publishers, OnPublishReceiveWild(p, b) PROVE Kept(WatchedLinks)
  BY <1>3, LinksLeftAlone DEF OnPublishReceiveWild, Crash
<1>4. ASSUME NEW e \in Engines, OnPrepareAckReceive(p, e) PROVE Kept(WatchedLinks)
  <2>1. net' = Taken(<<e, p>>) /\ net \in Queues
    BY <1>4, CopyForm DEF OnPrepareAckReceive
  <2>2. \A l \in WatchedLinks : l \in Links /\ l # <<e, p>>
    BY WatchedWriters
  <2> QED
    BY <2>1, <2>2 DEF Taken, Queues, Kept
<1> QED
  BY <1>1, <1>2, <1>3, <1>4, KeptIsQuiet DEF PumpStep, PumpFrame, nuzzleVars, consumerVars

(* Engines, but for storing and fanning out: a nuzzle's update is a new    *)
(* subscription.                                                           *)
LEMMA EngineQuiet ==
    ASSUME Typed, RegisteredOnce, EngineStep,
           ~(\E e \in Engines, p \in Pumps : OnPrepareReceive(e, p)),
           ~(\E e \in Engines : FanOutPublish(e))
    PROVE  QuietStep
<1>0. UNCHANGED <<copies, delivery, log_buffer>>
  BY DEF EngineStep, EngineFrame, nuzzleVars, consumerVars
<1>1. PICK e \in Engines, n \in Nuzzles :
        \/ EngineSubscribe(e, n) \/ EngineUnsubscribe(e, n)
        \/ EngineUnsubscribeUnknown(e, n) \/ EngineRaceCrash(e, n)
  BY DEF EngineStep
<1>2. CASE EngineUnsubscribeUnknown(e, n) \/ EngineRaceCrash(e, n)
  <2>1. Exit(e) /\ UNCHANGED engineVars
    BY <1>2 DEF EngineUnsubscribeUnknown, EngineRaceCrash, Crash
  <2> QED
    BY <1>0, <2>1, LinksLeftAlone, KeptIsQuiet
<1>3. CASE EngineSubscribe(e, n)
  <2>1. PICK t : subscriptions' = [subscriptions EXCEPT ![e][t] = Append(@, n)]
    BY <1>3 DEF EngineSubscribe
  <2>2. \A d \in Engines, u \in Topics :
          \/ subscriptions'[d][u] = subscriptions[d][u]
          \/ \E m \in Nuzzles : subscriptions'[d][u] = Append(subscriptions[d][u], m)
    BY <2>1, CopyForm
  <2>3. net' = Taken(<<n, e>>) /\ net \in Queues /\ UNCHANGED <<message_buffer, fan_out>>
    BY <1>3, CopyForm DEF EngineSubscribe
  <2>4. \A l \in WatchedLinks : l \in Links /\ l # <<n, e>>
    BY WatchedWriters
  <2>5. Kept(WatchedLinks)
    BY <2>3, <2>4 DEF Taken, Queues, Kept
  <2> QED
    BY <1>0, <2>2, <2>3, <2>5 DEF Kept, WatchedLinks, QuietStep, NoCopy, NoDelivery
<1>4. CASE EngineUnsubscribe(e, n)
  <2>1. net[<<n, e>>] # << >> /\ Head(net[<<n, e>>]).action = 0
    BY <1>4 DEF EngineUnsubscribe, Arrived
  <2>2. net[<<n, e>>] \in Seq(Messages)
    BY CopyForm, LinkEnds DEF Queues
  <2>3. 1 \in DOMAIN net[<<n, e>>] /\ Head(net[<<n, e>>]) = net[<<n, e>>][1]
    BY <2>1, <2>2
  <2> QED
    BY <2>1, <2>3 DEF RegisteredOnce
<1> QED
  BY <1>1, <1>2, <1>3, <1>4

(* Nuzzles, but for counting and delivering. *)
LEMMA NuzzleQuiet ==
    ASSUME Typed, NuzzleStep,
           ~(\E n \in Nuzzles, e \in Engines : OnPublishReceived(n, e)),
           ~(\E n \in Nuzzles : Deliver(n))
    PROVE  QuietStep
<1>0. UNCHANGED <<engineVars, log_buffer>>
  BY DEF NuzzleStep, NuzzleFrame, consumerVars
<1>1. PICK n \in Nuzzles :
        \/ \E e \in Engines : NuzzleConnectToEngine(n, e)
        \/ \E c \in Consumers : NuzzleSubscribe(n, c) \/ NuzzleUnsubscribe(n, c)
        \/ NuzzleSubscribed(n)
        \/ \E c \in Consumers : NuzzleUnsubscribeUnknown(n, c)
        \/ NuzzleRaceCrash(n)
  BY DEF NuzzleStep
<1>2. ASSUME NEW e \in Engines, NuzzleConnectToEngine(n, e)
      PROVE  Kept(WatchedLinks) /\ UNCHANGED <<copies, delivery>>
  BY <1>2, LinksLeftAlone DEF NuzzleConnectToEngine, Kept
<1>3. ASSUME NEW c \in Consumers, NuzzleSubscribe(n, c) \/ NuzzleUnsubscribe(n, c)
      PROVE  Kept(WatchedLinks) /\ UNCHANGED <<copies, delivery>>
  <2>1. PICK sender_id \in SenderIds :
          net' = Posted(Taken(<<c, n>>), n, nuzzle_engines[n],
                        Forward(Head(net[<<c, n>>]), sender_id))
    BY <1>3 DEF NuzzleSubscribe, NuzzleUnsubscribe
  <2>2. ASSUME NEW l \in WatchedLinks PROVE net'[l] = net[l]
    <3>1. l \in Links /\ l # <<c, n>> /\ Taken(<<c, n>>)[l] = net[l]
      BY CopyForm, WatchedWriters, LinksLeftAlone
    <3>2. ~(l[1] = n /\ l[2] \in nuzzle_engines[n])
      <4>1. nuzzle_engines[n] \subseteq Engines
        BY DEF Typed, TypeOK, NuzzleTypeOK
      <4> QED
        BY <4>1, WatchedWriters, ProcessesDisjoint
    <3> QED
      BY <2>1, <3>1, <3>2 DEF Posted
  <2> QED
    BY <1>3, <2>2 DEF NuzzleSubscribe, NuzzleUnsubscribe, Kept
<1>4. ASSUME NuzzleSubscribed(n)
      PROVE  Kept(WatchedLinks) /\ UNCHANGED <<copies, delivery>>
  BY <1>4 DEF NuzzleSubscribed, transportVars, Kept
<1>5. ASSUME NEW c \in Consumers, NuzzleUnsubscribeUnknown(n, c)
      PROVE  Kept(WatchedLinks) /\ UNCHANGED <<copies, delivery>>
  BY <1>5, LinksLeftAlone DEF NuzzleUnsubscribeUnknown, Crash, nuzzleVars
<1>6. ASSUME NuzzleRaceCrash(n)
      PROVE  Kept(WatchedLinks) /\ UNCHANGED <<copies, delivery>>
  BY <1>6, LinksLeftAlone DEF NuzzleRaceCrash, Crash, nuzzleVars
<1>7. Kept(WatchedLinks) /\ UNCHANGED <<copies, delivery>>
  BY <1>1, <1>2, <1>3, <1>4, <1>5, <1>6
<1> QED
  BY <1>0, <1>7, KeptIsQuiet

(* Consumers, but for logging, and the network. *)
LEMMA ConsumerQuiet ==
    ASSUME ConsumerStep, ~(\E c \in Consumers, n \in Nuzzles : OnPublishLogged(c, n))
    PROVE  QuietStep
<1>1. PICK c \in Consumers : ConsumerUpdateSubscription(c)
  BY DEF ConsumerStep
<1>2. PICK B, m : net' = Posted(net, c, B, m)
  BY <1>1 DEF ConsumerUpdateSubscription
<1>3. Kept(WatchedLinks)
  BY <1>2, WatchedWriters, LinksLeftAlone DEF Kept
<1> QED
  BY <1>1, <1>3, KeptIsQuiet
  DEF ConsumerUpdateSubscription, ConsumerStep, ConsumerFrame, nuzzleVars

(* Losses, closes and exits. *)
LEMMA TransportQuiet ==
    ASSUME Typed, TransportStep
    PROVE  QuietStep
<1>1. ASSUME NEW l \in Links, LoseInFlight(l) PROVE Kept(WatchedLinks)
  BY <1>1, CopyForm, WatchedWriters DEF LoseInFlight, Queues, Kept
<1>2. Kept(WatchedLinks)
  BY <1>1, LinksLeftAlone
  DEF TransportStep, Kill, Crash, PeerClosed, PeerReset, Kept
<1> QED
  BY <1>2, KeptIsQuiet DEF TransportStep, ProcessFrame, nuzzleVars, consumerVars

----------------------------------------------------------------------------
(* A publication is numbered, stored, sent and counted. *)

(* The next id is no publication's yet: the one about to be numbered has   *)
(* not been counted among those that have used up an id.                   *)
LEMMA NextIdIsFree ==
    ASSUME Typed, Integrity, OneCounter, IdsSuffice, Replication,
           NEW p \in Pumps, NEW b \in Publishers, OnPublishReceive(p, b)
    PROVE  /\ \A l \in PrepareLinks : \A i \in DOMAIN net[l] :
                net[l][i].global_id # global_request_id_seed[p]
           /\ \A e \in Engines : \A s \in message_buffer[e] :
                s.global_id # global_request_id_seed[p]
<1> DEFINE link == <<b, p>>
           m == net[link][1].message
           k == global_request_id_seed[p]
<1>1. /\ link \in PublishLinks /\ 1 \in DOMAIN net[link]
      /\ net[link][1] \in RequestPublish
  <2>1. link \in PublishLinks /\ net[link] # << >>
    BY DEF OnPublishReceive, Arrived, PublishLinks
  <2>2. net[link] \in Seq(Messages)
    BY <2>1, ForwardLinks
  <2>3. 1 \in DOMAIN net[link]
    BY <2>1, <2>2
  <2> QED
    BY <2>1, <2>3, ForwardLinks
<1>2. m \in Publications /\ m \notin Spent
  BY <1>1 DEF Spent, Waiting, RequestPublish
<1>3. Cardinality(Spent) \in Nat /\ Cardinality(Spent) + 1 <= IdSpace /\ IdSpace \in Nat
  <2>1. Spent \in SUBSET Publications /\ Spent \cup {m} \in SUBSET Publications
    BY <1>2 DEF Spent
  <2>2. IsFiniteSet(Spent) /\ Cardinality(Spent) \in Nat
    BY <2>1, SpentFinite
  <2>3. Cardinality(Spent \cup {m}) = Cardinality(Spent) + 1
    BY <1>2, <2>2, FS_AddElement
  <2>4. Cardinality(Spent \cup {m}) <= Cardinality(Publications)
        /\ Cardinality(Publications) \in Nat
    <3>1. Publications \in SUBSET Publications
      OBVIOUS
    <3> QED
      BY <2>1, <3>1, SpentFinite
  <2> QED
    BY <2>2, <2>3, <2>4, NumbersAssumption DEF IdsSuffice
<1>4. k \in GlobalIds
  BY DEF Typed, TypeOK, PumpTypeOK
<1>5. \A s \in Stored : InUse(s) => s.global_id # k
  <2> SUFFICES ASSUME NEW s \in Stored, InUse(s), s.global_id = k PROVE FALSE
    OBVIOUS
  <2>1. Behind(k, k) <= Cardinality(Spent)
    BY DEF Replication, IdsAreUsedOnce
  <2>2. Behind(k, k) = IdSpace
    BY <1>4, BehindSuccessor
  <2> QED
    BY <1>3, <2>1, <2>2
<1>6. ASSUME NEW l \in PrepareLinks, NEW i \in DOMAIN net[l]
      PROVE  net[l][i].global_id # k
  <2>1. StoredOf(net[l][i]) \in Stored /\ StoredOf(net[l][i]).global_id = net[l][i].global_id
    BY <1>6, ForwardLinks DEF StoredOf, Stored, RequestPrepare
  <2>2. InUse(StoredOf(net[l][i]))
    BY <1>6 DEF InUse, Prepared
  <2> QED
    BY <1>5, <2>1, <2>2
<1>7. ASSUME NEW e \in Engines, NEW s \in message_buffer[e]
      PROVE  s.global_id # k
  BY <1>5, <1>7, CopyForm DEF InUse
<1> QED
  BY <1>6, <1>7

(* Numbering a publication sends each engine something new. *)
LEMMA NumberCopying ==
    ASSUME Typed, Integrity, OneCounter, IdsSuffice, Replication, Copying,
           NEW p \in Pumps, NEW b \in Publishers, OnPublishReceive(p, b), PumpFrame
    PROVE  Copying' /\ NoDelivery
<1> DEFINE q == Prepare(p, Head(net[<<b, p>>]))
           k == global_request_id_seed[p]
<1>1. /\ net' = Posted(Taken(<<b, p>>), p, engine_connections[p], q)
      /\ UNCHANGED <<engineVars, copies, delivery, log_buffer>>
      /\ q.global_id = k
  BY DEF OnPublishReceive, PumpFrame, nuzzleVars, consumerVars, Prepare
<1>2. q \in Messages
  <2>1. <<b, p>> \in PublishLinks /\ net[<<b, p>>] # << >>
    BY DEF OnPublishReceive, Arrived, PublishLinks
  <2>2. Head(net[<<b, p>>]) \in RequestPublish
    <3>1. net[<<b, p>>] \in Seq(Messages)
      BY <2>1, ForwardLinks
    <3>2. 1 \in DOMAIN net[<<b, p>>] /\ Head(net[<<b, p>>]) = net[<<b, p>>][1]
      BY <2>1, <3>1
    <3> QED
      BY <2>1, <3>2, ForwardLinks
  <2>3. k \in GlobalIds
    BY DEF Typed, TypeOK, PumpTypeOK
  <2> QED
    BY <2>2, <2>3 DEF Prepare, Messages, RequestPublish, RequestPrepare
<1> HIDE DEF q
<1>3. \A l \in WatchedLinks :
        net'[l] = net[l] \/ (l \in PrepareLinks /\ net'[l] = Append(net[l], q))
  <2> SUFFICES ASSUME NEW l \in WatchedLinks
               PROVE  net'[l] = net[l] \/ (l \in PrepareLinks /\ net'[l] = Append(net[l], q))
    OBVIOUS
  <2>1. l \in Links /\ l # <<b, p>>
    BY WatchedWriters
  <2>2. Taken(<<b, p>>)[l] = net[l]
    BY <2>1, CopyForm DEF Taken, Queues
  <2>3. l[1] = p => l \in PrepareLinks
    BY MajorityLinks, ProcessesDisjoint DEF WatchedLinks, EngineLinks
  <2> QED
    BY <1>1, <2>1, <2>2, <2>3 DEF Posted
<1>4. \A l \in CopyLinks \cup DeliveryLinks : net'[l] = net[l]
  <2>1. \A l \in CopyLinks \cup DeliveryLinks : l \notin PrepareLinks
    BY MajorityLinks, ProcessesDisjoint
  <2> QED
    BY <1>3, <2>1 DEF WatchedLinks, EngineLinks
<1>5. PreparedOnce'
  <2> SUFFICES ASSUME NEW l \in PrepareLinks, NEW i \in DOMAIN net'[l]
               PROVE  /\ \A j \in DOMAIN net'[l] :
                            net'[l][i].global_id = net'[l][j].global_id => i = j
                      /\ \A s \in message_buffer[l[2]] : s.global_id # net'[l][i].global_id
    BY <1>1 DEF PreparedOnce, engineVars
  <2>1. net[l] \in Seq(Messages) /\ l \in WatchedLinks /\ l[2] \in Engines
    BY CopyForm, MajorityLinks DEF WatchedLinks, EngineLinks
  <2>2. \A j \in DOMAIN net'[l] :
          \/ j \in DOMAIN net[l] /\ net'[l][j] = net[l][j]
          \/ j = Len(net[l]) + 1 /\ net'[l][j].global_id = k
    <3>1. CASE net'[l] = net[l]
      BY <3>1
    <3>2. CASE net'[l] = Append(net[l], q)
      <4>1. \A j \in DOMAIN Append(net[l], q) :
              \/ j \in DOMAIN net[l] /\ Append(net[l], q)[j] = net[l][j]
              \/ j = Len(net[l]) + 1 /\ Append(net[l], q)[j] = q
        BY <1>2, <2>1, AppendIndices
      <4> QED
        BY <1>1, <3>2, <4>1
    <3> QED
      BY <1>3, <2>1, <3>1, <3>2
  <2>3. \A j \in DOMAIN net[l] : net[l][j].global_id # k
    BY NextIdIsFree
  <2>4. \A s \in message_buffer[l[2]] : s.global_id # k
    BY <2>1, NextIdIsFree
  <2>5. /\ \A i1, j1 \in DOMAIN net[l] : net[l][i1].global_id = net[l][j1].global_id => i1 = j1
        /\ \A i1 \in DOMAIN net[l] : \A s \in message_buffer[l[2]] :
             s.global_id # net[l][i1].global_id
    BY DEF Copying, PreparedOnce
  <2> QED
    BY <2>2, <2>3, <2>4, <2>5
<1>6. LoopsCurrent'
  BY <1>1 DEF Copying, LoopsCurrent, engineVars
<1>7. CopiesAreHeld'
  BY <1>1, <1>4 DEF Copying, CopiesAreHeld, engineVars
<1>8. CopiesAreSentOnce'
  <2>1. \A e \in Engines, n \in Nuzzles : net'[<<e, n>>] = net[<<e, n>>]
    BY <1>4, MajorityLinks
  <2>2. \A e, n : Pending(e, n)' <=> Pending(e, n)
    BY <1>1 DEF Pending, engineVars
  <2> QED
    BY <1>1, <1>4, <2>1, <2>2 DEF Copying, CopiesAreSentOnce, engineVars
<1> QED
  BY <1>1, <1>4, <1>5, <1>6, <1>7, <1>8 DEF Copying, NoDelivery, Kept

(* Storing a publication begins a loop over what has no copy of it yet. *)
LEMMA PrepareCopying ==
    ASSUME Typed, OneCounter, Copying,
           NEW e \in Engines, NEW p \in Pumps, OnPrepareReceive(e, p), EngineFrame,
           \A d \in Engines : message_buffer[d] \subseteq message_buffer'[d]
    PROVE  Copying' /\ NoDelivery
<1> DEFINE link == <<p, e>>
           request == Head(net[link])
           loop == BeginLoop(PublishOf(request), subscriptions[e][request.topic_id])
<1>1. /\ link \in PrepareLinks /\ net[link] # << >> /\ net[link] \in Seq(Messages)
      /\ 1 \in DOMAIN net[link] /\ request = net[link][1] /\ request \in RequestPrepare
  <2>1. link \in PrepareLinks /\ net[link] # << >>
    BY DEF OnPrepareReceive, Arrived, PrepareLinks
  <2>2. net[link] \in Seq(Messages)
    BY <2>1, ForwardLinks
  <2>3. 1 \in DOMAIN net[link] /\ request = net[link][1]
    BY <2>1, <2>2
  <2> QED
    BY <2>1, <2>2, <2>3, ForwardLinks
<1>2. /\ fan_out[e] = Idle
      /\ message_buffer' = [message_buffer EXCEPT ![e] = Store(@, request)]
      /\ fan_out' = [fan_out EXCEPT ![e] = loop]
      /\ UNCHANGED <<subscriptions, copies, delivery, log_buffer>>
      /\ net' = Posted(Taken(link), e, {p}, PrepareAck(request))
  BY DEF OnPrepareReceive, EngineFrame, nuzzleVars, consumerVars
<1>3. /\ StoredOf(request).global_id = request.global_id
      /\ KeyOf(PublishOf(request)) = <<request.topic_id, request.global_id>>
      /\ StoredOf(PublishOf(request)) = StoredOf(request)
      /\ PublishOf(request).topic_id = request.topic_id
      /\ PublishOf(request).global_id = request.global_id
      /\ request.topic_id \in Topics
  BY <1>1 DEF StoredOf, KeyOf, PublishOf, RequestPrepare
<1>4. /\ StoredOf(request) \in message_buffer'[e]
      /\ \A s \in message_buffer'[e] : s \in message_buffer[e] \/ s = StoredOf(request)
      /\ \A d \in Engines : d # e => message_buffer'[d] = message_buffer[d]
  BY <1>2, CopyForm DEF Store
<1> HIDE DEF request
<1>5. \A l \in WatchedLinks : net'[l] = Taken(link)[l]
  <2> SUFFICES ASSUME NEW l \in WatchedLinks PROVE net'[l] = Taken(link)[l]
    OBVIOUS
  <2>1. l \in Links /\ ~(l[1] = e /\ l[2] \in {p})
    BY WatchedWriters, ProcessesDisjoint
  <2> QED
    BY <1>2, <2>1 DEF Posted
<1>6. /\ \A l \in WatchedLinks : l # link => net'[l] = net[l]
      /\ net'[link] = Tail(net[link])
  BY <1>1, <1>5, CopyForm, WatchedWriters DEF Taken, Queues, WatchedLinks, EngineLinks
<1>7. \A l \in CopyLinks \cup DeliveryLinks : net'[l] = net[l]
  <2>1. \A l \in CopyLinks \cup DeliveryLinks : l # link /\ l \in WatchedLinks
    BY <1>1, MajorityLinks, ProcessesDisjoint DEF WatchedLinks, EngineLinks
  <2> QED
    BY <1>6, <2>1
<1>8. \A s \in message_buffer[e] : s.global_id # request.global_id
  BY <1>1, MajorityLinks DEF Copying, PreparedOnce
<1>9. loop # Idle => loop.request = PublishOf(request) /\ loop.range = subscriptions[e][request.topic_id]
  BY DEF BeginLoop
<1>10. \A d \in Engines : fan_out'[d] = IF d = e THEN loop ELSE fan_out[d]
  BY <1>2, CopyForm
<1> HIDE DEF loop
<1>11. PreparedOnce'
  <2> SUFFICES ASSUME NEW l \in PrepareLinks, NEW i \in DOMAIN net'[l]
               PROVE  /\ \A j \in DOMAIN net'[l] :
                            net'[l][i].global_id = net'[l][j].global_id => i = j
                      /\ \A s \in message_buffer'[l[2]] : s.global_id # net'[l][i].global_id
    BY DEF PreparedOnce
  <2>1. l \in WatchedLinks /\ l[2] \in Engines /\ l = <<p, l[2]>>
    BY MajorityLinks DEF OneCounter, WatchedLinks, EngineLinks
  <2>2. CASE l = link
    <3>1. \A j \in DOMAIN net'[link] :
            j \in Nat \ {0} /\ j + 1 \in DOMAIN net[link] /\ net'[link][j] = net[link][j + 1]
      BY <1>1, <1>6, TailIndices
    <3>2. ASSUME NEW j \in DOMAIN net'[link],
                 net'[link][i].global_id = net'[link][j].global_id
          PROVE  i = j
      <4>1. i \in Nat /\ j \in Nat /\ i + 1 = j + 1
        BY <1>1, <2>2, <3>1, <3>2 DEF Copying, PreparedOnce
      <4> QED
        BY <4>1
    <3>3. /\ i \in Nat \ {0} /\ i + 1 \in DOMAIN net[link]
          /\ net'[link][i] = net[link][i + 1]
      BY <2>2, <3>1
    <3>4. net[link][i + 1].global_id # request.global_id
      <4>1. i + 1 # 1
        BY <3>3
      <4> QED
        BY <1>1, <3>3, <4>1 DEF Copying, PreparedOnce
    <3>5. \A s \in message_buffer[e] : s.global_id # net[link][i + 1].global_id
      BY <1>1, <3>3, MajorityLinks DEF Copying, PreparedOnce
    <3>6. \A s \in message_buffer'[e] : s.global_id # net[link][i + 1].global_id
      BY <1>3, <1>4, <3>4, <3>5
    <3> QED
      BY <2>2, <3>2, <3>3, <3>6
  <2>3. CASE l # link
    <3>1. l[2] # e /\ net'[l] = net[l] /\ message_buffer'[l[2]] = message_buffer[l[2]]
      BY <1>4, <1>6, <2>1, <2>3
    <3> QED
      BY <3>1 DEF Copying, PreparedOnce
  <2> QED
    BY <2>2, <2>3
<1>12. LoopsCurrent'
  <2> SUFFICES ASSUME NEW d \in Engines, fan_out'[d] # Idle, NEW i \in DOMAIN fan_out'[d].range
               PROVE  /\ i \in DOMAIN subscriptions[d][fan_out'[d].request.topic_id]
                      /\ subscriptions[d][fan_out'[d].request.topic_id][i] = fan_out'[d].range[i]
    BY <1>2 DEF LoopsCurrent
  <2>1. CASE d = e
    BY <1>3, <1>9, <1>10, <2>1
  <2>2. CASE d # e
    BY <1>10, <2>2 DEF Copying, LoopsCurrent
  <2> QED
    BY <2>1, <2>2
<1>13. CopiesAreHeld'
  <2>1. \A l \in CopyLinks : \A i \in DOMAIN net'[l] :
          StoredOf(net'[l][i]) \in message_buffer'[l[1]]
    BY <1>7, MajorityLinks DEF Copying, CopiesAreHeld
  <2>2. ASSUME NEW d \in Engines, fan_out'[d] # Idle
        PROVE  StoredOf(fan_out'[d].request) \in message_buffer'[d]
    BY <1>3, <1>4, <1>9, <1>10, <2>2 DEF Copying, CopiesAreHeld
  <2>3. ASSUME NEW n \in Nuzzles, NEW k \in Keys, NEW i \in DOMAIN copies[n][k]
        PROVE  \E s \in message_buffer'[copies[n][k][i]] : KeyOf(s) = k
    <3>1. copies[n][k][i] \in Engines
      BY <2>3, CopyForm
    <3>2. PICK s \in message_buffer[copies[n][k][i]] : KeyOf(s) = k
      BY <2>3 DEF Copying, CopiesAreHeld
    <3> QED
      BY <3>1, <3>2
  <2> QED
    BY <1>2, <2>1, <2>2, <2>3 DEF CopiesAreHeld
<1>14. CopiesAreSentOnce'
  <2>0. copies' = copies
    BY <1>2
  <2>1. \A d \in Engines, n \in Nuzzles :
          <<d, n>> \in CopyLinks /\ net'[<<d, n>>] = net[<<d, n>>]
    BY <1>7, MajorityLinks
  <2>2. \A d \in Engines, n \in Nuzzles : d # e => (Pending(d, n)' <=> Pending(d, n))
    BY <1>10 DEF Pending
  <2>3. ASSUME NEW n \in Nuzzles, Pending(e, n)'
        PROVE  fan_out'[e].request = PublishOf(request)
    BY <1>9, <1>10, <2>3 DEF Pending
  <2>4. ASSUME NEW n \in Nuzzles, NEW i \in DOMAIN net[<<e, n>>]
        PROVE  net[<<e, n>>][i].global_id # request.global_id
    <3>1. StoredOf(net[<<e, n>>][i]) \in message_buffer[e]
      BY <2>1, <2>4 DEF Copying, CopiesAreHeld
    <3>2. StoredOf(net[<<e, n>>][i]).global_id = net[<<e, n>>][i].global_id
      BY DEF StoredOf
    <3> QED
      BY <1>8, <3>1, <3>2
  <2>5. ASSUME NEW n \in Nuzzles, NEW k \in Keys, NEW i \in DOMAIN copies[n][k],
               copies[n][k][i] = e
        PROVE  <<request.topic_id, request.global_id>> # k
    <3>1. PICK s \in message_buffer[e] : KeyOf(s) = k
      BY <2>5 DEF Copying, CopiesAreHeld
    <3> QED
      BY <1>8, <3>1 DEF KeyOf
  <2>6. ASSUME NEW d \in Engines, NEW n \in Nuzzles, Pending(d, n)',
               NEW i \in DOMAIN net'[<<d, n>>]
        PROVE  net'[<<d, n>>][i].global_id # fan_out'[d].request.global_id
    <3>1. CASE d = e
      BY <1>3, <2>1, <2>3, <2>4, <2>6, <3>1
    <3>2. CASE d # e
      BY <1>10, <2>1, <2>2, <2>6, <3>2 DEF Copying, CopiesAreSentOnce
    <3> QED
      BY <3>1, <3>2
  <2>7. ASSUME NEW n \in Nuzzles, NEW k \in Keys, NEW d \in Engines,
               \E i \in DOMAIN copies'[n][k] : copies'[n][k][i] = d, Pending(d, n)'
        PROVE  KeyOf(fan_out'[d].request) # k
    <3>1. CASE d = e
      BY <1>3, <2>0, <2>3, <2>5, <2>7, <3>1
    <3>2. CASE d # e
      <4>1. Pending(d, n) /\ fan_out'[d] = fan_out[d]
        BY <1>10, <2>2, <2>7, <3>2
      <4>2. \E i \in DOMAIN copies[n][k] : copies[n][k][i] = d
        BY <2>0, <2>7
      <4>3. KeyOf(fan_out[d].request) # k
        BY <4>1, <4>2 DEF Copying, CopiesAreSentOnce
      <4> QED
        BY <4>1, <4>3
    <3> QED
      BY <3>1, <3>2
  <2>8. \A l \in CopyLinks : \A i, j \in DOMAIN net'[l] :
          net'[l][i].global_id = net'[l][j].global_id => i = j
    BY <1>7 DEF Copying, CopiesAreSentOnce
  <2>9. ASSUME NEW n \in Nuzzles, NEW k \in Keys, NEW d \in Engines,
               \E i \in DOMAIN copies'[n][k] : copies'[n][k][i] = d,
               NEW j \in DOMAIN net'[<<d, n>>]
        PROVE  KeyOf(net'[<<d, n>>][j]) # k
    BY <2>0, <2>1, <2>9 DEF Copying, CopiesAreSentOnce
  <2>10. \A n \in Nuzzles, k \in Keys : \A i, j \in DOMAIN copies'[n][k] :
           copies'[n][k][i] = copies'[n][k][j] => i = j
    BY <1>2 DEF Copying, CopiesAreSentOnce
  <2> QED
    BY <2>6, <2>7, <2>8, <2>9, <2>10 DEF CopiesAreSentOnce
<1> QED
  BY <1>2, <1>7, <1>11, <1>12, <1>13, <1>14 DEF Copying, NoDelivery, Kept

(* A loop sends to the nuzzle it has come to and to none twice. *)
LEMMA FanOutCopying ==
    ASSUME Typed, RegisteredOnce, Copying, NEW e \in Engines, FanOutPublish(e), EngineFrame
    PROVE  Copying' /\ NoDelivery
<1> DEFINE loop == fan_out[e]
           request == loop.request
           vector == subscriptions[e][request.topic_id]
           m == loop.range[loop.next]
           link == <<e, m>>
<1>1. /\ loop # Idle
      /\ fan_out' = [fan_out EXCEPT ![e] = AdvanceLoop(loop)]
      /\ UNCHANGED <<message_buffer, subscriptions, copies, delivery, log_buffer>>
  BY DEF FanOutPublish, EngineFrame, nuzzleVars, consumerVars
<1>2. /\ loop \in LoopOver(Nuzzles) /\ loop.range \in Seq(Nuzzles) /\ m \in Nuzzles
      /\ loop.next \in DOMAIN loop.range /\ request \in RequestPublish
      /\ request \in Messages /\ request.topic_id \in Topics /\ vector \in Seq(Nuzzles)
  <2>1. /\ loop \in LoopOver(Nuzzles) /\ loop.range \in Seq(Nuzzles)
        /\ loop.next \in DOMAIN loop.range /\ request \in RequestPublish
    BY <1>1, CopyForm
  <2>2. request \in Messages /\ request.topic_id \in Topics
    BY <2>1 DEF Messages, RequestPublish
  <2>3. m \in Nuzzles
    BY <2>1
  <2>4. vector \in Seq(Nuzzles)
    BY <2>2, CopyForm
  <2> QED
    BY <2>1, <2>2, <2>3, <2>4
<1>3. \A i \in DOMAIN loop.range : i \in DOMAIN vector /\ vector[i] = loop.range[i]
  BY <1>1 DEF Copying, LoopsCurrent
<1>4. net' = Posted(net, e, {m}, request)
  <2>1. LoopReads(loop, vector) = {m}
    BY <1>2, <1>3 DEF LoopReads
  <2> QED
    BY <2>1 DEF FanOutPublish
<1>5. Pending(e, m)
  BY <1>1, <1>2 DEF Pending
<1>6. \A d \in Engines : fan_out'[d] = IF d = e THEN AdvanceLoop(loop) ELSE fan_out[d]
  BY <1>1, CopyForm
<1>7. fan_out'[e] # Idle =>
        /\ fan_out'[e].request = request /\ fan_out'[e].range = loop.range
        /\ fan_out'[e].next = loop.next + 1
  BY <1>2, <1>6 DEF AdvanceLoop, LoopOver
<1>8. ASSUME NEW n \in Nuzzles, Pending(e, n)' PROVE Pending(e, n) /\ n # m
  <2>1. ASSUME NEW j \in DOMAIN loop.range, loop.range[j] = m PROVE j = loop.next
    BY <1>2, <1>3, <2>1 DEF RegisteredOnce
  <2>2. loop.next \in Nat /\ loop.next + 1 > loop.next
    BY <1>2 DEF LoopOver
  <2>3. fan_out'[e] # Idle /\ \E j \in DOMAIN fan_out'[e].range :
          j >= fan_out'[e].next /\ fan_out'[e].range[j] = n
    BY <1>8 DEF Pending
  <2>4. PICK j \in DOMAIN loop.range : j >= loop.next + 1 /\ loop.range[j] = n
    BY <1>7, <2>3
  <2>5. j \in Nat /\ j >= loop.next /\ j # loop.next
    BY <1>2, <2>2, <2>4
  <2> QED
    BY <1>1, <2>1, <2>4, <2>5 DEF Pending
<1>9. \A d \in Engines, n \in Nuzzles : Pending(d, n)' =>
        /\ Pending(d, n) /\ <<d, n>> # link
        /\ fan_out'[d].request = fan_out[d].request
  <2> SUFFICES ASSUME NEW d \in Engines, NEW n \in Nuzzles, Pending(d, n)'
               PROVE  /\ Pending(d, n) /\ <<d, n>> # link
                      /\ fan_out'[d].request = fan_out[d].request
    OBVIOUS
  <2>1. CASE d = e
    <3>1. fan_out'[e] # Idle
      BY <2>1 DEF Pending
    <3>2. Pending(e, n) /\ n # m
      BY <1>8, <2>1
    <3> QED
      BY <1>7, <2>1, <3>1, <3>2
  <2>2. CASE d # e
    BY <1>6, <2>2 DEF Pending
  <2> QED
    BY <2>1, <2>2
<1> HIDE DEF m, request, loop
<1>10. /\ \A l \in WatchedLinks : l # link => net'[l] = net[l]
       /\ net'[link] = net[link] \/ net'[link] = Append(net[link], request)
  <2>1. \A l \in WatchedLinks : l \in Links
    BY WatchedWriters
  <2>2. \A l \in WatchedLinks : l[1] = e => l = <<l[1], l[2]>>
    BY MajorityLinks DEF WatchedLinks, EngineLinks
  <2>3. link \in Links
    BY <1>2, LinkEnds
  <2>4. ASSUME NEW l \in WatchedLinks, l # link PROVE net'[l] = net[l]
    <3>1. ~(l[1] = e /\ l[2] \in {m} \cap up)
      BY <2>2, <2>4
    <3> QED
      BY <1>4, <2>1, <3>1 DEF Posted
  <2> QED
    BY <1>4, <2>3, <2>4 DEF Posted
<1>11. link \in CopyLinks /\ net[link] \in Seq(Messages)
  BY <1>2, CopyForm, MajorityLinks DEF EngineLinks
<1>12. \A i \in DOMAIN net'[link] :
         \/ i \in DOMAIN net[link] /\ net'[link][i] = net[link][i]
         \/ i = Len(net[link]) + 1 /\ net'[link][i] = request
  <2>1. CASE net'[link] = net[link]
    BY <2>1
  <2>2. CASE net'[link] = Append(net[link], request)
    <3>1. \A i \in DOMAIN Append(net[link], request) :
            \/ i \in DOMAIN net[link] /\ Append(net[link], request)[i] = net[link][i]
            \/ i = Len(net[link]) + 1 /\ Append(net[link], request)[i] = request
      BY <1>2, <1>11, AppendIndices
    <3> QED
      BY <2>2, <3>1
  <2> QED
    BY <1>10, <2>1, <2>2
<1>13. \A l \in PrepareLinks \cup DeliveryLinks : net'[l] = net[l]
  <2>1. \A l \in PrepareLinks \cup DeliveryLinks : l # link /\ l \in WatchedLinks
    BY <1>2, MajorityLinks, ProcessesDisjoint DEF WatchedLinks, EngineLinks
  <2> QED
    BY <1>10, <2>1
<1>14. PreparedOnce'
  BY <1>1, <1>13 DEF Copying, PreparedOnce
<1>15. LoopsCurrent'
  <2> SUFFICES ASSUME NEW d \in Engines, fan_out'[d] # Idle, NEW i \in DOMAIN fan_out'[d].range
               PROVE  /\ i \in DOMAIN subscriptions[d][fan_out'[d].request.topic_id]
                      /\ subscriptions[d][fan_out'[d].request.topic_id][i] = fan_out'[d].range[i]
    BY <1>1 DEF LoopsCurrent
  <2>1. CASE d = e
    BY <1>3, <1>7, <2>1
  <2>2. CASE d # e
    BY <1>6, <2>2 DEF Copying, LoopsCurrent
  <2> QED
    BY <2>1, <2>2
<1>16. StoredOf(request) \in message_buffer[e]
  BY <1>1 DEF Copying, CopiesAreHeld, request, loop
<1>17. CopiesAreHeld'
  <2>1. ASSUME NEW l \in CopyLinks, NEW i \in DOMAIN net'[l]
        PROVE  StoredOf(net'[l][i]) \in message_buffer[l[1]]
    <3>1. CASE l = link
      <4>1. l[1] = e
        BY <3>1
      <4> QED
        BY <1>11, <1>12, <1>16, <2>1, <3>1, <4>1 DEF Copying, CopiesAreHeld
    <3>2. CASE l # link
      BY <1>10, <2>1, <3>2 DEF Copying, CopiesAreHeld, WatchedLinks, EngineLinks
    <3> QED
      BY <3>1, <3>2
  <2>2. ASSUME NEW d \in Engines, fan_out'[d] # Idle
        PROVE  StoredOf(fan_out'[d].request) \in message_buffer[d]
    <3>1. CASE d = e
      BY <1>7, <1>16, <2>2, <3>1
    <3>2. CASE d # e
      BY <1>6, <2>2, <3>2 DEF Copying, CopiesAreHeld
    <3> QED
      BY <3>1, <3>2
  <2>3. \A n \in Nuzzles, k \in Keys : \A i \in DOMAIN copies[n][k] :
          \E s \in message_buffer[copies[n][k][i]] : KeyOf(s) = k
    BY DEF Copying, CopiesAreHeld
  <2> QED
    BY <1>1, <2>1, <2>2, <2>3 DEF CopiesAreHeld
<1>18. CopiesAreSentOnce'
  <2>1. \A i \in DOMAIN net[link] : net[link][i].global_id # request.global_id
    BY <1>2, <1>5 DEF Copying, CopiesAreSentOnce, request, loop
  <2>2. ASSUME NEW l \in CopyLinks, NEW i \in DOMAIN net'[l], NEW j \in DOMAIN net'[l],
               net'[l][i].global_id = net'[l][j].global_id
        PROVE  i = j
    <3>1. CASE l = link
      <4>1. \A i1, j1 \in DOMAIN net[link] :
              net[link][i1].global_id = net[link][j1].global_id => i1 = j1
        BY <1>11 DEF Copying, CopiesAreSentOnce
      <4> QED
        BY <1>12, <2>1, <2>2, <3>1, <4>1
    <3>2. CASE l # link
      <4>1. net'[l] = net[l]
        BY <1>10, <3>2 DEF WatchedLinks, EngineLinks
      <4> QED
        BY <2>2, <4>1 DEF Copying, CopiesAreSentOnce
    <3> QED
      BY <3>1, <3>2
  <2>3. ASSUME NEW d \in Engines, NEW n \in Nuzzles, Pending(d, n)',
               NEW i \in DOMAIN net'[<<d, n>>]
        PROVE  net'[<<d, n>>][i].global_id # fan_out'[d].request.global_id
    <3>1. <<d, n>> \in WatchedLinks
      BY MajorityLinks DEF WatchedLinks, EngineLinks
    <3>2. net'[<<d, n>>] = net[<<d, n>>]
      BY <1>9, <1>10, <2>3, <3>1
    <3> QED
      BY <1>9, <2>3, <3>2 DEF Copying, CopiesAreSentOnce
  <2>4. ASSUME NEW n \in Nuzzles, NEW k \in Keys, NEW d \in Engines,
               \E i \in DOMAIN copies[n][k] : copies[n][k][i] = d
        PROVE  /\ \A j \in DOMAIN net'[<<d, n>>] : KeyOf(net'[<<d, n>>][j]) # k
               /\ Pending(d, n)' => KeyOf(fan_out'[d].request) # k
    <3>0. /\ \A j \in DOMAIN net[<<d, n>>] : KeyOf(net[<<d, n>>][j]) # k
          /\ Pending(d, n) => KeyOf(fan_out[d].request) # k
      BY <2>4 DEF Copying, CopiesAreSentOnce
    <3>1. Pending(d, n)' => KeyOf(fan_out'[d].request) # k
      BY <1>9, <3>0
    <3>2. ASSUME NEW j \in DOMAIN net'[<<d, n>>] PROVE KeyOf(net'[<<d, n>>][j]) # k
      <4>1. CASE <<d, n>> = link
        <5>1. d = e /\ n = m
          BY <4>1
        <5>2. KeyOf(request) # k
          BY <1>5, <3>0, <5>1 DEF request, loop
        <5> QED
          BY <1>12, <3>0, <3>2, <4>1, <5>2
      <4>2. CASE <<d, n>> # link
        <5>1. net'[<<d, n>>] = net[<<d, n>>]
          BY <1>10, <4>2, MajorityLinks DEF WatchedLinks, EngineLinks
        <5> QED
          BY <3>0, <3>2, <5>1
      <4> QED
        BY <4>1, <4>2
    <3> QED
      BY <3>1, <3>2
  <2>5. \A n \in Nuzzles, k \in Keys : \A i, j \in DOMAIN copies[n][k] :
          copies[n][k][i] = copies[n][k][j] => i = j
    BY DEF Copying, CopiesAreSentOnce
  <2> QED
    BY <1>1, <2>2, <2>3, <2>4, <2>5 DEF CopiesAreSentOnce
<1> QED
  BY <1>1, <1>13, <1>14, <1>15, <1>17, <1>18 DEF Copying, NoDelivery, Kept

(* A copy that is counted is the last its engine sends of a publication. *)
LEMMA CountCopying ==
    ASSUME Typed, Copying, NEW n \in Nuzzles, NEW e \in Engines,
           OnPublishReceived(n, e), NuzzleFrame
    PROVE  Copying'
<1> DEFINE link == <<e, n>>
           request == net[link][1]
           key == <<request.topic_id, request.global_id>>
           received == Append(copies[n][key], e)
<1>1. /\ link \in CopyLinks /\ net[link] # << >> /\ net[link] \in Seq(Messages)
      /\ 1 \in DOMAIN net[link] /\ request = Head(net[link]) /\ request \in RequestPublish
  <2>1. link \in CopyLinks /\ net[link] # << >>
    BY MajorityLinks DEF OnPublishReceived, Arrived
  <2>2. net[link] \in Seq(Messages)
    BY <2>1, CopyForm DEF EngineLinks
  <2>3. 1 \in DOMAIN net[link] /\ request = Head(net[link])
    BY <2>1, <2>2
  <2> QED
    BY <2>1, <2>2, <2>3, CopyForm
<1>2. /\ copies' = [copies EXCEPT ![n][key] = Forgotten(received)]
      /\ net' = Taken(link)
      /\ UNCHANGED <<message_buffer, subscriptions, fan_out>>
  BY <1>1 DEF OnPublishReceived, NuzzleFrame, engineVars
<1>3. key \in Keys /\ copies[n][key] \in Seq(Engines)
  <2>1. key \in Keys
    BY <1>1 DEF Keys, RequestPublish
  <2> QED
    BY <2>1, CopyForm
<1>4. KeyOf(request) = key /\ KeyOf(StoredOf(request)) = key
  BY DEF KeyOf, StoredOf
<1> HIDE DEF request, key
<1>5. \A m \in Nuzzles, k \in Keys : \A i \in DOMAIN copies'[m][k] :
        \/ i \in DOMAIN copies[m][k] /\ copies'[m][k][i] = copies[m][k][i]
        \/ /\ m = n /\ k = key /\ i = Len(copies[n][key]) + 1
           /\ copies'[m][k][i] = e
  <2> SUFFICES ASSUME NEW m \in Nuzzles, NEW k \in Keys, NEW i \in DOMAIN copies'[m][k]
               PROVE  \/ i \in DOMAIN copies[m][k] /\ copies'[m][k][i] = copies[m][k][i]
                      \/ /\ m = n /\ k = key /\ i = Len(copies[n][key]) + 1
                         /\ copies'[m][k][i] = e
    OBVIOUS
  <2>1. CASE m = n /\ k = key
    <3>1. copies'[m][k] = Forgotten(received)
      BY <1>2, <1>3, <2>1, CopyForm
    <3>2. i \in DOMAIN received /\ copies'[m][k][i] = received[i]
      BY <3>1 DEF Forgotten
    <3>3. \/ i \in DOMAIN copies[n][key] /\ received[i] = copies[n][key][i]
          \/ i = Len(copies[n][key]) + 1 /\ received[i] = e
      BY <1>3, <3>2, AppendIndices
    <3> QED
      BY <2>1, <3>2, <3>3
  <2>2. CASE ~(m = n /\ k = key)
    <3>1. copies'[m][k] = copies[m][k]
      BY <1>2, <2>2, CopyForm
    <3> QED
      BY <3>1
  <2> QED
    BY <2>1, <2>2
<1>6. /\ \A l \in WatchedLinks : l # link => net'[l] = net[l]
      /\ \A i \in DOMAIN net'[link] :
           /\ i \in Nat \ {0} /\ i + 1 \in DOMAIN net[link]
           /\ net'[link][i] = net[link][i + 1]
  <2>1. net \in Queues /\ link \in Links
    BY CopyForm, LinkEnds
  <2>2. \A l \in WatchedLinks : l # link => net'[l] = net[l]
    BY <1>2, <2>1, WatchedWriters DEF Taken, Queues
  <2>3. net'[link] = Tail(net[link])
    BY <1>2, <2>1 DEF Taken, Queues
  <2> QED
    BY <1>1, <2>2, <2>3, TailIndices
<1>7. \A i \in DOMAIN net[link] : net[link][i].global_id = request.global_id => i = 1
  BY <1>1 DEF Copying, CopiesAreSentOnce, request
<1>8. \A i \in DOMAIN copies[n][key] : copies[n][key][i] # e
  BY <1>1, <1>3, <1>4 DEF Copying, CopiesAreSentOnce, request
<1>9. StoredOf(request) \in message_buffer[e]
  BY <1>1 DEF Copying, CopiesAreHeld, request
<1>10. \A l \in PrepareLinks : net'[l] = net[l]
  <2>1. \A l \in PrepareLinks : l # link /\ l \in WatchedLinks
    BY <1>1, MajorityLinks, ProcessesDisjoint DEF WatchedLinks, EngineLinks
  <2> QED
    BY <1>6, <2>1
<1>11. PreparedOnce' /\ LoopsCurrent'
  BY <1>2, <1>10 DEF Copying, PreparedOnce, LoopsCurrent
<1>12. \A l \in CopyLinks : \A i \in DOMAIN net'[l] :
         \E j \in DOMAIN net[l] :
           /\ net'[l][i] = net[l][j]
           /\ l = link => j = i + 1 /\ i \in Nat \ {0}
           /\ l # link => j = i
  BY <1>6 DEF WatchedLinks, EngineLinks
<1>13. CopiesAreHeld'
  <2>1. \A l \in CopyLinks : \A i \in DOMAIN net'[l] :
          StoredOf(net'[l][i]) \in message_buffer[l[1]]
    BY <1>12 DEF Copying, CopiesAreHeld
  <2>2. \A d \in Engines : fan_out[d] # Idle => StoredOf(fan_out[d].request) \in message_buffer[d]
    BY DEF Copying, CopiesAreHeld
  <2>3. ASSUME NEW m \in Nuzzles, NEW k \in Keys, NEW i \in DOMAIN copies'[m][k]
        PROVE  \E s \in message_buffer[copies'[m][k][i]] : KeyOf(s) = k
    <3>1. CASE i \in DOMAIN copies[m][k] /\ copies'[m][k][i] = copies[m][k][i]
      BY <3>1 DEF Copying, CopiesAreHeld
    <3>2. CASE k = key /\ copies'[m][k][i] = e
      BY <1>4, <1>9, <3>2
    <3> QED
      BY <1>5, <2>3, <3>1, <3>2
  <2> QED
    BY <1>2, <2>1, <2>2, <2>3 DEF CopiesAreHeld
<1>14. CopiesAreSentOnce'
  <2>1. ASSUME NEW l \in CopyLinks, NEW i \in DOMAIN net'[l], NEW j \in DOMAIN net'[l],
               net'[l][i].global_id = net'[l][j].global_id
        PROVE  i = j
    <3>1. CASE l = link
      <4>1. /\ i \in Nat /\ i + 1 \in DOMAIN net[link] /\ net'[link][i] = net[link][i + 1]
            /\ j \in Nat /\ j + 1 \in DOMAIN net[link] /\ net'[link][j] = net[link][j + 1]
        BY <1>6, <2>1, <3>1
      <4>2. i + 1 = j + 1
        BY <1>1, <2>1, <3>1, <4>1 DEF Copying, CopiesAreSentOnce
      <4> QED
        BY <4>1, <4>2
    <3>2. CASE l # link
      BY <1>6, <2>1, <3>2 DEF Copying, CopiesAreSentOnce, WatchedLinks, EngineLinks
    <3> QED
      BY <3>1, <3>2
  <2>2. \A d \in Engines, m \in Nuzzles : Pending(d, m)' <=> Pending(d, m)
    BY <1>2 DEF Pending
  <2>3. ASSUME NEW d \in Engines, NEW m \in Nuzzles, Pending(d, m)',
               NEW i \in DOMAIN net'[<<d, m>>]
        PROVE  net'[<<d, m>>][i].global_id # fan_out'[d].request.global_id
    <3>1. PICK j \in DOMAIN net[<<d, m>>] : net'[<<d, m>>][i] = net[<<d, m>>][j]
      BY <1>12, <2>3, MajorityLinks
    <3> QED
      BY <1>2, <2>2, <2>3, <3>1 DEF Copying, CopiesAreSentOnce
  <2>4. ASSUME NEW m \in Nuzzles, NEW k \in Keys, NEW i \in DOMAIN copies'[m][k],
               NEW j \in DOMAIN copies'[m][k], copies'[m][k][i] = copies'[m][k][j]
        PROVE  i = j
    <3>1. \A i1, j1 \in DOMAIN copies[m][k] : copies[m][k][i1] = copies[m][k][j1] => i1 = j1
      BY DEF Copying, CopiesAreSentOnce
    <3> QED
      BY <1>5, <1>8, <2>4, <3>1
  <2>5. ASSUME NEW m \in Nuzzles, NEW k \in Keys, NEW d \in Engines,
               \E i \in DOMAIN copies'[m][k] : copies'[m][k][i] = d
        PROVE  /\ \A j \in DOMAIN net'[<<d, m>>] : KeyOf(net'[<<d, m>>][j]) # k
               /\ Pending(d, m)' => KeyOf(fan_out'[d].request) # k
    <3>1. CASE \E i \in DOMAIN copies[m][k] : copies[m][k][i] = d
      <4>1. /\ \A j \in DOMAIN net[<<d, m>>] : KeyOf(net[<<d, m>>][j]) # k
            /\ Pending(d, m) => KeyOf(fan_out[d].request) # k
        BY <3>1 DEF Copying, CopiesAreSentOnce
      <4>2. \A j \in DOMAIN net'[<<d, m>>] : \E i \in DOMAIN net[<<d, m>>] :
              net'[<<d, m>>][j] = net[<<d, m>>][i]
        BY <1>12, MajorityLinks
      <4>3. ASSUME NEW j \in DOMAIN net'[<<d, m>>] PROVE KeyOf(net'[<<d, m>>][j]) # k
        BY <4>1, <4>2
      <4> QED
        BY <1>2, <2>2, <4>1, <4>3
    <3>2. CASE m = n /\ k = key /\ d = e
      <4>1. ASSUME NEW j \in DOMAIN net'[link] PROVE KeyOf(net'[link][j]) # key
        <5>1. /\ j + 1 \in DOMAIN net[link] /\ j + 1 # 1
              /\ net'[link][j] = net[link][j + 1]
          BY <1>6, <4>1
        <5>2. net[link][j + 1].global_id # request.global_id
          BY <1>7, <5>1
        <5> QED
          BY <5>1, <5>2 DEF KeyOf, key
      <4>2. ASSUME Pending(e, n) PROVE KeyOf(fan_out[e].request) # key
        <5>1. request.global_id # fan_out[e].request.global_id
          BY <1>1, <4>2 DEF Copying, CopiesAreSentOnce, request
        <5> QED
          BY <5>1 DEF KeyOf, key
      <4> QED
        BY <1>2, <2>2, <3>2, <4>1, <4>2
    <3> QED
      BY <1>5, <2>5, <3>1, <3>2
  <2> QED
    BY <2>1, <2>3, <2>4, <2>5 DEF CopiesAreSentOnce
<1> QED
  BY <1>11, <1>13, <1>14 DEF Copying

----------------------------------------------------------------------------
(* Deliveries. *)

IsDelivered(r) ==
    \/ \E c \in Consumers : \E i \in DOMAIN log_buffer[c] : r = log_buffer[c][i]
    \/ \E l \in DeliveryLinks : \E i \in DOMAIN net[l] : r = net[l][i]
    \/ \E n \in Nuzzles : delivery[n] # Idle /\ r = delivery[n].request

MajorityHolds(r) == 2 * Cardinality(Holders(r)) > GroupSize

(* Delivered, element by element. *)
LEMMA DeliveredElements ==
    /\ \A r : r \in Delivered => IsDelivered(r)
    /\ \A r : IsDelivered(r) => r \in Delivered
    /\ \A r : r \in Delivered' => IsDelivered(r)'
<1>1. ASSUME NEW r, r \in Delivered PROVE IsDelivered(r)
  BY <1>1, Zenon DEF Delivered, IsDelivered, Range, DeliveryLinks
<1>2. ASSUME NEW r, IsDelivered(r) PROVE r \in Delivered
  <2>1. CASE \E c \in Consumers : r \in Range(log_buffer[c])
    BY <2>1, Zenon DEF Delivered
  <2>2. CASE \E l \in Nuzzles \X Consumers : r \in Range(net[l])
    BY <2>2, Zenon DEF Delivered
  <2>3. CASE \E n \in Nuzzles : delivery[n] # Idle /\ r = delivery[n].request
    BY <2>3, Zenon DEF Delivered
  <2> QED
    BY <1>2, <2>1, <2>2, <2>3, Zenon DEF IsDelivered, Range, DeliveryLinks
<1>3. ASSUME NEW r, r \in Delivered' PROVE IsDelivered(r)'
  BY <1>3, Zenon DEF Delivered, IsDelivered, Range, DeliveryLinks
<1> QED
  BY <1>1, <1>2, <1>3

(* A step that delivers only what a majority holds. *)
LEMMA StoredStep ==
    ASSUME Typed, IsFiniteSet(Engines), DeliveredIsStored,
           \A e \in Engines : message_buffer[e] \subseteq message_buffer'[e],
           \A r : IsDelivered(r)' => IsDelivered(r) \/ MajorityHolds(r)
    PROVE  DeliveredIsStored'
<1> SUFFICES ASSUME NEW r \in Delivered' PROVE MajorityHolds(r)'
  BY DEF DeliveredIsStored, MajorityHolds
<1>1. MajorityHolds(r)
  BY DeliveredElements DEF DeliveredIsStored, MajorityHolds
<1>2. Holders(r) \subseteq Holders(r)' /\ Holders(r)' \in SUBSET Engines
  BY DEF Holders
<1>3. IsFiniteSet(Holders(r)')
  BY <1>2, FS_Subset
<1>4. /\ Cardinality(Holders(r)) \in Nat /\ Cardinality(Holders(r)') \in Nat
      /\ Cardinality(Holders(r)) <= Cardinality(Holders(r)')
  <2>1. IsFiniteSet(Holders(r)) /\ Cardinality(Holders(r)) <= Cardinality(Holders(r)')
    BY <1>2, <1>3, FS_Subset
  <2> QED
    BY <1>3, <2>1, FS_CardinalityType
<1> QED
  BY <1>1, <1>4, NumbersAssumption DEF MajorityHolds

(* Steps that deliver nothing. *)
LEMMA NoDeliveryAdds ==
    ASSUME NoDelivery
    PROVE  \A r : IsDelivered(r)' => IsDelivered(r)
  BY DEF NoDelivery, Kept, IsDelivered

(* A nuzzle's loop sends what is being delivered. *)
LEMMA DeliverAdds ==
    ASSUME Typed, NEW n \in Nuzzles, Deliver(n), NuzzleFrame
    PROVE  NoCopy /\ \A r : IsDelivered(r)' => IsDelivered(r)
<1> DEFINE request == delivery[n].request
<1>1. PICK c : net' = Posted(net, n, {c}, request)
  BY DEF Deliver
<1>2. /\ delivery[n] # Idle /\ delivery' = [delivery EXCEPT ![n] = AdvanceLoop(@)]
      /\ UNCHANGED <<engineVars, copies, log_buffer>>
  BY DEF Deliver, NuzzleFrame, consumerVars
<1>3. delivery \in [Nuzzles -> LoopOver(Consumers) \cup {Idle}]
  BY DEF Typed, TypeOK, NuzzleTypeOK
<1>4. delivery[n] \in LoopOver(Consumers) /\ request \in Messages
  BY <1>2, <1>3 DEF LoopOver, Messages
<1>5. \A m \in Nuzzles : delivery'[m] # Idle =>
        delivery[m] # Idle /\ delivery'[m].request = delivery[m].request
  <2>1. AdvanceLoop(delivery[n]) # Idle => AdvanceLoop(delivery[n]).request = request
    BY <1>4 DEF AdvanceLoop, LoopOver
  <2> QED
    BY <1>2, <1>3, <2>1
<1> HIDE DEF request
<1>6. ASSUME NEW l \in DeliveryLinks, NEW i \in DOMAIN net'[l]
      PROVE  (i \in DOMAIN net[l] /\ net'[l][i] = net[l][i]) \/ net'[l][i] = request
  <2>1. l \in Links /\ net[l] \in Seq(Messages)
    BY CopyForm, MajorityLinks
  <2>2. CASE net'[l] = net[l]
    BY <2>2
  <2>3. CASE net'[l] = Append(net[l], request)
    <3>1. \/ i \in DOMAIN net[l] /\ Append(net[l], request)[i] = net[l][i]
          \/ Append(net[l], request)[i] = request
      BY <1>4, <1>6, <2>1, <2>3, AppendIndices
    <3> QED
      BY <2>3, <3>1
  <2> QED
    BY <1>1, <2>1, <2>2, <2>3 DEF Posted
<1>7. \A l \in EngineLinks : net'[l] = net[l]
  <2>1. \A l \in EngineLinks : l \in Links /\ l[1] # n
    BY MajorityLinks, ProcessesDisjoint DEF EngineLinks
  <2> QED
    BY <1>1, <2>1 DEF Posted
<1>8. NoCopy
  BY <1>2, <1>7 DEF NoCopy, Kept, engineVars
<1>9. IsDelivered(request)
  BY <1>2 DEF IsDelivered, request
<1>10. ASSUME NEW r, IsDelivered(r)' PROVE IsDelivered(r)
  <2>1. CASE \E c1 \in Consumers : \E i \in DOMAIN log_buffer'[c1] : r = log_buffer'[c1][i]
    BY <1>2, <2>1 DEF IsDelivered
  <2>2. CASE \E l \in DeliveryLinks : \E i \in DOMAIN net'[l] : r = net'[l][i]
    BY <1>6, <1>9, <2>2 DEF IsDelivered
  <2>3. CASE \E m \in Nuzzles : delivery'[m] # Idle /\ r = delivery'[m].request
    BY <1>5, <2>3 DEF IsDelivered
  <2> QED
    BY <1>10, <2>1, <2>2, <2>3 DEF IsDelivered
<1> QED
  BY <1>8, <1>10

(* A consumer logs what was on its way to it. *)
LEMMA LogAdds ==
    ASSUME Typed, NEW c \in Consumers, NEW n \in Nuzzles, OnPublishLogged(c, n),
           ConsumerFrame
    PROVE  NoCopy /\ \A r : IsDelivered(r)' => IsDelivered(r)
<1> DEFINE link == <<n, c>>
           request == Head(net[link])
<1>1. /\ net' = Taken(link)
      /\ log_buffer' = [log_buffer EXCEPT ![c] = Append(@, request)]
      /\ UNCHANGED <<engineVars, copies, delivery>>
  BY DEF OnPublishLogged, ConsumerFrame, nuzzleVars
<1>2. /\ link \in DeliveryLinks /\ link \in Links /\ net \in Queues
      /\ net[link] # << >> /\ net[link] \in Seq(Messages)
  <2>1. link \in DeliveryLinks /\ net[link] # << >>
    BY MajorityLinks DEF OnPublishLogged, Arrived
  <2> QED
    BY <2>1, CopyForm, MajorityLinks
<1>3. 1 \in DOMAIN net[link] /\ request = net[link][1]
  BY <1>2
<1>4. request \in RequestPublish
  BY DeliveryArrived DEF OnPublishLogged
<1>5. IsDelivered(request)
  BY <1>2, <1>3 DEF IsDelivered
<1> HIDE DEF request
<1>6. \A l \in WatchedLinks : l # link => net'[l] = net[l]
  BY <1>1, <1>2, WatchedWriters DEF Taken, Queues
<1>7. \A i \in DOMAIN net'[link] : i + 1 \in DOMAIN net[link] /\ net'[link][i] = net[link][i + 1]
  <2>1. net'[link] = Tail(net[link])
    BY <1>1, <1>2 DEF Taken, Queues
  <2> QED
    BY <1>2, <2>1, TailIndices
<1>8. NoCopy
  <2>1. \A l \in EngineLinks : l # link /\ l \in WatchedLinks
    BY <1>2, MajorityLinks, ProcessesDisjoint DEF WatchedLinks, EngineLinks
  <2> QED
    BY <1>1, <1>6, <2>1 DEF NoCopy, Kept, engineVars
<1>9. ASSUME NEW d \in Consumers, NEW i \in DOMAIN log_buffer'[d]
      PROVE  IsDelivered(log_buffer'[d][i])
  <2>1. log_buffer[c] \in Seq(RequestPublish) /\ log_buffer \in [Consumers -> Seq(RequestPublish)]
    BY DEF Typed, TypeOK, ConsumerTypeOK
  <2>2. CASE d = c
    <3>1. log_buffer'[c] = Append(log_buffer[c], request)
      BY <1>1, <2>1
    <3>2. \/ i \in DOMAIN log_buffer[c] /\ Append(log_buffer[c], request)[i] = log_buffer[c][i]
          \/ Append(log_buffer[c], request)[i] = request
      BY <1>4, <1>9, <2>1, <2>2, <3>1, AppendIndices
    <3> QED
      BY <1>5, <2>2, <3>1, <3>2 DEF IsDelivered
  <2>3. CASE d # c
    <3>1. log_buffer'[d] = log_buffer[d]
      BY <1>1, <2>1, <2>3
    <3> QED
      BY <1>9, <3>1 DEF IsDelivered
  <2> QED
    BY <2>2, <2>3
<1>10. ASSUME NEW l \in DeliveryLinks, NEW i \in DOMAIN net'[l]
       PROVE  IsDelivered(net'[l][i])
  <2>1. CASE l = link
    BY <1>2, <1>7, <1>10, <2>1 DEF IsDelivered
  <2>2. CASE l # link
    BY <1>6, <1>10, <2>2 DEF IsDelivered, WatchedLinks
  <2> QED
    BY <2>1, <2>2
<1>11. ASSUME NEW r, IsDelivered(r)' PROVE IsDelivered(r)
  <2>1. CASE \E c1 \in Consumers : \E i \in DOMAIN log_buffer'[c1] : r = log_buffer'[c1][i]
    BY <1>9, <2>1
  <2>2. CASE \E l \in DeliveryLinks : \E i \in DOMAIN net'[l] : r = net'[l][i]
    BY <1>10, <2>2
  <2>3. CASE \E m \in Nuzzles : delivery'[m] # Idle /\ r = delivery'[m].request
    BY <1>1, <2>3 DEF IsDelivered
  <2> QED
    BY <1>11, <2>1, <2>2, <2>3 DEF IsDelivered
<1> QED
  BY <1>8, <1>11

(* The copy that completes a majority is one of as many as there are       *)
(* engines in it, each of which holds the publication.                     *)
LEMMA CountAdds ==
    ASSUME Typed, Replication, Copying, IsFiniteSet(Engines),
           NEW n \in Nuzzles, NEW e \in Engines, OnPublishReceived(n, e), NuzzleFrame
    PROVE  \A r : IsDelivered(r)' => IsDelivered(r) \/ MajorityHolds(r)
<1> DEFINE link == <<e, n>>
           request == net[link][1]
           key == <<request.topic_id, request.global_id>>
           received == Append(copies[n][key], e)
<1>1. /\ link \in CopyLinks /\ net[link] # << >> /\ net[link] \in Seq(Messages)
      /\ 1 \in DOMAIN net[link] /\ request = Head(net[link]) /\ request \in RequestPublish
      /\ net \in Queues /\ link \in Links
  <2>1. link \in CopyLinks /\ net[link] # << >>
    BY MajorityLinks DEF OnPublishReceived, Arrived
  <2>2. net[link] \in Seq(Messages)
    BY <2>1, CopyForm DEF EngineLinks
  <2>3. 1 \in DOMAIN net[link] /\ request = Head(net[link])
    BY <2>1, <2>2
  <2> QED
    BY <2>1, <2>2, <2>3, CopyForm, LinkEnds
<1>2. /\ net' = Taken(link) /\ log_buffer' = log_buffer
      /\ \/ delivery' = delivery
         \/ /\ Len(received) = Majority
            /\ delivery' = [delivery EXCEPT ![n] =
                 BeginLoop(request, consumer_subscriptions[n][request.topic_id])]
  BY <1>1 DEF OnPublishReceived, NuzzleFrame, consumerVars, CompletesMajority
<1>3. key \in Keys /\ copies[n][key] \in Seq(Engines)
  <2>1. key \in Keys
    BY <1>1 DEF Keys, RequestPublish
  <2> QED
    BY <2>1, CopyForm
<1>4. KeyOf(request) = key
  BY DEF KeyOf
<1>5. \A l \in DeliveryLinks : net'[l] = net[l]
  <2>1. \A l \in DeliveryLinks : l # link /\ l \in Links
    BY <1>1, MajorityLinks, ProcessesDisjoint
  <2> QED
    BY <1>1, <1>2, <2>1 DEF Taken, Queues
<1>6. \A i \in DOMAIN received : received[i] \in Holders(request)
  <2>1. StoredOf(request) \in message_buffer[e]
    BY <1>1 DEF Copying, CopiesAreHeld
  <2>2. StoredOf(request) \in Stored /\ InUse(StoredOf(request))
    BY <2>1, CopyForm DEF InUse
  <2>3. ASSUME NEW i \in DOMAIN copies[n][key]
        PROVE  copies[n][key][i] \in Holders(request)
    <3>1. copies[n][key][i] \in Engines
      BY <1>3
    <3>2. PICK s \in message_buffer[copies[n][key][i]] : KeyOf(s) = key
      BY <1>3 DEF Copying, CopiesAreHeld
    <3>3. s \in Stored /\ InUse(s)
      BY <3>1, <3>2, CopyForm DEF InUse
    <3>4. s.global_id = StoredOf(request).global_id
      BY <3>2 DEF KeyOf, StoredOf
    <3>5. s = StoredOf(request)
      BY <2>2, <3>3, <3>4 DEF Replication, IdsAreUsedOnce
    <3> QED
      BY <3>1, <3>2, <3>5 DEF Holders
  <2>4. e \in Holders(request)
    BY <2>1 DEF Holders
  <2> QED
    BY <1>3, <2>3, <2>4, AppendIndices, SMTT(30)
<1>7. \A i, j \in DOMAIN received : received[i] = received[j] => i = j
  <2>1. \A i \in DOMAIN copies[n][key] : copies[n][key][i] # e
    BY <1>1, <1>3, <1>4 DEF Copying, CopiesAreSentOnce
  <2>2. \A i, j \in DOMAIN copies[n][key] : copies[n][key][i] = copies[n][key][j] => i = j
    BY <1>3 DEF Copying, CopiesAreSentOnce
  <2> HIDE DEF key
  <2>3. \A i \in DOMAIN received :
          \/ i \in DOMAIN copies[n][key] /\ received[i] = copies[n][key][i]
          \/ i = Len(copies[n][key]) + 1 /\ received[i] = e
    BY <1>3, AppendIndices
  <2> HIDE DEF received
  <2> QED
    BY <2>1, <2>2, <2>3
<1>8. Len(received) = Majority => MajorityHolds(request)
  <2> SUFFICES ASSUME Len(received) = Majority PROVE MajorityHolds(request)
    OBVIOUS
  <2>1. Majority \in Nat /\ 2 * Majority > GroupSize
    BY NumbersAssumption DEF Majority
  <2>2. received \in Seq(Engines) /\ DOMAIN received = 1..Majority
    BY <1>3
  <2> HIDE DEF received, request, key
  <2>3. received \in Injection(1..Majority, Holders(request))
    <3>1. received \in [1..Majority -> Holders(request)]
      BY <1>6, <2>2
    <3> QED
      BY <1>7, <2>2, <3>1 DEF Injection, IsInjective
  <2>4. IsFiniteSet(Holders(request))
    BY FS_Subset DEF Holders
  <2>5. Cardinality(1..Majority) <= Cardinality(Holders(request))
    BY <2>3, <2>4, FS_Injection
  <2>6. Cardinality(1..Majority) = Majority
    BY <2>1, FS_Interval
  <2>7. Cardinality(Holders(request)) \in Nat
    BY <2>4, FS_CardinalityType
  <2> QED
    BY <2>1, <2>5, <2>6, <2>7, NumbersAssumption DEF MajorityHolds
<1>9. \A m \in Nuzzles : delivery'[m] # Idle =>
        \/ delivery[m] # Idle /\ delivery'[m].request = delivery[m].request
        \/ Len(received) = Majority /\ delivery'[m].request = request
  <2>1. delivery \in [Nuzzles -> LoopOver(Consumers) \cup {Idle}]
    BY DEF Typed, TypeOK, NuzzleTypeOK
  <2>2. \A range : BeginLoop(request, range) # Idle => BeginLoop(request, range).request = request
    BY DEF BeginLoop
  <2> HIDE DEF received, request
  <2> QED
    BY <1>2, <2>1, <2>2
<1> HIDE DEF received, request
<1>10. ASSUME NEW r, IsDelivered(r)' PROVE IsDelivered(r) \/ MajorityHolds(r)
  <2>1. CASE \E c1 \in Consumers : \E i \in DOMAIN log_buffer'[c1] : r = log_buffer'[c1][i]
    BY <1>2, <2>1 DEF IsDelivered
  <2>2. CASE \E l \in DeliveryLinks : \E i \in DOMAIN net'[l] : r = net'[l][i]
    BY <1>5, <2>2 DEF IsDelivered
  <2>3. CASE \E m \in Nuzzles : delivery'[m] # Idle /\ r = delivery'[m].request
    BY <1>8, <1>9, <2>3 DEF IsDelivered
  <2> QED
    BY <1>10, <2>1, <2>2, <2>3 DEF IsDelivered
<1> QED
  BY <1>10

----------------------------------------------------------------------------
(* The theorem. *)

(* What every step does to the copies and to what is delivered. *)
LEMMA NextCopying ==
    ASSUME Typed, Integrity, OneCounter, IdsSuffice, IsFiniteSet(Engines),
           Replication, RegisteredOnce, Copying, [Next]_vars
    PROVE  Copying' /\ \A r : IsDelivered(r)' => IsDelivered(r) \/ MajorityHolds(r)
<1> DEFINE Right == Copying' /\ \A r : IsDelivered(r)' => IsDelivered(r) \/ MajorityHolds(r)
<1>1. QuietStep => Right
  BY NoCopyCopying, NoDeliveryAdds DEF QuietStep
<1>2. NoDelivery => \A r : IsDelivered(r)' => IsDelivered(r)
  BY NoDeliveryAdds
<1>3. CASE PumpStep
  <2>1. ASSUME NEW p \in Pumps, NEW b \in Publishers, OnPublishReceive(p, b)
        PROVE  Right
    BY <1>2, <1>3, <2>1, NumberCopying DEF PumpStep
  <2> QED
    BY <1>1, <1>3, <2>1, PumpQuiet
<1>4. CASE EngineStep
  <2>1. ASSUME NEW e \in Engines, NEW p \in Pumps, OnPrepareReceive(e, p)
        PROVE  Right
    BY <1>2, <1>4, <2>1, PrepareCopying, StepReplacesNothing DEF EngineStep
  <2>2. ASSUME NEW e \in Engines, FanOutPublish(e) PROVE Right
    BY <1>2, <1>4, <2>2, FanOutCopying DEF EngineStep
  <2> QED
    BY <1>1, <1>4, <2>1, <2>2, EngineQuiet
<1>5. CASE NuzzleStep
  <2>1. ASSUME NEW n \in Nuzzles, NEW e \in Engines, OnPublishReceived(n, e)
        PROVE  Right
    BY <1>5, <2>1, CountCopying, CountAdds DEF NuzzleStep
  <2>2. ASSUME NEW n \in Nuzzles, Deliver(n) PROVE Right
    BY <1>5, <2>2, DeliverAdds, NoCopyCopying DEF NuzzleStep
  <2> QED
    BY <1>1, <1>5, <2>1, <2>2, NuzzleQuiet
<1>6. CASE ConsumerStep
  <2>1. ASSUME NEW c \in Consumers, NEW n \in Nuzzles, OnPublishLogged(c, n)
        PROVE  Right
    BY <1>6, <2>1, LogAdds, NoCopyCopying DEF ConsumerStep
  <2> QED
    BY <1>1, <1>6, <2>1, ConsumerQuiet
<1>7. CASE PublisherStep \/ TransportStep
  BY <1>1, <1>7, PublisherQuiet, TransportQuiet
<1>8. CASE UNCHANGED vars
  <2>1. QuietStep
    BY <1>8, KeptIsQuiet DEF vars, transportVars, nuzzleVars, consumerVars, Kept
  <2> QED
    BY <1>1, <2>1
<1> QED
  BY <1>3, <1>4, <1>5, <1>6, <1>7, <1>8 DEF Next

(* A consumer is delivered only what a majority of the group has stored    *)
(* (the nuzzle's count of copies in on_publish_receive), as long as one    *)
(* pump numbers what is published with ids enough for all of it and each   *)
(* consumer subscribes once, at a nuzzle of its own: the count is then one *)
(* of engines, and of engines that hold what is delivered, whatever is     *)
(* lost and whoever exits.                                                 *)
THEOREM DeliveredIsAlwaysStored ==
    ASSUME OneCounter, IdsSuffice, SubscribesOnce, IsFiniteSet(Engines)
    PROVE  Spec => []DeliveredIsStored
<1>1. Init => Integrity /\ Replication /\ Copying /\ DeliveredIsStored
  <2> SUFFICES ASSUME Init PROVE Integrity /\ Replication /\ Copying /\ DeliveredIsStored
    OBVIOUS
  <2>1. Integrity
    BY DEF Init, TransportInit, EngineInit, NuzzleInit, ConsumerInit, Integrity,
           QueuesFrom, LoopFrom
  <2>2. Replication
    BY InitReplication
  <2>3. /\ \A l \in WatchedLinks : net[l] = << >>
        /\ \A e \in Engines : fan_out[e] = Idle
        /\ \A n \in Nuzzles : delivery[n] = Idle
        /\ \A n \in Nuzzles, k \in Keys : copies[n][k] = << >>
        /\ \A c \in Consumers : log_buffer[c] = << >>
    BY WatchedWriters DEF Init, TransportInit, EngineInit, NuzzleInit, ConsumerInit
  <2>4. Copying
    BY <2>3, MajorityLinks
    DEF Copying, PreparedOnce, LoopsCurrent, CopiesAreHeld, CopiesAreSentOnce, Pending,
        WatchedLinks, EngineLinks
  <2>5. \A r : ~IsDelivered(r)
    BY <2>3 DEF IsDelivered, WatchedLinks
  <2>6. DeliveredIsStored
    BY <2>5, DeliveredElements DEF DeliveredIsStored
  <2> QED
    BY <2>1, <2>2, <2>4, <2>6
<1>2. Typed /\ Integrity /\ Replication /\ [Next]_vars => Replication'
  BY NextReplication
<1>3. Typed /\ Integrity /\ Replication /\ RegisteredOnce /\ Copying /\ [Next]_vars
        => Copying'
  BY NextCopying
<1>4. Typed /\ Integrity /\ Replication /\ RegisteredOnce /\ Copying
        /\ DeliveredIsStored /\ [Next]_vars => DeliveredIsStored'
  BY NextCopying, StepReplacesNothing, StoredStep
<1> QED
  BY <1>1, <1>2, <1>3, <1>4, NextIntegrity, TypedAlways, RegisteredAtMostOnce, PTL DEF Spec

(* A majority of the group and the minority that has ended share no engine *)
(* only if one of the majority is still running.                           *)
LEMMA MajorityOutlivesMinority ==
    ASSUME DeliveredIsStored, IsFiniteSet(Engines)
    PROVE  DeliveredSurvives
<1> SUFFICES ASSUME Cardinality(Engines \ up) <= GroupSize - Majority,
                    NEW r \in Delivered, Holders(r) \cap up = {}
             PROVE  FALSE
  BY DEF DeliveredSurvives
<1>1. Holders(r) \subseteq Engines \ up
  BY DEF Holders
<1>2. IsFiniteSet(Engines \ up) /\ Cardinality(Engines \ up) \in Nat
  BY FS_Subset, FS_CardinalityType
<1>3. Cardinality(Holders(r)) <= Cardinality(Engines \ up) /\ Cardinality(Holders(r)) \in Nat
  BY <1>1, <1>2, FS_Subset, FS_CardinalityType
<1>4. 2 * Cardinality(Holders(r)) > GroupSize
  BY DEF DeliveredIsStored
<1>5. GroupSize \in Nat /\ Majority \in Nat /\ 2 * Majority > GroupSize
  BY NumbersAssumption DEF Majority
<1> QED
  BY <1>2, <1>3, <1>4, <1>5

(* Under the same conditions what has been delivered is still held by an   *)
(* engine that runs while no more than a minority of the engines has ended,*)
(* although engines keep everything in memory (message_buffer).            *)
THEOREM DeliveredAlwaysSurvives ==
    ASSUME OneCounter, IdsSuffice, SubscribesOnce, IsFiniteSet(Engines)
    PROVE  Spec => []DeliveredSurvives
<1>1. DeliveredIsStored => DeliveredSurvives
  BY MajorityOutlivesMinority
<1> QED
  BY <1>1, DeliveredIsAlwaysStored, PTL
=============================================================================
