# Firehose: specification, model checking and proofs

Firehose is a publish-subscribe system. Publishers send publications to *pumps*,
pumps number them and send them to every *engine* of a replication group, engines
store them and publish them to the *nuzzles* (the README of the repository calls
them nozzles) subscribed to the topic, and nuzzles deliver a publication to their
*consumers* once a majority of the group has sent it.

```
publisher --publish--> pump --prepare--> engine --publish--> nuzzle --publish--> consumer
                        <--ack--------           <--update subscription-- <--update subscription--
```

Every process is a C++ program with one `asio::io_service` and one network thread
per port or per kind of peer. All state is in memory. The code under `src/src`
(4777 lines) is the program; `src/external` is vendored and not called by it.

## 1. Inventory

| component | code | state | operations | what makes it correct |
|---|---|---|---|---|
| publisher | `publisher.cpp`, `firehose/publisher.cpp`, `api/publisher_api.*` | the list of pumps, `pump_index`, the request | connect to pumps; publish to each topic of a range in turn, round robin over pumps | what is published is what was asked; the round robin is no obstacle to delivery |
| pump | `pump.cpp`, `firehose/pump.cpp`, `api/pump_api.*` | `global_request_id_seed`, `engine_connections` | connect to engines; number a publication and send it to every engine connected | an id names one publication |
| engine | `engine.cpp`, `firehose/engine.cpp`, `api/engine_api.*` | `message_buffer`, `subscriptions`, `client_subscriptions` | store, acknowledge, publish; register and unregister nuzzles' clients | nothing stored is replaced; registered nuzzles are published to, others are not; the two threads' accesses |
| nuzzle | `nuzzle.cpp`, `firehose/nuzzle.cpp`, `api/nuzzle_api.*` | `message_buffer` (copies per id), `subscriptions`, `engine_connections` | connect to engines; count copies, deliver at the majority, forget at the last; subscribe, unsubscribe | delivered = stored by a majority; once; in order; nothing retained |
| consumer | `consumer.cpp`, `firehose/consumer.cpp`, `api/consumer_api.*` | the connection to the last nuzzle, `log_buffer` | subscribe, unsubscribe, log | it receives all it subscribed to |
| message connection | `include/network.*`, `include/message.h` | `tx_queue_`, `req_`, the write and the read under way, `is_closed` | send, the chain of completion handlers, close | a FIFO channel: framed, no message lost, repeated or left in the queue |
| message types | `api/api_common.*`, `firehose.proto` | - | text conversions | fields are copied to the fields of the same name |
| server start-up | `api/*_api.h`, `api/*_api.cpp` | members in the order they are initialised, `alive`, the network thread, connections | constructors, `run()`, accepting, `connect()`, `join()`, `shutdown()` | connections carry a valid owner pointer; `connect()` and `join()` end, and return what they say |
| clock synchronisation | `network.h:60-100`, `util.h:62-135` | `SlidingWindowT`, `local_delta_`, `remote_delta_` | stamp, insert a sample, take the minimum, estimate | the window holds the last samples; round trip and offset are sound |
| statistics | `network.h:13-58`, `firehose/pump.cpp:64-134` | counters | count, subtract, print | the numbers printed are those of the interval |
| thread placement, utilities, arguments, vendored code | `include/thread.*`, `include/util.cpp`, mains, `src/external` | - | - | no part in the protocol |

**Interactions.** Processes interact by messages only, over connections that the
process nearer to a client opens and that stay open for the life of both. Inside a
process the network threads and the main thread share the tables above. The maps
and vectors `subscriptions`, `client_subscriptions` and the nuzzle's
`engine_connections` have no lock; `engine_connections` of the pump and the
engine's `message_buffer` are TBB containers.

**What is hard here.**
- Two threads of an engine or a nuzzle over one unlocked vector (`engine.cpp:53`
  against `:71`/`:83`; `nuzzle.cpp:33` against `:63`/`:67`).
- Copies of one publication from several engines in any order, counted up to an
  exact number (`nuzzle.cpp:32`, `:38`).
- Ids that are unique per pump only (`pump.cpp:30`) and wrap.
- A process that serves while its main is still connecting it.
- Processes that end: what is queued is lost, peers see end of file or a reset, and
  `close()` on a reset connection throws and ends them too (`network.cpp:287`).
- Uninitialised values: `PublisherServer::pump` (`pump_api.cpp:189`),
  `header.sender_id` of a nuzzle's request (`nuzzle.cpp:55`).
- Constructors that start a thread before the members it uses are set
  (`engine_api.h:209`), and loops that wait for another thread (`nuzzle_api.cpp:324`).
- Differences of unsynchronised clocks in mixed signed and unsigned integers
  (`util.h:124`, `network.cpp:180`), counters read while they are written
  (`pump.cpp:81-89`).
- `send_message()` from several threads against the handlers of one connection
  (`network.cpp:10-20`, `:110-117`).

`PROJECT.json` lists each hazard at its line with the properties that cover it.

## 2. Modules

| module | models |
|---|---|
| `Transport` | processes, connections, the messages and their fields, queues in both directions, what an exit does to a peer |
| `SubscriberLoop` | the range-for over a vector that another thread changes |
| `Publisher`, `Pump`, `Engine`, `Nuzzle`, `Consumer` | one process kind each; one action per handler |
| `Firehose` | their composition, the specifications, the properties |
| `Channel` | what a connection promises in one direction |
| `MessageConnection` | `message_sender` and `message_receiver`, which implement it |
| `PubSub` | what a deployment promises its users: publish, commit, log |
| `FirehosePubSub` | `Firehose` as an implementation of it |
| `ServerThreads` | one server object: constructor, network thread, `connect()`, `join()`, `shutdown()`, exits |
| `SlidingWindow`, `ClockSync` | the window of samples; the clock synchronisation of two ends |
| `TransferStatistics` | the traffic counters and the thread that prints them |
| `MCFirehose`, `MCMessageConnection`, `MCServerThreads` | the instances for TLC |
| `FirehoseRegistration`, `FirehoseReplication`, `FirehoseDelivery`, `FirehoseSettled` | proofs about `Firehose`, each on the ones before; the third also about `FirehosePubSub`, the last about `SettledSpec` |
| `ConnectionProofs` | proofs about `MessageConnection` |
| `ServerProofs` | proofs about `ServerThreads` |
| `ClockProofs` | proofs about `ClockSync` and `SlidingWindow` |
| `StatisticsProofs` | proofs about `TransferStatistics` |

### The deployment (`Firehose` and below)

**State.** `up` is the set of running processes, `failed` those killed or crashed in
their own code (the difference is the processes that others took down). `net[l]` is
the FIFO of link `l` and `stream[l]` what the receiving end has seen of the sender's
(open, end of file, reset, closed). The tables of each process carry the names of the
code; the nuzzle's `message_buffer`, `subscriptions` and `engine_connections` are
called `copies`, `consumer_subscriptions` and `nuzzle_engines`, as TLA+ has one name
space here. A publication is a pair (publisher, number): it stands for payload and
timestamp. `published` and `log_buffer` are what properties compare.

**Actions.** A handler that runs in one thread and touches no shared vector in a loop
is one action (`OnPublishReceive`, `EngineSubscribe`, `NuzzleUnsubscribe`, ...). A
handler with a loop over shared subscribers is a first action and one action per
element: `OnPrepareReceive` then `FanOutPublish`, `OnPublishReceived` then `Deliver`.
While the loop runs its thread takes no other message, and the other thread may change
the vector: `LoopReads` gives the values an element may read as. The nuzzle's
subscription tells the engines first and adds the consumer afterwards
(`NuzzleSubscribe`, `NuzzleSubscribed`); its engine thread may deliver in between.

**Undefined behaviour** is a choice over outcomes. Racing on a map or a vector: a
stale or shifted element, or a crash (`EngineRaceCrash`, `NuzzleRaceCrash`).
`erase(end())`: a crash. The pump's unset pointer: memory that cannot be accessed, or a
counter of arbitrary value. `sender_id`: any of `SenderIds`.

**Ends of processes.** `Kill`, crashes, and exits: a network thread that lets an
exception out calls `exit(0)`. A process that ends takes with it what it had not
written (`LoseInFlight`); a peer reads end of file and closes (`PeerClosed`) or, if the
connection was reset, throws in `shutdown()` and exits (`PeerReset`). A `connect()` that
is refused closes an unconnected socket, which exits too. An engine started again has
nothing in memory, and pumps and nuzzles connect to engines in `main` and never again:
to the others it is an engine that has ended, so ending needs no second action, and
what an engine holds counts in `DeliveredSurvives` only while it is in `up`.

**Specifications.** `Spec` starts with the processes up and nothing connected but the
clients. `ConnectedSpec` starts with every server connected, `SettledSpec` with each
consumer subscribed as well, and adds fairness; they are the states that the actions of
`Spec` lead to, taken as initial states to spend the bound elsewhere.

### The connection (`MessageConnection`)

`Push` and `Post` are the two statements of `send_message()`; `TrySend`,
`PreHeaderSent`, `HeaderSent`, `PreHeaderRead`, `HeaderRead` are the completion
handlers, each atomic as an `io_service` with one thread runs them. `Transmit` is the
socket taking a part; `Break`, `WriteFails`, `EndCloses` are the end of the connection.
`InChannel` maps it to `Channel`: the queue is the messages whose header is in the
socket, then `req_` unless its header has been written, then `tx_queue_`; when the
connection is cut only the first of these remain. `Transport` takes the promise of
`Channel` as its FIFO links; what is received under lock `queue_mutex` is atomic in both.

### The service (`PubSub`, `FirehosePubSub`)

`PubSub` has a set of what has been published, a store that only grows, and a log per
subscriber that takes only what has been committed, once. `ImplementsPubSub` maps a
deployment to it: the store is what more than half of the group holds in its
`message_buffer`s, the logs are the `log_buffer`s without their time stamps. So every
step of every handler is one step of the service or invisible, and the order of the
steps is part of the claim: no consumer logs what is not in a majority yet, although
nuzzles only count copies, and no engine's step takes anything out of the store.

### Servers (`ServerThreads`)

The nine server classes differ in how they get connections (five accept, four connect),
in the order in which they declare their members, and, for the publisher's, in where
`alive` is cleared; `class` is chosen initially. `InitialiseMember` is one step of the
constructor; from the initialisation of `network_thread` on, `Run` and the handlers
may go on beside it. What is read before it is written (`alive`, the owner pointer) is
an arbitrary value: `owner_of[c] = "unset"` is a connection made from it, and a call
through it may end the process (`WildCall`). A failing connection throws in `close()`
(`Throws`), after which `exit(0)` is a step of its own, so that `main` may run in
between. `Firehose` starts where these servers have been constructed.

### Clocks (`SlidingWindow`, `ClockSync`)

`Insert` and `GetMin` are the template's; `UpperBound` is the search in a
`less_equal` multiset, with the key converted from the `uint64_t` it is kept in.
`ClockSync` has two ends with clocks of arbitrary offset, FIFO wires, and the two
handlers of a message (`HandlePreRead` notes the arrival, `HandleHeaderRead` inserts
both differences). All arithmetic is modulo `2 * Half`, 2^64 in the code. `samples` is a
history of all differences, for `MinimumIsRecent`.

### Statistics (`TransferStatistics`)

A message is counted in two steps (`CountBytes`, `CountMessage`); the printing thread
reads one counter per step (`ReadCounter`), so counts fall between its reads. The list
of publishers grows in two steps, between which its last element is not constructed: a
read of it may end the pump. `Assign` is `operator=`, which adds. `counted`, `before`
and `reported` are history.

## 3. Runs

All runs finish within two minutes with two workers.

| run | instance | checks | shows |
|---|---|---|---|
| `join` | 1 publisher, 1 pump, 3 engines, 1 nuzzle, 1 consumer, 2 publications, from process start (656 k states) | `TypeOK`, `SupportedOnly`, `DeliveredIsStored`, `DeliveredOnce`, `ReplicasAgree`, `NothingReplaced`, `ImplementsPubSub` | start-up, joining and publishing interleaved, an engine missing a publication because it was not connected yet; the deployment is a `PubSub` |
| `leave` | 2 engines (even group), one may be killed, a consumer that joins, leaves, joins again (654 k) | `DeliveredIsStored`, `DeliveredWasPublished` | the races on the vectors; the majority of an even group |
| `outage` | settled, 3 engines of which one may be killed, 2 publications, ids that wrap, fairness (287 k) | `DeliveredSurvives`, `NothingLost`, `LoggedInOrder`, `NothingRetained`, `PublishedIsLogged` | a minority of engines may fail: nothing is lost or reordered, and delivery is eventual |
| `registration` | 1 engine, 2 consumers with repeated and unbalanced requests, 2 sender ids (134 k) | `RegisteredIsFed`, `RegistrationsAgree` | the two tables of the engine agree with each other and with the nuzzle |
| `channel` | 2 threads of 2 messages, the connection may break, fairness (354 k) | `ConnectionTypeOK`, `Framed`, `QueueIsAttended`, `IsAChannel`, `SentIsReceived` | framing, wake-ups, refinement, no message left behind |
| `startup` | all nine server classes, up to 3 connections, a shutdown at any moment, fairness (2.9 k) | `ServerTypeOK`, `ReturnedIsConnected`, `OwnerIsKnown`, `ConnectEnds`, `ShutdownEndsJoin` | constructors against network threads; the two spin loops end |
| `clock` | windows of 2 samples, 3 messages each way, clocks up to 1 apart, words of 32 values (1.4 M) | `ClockTypeOK`, `WindowsAgree`, `MinimumIsRecent`, `RttIsNotNegative`, `ClockDeltaIsAccurate` | negative differences survive their conversions; samples leave both structures; the estimates are sound for all delays |
| `statistics` | 1 engine, 2 publishers, 3 messages, words of 8 values (1.9 M) | `StatsTypeOK`, `TrafficIsReportedOnce` | what is printed adds up to what was counted, wrapping included |

Four runs expect a violation; each is a disagreement between the code and its text.

| run | violated | disagreement |
|---|---|---|
| `two_pumps` | `NothingLost` | two pumps give one id to two publications; the consumer logs one of them twice and never the other (README of the repository, line 11: subscribers receive all messages) |
| `cascade` | `FailureIsContained` | an engine that is killed takes processes connected to it down (README, line 8: availability under node failures) |
| `stale_feed` | `UnregisteredIsNotFed` | entries of a nuzzle stay in `subscriptions` after its last client has left (`engine.cpp:76`) |
| `shared_nuzzle` | `DeliveredIsReplicated` | with two consumers of one nuzzle on a topic every engine sends two copies, which the nuzzle takes for two engines': what one engine holds is delivered (`GROUP_SIZE`, `nuzzle.cpp:21`; README, line 12) |

**Bounds and why they are enough.** Three engines are the smallest group in which a
minority may fail and copies can be outstanding after delivery; two are the smallest
even group, where rounding matters. Two publications suffice for order, reuse of an id
and a second count under the first one's key. `IdSpace` is 2^64 in the code; it is 2
(or 1 where nothing is published) so that the counter wraps within the bound; with more
publications than ids `ReplicasAgree` would fail, as it would in the code after 2^64. One nuzzle and one consumer, or two consumers where their requests
interact, since nuzzles share nothing with each other. `MaxPublish`, `RequestScripts`,
`Killable`, `MaxFailures` bound the environment only. Engines and consumers are
symmetric where no initial state orders them. `outage` checks liveness, so without
symmetry: it names the engine that may be killed and the id the counter starts from,
which loses no case but the start (engines are alike; from this start the second
publication wraps the counter). Its end may take the others along, so both sides of the
condition of `DeliveredSurvives` occur. Three connections of a
server are one that is being awaited or served, one before it and one still pending.
Windows of two samples with three messages each way let samples leave, duplicates
included; words of 32 values hold every difference of the bounded clocks, negative ones
too. A counter word of 8 values wraps within three messages of 3 bytes; `GrowsBy` keeps
it, and the counter of messages beside it, from growing by a whole word between two
prints, which 2^64 bytes or messages would take.
`MaxTime`, `MaxOffset`, `MaxMessages`, `MaxConnections`, `MaxPublishers` bound the
environment. `CHECK_DEADLOCK FALSE`, since a run whose
publications and requests are used up rests.

**What the runs assume.** `outage` starts settled, has one pump and each
consumer registered once: with more registrations of one nuzzle an engine sends it
copies of its own, which the nuzzle counts like another engine's; with two pumps ids
collide. `DeliveredOnce` is checked without unsubscription: an erase that shifts the
vector under the delivery loop may deliver to no one or to a neighbour twice.
`NothingLost` and `PublishedIsLogged` are claimed while every process but a minority of
the engines runs (`Available`): publications are neither acknowledged nor sent again, and
`publish()` takes the next pump in turn whether it still runs or not, so with one of two
pumps gone every second publication is lost. `DeliveredSurvives` is claimed for a minority
of engines too: as the end of one may take all others along (`cascade`) and nothing is
kept on disk, what was delivered can be held by nobody. `ReturnedIsConnected` leaves out
the publisher's server, whose `run()` clears `alive` just before it ends the process, and
a server that is shut down: there `connect()` leaves its loop with a connection that was
never made. In the others a failure does not clear `alive`, although a comment beside the
loop says so (`pump_api.cpp:290`), and the loop ends with the process.

**Fairness.** Weak fairness of every handler of a network thread: `io_service.run()`
is in a loop of its own thread and runs what is ready, in order. Nothing is assumed of
publishers, connecting, subscribing, crashes, the breaking of a connection, or of the
threads of the program before they call `send_message()`. `Post` is fair: it is the
second statement of a call already begun. In `ServerThreads` the threads' own steps are
fair, and a connection attempted is made or refused, as TCP does one of the two; that a
peer connects, fails or resets, and that a program calls anything, is not assumed.

## 4. Proofs

TLAPS proves the following for every value of the constants, from the named
assumptions of the modules (kinds of processes are disjoint, numbers are naturals,
`Idle` is no loop and no subscription, `None` no message, ranges lie within the topics).

| theorem | states |
|---|---|
| `FirehoseRegistration!TypeCorrect` | `Spec => []TypeOK` |
| `FirehoseRegistration!ReadersAreSupported` | `Spec => []SupportedOnly` |
| `FirehoseRegistration!DeliveredIsGenuine` | `Spec => []DeliveredWasPublished` |
| `FirehoseRegistration!RegisteredAreFed` | `Spec => []RegisteredIsFed` |
| `FirehoseReplication!ReplicasAlwaysAgree` | `OneCounter`, `IdsSuffice` imply `Spec => []ReplicasAgree` |
| `FirehoseReplication!StoredIsNeverReplaced` | the same imply `Spec => NothingReplaced` |
| `FirehoseRegistration!RegisteredAtMostOnce` | `SubscribesOnce` implies `Spec => []RegisteredOnce` |
| `FirehoseReplication!DeliveredIsAlwaysStored` | `OneCounter`, `IdsSuffice`, `SubscribesOnce` and finitely many engines imply `Spec => []DeliveredIsStored` |
| `FirehoseReplication!DeliveredAlwaysSurvives` | the same imply `Spec => []DeliveredSurvives` |
| `FirehoseDelivery!DeliveredAlwaysOnce` | `OneCounter`, `IdsSuffice`, `SubscribesOnce`, `OneGroup` imply `Spec => []DeliveredOnce` |
| `FirehoseDelivery!DeploymentIsAPubSub` | the same imply `Spec => ImplementsPubSub` |
| `FirehoseSettled!NothingIsEverLost` | `OneCounter`, `IdsSuffice`, `SubscribesOnce` and finitely many engines and nuzzles imply `SettledSpec => []NothingLost` |
| `FirehoseSettled!NothingIsEverRetained` | `OneCounter`, `IdsSuffice`, `SubscribesOnce`, `FullGroup` and finitely many nuzzles imply `SettledSpec => []NothingRetained` |
| `FirehoseSettled!LoggedAlwaysInOrder` | `OneCounter`, `IdsSuffice`, `SubscribesOnce`, `OneGroup` and finitely many nuzzles imply `SettledSpec => []LoggedInOrder` |
| `FirehoseRegistration!RegistrationsAlwaysAgree` | `ConnectedSpec => []RegistrationsAgree` |
| `ConnectionProofs!ConnectionTypeCorrect` | `Spec => []ConnectionTypeOK` |
| `ConnectionProofs!AlwaysFramed` | `Spec => []Framed` |
| `ConnectionProofs!QueueAlwaysAttended` | `Spec => []QueueIsAttended` |
| `ConnectionProofs!ImplementsChannel` | `Spec => IsAChannel` |
| `ClockProofs!ClockTypes` | `Spec => []ClockTypeOK` |
| `ClockProofs!WindowsAlwaysAgree` | `Spec => []WindowsAgree` |
| `ClockProofs!MinimumIsAlwaysRecent` | `Spec => []MinimumIsRecent` |
| `ClockProofs!RttIsNeverNegative` | `Spec => []RttIsNotNegative` |
| `ClockProofs!ClockDeltaIsAlwaysAccurate` | `Spec => []ClockDeltaIsAccurate` |
| `ServerProofs!ServerTypeCorrect` | `Spec => []ServerTypeOK` |
| `ServerProofs!ConnectReturnsConnected` | `Spec => []ReturnedIsConnected` |
| `ServerProofs!OwnerIsAlwaysKnown` | `Spec => []OwnerIsKnown` |
| `StatisticsProofs!StatsTypeCorrect` | `Spec => []StatsTypeOK` |
| `StatisticsProofs!TrafficIsAlwaysReportedOnce` | `Spec => []TrafficIsReportedOnce` |

*Types.* `TypeOK` alone is not inductive: a handler takes its fields from a message,
so what is in each queue must be what the reader of that link can use. `Typed` is
`TypeOK /\ SupportedOnly`; each action preserves it because what it posts is supported
on the links it posts to. The lemmas on `Posted`, `Taken` and `Exit` come first, once
for all actions.

*Integrity.* What is delivered was published: `Integrity` says so of every place a
publication can be in, namely every queue (whatever the type of the message), every
engine's buffer and both loops, so that every handler that moves one preserves it. It
needs no uniqueness of ids: it holds for any number of pumps, wraps, crashes and races.

*Registration.* `RegisteredIsFed` is inductive under `Typed`: the erase of the last
client is the only step that removes an entry, and appending one client appends one entry.
That no vector has a nuzzle twice (`RegisteredOnce`) needs a condition on what is
requested, `SubscribesOnce`: scripts subscribe to each topic once and leave none, as the
consumer program does, and consumers do not share a nuzzle, which the code does not see
to. `AskedOnce` is its invariant: of what a consumer has yet to request, its link to the
nuzzle, the nuzzle's link to an engine, and that engine's vector, a topic is in one at a
time, as each step that puts it into one takes it from another.

*Registrations.* `RegistrationsAgree` speaks of an empty link only, so its invariant says
what a link that is not empty stands for. `Agreement`: for an engine and a nuzzle that both
run, the requests on the link between them, taken one after another (`Change`), lead from
the number of registrations the engine has to the number of consumers the nuzzle has,
counting the one it is adding (`Adding`). The numbers along the way are a function on the
positions of the queue, so that one more message extends it at one end (`SentTakes`) and
one handled shortens it at the other (`HandledTakes`). No condition on the scripts is
needed: an unsubscription that finds nothing ends the process, and the agreement is
between processes that run. It does need that the nuzzle is connected to every engine,
which is why it is proved of `ConnectedSpec`: an engine that is connected later is not
told of earlier consumers.

*Connection.* `ConnectionInv` adds to the types that a write under way has a message,
that parts alternate on the wire, and that the next part written continues what the
reader has read (`InStep`, a parity of the wire's length). `Framed` is a part of it.
For the refinement, `OnWire` picks every second part; each step is shown to be a step
of `Channel` or none by lemmas on concatenation and halving.

*Replication.* Engines agree only if ids are unique, which the code leaves to its
environment; the theorems name the two conditions: one pump (`OneCounter`), and no more
publications than ids (`IdsSuffice`, 2^64 in the code). `two_pumps` and the bound on
`IdSpace` show that neither can be dropped. Where the counter starts is arbitrary, so ids
wrap, and the invariant cannot say that ids in use are smaller than the counter. It
measures instead how far they lie behind it (`Behind`, on a ring of `IdSpace` ids), which
is at most the number of publications that have been numbered or lost (`Spent`). The next
publication to be numbered is still waiting, so fewer than `IdSpace` are spent and the id
it gets is free; numbering it makes it spent, which pays for the one step that every
other id falls further behind. `WaitsOnce` is needed to know that a publication taken
from its link waits nowhere else.

*Majority.* That what is delivered is stored by a majority rests on an exact count: the
nuzzle delivers when the number of copies received *is* the majority, and takes copies for
engines. `Copying` says why it may. Of one publication an engine has at most one copy
that it has yet to send to a nuzzle (`Pending`), that is on its way, or that is counted
there (`CopiesAreSentOnce`), which needs that the engine is sent it once (`PreparedOnce`)
and that the loop which sends it finds each nuzzle once (`LoopsCurrent`: as long as
vectors only grow, the race of `LoopReads` changes nothing). And the engine holds what
it sends (`CopiesAreHeld`), so the copies counted under one id come from different engines
that hold that publication, the same one by the invariant of replication: they inject
into `Holders`. What is delivered stays stored as nothing stored is replaced. The
conditions cannot be dropped: `two_pumps` breaks the first, `shared_nuzzle` the third.
`DeliveredSurvives` follows by arithmetic on the majority and the minority.

*Delivery once.* The nuzzle delivers at the copy that makes the majority, and forgets a
publication at the copy that completes the group; a copy that came after that would be
counted from one again. `DeliveredIsPassed` excludes it: what a nuzzle has delivered it
either still counts, at the majority or above, or every engine is `Done` with it (stores
it, has no copy of it on its way there, and none to send), so no copy is left to come. At
the moment of forgetting, `GroupSize` copies have been counted; by `CopiesAreSentOnce`
they are of `GroupSize` engines, which with `OneGroup` (no topic has more engines than its
replication factor) are all of them, each with its copy spent. `DeliveredInOnePlace`
follows a publication from the loop to the link and the log, and `AloneInVector` says that
the vector the loop runs over is one consumer and does not change under it. `OneGroup` is
what `GROUP_SIZE` promises (the replication factor of the topics), and the code relies on
it: copies of further engines are counted from one again, and as many of them as make a
majority would deliver a second time.

*A deployment is a PubSub.* Each action is shown to be a step of `PubSub` under the
mapping or to leave the mapped variables alone: `Publish` publishes; the
`OnPrepareReceive` that brings a publication to a majority commits it; `OnPublishLogged`
logs. It rests on the invariants above, and on two more: `StoredIsPublished`, and
`NumberedOnce` (a publication has one entry, and is waiting no longer once it has one), so
that a majority for an entry is a majority for a publication. What is logged is committed
by `DeliveredIsStored`, and new in the log by `DeliveredInOnePlace`.

*Settled deployments.* `SettledSpec` starts where consumers have joined, each at a nuzzle of
its own. `Settled` says that this stays so: no step but the end of a process touches the
vectors, so the loops over them meet no race, and the only thing that can empty a queue of
publications at once is an end (`Fades`). `Working` puts `Settled` together with the
invariants above, which hold of a settled start as well; finitely many nuzzles are what the
initial order of an engine's vector is taken from.

*Nothing lost.* A property of a deployment at rest is no invariant of one that runs, so
`Lossless` says of every publication where it is. `PublishedEnters`: it waits for its pump,
or one entry of it is at every running engine, stored or on its link (while nothing but
engines has ended). `StoredIsCarried`: what an engine holds it has yet to send, has on its
way, or has been counted, unless the nuzzle has delivered it. `MajorityDelivers`: a count at
the majority has been delivered. At rest all links are empty and nothing is pending, so
every running engine has stored the publication and every one is counted; more than half run
(`Available`), which makes a majority of the count, and that a delivery, which at rest is in
the log.

*Nothing retained.* A nuzzle forgets at the copy that completes the group, so here the count
has to come out exactly: `FullGroup`, as many engines as `GROUP_SIZE`. With fewer no count
ever comes to it, and what is delivered would stay in the nuzzle's `message_buffer` for good.
`AllOrNone` of `Forgetful` says that as long as nothing has ended, either every engine's copy
of an entry is pending, on its way or counted, or every engine is `Done` with it and none is
counted: the step from the one to the other is the erase. At rest the first leaves a copy of
every engine in the count, which `CountsAreBounded` excludes.

*Order.* One pump numbers a publisher's publications in the order they come
(`NumberedInOrder`), and every engine stores in that order (`StoredInOrder`). But nuzzles
deliver at a majority, of different engines for each publication, and forget counts, so the
order in which one engine's copies come is not enough. `NoGaps` is the step that is easy to
miss: an engine that has an entry has all that precede it. So the engines whose copies make
up the majority for a publication have sent, and the nuzzle has counted (`SentInOrder`,
`CountedInOrder`), a copy of each one before it: those counts are at the majority already,
and their publications delivered (`ArrivesInOrder`, from `MajorityDelivers` of the argument
before). `DeliveredInOrder` then follows them from the delivery loop to the link and the log.
A second delivery would be out of order too, which is why `OneGroup` is needed as for
`DeliveredOnce`.

*Clocks.* `ClockInv` is the types, `WindowsAgree`, and three parts. `Causal`: a stamp on
the wire, and the arrival noted for it, are no later than the clocks they came from.
`Bounded`: all differences in a window, on the wire, or kept as a minimum, are at least
the offset of the two clocks (`Ahead`), since a message arrives after it was sent; this
gives a round trip that is not negative, as the two offsets cancel, and the error of the
estimate. `WindowIsRecent`: the list is the last samples of the history. That
`insert()` keeps the tree in agreement (`InsertAgrees`) is a lemma on the number of
occurrences of a value; the oldest sample is in the tree, so the search finds it, and
nothing less. The only assumption on the clocks is that they stay within half the range
of `int64_t`.

*Servers.* `ServerInv` says what a thread may rely on while the constructor is under way:
members have been initialised in the order of the class up to some point (`BuiltInOrder`),
the network thread runs only after its own member's initialisation, and no connection
exists before it does or, in a class that connects, before `main` has left the constructor
(`ThreadStarted`). So an owner pointer is set before it is copied into a connection, in the
one class that accepts and has an owner because the owner comes first. `connect()` returns
with its connection made because `alive` is true unless something has ended
(`AliveUnlessEnded`); the publisher's server is the exception the property names.

*Statistics.* The counters wrap and are read one by one while they grow, so `StatsInv`
speaks of counts that are in no variable: for each counter there are true counts `t` of the
connections, equal to the counters modulo the word, with prefix sums `p`
(`CountsAreTrue`). For the walk that is under way there are in addition the prefix sums `q`
at its beginning, and its sum lies between what `q` and `p` say of the connections it has
read (`WalkedSum`). At its end the sum is then no less than what was reported before and
less than a word more (`Unwrapped`, from the bound `GrowsBy`), so the difference modulo the
word is the true one.

Only model-checked: liveness (`PublishedIsLogged`, `SentIsReceived`, `ConnectEnds`,
`ShutdownEndsJoin`), which is out of the provers' reach, so that a deployment does come to
the rest of which `NothingLost` and `NothingRetained` speak rests on the runs; and
`DeliveredIsStored` for a consumer that leaves and joins again (`leave`), which
`SubscribesOnce` excludes.

## 5. Not modelled

- Bodies of messages (no message has one), sizes of messages against `max_header_len`,
  the memory of queues on dead connections: nothing in the code bounds or frees it.
- Thread placement (`thread.cpp`): `initProcess` is never called, so the functions that
  servers call return at once.
- The artificial latencies, the division of the statistics by the duration, printing,
  command lines and text conversions; `SlidingWindowT::get_percentile` and `get_max`,
  which nothing calls.
- A connection that breaks while both ends run: in `Transport` connections end with a
  process only; `MessageConnection` has the break.
- Restarts of pumps and nuzzles: engines accept a restarted one as a new process, so it
  is one more member of `Pumps` or `Nuzzles` (`two_pumps` covers what its counter does).
- The allocation of an accepted publisher while the statistics are printed is a choice
  between an element that is constructed and one that is not; that `push_back` of the TBB
  vector itself is safe is taken from its use.

## 6. Plan

1. (done) `Transport`, `SubscriberLoop`, the five processes, `Firehose`; their runs;
   types, integrity, registration and replication proved.
2. (done) `Channel`, `MessageConnection`; runs; framing, attendance and refinement proved.
3. (done) `PubSub` and the refinement, model-checked; what survives the end of engines.
4. (done) `ServerThreads`: constructors against network threads, `connect()`, `join()`.
5. (done) `SlidingWindow`, `ClockSync`, `TransferStatistics`; the clocks proved.
6. (done) `DeliveredIsStored` proved, from what consumers request to what nuzzles count.
7. (done) `DeliveredOnce` and the refinement of `PubSub` proved; `RegistrationsAgree`,
   the servers and the statistics proved.
8. (done) `NothingLost`, `NothingRetained` and `LoggedInOrder` of `SettledSpec` proved, from
   invariants that say where the copies of each publication are.
9. Open: connections that break between running processes; `DeliveredIsStored` of consumers
   that leave and join again, under a condition weaker than `SubscribesOnce`.
