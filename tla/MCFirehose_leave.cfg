\* A start in which an engine may be killed, and a consumer that joins,
\* leaves and joins again.
SPECIFICATION Spec
CONSTANTS
    b1 = b1  p1 = p1  p2 = p2  e1 = e1  e2 = e2  e3 = e3  n1 = n1  c1 = c1  c2 = c2
    Publishers = {b1}
    Pumps = {p1}
    Engines = {e1, e2}
    Nuzzles = {n1}
    Consumers = {c1}
    Topics = {0, 1}
    SenderIds = {0}
    IdSpace = 2
    GroupSize = 2
    MaxPublish = 1
    Killable = {e1, e2}
    MaxFailures = 1
    Idle = Idle
    ClientConnections <- ClientLinks
    PumpConnections <- OnePump
    PublishRange <- TopicOne
    NuzzleConnection <- LastNuzzle
    RequestScripts <- JoinAndLeave
SYMMETRY EngineSymmetry
INVARIANTS
    DeliveredIsStored
    DeliveredWasPublished
\* Publishing, requests and failures are bounded: a run may come to rest.
CHECK_DEADLOCK FALSE
