\* Started servers, and two consumers of one nuzzle that join the same topic.
SPECIFICATION ConnectedSpec
CONSTANTS
    b1 = b1  p1 = p1  p2 = p2  e1 = e1  e2 = e2  e3 = e3  n1 = n1  c1 = c1  c2 = c2
    Publishers = {b1}
    Pumps = {p1}
    Engines = {e1, e2, e3}
    Nuzzles = {n1}
    Consumers = {c1, c2}
    Topics = {0}
    SenderIds = {0}
    IdSpace = 2
    GroupSize = 3
    MaxPublish = 1
    Killable = {}
    MaxFailures = 0
    Idle = Idle
    ClientConnections <- ClientLinks
    PumpConnections <- OnePump
    PublishRange <- TopicZero
    NuzzleConnection <- LastNuzzle
    RequestScripts <- RangeZero
SYMMETRY EngineSymmetry
INVARIANTS
    DeliveredIsReplicated
\* Publishing, requests and failures are bounded: a run may come to rest.
CHECK_DEADLOCK FALSE
