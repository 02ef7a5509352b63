\* A started deployment whose publisher uses two pumps.
SPECIFICATION SettledSpec
CONSTANTS
    b1 = b1  p1 = p1  p2 = p2  e1 = e1  e2 = e2  e3 = e3  n1 = n1  c1 = c1  c2 = c2
    Publishers = {b1}
    Pumps = {p1, p2}
    Engines = {e1, e2}
    Nuzzles = {n1}
    Consumers = {c1}
    Topics = {0}
    SenderIds = {0}
    IdSpace = 2
    GroupSize = 2
    MaxPublish = 2
    Killable = {}
    MaxFailures = 0
    Idle = Idle
    ClientConnections <- ClientLinks
    PumpConnections <- TwoPumps
    PublishRange <- TopicZero
    NuzzleConnection <- LastNuzzle
    RequestScripts <- RangeZero
SYMMETRY EngineSymmetry
INVARIANTS
    NothingLost
\* Publishing, requests and failures are bounded: a run may come to rest.
CHECK_DEADLOCK FALSE
