\* Two consumers of one nuzzle subscribe and unsubscribe; nothing is published.
SPECIFICATION ConnectedSpec
CONSTANTS
    b1 = b1  p1 = p1  p2 = p2  e1 = e1  e2 = e2  e3 = e3  n1 = n1  c1 = c1  c2 = c2
    Publishers = {b1}
    Pumps = {p1}
    Engines = {e1}
    Nuzzles = {n1}
    Consumers = {c1, c2}
    Topics = {0}
    SenderIds = {0, 1}
    IdSpace = 1
    GroupSize = 1
    MaxPublish = 0
    Killable = {}
    MaxFailures = 0
    Idle = Idle
    ClientConnections <- ClientLinks
    PumpConnections <- OnePump
    PublishRange <- TopicZero
    NuzzleConnection <- LastNuzzle
    RequestScripts <- TwoClients
SYMMETRY ClientSymmetry
INVARIANTS
    RegisteredIsFed
    RegistrationsAgree
\* Publishing, requests and failures are bounded: a run may come to rest.
CHECK_DEADLOCK FALSE
