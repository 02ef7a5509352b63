\* One engine, publishers accepted while the thread prints, and byte counters
\* that wrap.
SPECIFICATION Spec
CONSTANTS
    Word = 8
    EngineConnections = 1
    MaxPublishers = 2
    Sizes = {3}
    MaxMessages = 3
INVARIANTS
    StatsTypeOK
    TrafficIsReportedOnce
\* The pump may crash on a publisher just being accepted.
CHECK_DEADLOCK FALSE
