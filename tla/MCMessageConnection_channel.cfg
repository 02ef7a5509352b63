\* Two threads send over a connection that may break at any time; the handlers
\* of both ends run fairly.
SPECIFICATION FairSpec
CONSTANTS
    t1 = t1  t2 = t2
    Threads = {t1, t2}
    MaxSends = 2
    None = None
INVARIANTS
    ConnectionTypeOK
    Framed
    
PROPERTIES
    IsAChannel
    SentIsReceived
\* Calls are bounded: a run may come to rest.
CHECK_DEADLOCK FALSE
