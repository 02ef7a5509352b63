\* Every server class of the programs, with up to three connections, and a
\* thread that may shut the server down.
SPECIFICATION Spec
CONSTANTS
    Classes <- AllClasses
    MaxConnections = 3
    MayShutDown = TRUE
INVARIANTS
    ServerTypeOK
    
    
PROPERTIES
    ConnectEnds
    ShutdownEndsJoin
\* A process that has exited stays so, and one that nobody shuts down serves
\* for ever.
CHECK_DEADLOCK FALSE
