\* Two ends whose clocks differ by up to two units, with windows of two samples.
SPECIFICATION Spec
CONSTANTS
    Half = 16
    window_size = 2
    MaxTime = 2
    MaxOffset = 1
    MaxMessages = 3
INVARIANTS
    ClockTypeOK
    WindowsAgree
    MinimumIsRecent
    
    
\* Time and messages are bounded: a run comes to rest.
CHECK_DEADLOCK FALSE
