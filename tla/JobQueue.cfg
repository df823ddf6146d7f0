\* Two jobs of one connection of the publisher or of two, both delivered ahead, and a
\* second connection of the publisher or a second start of the receiver.
SPECIFICATION Spec
CONSTANTS
    MaxNumber = 2
    MaxConnections = 2
    Prefetch = 2
    MaxStarts = 2
    NoMessage = NoMessage
CONSTRAINT
    FewFaults
ACTION_CONSTRAINT
    SetUpFirst
INVARIANTS
    ToldIsKept
    RunsFollowPublication
PROPERTY
    ImplementsAtLeastOnce
\* Both programs may have ended, and a publisher stops at the bound.
CHECK_DEADLOCK FALSE
