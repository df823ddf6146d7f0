\* Lengths have two digits of radix 2. Two pods, one of which may replace the other, on
\* two nodes; three events, so that a pod can count twice and stamps come out of order.
SPECIFICATION FairSpec
CONSTANTS
    Radix = 2
    MaxPods = 2
    Nodes = {n1, n2}
    Grace = 1
    MaxClock = 1
    MaxSent = 3
ACTION_CONSTRAINT
    OneEventAtATime
    OtherTestsAreShort
INVARIANTS
    TypeOK
    EventsIntact
    EndIsTheLast
    DeletedPodsAreGone
    NodeComesBack
PROPERTIES
    EnoughEventsEnd
\* A test may wait for ever.
CHECK_DEADLOCK FALSE
