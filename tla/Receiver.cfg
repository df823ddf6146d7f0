\* Three jobs, two of them delivered ahead of their play, two starts of the
\* program: a redelivery can race every acknowledgement.
SPECIFICATION FairSpec
CONSTANTS
    Messages = {m1, m2, m3}
    Prefetch = 2
    MaxStarts = 2
    NoMessage = NoMessage
INVARIANTS
    TypeOK
    NoJobLost
    RepeatsAreRedeliveries
    FirstRunsInOrder
PROPERTIES
    JobsRun
    StopEnds
\* A receiver that was started MaxStarts times may be stopped with the queue full.
CHECK_DEADLOCK FALSE
