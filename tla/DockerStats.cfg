\* Two containers that come and go, two threads: one container can have a
\* registered thread while an earlier one is still ending.
SPECIFICATION FairSpec
CONSTANTS
    Containers = {c1, c2}
    MaxThreads = 2
    NoContainer = NoContainer
INVARIANTS
    TypeOK
    NoLeakedThread
    StopHasACause
PROPERTIES
    WaitEndsOrThreadGivesUp
