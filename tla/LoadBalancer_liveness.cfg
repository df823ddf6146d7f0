\* Liveness and the debounce refinement need no service content: one service,
\* one API change, up to three chunks.
SPECIFICATION FairSpec
CONSTANTS
    Services = {web}
    MaxRev = 2
    MaxReloads = 3
PROPERTIES
    EventsAreReloaded
    ImplementsDebounce
\* The balancer waits for ever on a watch that stays silent.
CHECK_DEADLOCK FALSE
