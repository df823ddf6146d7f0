\* Two services whose list and endpoints are read in several requests, three
\* chunks of the watch, two API changes: two reloads may overlap while a third
\* timer is pending.
SPECIFICATION Spec
CONSTANTS
    Services = {web, db}
    MaxRev = 3
    MaxReloads = 3
SYMMETRY ServiceSymmetry
INVARIANTS
    TypeOK
    OnePendingTimer
    SnapshotNotStale
    CleanReloadServesItsSnapshot
    NoOrphanWithoutOverlap
    CurrentWhenQuiet
\* The balancer waits for ever on a watch that stays silent.
CHECK_DEADLOCK FALSE
