\* Three polls, three logins of the initialisation and three crashes at any point of it.
SPECIFICATION FairSpec
CONSTANTS
    MaxTries = 3
    MaxWaits = 2
    MaxCrashes = 3
INVARIANTS
    TypeOK
    SetUpIsComplete
PROPERTY
    ServesInTheEnd
\* A master in service has nothing more to do.
CHECK_DEADLOCK FALSE
