\* Three messages on each of three connections: a "multiple" frame can confirm
\* the first and leave others, before and after a reconnection.
SPECIFICATION FairSpec
CONSTANTS
    MaxNumber = 3
    MaxConnections = 3
INVARIANTS
    TypeOK
    OneChain
    CountersAddUp
    DeliveriesAreUnconfirmed
PROPERTIES
    PublishesAgain
\* A publisher that published MaxNumber messages, or ended, does nothing more.
CHECK_DEADLOCK FALSE
