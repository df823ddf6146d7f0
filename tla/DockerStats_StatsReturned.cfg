\* One container is enough: the code contradicts its comment.
SPECIFICATION FairSpec
CONSTANTS
    Containers = {c1}
    MaxThreads = 2
    NoContainer = NoContainer
PROPERTY
    StatsReturned
