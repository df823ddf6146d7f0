\* One container is enough: the code contradicts its comment.
SPECIFICATION Spec
CONSTANTS
    Containers = {c1}
    MaxThreads = 2
    NoContainer = NoContainer
PROPERTY
    DeadThreadIsReplaced
