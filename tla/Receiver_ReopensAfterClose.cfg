\* One job is enough: the code contradicts its own log message.
SPECIFICATION Spec
CONSTANTS
    Messages = {m1}
    Prefetch = 1
    MaxStarts = 2
    NoMessage = NoMessage
PROPERTY
    ReopensAfterClose
CHECK_DEADLOCK FALSE
