SPECIFICATION Spec
CONSTANTS
    Polls = {p1, p2}
    MaxMessages = 3
    MessageBatchSize = 2
CHECK_DEADLOCK FALSE
PROPERTIES
    OneAtATime
