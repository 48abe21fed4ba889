\* The documented 504 of a handler that hangs.
SPECIFICATION FairSpec
CONSTANTS
    Users = {alice}
    Bypass = Bypass
    None = None
    MaxQueueSize = 2
    QueueTimeout = 2
    ExecTimeout = 1
    Requests = {q1, q2}
PROPERTIES EventuallyAnswered
CHECK_DEADLOCK FALSE
