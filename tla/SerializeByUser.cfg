\* Three requests, each of one wallet or without one; nothing stays queued.
SPECIFICATION FairSpec
CONSTANTS
    Users = {alice}
    Bypass = Bypass
    None = None
    MaxQueueSize = 2
    QueueTimeout = 2
    ExecTimeout = 1
    Requests = {q1, q2, q3}
INVARIANTS OvertakenOnlyWhenForced MapsDrain
PROPERTIES RefusedOnlyWhenFull EventuallyRun
CHECK_DEADLOCK FALSE
