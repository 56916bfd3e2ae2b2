CONSTANTS
    Runs = {r1, r2}
    Everything = Everything
    Subscribers = {s1, s2}
    Publishers = {p1}
    QueueSize = 2
    HistoryPerRun = 1
    MaxRuns = 1
    MaxGlobals = 1
    End = End
    MaxEvents = 3
SPECIFICATION Spec
INVARIANTS TypeOK OnceAndInOrder NoSilentGaps ClosedStreamsEnd
SYMMETRY Interchangeable
CHECK_DEADLOCK FALSE
