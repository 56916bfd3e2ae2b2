CONSTANTS
    work = work
    chat = chat
    Threads = {work, chat}
    None = None
    Batches <- Mixed
    Longest = 2
    MaxReplies <- Replies
    MaxSegments = 3
SPECIFICATION Spec
INVARIANTS PauseIsNotStale RunsOnce CheckpointsGoForward
PROPERTIES SettledCallsStaySettled CancelledRunsStop
CHECK_DEADLOCK FALSE
