CONSTANTS
    work = work
    chat = chat
    Threads = {work}
    None = None
    Batches <- HeldSecond
    Longest = 2
    MaxReplies <- Replies
    MaxSegments = 3
SPECIFICATION Spec
PROPERTY AnswerReachesTheHeldCall
CHECK_DEADLOCK FALSE
