CONSTANTS
    BatchSize = 2
    Retries = 1
    MaxEvents = 4
    MaxStarts = 3
SPECIFICATION FairSpec
INVARIANTS KeepsEveryEvent RecordedOnce ReportedOnce
PROPERTIES RunnersEnd
CHECK_DEADLOCK FALSE
