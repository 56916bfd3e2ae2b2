CONSTANTS
    Calls = {c1, c2}
    Last = 2
    Threshold = 2
    Window = 1
    Cooldown = 1
SPECIFICATION FairSpec
INVARIANT ProbeIsUnderWay
PROPERTIES CallsEnd PrimaryIsTrustedAgain
CHECK_DEADLOCK FALSE
