CONSTANTS
    a = a
    b = b
    c = c
    d = d
    Nodes = {a, b, c, d}
    End = End
    None = None
    Entry <- Fork
    Routes <- Leads
    Ends <- Ways
    Configs <- Settings
    MaxIterations = 4
    MaxCalls = 3
SPECIFICATION GraphSpec
INVARIANT NothingSkipped
CHECK_DEADLOCK FALSE
