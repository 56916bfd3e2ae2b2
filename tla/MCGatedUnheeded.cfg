CONSTANTS
    svc = svc
    ann = ann
    c1 = c1
    e1 = e1
    NoEdit = NoEdit
    None = None
    Unavailable = Unavailable
    Principals = {svc, ann}
    Roles = {}
    Labels = {}
    Calls = {c1}
    RequesterOf <- MCRequesterOf
    LabelSets <- MCLabelSets
    Edits = {e1}
    Rules <- MCRules
    Delegations <- MCDelegations
    CountOnce = FALSE
    RolesOf <- MCRolesOf
    PerRecord = FALSE
    MaxGeneration = 2
    MaxTime = 0
    Workers = {w1}
    Modes = {"interrupt"}
    Policy <- MCPolicy
    ActionOf <- MCActionOf
    Evidence <- AnyEvidence
    Advice = {None}
    MaxCalls = 3
SPECIFICATION GateSpec
PROPERTY DenialsAreHeeded
CHECK_DEADLOCK FALSE
