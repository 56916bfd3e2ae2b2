CONSTANTS
    svc = svc
    ann = ann
    c1 = c1
    e1 = e1
    NoEdit = NoEdit
    None = None
    Unavailable = Unavailable
    Principals = {svc, ann}
    Roles = {}
    Labels = {}
    Calls = {c1}
    RequesterOf <- MCRequesterOf
    LabelSets <- MCLabelSets
    Edits = {e1}
    Rules <- MCRules
    Delegations <- MCDelegations
    CountOnce = FALSE
    RolesOf <- MCRolesOf
    PerRecord = FALSE
    MaxGeneration = 1
    MaxTime = 0
    Workers = {w1, w2}
    Modes = {"interrupt", "return"}
    Policy <- MCPolicy
    ActionOf <- MCActionOf
    Evidence <- AnyEvidence
    Advice = {None}
    MaxCalls = 2
SPECIFICATION GateSpec
INVARIANTS OneEffectPerApproval HeldEffectsWereApproved NothingDeniedRuns EffectsAreAudited
SYMMETRY Interchangeable
PROPERTIES KeepsThePromise
CHECK_DEADLOCK FALSE
