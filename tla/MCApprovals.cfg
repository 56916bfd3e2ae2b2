\* An authority per record, count_once, one call with two generations.
CONSTANTS
    fay = fay
    frank = frank
    both = both
    carol = carol
    dan = dan
    NoEdit = NoEdit
    Principals = {fay, frank, both, dan}
    Roles <- MCRoles
    Labels <- MCLabels
    Calls = {c1}
    RequesterOf <- MCRequesterOf
    LabelSets <- MCLabelSets
    Edits = {e1}
    Rules <- MCRules
    Delegations <- MCDelegations
    CountOnce = TRUE
    RolesOf <- MCRolesOf
    PerRecord = TRUE
    MaxGeneration = 2
    MaxTime = 1
SPECIFICATION Spec
INVARIANTS OneLivePerCall InstalledInTimeIsEnforced NoSelfDealing ApprovedTogether EachGroupItsOwnPeople
PROPERTY RecordsOnlyAdvance
CHECK_DEADLOCK FALSE
