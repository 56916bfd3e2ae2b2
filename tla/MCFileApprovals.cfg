\* One process that submits, decides and consumes, and may crash in between.
CONSTANTS
    svc = svc
    ann = ann
    bob = bob
    NoEdit = NoEdit
    Idle = Idle
    Principals = {svc, ann, bob}
    Roles = {}
    Labels = {}
    Calls = {c1}
    RequesterOf <- MCRequesterOf
    LabelSets <- MCLabelSets
    Edits = {e1}
    Rules <- QuorumTwo
    Delegations <- NoDelegations
    CountOnce = FALSE
    RolesOf <- MCRolesOf
    PerRecord = FALSE
    MaxGeneration = 2
    MaxTime = 0
    MaxUses = 2
    Gates = {p1}
    Deciders = {p1}
SPECIFICATION FileSpec
INVARIANT UsedOnce
PROPERTY Implements
CHECK_DEADLOCK FALSE
