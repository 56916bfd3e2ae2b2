CONSTANTS
    look = look
    pay = pay
    Playbooks <- All
    Tools = {look, pay}
    NoRoute = NoRoute
    Nobody = Nobody
    MaxCalls = 3
    MaxPauses = 1
    MaxMoves = 1
SPECIFICATION Spec
INVARIANTS StepsWaitForTheirTurn NothingIsStuck TraceTellsWhereTheRunIs CallsAreCountedOnce
PROPERTY ClosedStepsStayClosed
CHECK_DEADLOCK FALSE
