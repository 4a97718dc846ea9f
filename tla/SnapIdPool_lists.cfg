CONSTANTS
    e1 = e1
    e2 = e2
    Entities = {e1, e2}
    MaxIds = 3
    IntHalf <- MCIntHalf
    Quarantine <- MCQuarantine
    MaxTime = 5
SPECIFICATION Spec
INVARIANTS OneOwner NoIdLost
PROPERTY ImplementsSnapIds
