CONSTANTS
    Block <- MCBlock
    Genesis <- MCGenesis
    Parent <- MCParent
    Valid <- MCValid
    MinedOn <- MCMinedOn
    NetBlock <- MCNetBlock
    MaxApi = 3
    MaxNet = 2
SPECIFICATION Spec
INVARIANT MinedWaitGate
CHECK_DEADLOCK FALSE
