CONSTANTS
    Block <- MCBlock
    Genesis <- MCGenesis
    Parent <- MCParent
    Valid <- MCValid
    MinedOn <- MCMinedOn
    NetBlock <- MCNetBlock
    MaxApi = 3
    MaxNet = 2
SPECIFICATION Spec
INVARIANTS MinedWaitHasWaker FreshTemplate
PROPERTIES MinerNeverStuck ChainRefined
CHECK_DEADLOCK FALSE
