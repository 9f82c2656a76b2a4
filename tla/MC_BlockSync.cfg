CONSTANTS
    Block <- MCBlock
    Genesis = "g"
    Parent <- MCParent
    Valid <- MCValid
    Worker <- MCWorker
    PeerBlocks <- MCBlock
    PeerTip = "a2"
    InitialSync = TRUE
SPECIFICATION Spec
INVARIANTS OrphanRescued
PROPERTIES OrphansDrained Propagated ChainRefined
CHECK_DEADLOCK FALSE
