CONSTANTS
    Block <- MCBlock
    Genesis = "g"
    Parent <- MCParent
    Valid <- MCValid
    MaxCrashes = 2
SPECIFICATION Spec
INVARIANTS TipRecoverable
PROPERTIES DurableRefined
CHECK_DEADLOCK FALSE
