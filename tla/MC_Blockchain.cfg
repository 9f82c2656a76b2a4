CONSTANTS
    Block <- MCBlock
    Genesis = "g"
    Parent <- MCParent
    Valid <- MCValid
SPECIFICATION Spec
INVARIANTS TypeOK HeightConsistent TipIsLongest
CHECK_DEADLOCK FALSE
