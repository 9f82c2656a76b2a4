CONSTANTS
    Block <- MCBlock
    Genesis = "g"
    Parent <- MCParent
    Valid <- MCValid
    MaxCrashes = 2
SPECIFICATION Spec
INVARIANT HeightsSurviveCrash
CHECK_DEADLOCK FALSE
