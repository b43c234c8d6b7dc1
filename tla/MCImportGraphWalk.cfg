SPECIFICATION FairSpec
CONSTANTS
    a = a
    b = b
    c = c
    Sources <- MCSources
    MaxEdits = 3
INVARIANTS
    TypeOK
    MapsAgree
    WalkIsExact
    NoDuplicateDependents
PROPERTY
    WalkTerminates
