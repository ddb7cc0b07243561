\* Three accounts, two requests, three seconds.
CONSTANTS
    MaxAccountID = 3
    Requests = {r1, r2}
    MaxTime = 3
SPECIFICATION Spec
SYMMETRY RequestSymmetry
INVARIANTS
    TypeOK
    WaitersAreOlder
PROPERTIES
    OvertakesOnlyOnATie
