\* Two callers and the administrator share one proxy; ids are issued once.
CONSTANTS
    MaxProxyID = 1
    CircuitThreshold = 2
    Cooldown = 2
    Callers = {c1, c2}
    AccountIDs = {}
    NoAccount = NoAccount
    MaxTime = 3
    MaxDelay = 1
    MaxFailures = 3
SPECIFICATION Spec
SYMMETRY CallerSymmetry
INVARIANTS
    TypeOK
    CircuitConsistent
    DirectOnlyIfAllowed
    RefusedOnlyWhenExhausted
PROPERTIES
    OpenCircuitRests
