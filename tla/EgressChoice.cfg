\* One caller chooses between two proxies while the administrator edits them.
CONSTANTS
    MaxProxyID = 2
    CircuitThreshold = 1
    Cooldown = 2
    Callers = {c1}
    AccountIDs = {a1}
    NoAccount = NoAccount
    MaxTime = 2
    MaxDelay = 1
    MaxFailures = 1
SPECIFICATION Spec
INVARIANTS
    FixedEgress
