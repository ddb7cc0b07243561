\* A request binds its account while the administrator deletes the proxy.
CONSTANTS
    MaxProxyID = 1
    CircuitThreshold = 1
    Cooldown = 2
    Callers = {c1}
    AccountIDs = {a1}
    NoAccount = NoAccount
    MaxTime = 1
    MaxDelay = 1
    MaxFailures = 1
SPECIFICATION Spec
PROPERTIES
    AutoBindingIsLive
