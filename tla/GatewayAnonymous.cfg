\* The administrator disables the last account while a request runs.
CONSTANTS
    MaxAccountID = 2
    Requests = {r1}
    maxAccountAttempts = 3
    MaxTime = 0
    MaxLogin = 2
    MaxTurn = 0
    MaxFailures = 0
SPECIFICATION Spec
INVARIANTS
    NeverSilentlyAnonymous
