\* One request under fair scheduling; failures are reported and accounts rotate.
CONSTANTS
    MaxAccountID = 2
    Requests = {r1}
    maxAccountAttempts = 2
    MaxTime = 0
    MaxLogin = 2
    MaxTurn = 0
    MaxFailures = 1
SPECIFICATION FairSpec
INVARIANTS
    HealthMatchesFailures

    
