\* One request over two accounts that the administrator edits; cookies rotate.
CONSTANTS
    MaxAccountID = 2
    Requests = {r1}
    maxAccountAttempts = 2
    MaxTime = 0
    MaxLogin = 2
    MaxTurn = 1
    MaxFailures = 0
SPECIFICATION Spec
INVARIANTS
    TypeOK
    CookieStaysWithAccount
PROPERTIES
    OutOfAccountsOnlyByEdits
    
