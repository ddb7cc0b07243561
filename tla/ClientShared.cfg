\* Two calls, signed in or not, share the token cache.
CONSTANTS
    Callers = {c1, c2}
    Keys = {k1, k0}
    SignedIn = {k1}
    RetryAttempts = 2
    MaxToken = 2
SPECIFICATION FairSpec
INVARIANTS
    TypeOK
    SendsBounded
    SignedInSendsToken
    RefusedTokenReturnsOnlyByRace
    

    
