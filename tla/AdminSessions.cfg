\* Two tabs of one browser, two requests under way, restarts and expiry.
CONSTANTS
    Tabs = {t1, t2}
    NoTab = NoTab
    Requests = {q1, q2}
    TTL = 1
    MaxToken = 2
    MaxTime = 1
SPECIFICATION FairSpec
INVARIANTS
    TypeOK
    RestartRevokes
PROPERTIES
    EndsOnlyAsTold
    SignOutIsReal
    EveryTabSettles
