SPECIFICATION Spec
CONSTANTS
    Tab = {t1, t2}
    Player = {p1, p2}
    Request = {r1, r2}
    Nobody = Nobody
    MaxSessions = 2
    MaxCalls = 2
    MaxFaults = 1
SYMMETRY Symmetry
CHECK_DEADLOCK FALSE
INVARIANTS CallsComeBackOnce ExpiryStaysHidden HonestBrowserIsNoThief TabsAreWhatTheyShow
