SPECIFICATION Spec
CONSTANT
    TicksPerSecond = 2
    Durations = {0, 1, 2, 5}
    MaxDelay = 1
    RequestTimeout = 1
CHECK_DEADLOCK FALSE
INVARIANT LateRefusalIsTheLibrarys
INVARIANT KeyDiesWithCookie
INVARIANT ChallengesDoNotLinger
INVARIANT NoEarlyExpiry
INVARIANT CookieDiesWithKey
