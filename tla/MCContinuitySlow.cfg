CONSTANTS
    b1 = b1
    b2 = b2
    Worker = {w1}
    Task = {t1}
    Backend = {b1, b2}
    Routes <- MCRoutes
    ProviderOf <- MCProviderOf
    Base = 1
    MaxBackoff = 1
    Saturated = 0
    TTL = 2
    Window = 1
    MaxAttempts = 2
    CallTime = 1
    RetryAfter = {0, 2}
    Punctual = TRUE
    None = None
SPECIFICATION FairSpec
PROPERTIES
    InferReturns
