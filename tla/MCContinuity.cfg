CONSTANTS
    b1 = b1
    b2 = b2
    Worker = {w1, w2}
    Task = {t1}
    Backend = {b1}
    Routes <- MCOneRoute
    ProviderOf <- MCOneProvider
    Base = 1
    MaxBackoff = 1
    Saturated = 0
    TTL = 1
    Window = 2
    MaxAttempts = 1
    CallTime = 1
    RetryAfter = {0, 2}
    Punctual = FALSE
    None = None
SPECIFICATION CSpec
SYMMETRY Symmetry
INVARIANTS
    BudgetKept
PROPERTIES
    StaleIsMute
    PoliteCall
