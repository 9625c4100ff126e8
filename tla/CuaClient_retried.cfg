SPECIFICATION CuaFairSpec
CONSTANTS
    Callers = {k1}
    NoCaller = NoCaller
    Children = {p1}
    NoChild = NoChild
    MaxClients = 1
CHECK_DEADLOCK FALSE
PROPERTY DeadChildIsRetried
