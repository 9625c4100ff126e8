SPECIFICATION MCReliable
CONSTANTS
    c1 = c1
    c2 = c2
    o1 = o1
    o2 = o2
    Calls <- OneCall
    Operators <- TwoOperators
    GatewaySlots = 1
    BrokerSlots = 1
    MaxGens = 1
CHECK_DEADLOCK FALSE
INVARIANTS
    SessionAgrees
