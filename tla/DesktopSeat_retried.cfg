SPECIFICATION SeatSpec
CONSTANTS
    Agents = {a1}
    NoAgent = NoAgent
    Elements = {e1, e2}
    NoElement = NoElement
CHECK_DEADLOCK FALSE
INVARIANTS
    RetriedDidNothing
