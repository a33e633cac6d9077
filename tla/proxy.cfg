CONSTANTS
    c1 = c1
    c2 = c2
    Conns = {c1, c2}
    Capacity = 1
SPECIFICATION FairSpec
INVARIANTS PermitsAreExact AnswersAreFinal PortsAreFreed
PROPERTY StopReturnsIfHeard
CHECK_DEADLOCK FALSE
