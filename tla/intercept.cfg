CONSTANTS
    t1 = t1
    t2 = t2
    t3 = t3
    p1 = p1
    Callers = {t1, t2, t3}
    Peers = {p1}
    ConIds = 4
    MaxCalls = 2
    Servers = 2
    MaxQueries <- ThreeWithoutGateway
SPECIFICATION FairSpec
 
INVARIANTS FlowsAreOwned RepliesMatch AnswersMatch
CHECK_DEADLOCK FALSE
