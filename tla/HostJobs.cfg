SPECIFICATION FairSpec
CONSTANTS
    n1 = n1
    n2 = n2
    c1 = c1
    Hosts = {n1, n2, c1}
    Kind <- NodesAndContainer
    SelfNode = n1
    JobIds = {1}
    FaultSets = {{}, {"edit", "stop"}}
INVARIANTS SelfSpared 
 
CHECK_DEADLOCK FALSE
