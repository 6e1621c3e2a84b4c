SPECIFICATION Spec
CONSTANTS
    n1 = n1
    n2 = n2
    n3 = n3
    m1 = m1
    m2 = m2
    None = None
    Node = {n1, n2, n3}
    Payload = {m1}
    Joined <- Pair
    Link <- LastHop
    Unicasts <- AcrossTheLine
    Origin = {n1}
    MaxSeq = 1
    RumorCap = 2
    NetCap = 2
    Duplicates = FALSE
INVARIANT
    TypeOK
    GossipIsDirect
    
    ListenerNeverBlocks
