SPECIFICATION Spec
CONSTANTS
    n1 = n1
    n2 = n2
    n3 = n3
    m1 = m1
    m2 = m2
    None = None
    Node = {n1, n2}
    Payload = {m1}
    Joined <- Pair
    Link <- Nobody
    Unicasts <- Nobody
    Origin = {n1}
    MaxSeq = 2
    RumorCap = 2
    NetCap = 1
    Duplicates = FALSE
INVARIANT
    ProcessedInOrder
