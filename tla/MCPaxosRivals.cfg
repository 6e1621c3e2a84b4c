\* Two peers propose, nobody times out.
SPECIFICATION FairSpec

CONSTANTS
    n1 = n1
    n2 = n2
    n3 = n3
    v1 = v1
    v2 = v2
    NoValue = NoValue
    Node = {n1, n2}
    Value = {v1, v2}
    Home <- Rivals
    PaxosID <- IDs
    Threshold = 2
    MaxRetry <- NoTimeout

INVARIANTS
    TypeOK
    
    PromisedQuorum

PROPERTIES
    EveryNodeAdvances

\* The module ends with the step: nothing is left to do.
CHECK_DEADLOCK FALSE
