\* One of two peers proposes and times out once.
SPECIFICATION Spec

CONSTANTS
    n1 = n1
    n2 = n2
    n3 = n3
    v1 = v1
    v2 = v2
    NoValue = NoValue
    Node = {n1, n2}
    Value = {v1}
    Home <- Alone
    PaxosID <- IDs
    Threshold = 2
    MaxRetry <- OneTimeout

INVARIANTS
    PromisedQuorum

\* The module ends with the step: nothing is left to do.
CHECK_DEADLOCK FALSE
