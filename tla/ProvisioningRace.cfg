CONSTANTS
    r1 = r1
    Requests <- OneRequest
    Pods = {p1, p2}
    NoPod = NoPod
    Nobody = Nobody
    Executors = {e1}
    Reconcilers = {k1, k2}
    MaxAttempts = 2
    Plans <- OnePlan
SPECIFICATION Spec
PROPERTY OnlyUncertainIsReconciled
CHECK_DEADLOCK FALSE
