CONSTANTS
    r1 = r1
    r2 = r2
    Requests <- TwoRequests
    Pods = {p1, p2}
    NoPod = NoPod
    Nobody = Nobody
    Executors = {e1, e2}
    Reconcilers = {k1}
    MaxAttempts = 2
    Plans <- PlansBeside
SPECIFICATION Spec
INVARIANTS
    TypeOK
    OneOpenAttempt
    RequestMirrorsLatest
    AllocationMatchesAttempt
    SecondPodIsConfirmed
    RegisteredIsAllocated
    OnlyNamesakesShare
PROPERTIES
    ImplementsAcquisition
CHECK_DEADLOCK FALSE
