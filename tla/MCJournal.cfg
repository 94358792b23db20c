SPECIFICATION FairSpec
CONSTANTS
    c1 = c1
    c2 = c2
    p1 = p1
    p2 = p2
    Callers = {c1, c2}
    Processes = {p1, p2}
    ProcessOf <- MCProcessOf
    Requests = {r1, r2}
    SlotLimit = 1
    Budget = 2
    MaxAttempts = 2
    MaxCalls = 3
    NoCaller = NoCaller
INVARIANTS
    DeliveredOnce
    RefusedMeansUnpaid
PROPERTIES
    CallsReturn
CHECK_DEADLOCK FALSE
