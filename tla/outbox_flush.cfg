\* Timeouts that split, retries, an unreadable entry, two fair runs.
SPECIFICATION FairSpec
CONSTANTS
    e1 = e1
    e2 = e2
    e3 = e3
    k1 = k1
    k2 = k2
    k3 = k3
    day1 = day1
    day2 = day2
    r1 = r1
    r2 = r2
    Entries = {e1, e2, e3}
    Order <- MCOrder
    Keys = {k1, k2, k3}
    Values = {1, 2}
    NoValue = NoValue
    Payload <- MCPayload
    Receipt <- MCReceipt
    Runs = {r1, r2}
    ClaimLimit = 2
    MaxBatches = 3
    Retries = 2
    SplitMin = 1
    SplitDepth = 1
    MaxFaults = 3
INVARIANTS
    ResolvedIsDelivered
    HeldExclusively
    QuietRunResolved
PROPERTIES
    RunDelivers
CHECK_DEADLOCK FALSE
