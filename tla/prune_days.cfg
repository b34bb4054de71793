\* Two connectors of one day, finalised in one batch and deleted in two hours
\* under a cap of one row an hour, and one of the next, deleted directly.
SPECIFICATION FairSpec
CONSTANTS
    Keys = {k1, k2, k3}
    Values = {1}
    NoRow = NoRow
    NoContent = NoContent
    NoConnectorDay = NoConnectorDay
    k1 = k1
    k2 = k2
    k3 = k3
    c1 = c1
    c2 = c2
    c3 = c3
    d1 = d1
    d2 = d2
    ConnectorDays = {c1, c2, c3}
    Time <- MCTimeTwoHours
    DayOf <- TwoOneDays
    Order <- ThreeOrder
    Agenda <- AgendaMixed
    PhaseBModes = {TRUE}
    Legacy = {}
    Initial <- InitialMixed
    DeleteCap = 1
    MaxRuns = 2
    MaxWrites = 1
    MaxFaults = 1
INVARIANTS
    ConsumedRemembered
PROPERTIES
    DeletionIsWhole
    RunsEnd
    CleanRunDrains
CHECK_DEADLOCK FALSE
