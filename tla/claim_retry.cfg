\* A failed run finalisation is said to be retryable.
SPECIFICATION UninterruptedSpec
CONSTANTS
    Keys = {k1, k2}
    Values = {1, 2}
    NoRow = NoRow
    NoContent = NoContent
    NoConnectorDay = NoConnectorDay
    k1 = k1
    k2 = k2
    k3 = k3
    c1 = c1
    c2 = c2
    c3 = c3
    d1 = d1
    d2 = d2
    ConnectorDays = {c1}
    Time <- MCTime
    DayOf <- OneDay
    Order <- OneOrder
    Agenda <- AgendaWindowLate
    PhaseBModes = {TRUE}
    Legacy = {}
    Initial <- InitialOne
    DeleteCap = 2
    MaxRuns = 3
    MaxWrites = 3
    MaxFaults = 2
PROPERTIES
    FinalizationCanBeRetried
CHECK_DEADLOCK FALSE
