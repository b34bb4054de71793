\* One connector-day through three runs, with Phase B or without, beside one
\* completed before first-delete markers: corrections and late rows at every
\* step, crashes and failures.
SPECIFICATION Spec
CONSTANTS
    Keys = {k1, k2}
    Values = {1, 2}
    NoRow = NoRow
    NoContent = NoContent
    NoConnectorDay = NoConnectorDay
    k1 = k1
    k2 = k2
    k3 = k3
    c1 = c1
    c2 = c2
    c3 = c3
    d1 = d1
    d2 = d2
    ConnectorDays = {c1, c2}
    Time <- MCTime
    DayOf <- BesideLegacy
    Order <- TwoOrder
    Agenda <- AgendaWindowLate
    PhaseBModes = {TRUE, FALSE}
    Legacy = {c2}
    Initial <- InitialTwo
    DeleteCap = 2
    MaxRuns = 3
    MaxWrites = 2
    MaxFaults = 2
INVARIANTS
    LegacyFailsClosed
    FirstDeletionOnce
    OpenGateVouches
PROPERTIES
    ArchivedBeforeDeletion
    CommittedHistoryStable
    NoAbandonedClaim
    WindowDeletesReplicated
    ArchivesThenDeletes
CHECK_DEADLOCK FALSE
