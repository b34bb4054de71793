\* Two triggers over two jobs, rows edited under them, two failures.
SPECIFICATION Spec
CONSTANTS
    NoJob = NoJob
    j1 = j1
    j2 = j2
    i1 = i1
    i2 = i2
    i3 = i3
    Jobs = {j1, j2}
    JobOrder <- MCOrder
    Configs <- ThreeConfigs
    Invocations = {i1, i2}
    MaxMinute = 1
    MaxSyncs = 1
    MaxFaults = 2
SYMMETRY Interchangeable
INVARIANTS
    RequestedAtMostOnce
    FinishedRunAccounts
    EvidenceMatchesClaims
    RecordedTruthfully
PROPERTIES
    MinuteBelongsToFirst
CHECK_DEADLOCK FALSE
