\* Two fair invocations, one failure.
SPECIFICATION FairSpec
CONSTANTS
    NoJob = NoJob
    j1 = j1
    j2 = j2
    i1 = i1
    i2 = i2
    i3 = i3
    Jobs = {j1, j2}
    JobOrder <- MCOrder
    Configs <- FourConfigs
    Invocations = {i1, i2}
    MaxMinute = 0
    MaxSyncs = 0
    MaxFaults = 1
PROPERTIES
    DueJobsSettle
    RunsFinish
CHECK_DEADLOCK FALSE
