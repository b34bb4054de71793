CONSTANTS
    service = service
    workflow = workflow
    Runs = {service, workflow}
    Rows = {x1}
    x1 = x1
    Retention <- MCRetention
    Hot <- MCHot
    DryRun <- MCDryRun
    Future = 0
    RpcAttempts = 2
    Unvouched = {2}
    FirstDay = 3
    MaxDay = 4
    LateDays = {1, 2}
    MaxFaults = 1

SPECIFICATION FairSpec

INVARIANTS
    LossIsExplained
    RetainedDaysHavePartitions

PROPERTIES
    ExpiredDaysGo
