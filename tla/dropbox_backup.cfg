\* Three days in two months of two years, written twice, and two failures.
SPECIFICATION FairSpec
CONSTANTS
    Days = {1, 2, 3}
    MonthOf <- MCMonthOf
    YearOf <- MCYearOf
    ParquetOf <- MCParquetOf
    BatchUnits = 2
    Modes <- MCModes
    MaxVersion = 3
    MaxWrites = 2
    MaxFaults = 2
    NoHash = NoHash
    NoState = NoState
INVARIANTS
    CurrentMeansCopied
    CheckpointAgrees
PROPERTIES
    BackupCatchesUp
CHECK_DEADLOCK FALSE
