CONSTANTS
    Threshold = 2
    Retention = 5
    Timeout = 2
    MaxInFlight = 2
    ReportRetries = 1
    MaxMinute = 8

SPECIFICATION Spec

INVARIANTS
    EachOutageOnce
    EveryOutageRecorded
    RecoveredIsCertain

CHECK_DEADLOCK FALSE
