\* Interrupted publications, a torn tree, a rebuild and a day repair.
SPECIFICATION Spec
CONSTANTS
    a1 = a1
    b1 = b1
    a2 = a2
    a3 = a3
    a4 = a4
    day1 = day1
    day2 = day2
    day3 = day3
    day4 = day4
    nov = nov
    dec = dec
    jan = jan
    y1 = y1
    y2 = y2
    Units = {a1, b1, a2, a3, a4}
    Days = {day1, day2, day3, day4}
    DayOf <- MCDayOf
    Months = {nov, dec, jan}
    MonthOf <- MCMonthOf
    Years = {y1, y2}
    YearOf <- MCYearOf
    Contents = {1, 2}
    None = None
    Committed <- MCCommitted
    MaxRuns = 2
    MaxRepairs = 1
    MaxRebuilds = 1
    MaxFaults = 2
INVARIANTS
    FinalizedIsKept
    IndexFollowsRoot
PROPERTIES
    CommittedNeverReplaced
    ImplementsArchive
CHECK_DEADLOCK FALSE
