\* Three jobs of any kind over four messages, two failures.
SPECIFICATION Spec
CONSTANTS
    s1 = s1
    s2 = s2
    m1 = m1
    m2 = m2
    m3 = m3
    m4 = m4
    pm25 = pm25
    no2 = no2
    Malformed = Malformed
    None = None
    Series = {s1, s2}
    Products = {pm25, no2}
    ProductOf <- MCProductOf
    Values = {1, 2, 3}
    Current <- MCCurrent
    MaxAt = 2
    Messages = {m1, m2, m3, m4}
    Observation <- MCObservation
    Candidates <- MCCandidates
    Published = {s1}
    MaxRuns = 3
    MaxFaults = 2
INVARIANTS
    AckedIsKept
    ManifestVouches
    ObjectsRecorded
CHECK_DEADLOCK FALSE
