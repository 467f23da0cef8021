SPECIFICATION Spec
CONSTANTS
    Checks = 2
    MaxOpen = 1
    Services = {s1}
    Mounts = {m1, m2}
    Jobs = {j1, j2}
    FailedThreshold = 2
    ListCap = 1
    Devices = {d1, d2}
    MaxStored = 1
    MinGap = 1
    MaxGap = 2
    Configs = {c1, c2}
    NoHash = NoHash
    MaxEvents = 2
    MaxUptime = 2
SYMMETRY Interchangeable
INVARIANTS FlagsAreConfirmed StoredFlagsAreAnnounced OpenAlertsAreCurrent JobRowsMirrorReport
           EventsNeverOvercounted SnapshotIsCurrent
PROPERTIES MountsAreNeverWiped
