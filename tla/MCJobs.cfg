SPECIFICATION Spec
CONSTANTS
    Alerts = {a1}
    Lookback = 2
    DayLength = 4
    Morning = 1
    MiddayHour = 2
    EveningHour = 3
    MaxTime = 6
    Requests = {r1, r2}
    MaxLogs = 3
    Overlap = 1
    Backfill = 1
    MinAge = 0
    MaxAge = 3
    PageLimit = 1
    MaxPages = 2
    MaxMinutes = 2
    Checks = 1
    MaxOpen = 2
    Signatures = {s1, s2}
    Threshold = 2
    MaxGroups = 1
    Npms = {n1, n2}
    Addressed = {n1, n2}
    CfEnabled = TRUE
    NoNpm = NoNpm
    DayTicks = 2
    WeekDays = 2
    SearchDays = 3
    LastDay = 6
SYMMETRY Interchangeable
INVARIANTS TimelyAlertsAreBatched AllOrNothing PromptLogsAreCopied StuckLogsAreReconciled
           ErrorIncidentsMatchBoard LiveMeansPointedTo CalendarIsExact
PROPERTIES BatchedOnce DayIsRecapped DeletionIsAtomic 
CHECK_DEADLOCK FALSE
