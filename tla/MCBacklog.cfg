SPECIFICATION DeliverySpec
CONSTANTS
    Alerts = {a1}
    Lookback = 2
    DayLength = 8
    Morning = 1
    MiddayHour = 2
    EveningHour = 3
    MaxTime = 6
INVARIANTS BacklogIsCapped
