SPECIFICATION ReportSpec
CONSTANTS
    HourTicks = 4
    DayHours = 3
    PastDays = 2
    FutureDays = 1
    MaxRangeDays = 3
    WeatherSample = 4
    AqSample = 3
    AqDays = 2
    Days <- MCDays
    Indices <- MCIndices
    MaxWait = 2
    MaxNow = 14
INVARIANTS
    ReportTypeOK
    CurrentIsTrue
    ForecastIsADay
    SampleIsFair
    CoverageIsTrue
    RangeInWindow
