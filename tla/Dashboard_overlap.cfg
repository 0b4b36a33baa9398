\* Two short sessions of one client within a long one of another.
SPECIFICATION Spec
CONSTANTS
    Pool <- MCPool
    InitialArchives <- MCInitialArchives
    TicksPerSecond = 2
    SecondsPerMinute = 2
    TicksPerDay = 8
    DaysPerMonth = 2
    MaxSessionDays = 1
    BatchSize = 2
    RecentLimit = 2
    CalendarDays = 3
    CalendarMonths = 2
    MaxPromotions = 1
CHECK_DEADLOCK FALSE
INVARIANTS
    UniqueTimeIsTheUnion
