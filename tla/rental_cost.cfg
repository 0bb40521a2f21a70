\* Periods around the boundaries of hours, days and the range of tick counts.
CONSTANTS
    HalfRange = 512
    TicksPerHour = 2
    Instants = {0, 1, 212, 463, 464, 465, 509, 510, 511, 512, 513, 514, 515, 558, 559, 560, 561, 562, 607, 608, 609, 610, 656, 657, 812, 1023}
    Rates = {0, 1, 3}
SPECIFICATION Spec
INVARIANTS
    CostIsNonNegative
    RentedTimeIsCharged
    OnlyStartedDaysAreCharged
PROPERTY LongerIsNotCheaper
