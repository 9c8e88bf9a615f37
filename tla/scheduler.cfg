SPECIFICATION FairSpec
CONSTANTS
    Interval = 3
    MaxStartupDelay = 1
    ClockSteps <- MCStepsBothWays
    MaxClockSteps = 2
    MaxLag = 1
    Horizon = 9
    NoBucket = NoBucket
INVARIANT TypeOK
PROPERTY TicksInOrder
PROPERTY TickOnTime
PROPERTY ResumesAtFirstBoundary
PROPERTY WaitEnds
CHECK_DEADLOCK FALSE
