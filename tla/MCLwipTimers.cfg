\* Four timers, one period a multiple of others, and a PHY of two modes.
SPECIFICATION FairSpec
CONSTANTS
    PERIOD <- MCPeriod
    MODES = {"10half", "100full"}
INVARIANTS
    NoPeriodLost
PROPERTIES
    PeriodsAttended
    LinkFollowsPhy
