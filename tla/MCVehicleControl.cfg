\* The alert, the lights, the buzzer and a few wheel positions, all together.
SPECIFICATION FairSpec
CONSTANTS
    MAX_FREQ = 250000
    ALERT_FREQ = 500
    HORIZON = 2
    BOOT_TIME = 1
    INTERVALS <- MCIntervals
    FREQUENCIES <- MCFrequencies
    SIDES <- MCSides
    POSITIONS <- MCPositions
INVARIANTS
    AlertIsSeenAndHeard
    AlertFollowedInterval
    ReportsMatchActuators
    AlertReplyStaleOnlyAtFirst
PROPERTIES
    OnlyAlertMovesItsOutputs
    AlertObeysInterval
