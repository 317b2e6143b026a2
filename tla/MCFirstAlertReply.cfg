\* The first reply about the alert.
SPECIFICATION Spec
CONSTANTS
    MAX_FREQ = 250000
    ALERT_FREQ = 500
    HORIZON = 2
    BOOT_TIME = 1
    INTERVALS <- FewIntervals
    FREQUENCIES <- AlertFrequency
    SIDES <- RearLight
    POSITIONS <- Standing
INVARIANT
    AlertReplyTellsMode
