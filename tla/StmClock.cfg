\* Three values of the upper half, eight of the lower.
SPECIFICATION StmSpec
CONSTANTS
    HALF = 8
    LAST_UPPER = 2
    PRECISION = 4
    TICKS_PER_US = 3
INVARIANT
    ReadWithinCall
PROPERTY
    NeverGoesBack
