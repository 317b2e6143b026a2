\* Any interrupt later than a pulse, any overflow.
SPECIFICATION Spec
CONSTANTS
    SIZE = 2
    CAPACITY = 4
    MAX_EVENTS = 2
    PULSES = 2
INVARIANTS
    DistanceOfOnePulse
    FilteredIsMeanOfLast
PROPERTY
    EveryPulseFollows
