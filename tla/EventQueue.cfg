\* Events of two words, both builds, any push anywhere.
SPECIFICATION FairSpec
CONSTANTS
    CAPACITY = 3
    MAX_EVENTS = 6
    WORDS = 2
    RELOADS = {TRUE, FALSE}
INVARIANTS
    OnlyPushedEvents
PROPERTIES
    ImplementsFifo
    Drains
