\* An overflow inside a pop, byte queue: more than the oldest is lost.
SPECIFICATION Spec
CONSTANTS
    CAPACITY = 3
    MAX_EVENTS = 6
    WORDS = 1
    RELOADS = {TRUE, FALSE}
INVARIANT
    OnlyOldestDropped
