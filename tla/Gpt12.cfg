\* Both builds; divisors 1, 2, 4 and 8, up and down.
SPECIFICATION GptSpec
CONSTANTS
    CNT_MAX = 10
    BUILDS = {TRUE, FALSE}
    MAX_FREQ = 8
INVARIANTS
    DirectionsAsAsked
    TriggerIsShort
PROPERTY
    ToneFollowsFrequency
