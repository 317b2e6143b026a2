\* Data that may look like a header, any overflow at any time.
SPECIFICATION FairSpec
CONSTANTS
    CAPACITY = 3
    LENGTH = 3
    MAX_BYTES = 3
    PACKETS = 2
    LOOKALIKES = {1}
INVARIANTS
    StampIsItsHeaders
    KeptIsNewest
PROPERTIES
    EveryPacketFollows
    SamplesKeepComing
