\* A frame takes one pbuf, and so does an error.  Two fragments may be kept, or
\* be one datagram; the pool has just the one pbuf more that the next frame
\* needs, so one that waits for an address beside two fragments blocks the ring,
\* as do three that wait.  One frame is sent per occasion; occasions follow one
\* another, so the transmit ring fills and the driver waits.
SPECIFICATION FairBothSpec
CONSTANTS
    DESCRIPTORS = 2
    POOL = 3
    HELD_MAX = 2
    ARP_MAXPENDING = 2
    BUFSIZE = 592
    LENGTHS = {500}
    TX_DESCRIPTORS = 2
    BURST = 1
INVARIANTS
    NoPbufLost
    OnlyArpBlocks
    EachFrameOnce
    SentInOrder
PROPERTIES
    EveryFrameTaken
    ReceiverResumes
    EveryFrameSent
