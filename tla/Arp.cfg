\* A table of two for three hosts: entries are recycled, with and without a
\* packet.  Ages of a few seconds in the order of the code's: a wait ends, an old
\* address is asked for by unicast, then by broadcast, then forgotten.
SPECIFICATION FairSpec
CONSTANTS
    ARP_TABLE_SIZE = 2
    ARP_MAXAGE = 5
    ARP_MAXPENDING = 2
    REREQUEST_UNICAST = 2
    REREQUEST_BROADCAST = 3
    Hosts = {h1, h2, h3}
    Macs = {m1, m2}
    Pbufs = {p1, p2, p3}
    None = None
INVARIANTS
    OneEntryPerHost
    HeldPbufsAccounted
    SentToNewestAddress
PROPERTIES
    UsedAddressIsAskedFor
    WaitEnds
