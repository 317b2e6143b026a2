------------------------------- MODULE NetifRx -------------------------------
(* The receiving half of lwip/port/src/netif.c: the DMA of the Ethernet MAC  *)
(* stores frames in a ring of descriptors, the main loop takes one out per   *)
(* poll, copies it into pbufs of the pool, gives the descriptor back, and    *)
(* hands the pbufs to lwIP.                                                  *)
(*                                                                           *)
(* lwIP frees them, but for two things.  Fragments are kept for reassembly.  *)
(* An echo request is answered in the pbufs it came in, and as long as ARP   *)
(* does not know the address of the one that asked, its table holds them.    *)
(*                                                                           *)
(* A frame is its number modulo 2 * DESCRIPTORS (a ring never holds two of a *)
(* number), what it is, and its length.  The poll is one step per access     *)
(* that the DMA can tell apart.  The DMA stops when it meets a descriptor it *)
(* does not own, and frames are lost until it is woken.                      *)
(*                                                                           *)
(* Fragments are not timed out here: nothing calls sys_check_timeouts or     *)
(* ip_reass_tmr.  They leave when their datagram is complete or when newer   *)
(* ones need the room.  ARP gives a packet up when its entry is answered,    *)
(* gets a newer one, is recycled, or has waited too long; the last is looked *)
(* at every second as long as the link is up (module Arp).                   *)
EXTENDS Naturals

CONSTANTS
    DESCRIPTORS,    \* IFXGETH_MAX_RX_DESCRIPTORS
    POOL,           \* PBUF_POOL_SIZE
    HELD_MAX,       \* IP_REASS_MAX_PBUFS
    ARP_MAXPENDING, \* seconds ARP waits for an unknown address
    BUFSIZE,        \* PBUF_POOL_BUFSIZE
    LENGTHS         \* lengths of frames on the wire, without their CRC

ETH_PAD_SIZE == 2

\* A plausible slip: the length is computed in an int.
U16_Wide(n) == n

\* u16_t arithmetic.
U16(n) == n % 65536

\* pbuf_alloc(PBUF_RAW, len, PBUF_POOL): so many pbufs of the pool in a chain.
Chain(len) == (len + BUFSIZE - 1) \div BUFSIZE

ASSUME NetifAssumption ==
    /\ DESCRIPTORS \in Nat /\ DESCRIPTORS >= 2
    /\ POOL \in Nat
    /\ HELD_MAX \in Nat
    /\ ARP_MAXPENDING \in Nat \ {0}
    /\ BUFSIZE \in Nat \ {0}
    /\ LENGTHS # {}
    /\ \A len \in LENGTHS : len \in Nat /\ len > 0 /\ len <= 2000
    /\ HELD_MAX + 1 <= POOL
    /\ \A len \in LENGTHS : HELD_MAX + Chain(len + ETH_PAD_SIZE) <= POOL

VARIABLES
    owned,          \* the descriptors the driver owns (OWN = 0)
    buffer,         \* channel0RxBuffer1 and the status in the descriptor
    dmaAt,          \* the descriptor the DMA fills next
    dma,            \* "running" or "suspended"
    sent,           \* number of the next frame the DMA stores
    rxDescr,        \* rxDescrPtr
    pool,           \* free pbufs of the pool
    held,           \* pbufs kept for reassembly
    parked,         \* pbufs of the pool that wait in the ARP table
    expiry,         \* seconds, with the link up, that one of them may wait yet
    pc,             \* the poll: "look", "copy", "free" or "input"
    chain,          \* pbufs of p, 0 between polls
    payload,        \* the frame copied into p, if any
    next            \* history: number of the frame the driver is due to take

\* What lwIP has, and what it has not.
lent == <<pool, held, parked, expiry>>

hardware == <<owned, buffer, dmaAt, dma, sent>>
vars == <<hardware, rxDescr, lent, pc, chain, payload, next>>

Slots == 0 .. DESCRIPTORS - 1
Numbers == 0 .. 2 * DESCRIPTORS - 1

\* "plain" is any frame but a fragment, of whatever type.
Kinds == {"plain", "fragment", "error"}
Frames == [number : Numbers, kind : Kinds, len : LENGTHS]

TypeOK ==
    /\ owned \subseteq Slots
    /\ buffer \in [Slots -> Frames]
    /\ dmaAt \in Slots
    /\ dma \in {"running", "suspended"}
    /\ sent \in Numbers
    /\ rxDescr \in Slots
    /\ pool \in 0 .. POOL
    /\ held \in 0 .. HELD_MAX
    /\ parked \in 0 .. POOL
    /\ expiry \in 0 .. ARP_MAXPENDING
    /\ pc \in {"look", "copy", "free", "input"}
    /\ chain \in 0 .. POOL
    /\ payload \in Frames
    /\ next \in Numbers

-----------------------------------------------------------------------------

\* What a buffer holds before the first frame.
AnyFrame == [number |-> 0, kind |-> "error", len |-> CHOOSE len \in LENGTHS : TRUE]

Init ==
    /\ owned = {}
    /\ buffer = [i \in Slots |-> AnyFrame]
    /\ dmaAt = 0
    /\ dma = "running"
    /\ sent = 0
    /\ rxDescr = 0
    /\ pool = POOL
    /\ held = 0
    /\ parked = 0
    /\ expiry = 0
    /\ pc = "look"
    /\ chain = 0
    /\ payload = AnyFrame
    /\ next = 0

After(slot) == IF slot = DESCRIPTORS - 1 THEN 0 ELSE slot + 1
FollowingNumber(number) == IF number = 2 * DESCRIPTORS - 1 THEN 0 ELSE number + 1

\* The DMA has received a frame and stores it.
Store(kind, len) ==
    /\ dma = "running"
    /\ dmaAt \notin owned
    /\ buffer' = [buffer EXCEPT ![dmaAt] = [number |-> sent, kind |-> kind, len |-> len]]
    /\ owned' = owned \cup {dmaAt}
    /\ dmaAt' = After(dmaAt)
    /\ sent' = FollowingNumber(sent)
    /\ UNCHANGED <<dma, rxDescr, lent, pc, chain, payload, next>>

\* The DMA fetches the next descriptor and does not own it.
Suspend ==
    /\ dma = "running"
    /\ dmaAt \in owned
    /\ dma' = "suspended"
    /\ UNCHANGED <<owned, buffer, dmaAt, sent, rxDescr, lent, pc, chain, payload, next>>

\* A frame arrives while the DMA is suspended, and leaves no trace.
Lose == dma = "suspended" /\ UNCHANGED vars

\* Errors, context descriptors and frames in pieces get the length 0xFFFF.
GetRxFrameSize(frame) == IF frame.kind = "error" THEN 65535 ELSE frame.len

\* What low_level_input asks of pbuf_alloc; 0xFFFF wraps round to one byte.
PbufsFor(frame) == Chain(U16(GetRxFrameSize(frame) + ETH_PAD_SIZE))

\* A plausible slip: the descriptor is given back before its frame is copied.
Look_FreeEarly ==
    /\ pc = "look"
    /\ rxDescr \in owned
    /\ LET n == PbufsFor(buffer[rxDescr]) IN
       IF n <= pool
       THEN /\ pool' = pool - n
            /\ chain' = n
            /\ pc' = "copy"
            /\ owned' = owned \ {rxDescr}
       ELSE UNCHANGED <<pool, chain, pc, owned>>
    /\ UNCHANGED <<buffer, dmaAt, dma, sent, rxDescr, held, parked, expiry, payload, next>>

\* low_level_input up to pbuf_alloc.  A frame no pbuf is left for stays where
\* it is, and the next poll tries again.  (A length of 0, a frame of nothing
\* but its CRC, would stay for ever; the MAC discards frames that short.)
Look ==
    /\ pc = "look"
    /\ rxDescr \in owned
    /\ LET n == PbufsFor(buffer[rxDescr]) IN
       IF n <= pool
       THEN pool' = pool - n /\ chain' = n /\ pc' = "copy"
       ELSE UNCHANGED <<pool, chain, pc>>
    /\ UNCHANGED <<hardware, rxDescr, held, parked, expiry, payload, next>>

\* A plausible slip: the receiver is not woken.
Copy_NoWake ==
    /\ pc = "copy"
    /\ payload' = buffer[rxDescr]
    /\ pc' = "free"
    /\ UNCHANGED <<hardware, rxDescr, lent, chain, next>>

\* IfxGeth_Eth_getReceiveBuffer, which wakes the DMA, and the copy.  The code
\* wakes the DMA if the flag receiveStopped is set.  That is always, if the
\* hardware sets it at every suspension: nothing clears it, and a DMA that has
\* not been suspended yet is running.
Copy ==
    /\ pc = "copy"
    /\ dma' = "running"
    /\ payload' = buffer[rxDescr]
    /\ pc' = "free"
    /\ UNCHANGED <<owned, buffer, dmaAt, sent, rxDescr, lent, chain, next>>

\* A plausible slip: the driver stays at its descriptor.
FreeReceiveBuffer_Stays ==
    /\ pc = "free"
    /\ owned' = owned \ {rxDescr}
    /\ buffer' = [buffer EXCEPT ![rxDescr].kind = "error"]
    /\ pc' = "input"
    /\ UNCHANGED <<dmaAt, dma, sent, rxDescr, lent, chain, payload, next>>

\* IfxGeth_Eth_freeReceiveBuffer.  The status goes with OWN (RDES3).
FreeReceiveBuffer ==
    /\ pc = "free"
    /\ owned' = owned \ {rxDescr}
    /\ buffer' = [buffer EXCEPT ![rxDescr].kind = "error"]
    /\ rxDescr' = After(rxDescr)
    /\ pc' = "input"
    /\ UNCHANGED <<dmaAt, dma, sent, lent, chain, payload, next>>

\* arp_table[].q as a whole: "gone" pbufs leave it, "stays" more come into it.
\* The new ones may wait for as long as an entry may, the others end before.
ArpHolds(gone, stays) ==
    /\ parked' = parked - gone + stays
    /\ expiry' = IF stays > 0 THEN ARP_MAXPENDING
                 ELSE IF gone = parked THEN 0 ELSE expiry

\* A plausible slip: a packet that a newer one replaces is not freed.
Dispose_Leaks(n, dropped) ==
    \E gone \in 0 .. parked, stays \in 0 .. n :
        /\ ArpHolds(gone, stays)
        /\ pool' = pool + dropped + (n - stays)

\* What lwIP does with a datagram of n pbufs, besides dropping fragments.  UDP
\* and its callbacks free it, and so does all that answers in a pbuf of its
\* own.  An echo request becomes the reply, and stays with ARP if the address
\* is not known, but for pbufs beyond its length (pbuf_realloc in ip4_input).
\* The datagram may also make ARP give up packets: it is the answer, or what is
\* sent for it takes their entries.
Dispose(n, dropped) ==
    \E gone \in 0 .. parked, stays \in 0 .. n :
        /\ ArpHolds(gone, stays)
        /\ pool' = pool + dropped + gone + (n - stays)

\* A frame of an unknown type is freed as it is, any other is a datagram or an
\* ARP packet.
Consume == Dispose(chain, 0) /\ UNCHANGED held

\* What an error left, a byte without a type of its own: freed as unknown by
\* ifx_netif_input, or as too short by ethernet_input.
Discard == pool' = pool + chain /\ UNCHANGED <<held, parked, expiry>>

\* ip4_reass, the datagram not complete: the fragment is kept, but for pbufs
\* beyond its length, or freed, after the oldest datagrams have been dropped if
\* it needed their room.
KeepFragment ==
    \E dropped \in 0 .. held, stays \in 0 .. chain :
        /\ held - dropped + stays <= HELD_MAX
        /\ held' = held - dropped + stays
        /\ pool' = pool + dropped + (chain - stays)
        /\ UNCHANGED <<parked, expiry>>

\* ip4_reass, the datagram complete: the parts kept of it go on with the last.
CompleteDatagram ==
    \E dropped \in 0 .. held, parts \in 1 .. held, last \in 1 .. chain :
        /\ dropped + parts <= held
        /\ held - dropped + last <= HELD_MAX
        /\ held' = held - dropped - parts
        /\ Dispose(parts + last, dropped + (chain - last))

\* ifx_netif_input after low_level_input.
Input ==
    /\ pc = "input"
    /\ \/ payload.kind = "plain" /\ Consume
       \/ payload.kind = "fragment" /\ (KeepFragment \/ CompleteDatagram)
       \/ payload.kind = "error" /\ Discard
    /\ pc' = "look"
    /\ chain' = 0
    /\ payload' = AnyFrame
    /\ next' = FollowingNumber(next)
    /\ UNCHANGED <<hardware, rxDescr>>

ifx_netif_input == Look \/ Copy \/ FreeReceiveBuffer \/ Input

\* etharp_tmr, called every second between two polls while the link is up: the
\* packets that have waited long enough are freed.
etharp_tmr ==
    /\ pc = "look"
    /\ \E gone \in 0 .. parked :
           /\ expiry <= 1 => gone = parked
           /\ pool' = pool + gone
           /\ parked' = parked - gone
           /\ expiry' = IF gone = parked THEN 0 ELSE expiry - 1
    /\ UNCHANGED <<hardware, rxDescr, held, pc, chain, payload, next>>

Next ==
    \/ \E kind \in Kinds, len \in LENGTHS : Store(kind, len)
    \/ Suspend
    \/ Lose
    \/ ifx_netif_input
    \/ etharp_tmr

Spec == Init /\ [][Next]_vars

-----------------------------------------------------------------------------

\* Every pbuf is free, kept for reassembly, waiting in the ARP table, or in the
\* hands of the driver: no path through driver, lwIP, ARP and callbacks loses
\* one or frees one twice.
NoPbufLost == pool + held + parked + chain = POOL

\* The way out of low_level_input that ought to drop the packet (TODO, line
\* 417) and leaves it to block the ring.
Blocked == pc = "look" /\ rxDescr \in owned /\ PbufsFor(buffer[rxDescr]) > pool

\* That way is taken only for what ARP holds: the fragments lwIP keeps never
\* block a frame (opt.h:788), and one that is blocked would find its pbufs if
\* ARP gave up its own, which is seconds away.
OnlyArpBlocks == Blocked => PbufsFor(buffer[rxDescr]) <= pool + parked /\ expiry > 0

\* What is handed to lwIP is each stored frame, once, in order, and as it was
\* stored: the DMA has not written over it before it was copied.
EachFrameOnce == pc \in {"free", "input"} => payload.number = next

=============================================================================
