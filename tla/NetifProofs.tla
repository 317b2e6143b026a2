----------------------------- MODULE NetifProofs -----------------------------
(* Theorems about Netif: for any receive ring of two descriptors or more and  *)
(* any pool that holds a full reassembly and one frame, for any transmit ring *)
(* and any number of frames sent on one occasion.                            *)
EXTENDS Netif, Integers, TLAPS

-----------------------------------------------------------------------------
(* Reception.                                                                *)

\* From a forward to b in a ring of m.
Gap(a, b, m) == IF a <= b THEN b - a ELSE b - a + m

\* The number of the frame due at rxDescr: Input counts a frame as taken after
\* its descriptor has been left.
Due == IF pc = "input" THEN FollowingNumber(next) ELSE next

\* Frames stored and not yet taken out.
Stored == Gap(Due, sent, 2 * DESCRIPTORS)

PlaceOf(slot) == Gap(rxDescr, slot, DESCRIPTORS)

\* The driver owns the descriptors from its own up to the DMA's, and the
\* frames in them are numbered one after the other.
RingInv ==
    /\ \A i \in Slots : i \in owned <=> PlaceOf(i) < Stored
    /\ \A i \in owned : Gap(Due, buffer[i].number, 2 * DESCRIPTORS) = PlaceOf(i)
    /\ Stored <= DESCRIPTORS
    /\ PlaceOf(dmaAt) = IF Stored = DESCRIPTORS THEN 0 ELSE Stored

\* What the poll has in hand.
PollInv ==
    /\ pc \in {"copy", "free"} => rxDescr \in owned
    /\ pc = "free" => payload = buffer[rxDescr]
    /\ pc = "input" => payload.number = next

\* Where each pbuf is, and that what ARP holds has some time left.
PoolInv ==
    /\ pool + held + parked + chain = POOL
    /\ pc = "look" => chain = 0
    /\ parked > 0 => expiry > 0

IInv == TypeOK /\ RingInv /\ PollInv /\ PoolInv
-----------------------------------------------------------------------------

\* A chain is a number of pbufs, and one byte takes one.
LEMMA ChainNat == \A len \in Nat : Chain(len) \in Nat
<1>1. BUFSIZE \in Nat /\ BUFSIZE > 0
  BY NetifAssumption
<1> QED
  BY <1>1, SMTT(30) DEF Chain

LEMMA ChainOne == Chain(1) = 1
<1>1. BUFSIZE \in Nat /\ BUFSIZE > 0
  BY NetifAssumption
<1>2. BUFSIZE \div BUFSIZE = 1
  BY <1>1, SMTT(30)
<1> QED
  BY <1>1, <1>2 DEF Chain

\* What low_level_input asks for fits beside a full reassembly, also for the
\* length that stands for an error, which wraps round.
LEMMA PbufsFit ==
    ASSUME NEW frame \in Frames
    PROVE  PbufsFor(frame) \in Nat /\ HELD_MAX + PbufsFor(frame) <= POOL
<1>1. frame.len \in LENGTHS /\ frame.len \in Nat /\ frame.len <= 2000
  <2>1. frame.len \in LENGTHS
    BY DEF Frames
  <2> QED
    BY <2>1, NetifAssumption
<1>2. CASE frame.kind = "error"
  <2>1. U16(65535 + ETH_PAD_SIZE) = 1
    BY SMT DEF U16, ETH_PAD_SIZE
  <2>2. PbufsFor(frame) = 1
    BY <1>2, <2>1, ChainOne DEF PbufsFor, GetRxFrameSize
  <2> QED
    BY <2>2, NetifAssumption
<1>3. CASE frame.kind # "error"
  <2>1. U16(frame.len + ETH_PAD_SIZE) = frame.len + ETH_PAD_SIZE
    BY <1>1, SMT DEF U16, ETH_PAD_SIZE
  <2>2. PbufsFor(frame) = Chain(frame.len + ETH_PAD_SIZE)
    BY <1>3, <2>1 DEF PbufsFor, GetRxFrameSize
  <2>3. frame.len + ETH_PAD_SIZE \in Nat
    BY <1>1 DEF ETH_PAD_SIZE
  <2>4. HELD_MAX + Chain(frame.len + ETH_PAD_SIZE) <= POOL
    BY <1>1, NetifAssumption
  <2> QED
    BY <2>2, <2>3, <2>4, ChainNat
<1> QED
  BY <1>2, <1>3

-----------------------------------------------------------------------------
(* The invariant.                                                            *)

LEMMA AnyFrameTyped == AnyFrame \in Frames
<1>1. (CHOOSE len \in LENGTHS : TRUE) \in LENGTHS
  BY NetifAssumption
<1>2. 0 \in Numbers
  BY NetifAssumption DEF Numbers
<1> QED
  BY <1>1, <1>2 DEF AnyFrame, Frames, Kinds

LEMMA InitIInv == Init => IInv
<1> SUFFICES ASSUME Init PROVE IInv
  OBVIOUS
<1>1. TypeOK
  BY AnyFrameTyped, NetifAssumption DEF Init, TypeOK, Slots, Numbers
<1>2. RingInv
  BY NetifAssumption DEF Init, RingInv, Gap, PlaceOf, Due, Stored, Slots
<1> QED
  BY <1>1, <1>2, NetifAssumption DEF Init, IInv, PollInv, PoolInv

LEMMA StoreIInv ==
    ASSUME IInv, NEW kind \in Kinds, NEW len \in LENGTHS, Store(kind, len)
    PROVE  IInv'
<1>1. TypeOK'
  <2>1. [number |-> sent, kind |-> kind, len |-> len] \in Frames
    BY DEF IInv, TypeOK, Frames
  <2>2. buffer' \in [Slots -> Frames]
    BY <2>1 DEF IInv, TypeOK, Store
  <2>3. dmaAt' \in Slots /\ sent' \in Numbers
    BY NetifAssumption DEF IInv, TypeOK, Store, After, FollowingNumber, Slots, Numbers
  <2> QED
    BY <2>2, <2>3 DEF IInv, TypeOK, Store, lent
<1>2. RingInv'
  <2>1. Due' = Due /\ Due \in Numbers
    BY NetifAssumption DEF IInv, TypeOK, Store, Due, FollowingNumber, Numbers
  <2>2. Stored < DESCRIPTORS /\ PlaceOf(dmaAt) = Stored
    BY NetifAssumption, <2>1 DEF IInv, TypeOK, RingInv, Store, Stored, Gap, PlaceOf, Slots, Numbers
  <2>3. Stored' = Stored + 1
    BY NetifAssumption, <2>1, <2>2 DEF IInv, TypeOK, Store, Stored, Gap, FollowingNumber, Numbers
  <2>4. \A i \in Slots : PlaceOf(i)' = PlaceOf(i) /\ (i # dmaAt => PlaceOf(i) # PlaceOf(dmaAt))
    BY NetifAssumption DEF IInv, TypeOK, Store, PlaceOf, Gap, Slots
  <2>5. \A i \in Slots : i \in owned' <=> PlaceOf(i)' < Stored'
    <3> SUFFICES ASSUME NEW i \in Slots PROVE i \in owned' <=> PlaceOf(i)' < Stored'
      OBVIOUS
    <3>1. PlaceOf(i) \in Int /\ Stored \in Int
      BY NetifAssumption, <2>1 DEF IInv, TypeOK, PlaceOf, Stored, Gap, Slots, Numbers
    <3> QED
      BY <3>1, <2>2, <2>3, <2>4 DEF IInv, RingInv, Store, TypeOK
  <2>6. \A i \in owned' : Gap(Due, buffer[i].number, 2 * DESCRIPTORS)' = PlaceOf(i)'
    <3> SUFFICES ASSUME NEW i \in owned'
                 PROVE  Gap(Due', buffer'[i].number, 2 * DESCRIPTORS) = PlaceOf(i)'
      OBVIOUS
    <3>1. CASE i = dmaAt
      <4>1. buffer'[i].number = sent
        BY <3>1 DEF IInv, TypeOK, Store
      <4> QED
        BY <4>1, <3>1, <2>1, <2>2, <2>4 DEF IInv, TypeOK, Stored
    <3>2. CASE i # dmaAt
      <4>1. i \in owned /\ i \in Slots /\ buffer'[i] = buffer[i]
        BY <3>2 DEF IInv, TypeOK, Store
      <4> QED
        BY <4>1, <2>1, <2>4 DEF IInv, RingInv
    <3> QED
      BY <3>1, <3>2
  <2>7. PlaceOf(dmaAt)' = IF Stored' = DESCRIPTORS THEN 0 ELSE Stored'
    BY NetifAssumption, <2>2, <2>3 DEF IInv, TypeOK, Store, PlaceOf, Gap, After, Slots
  <2>8. Stored' <= DESCRIPTORS
    <3>1. Stored \in Int
      BY <2>1, NetifAssumption DEF IInv, TypeOK, Stored, Gap, Numbers
    <3> QED
      BY <3>1, <2>2, <2>3, NetifAssumption
  <2> QED
    BY <2>5, <2>6, <2>7, <2>8 DEF RingInv
<1>3. PollInv'
  BY DEF IInv, TypeOK, RingInv, PollInv, Store
<1>4. PoolInv'
  BY DEF IInv, PoolInv, Store, lent
<1> QED
  BY <1>1, <1>2, <1>3, <1>4 DEF IInv

LEMMA SuspendIInv == IInv /\ Suspend => IInv'
<1> SUFFICES ASSUME IInv, Suspend PROVE IInv'
  OBVIOUS
<1>1. TypeOK'
  BY DEF IInv, TypeOK, Suspend, lent
<1>2. RingInv'
  BY DEF IInv, RingInv, Suspend, Due, Stored, PlaceOf, Gap
<1> QED
  BY <1>1, <1>2 DEF IInv, PollInv, PoolInv, Suspend, lent

LEMMA LookIInv == IInv /\ Look => IInv'
<1> SUFFICES ASSUME IInv, Look PROVE IInv'
  OBVIOUS
<1> DEFINE n == PbufsFor(buffer[rxDescr])
<1>1. buffer[rxDescr] \in Frames
  BY DEF IInv, TypeOK, Look
<1>2. n \in Nat
  BY <1>1, PbufsFit
<1> HIDE DEF n
<1>3. \/ n <= pool /\ pool' = pool - n /\ chain' = n /\ pc' = "copy"
      \/ UNCHANGED <<pool, chain, pc>>
  BY DEF Look, n
<1>4. TypeOK'
  BY <1>2, <1>3, NetifAssumption DEF IInv, TypeOK, Look, hardware
<1>5. RingInv'
  BY <1>3 DEF IInv, RingInv, Look, hardware, Due, Stored, PlaceOf, Gap
<1>6. PollInv'
  BY <1>3 DEF IInv, PollInv, Look, hardware
<1>7. PoolInv'
  BY <1>2, <1>3, NetifAssumption DEF IInv, TypeOK, PoolInv, Look
<1> QED
  BY <1>4, <1>5, <1>6, <1>7 DEF IInv

LEMMA CopyIInv == IInv /\ Copy => IInv'
<1> SUFFICES ASSUME IInv, Copy PROVE IInv'
  OBVIOUS
<1>1. TypeOK'
  BY DEF IInv, TypeOK, Copy, lent
<1>2. RingInv'
  BY DEF IInv, RingInv, Copy, Due, Stored, PlaceOf, Gap
<1>3. PollInv'
  BY DEF IInv, PollInv, Copy
<1> QED
  BY <1>1, <1>2, <1>3 DEF IInv, PoolInv, Copy, lent

LEMMA FreeIInv == IInv /\ FreeReceiveBuffer => IInv'
<1> SUFFICES ASSUME IInv, FreeReceiveBuffer PROVE IInv'
  OBVIOUS
<1>0. rxDescr' = After(rxDescr)
  BY DEF FreeReceiveBuffer
<1>1. TypeOK'
  <2>1. rxDescr' \in Slots
    BY <1>0, NetifAssumption DEF IInv, TypeOK, After, Slots
  <2>2. buffer' \in [Slots -> Frames]
    BY DEF IInv, TypeOK, FreeReceiveBuffer, Frames, Kinds
  <2> QED
    BY <2>1, <2>2 DEF IInv, TypeOK, FreeReceiveBuffer, lent
<1>2. Due' = FollowingNumber(Due) /\ Due = next /\ Due \in Numbers
  BY DEF IInv, TypeOK, FreeReceiveBuffer, Due
<1>3. rxDescr \in owned /\ rxDescr \in Slots /\ PlaceOf(rxDescr) = 0
  BY NetifAssumption DEF IInv, TypeOK, PollInv, FreeReceiveBuffer, PlaceOf, Gap, Slots
<1>4. Stored > 0 /\ Stored <= DESCRIPTORS /\ Stored \in Nat
  BY <1>2, <1>3, NetifAssumption DEF IInv, TypeOK, RingInv, Stored, Gap, Numbers
<1>5. Stored' = Stored - 1
  BY <1>2, <1>4, NetifAssumption
  DEF IInv, TypeOK, FreeReceiveBuffer, Stored, Gap, FollowingNumber, Numbers
<1>6. \A i \in Slots : PlaceOf(i)' = IF i = rxDescr THEN DESCRIPTORS - 1 ELSE PlaceOf(i) - 1
  BY <1>0, <1>3, NetifAssumption DEF PlaceOf, Gap, After, Slots
<1>7. \A i \in Slots : PlaceOf(i) \in 0 .. DESCRIPTORS - 1 /\ (i # rxDescr => PlaceOf(i) > 0)
  BY NetifAssumption DEF IInv, TypeOK, PlaceOf, Gap, Slots
<1>8. \A i \in Slots : i \in owned' <=> PlaceOf(i)' < Stored'
  <2> SUFFICES ASSUME NEW i \in Slots PROVE i \in owned' <=> PlaceOf(i)' < Stored'
    OBVIOUS
  <2>1. i \in owned <=> PlaceOf(i) < Stored
    BY DEF IInv, RingInv
  <2> QED
    BY <2>1, <1>4, <1>5, <1>6, <1>7, NetifAssumption DEF FreeReceiveBuffer
<1>9. \A i \in owned' : Gap(Due, buffer[i].number, 2 * DESCRIPTORS)' = PlaceOf(i)'
  <2> SUFFICES ASSUME NEW i \in owned'
               PROVE  Gap(Due', buffer'[i].number, 2 * DESCRIPTORS) = PlaceOf(i)'
    OBVIOUS
  <2>1. /\ i \in owned /\ i # rxDescr /\ i \in Slots /\ buffer[i].number \in Numbers
        /\ buffer'[i] = buffer[i]
    BY DEF IInv, TypeOK, FreeReceiveBuffer, Frames
  <2>2. Gap(Due, buffer[i].number, 2 * DESCRIPTORS) = PlaceOf(i)
    BY <2>1 DEF IInv, RingInv
  <2>3. PlaceOf(i) > 0 /\ PlaceOf(i) \in Int /\ PlaceOf(i)' = PlaceOf(i) - 1
    BY <2>1, <1>6, <1>7
  <2> HIDE DEF PlaceOf
  <2> QED
    BY <1>2, <2>1, <2>2, <2>3, NetifAssumption DEF Gap, FollowingNumber, Numbers
<1>10. PlaceOf(dmaAt)' = IF Stored' = DESCRIPTORS THEN 0 ELSE Stored'
  <2>1. dmaAt' = dmaAt /\ dmaAt \in Slots
    BY DEF IInv, TypeOK, FreeReceiveBuffer
  <2>2. PlaceOf(dmaAt)' = IF dmaAt = rxDescr THEN DESCRIPTORS - 1 ELSE PlaceOf(dmaAt) - 1
    BY <1>6, <2>1 DEF PlaceOf
  <2>3. PlaceOf(dmaAt) = IF Stored = DESCRIPTORS THEN 0 ELSE Stored
    BY DEF IInv, RingInv
  <2>4. dmaAt = rxDescr <=> PlaceOf(dmaAt) = 0
    BY <1>3, <1>7, <2>1
  <2> QED
    BY <1>4, <1>5, <2>2, <2>3, <2>4, NetifAssumption
<1>11. PollInv'
  BY <1>2, <1>3, NetifAssumption DEF IInv, TypeOK, RingInv, PollInv, FreeReceiveBuffer, Gap, Numbers, Frames
<1>12. PoolInv'
  BY DEF IInv, PoolInv, FreeReceiveBuffer, lent
<1>13. Stored' <= DESCRIPTORS
  BY <1>4, <1>5, NetifAssumption
<1> QED
  BY <1>1, <1>8, <1>9, <1>10, <1>11, <1>12, <1>13 DEF IInv, RingInv

\* What becomes of n pbufs handed over and of ones dropped from reassembly: the
\* table has so many more, the pool the rest.
LEMMA Disposed ==
    ASSUME IInv, NEW n \in Nat, NEW dropped \in Nat, Dispose(n, dropped)
    PROVE  /\ \E more \in Int :
                  parked' = parked + more /\ pool' = pool + dropped + n - more
           /\ pool' \in Nat /\ parked' \in Nat /\ expiry' \in 0 .. ARP_MAXPENDING
           /\ parked' > 0 => expiry' > 0
<1>1. PICK gone \in 0 .. parked, stays \in 0 .. n :
          ArpHolds(gone, stays) /\ pool' = pool + dropped + gone + (n - stays)
  BY DEF Dispose
<1>2. /\ parked \in Nat /\ pool \in Nat /\ expiry \in 0 .. ARP_MAXPENDING
      /\ ARP_MAXPENDING \in Nat /\ ARP_MAXPENDING > 0 /\ (parked > 0 => expiry > 0)
  BY NetifAssumption DEF IInv, TypeOK, PoolInv
<1>3. /\ parked' = parked - gone + stays
      /\ expiry' = IF stays > 0 THEN ARP_MAXPENDING
                   ELSE IF gone = parked THEN 0 ELSE expiry
  BY <1>1 DEF ArpHolds
<1>4. \E more \in Int : parked' = parked + more /\ pool' = pool + dropped + n - more
  <2>1. /\ stays - gone \in Int
        /\ parked' = parked + (stays - gone)
        /\ pool' = pool + dropped + n - (stays - gone)
    BY <1>1, <1>2, <1>3
  <2> QED
    BY <2>1
<1> QED
  BY <1>1, <1>2, <1>3, <1>4

\* What becomes of the pbufs of a frame that has been handed over.
LEMMA HandedOver ==
    ASSUME IInv, Input
    PROVE  /\ held' \in 0 .. HELD_MAX /\ pool' \in Nat /\ parked' \in Nat
           /\ expiry' \in 0 .. ARP_MAXPENDING
           /\ pool' + held' + parked' = POOL
           /\ parked' > 0 => expiry' > 0
<1>1. /\ held \in Nat /\ held <= HELD_MAX /\ HELD_MAX \in Nat
      /\ pool \in Nat /\ parked \in Nat /\ chain \in Nat /\ POOL \in Nat
      /\ pool + held + parked + chain = POOL
      /\ expiry \in 0 .. ARP_MAXPENDING /\ (parked > 0 => expiry > 0)
  BY NetifAssumption DEF IInv, TypeOK, PoolInv
<1>2. CASE Consume
  <2>1. Dispose(chain, 0) /\ held' = held
    BY <1>2 DEF Consume
  <2>2. PICK more \in Int : parked' = parked + more /\ pool' = pool + 0 + chain - more
    BY <1>1, <2>1, Disposed
  <2>3. /\ pool' \in Nat /\ parked' \in Nat /\ expiry' \in 0 .. ARP_MAXPENDING
        /\ parked' > 0 => expiry' > 0
    BY <1>1, <2>1, Disposed
  <2>4. pool' + held' + parked' = POOL
    BY <1>1, <2>1, <2>2
  <2>5. held' \in 0 .. HELD_MAX
    BY <1>1, <2>1
  <2> QED
    BY <2>3, <2>4, <2>5
<1>3. CASE Discard
  BY <1>1, <1>3 DEF Discard
<1>4. CASE KeepFragment
  <2>1. PICK dropped \in 0 .. held, stays \in 0 .. chain :
            /\ held - dropped + stays <= HELD_MAX
            /\ held' = held - dropped + stays
            /\ pool' = pool + dropped + (chain - stays)
            /\ parked' = parked /\ expiry' = expiry
    BY <1>4 DEF KeepFragment
  <2> QED
    BY <1>1, <2>1
<1>5. CASE CompleteDatagram
  <2>1. PICK dropped \in 0 .. held, parts \in 1 .. held, last \in 1 .. chain :
            /\ dropped + parts <= held
            /\ held' = held - dropped - parts
            /\ Dispose(parts + last, dropped + (chain - last))
    BY <1>5 DEF CompleteDatagram
  <2>2. parts + last \in Nat /\ dropped + (chain - last) \in Nat
    BY <1>1
  <2>3. PICK more \in Int : /\ parked' = parked + more
                            /\ pool' = pool + (dropped + (chain - last)) + (parts + last) - more
    BY <2>1, <2>2, Disposed
  <2>4. /\ pool' \in Nat /\ parked' \in Nat /\ expiry' \in 0 .. ARP_MAXPENDING
        /\ parked' > 0 => expiry' > 0
    BY <2>1, <2>2, Disposed
  <2>5. pool' + held' + parked' = POOL
    BY <1>1, <2>1, <2>3
  <2>6. held' \in 0 .. HELD_MAX
    BY <1>1, <2>1
  <2> QED
    BY <2>4, <2>5, <2>6
<1> QED
  BY <1>2, <1>3, <1>4, <1>5 DEF Input

LEMMA InputIInv == IInv /\ Input => IInv'
<1> SUFFICES ASSUME IInv, Input PROVE IInv'
  OBVIOUS
<1>1. Due' = Due /\ next' \in Numbers
  BY NetifAssumption DEF IInv, TypeOK, Input, Due, FollowingNumber, Numbers
<1>2. /\ owned' = owned /\ buffer' = buffer /\ dmaAt' = dmaAt /\ dma' = dma /\ sent' = sent
      /\ rxDescr' = rxDescr /\ pc' = "look" /\ chain' = 0 /\ payload' = AnyFrame
  BY DEF Input, hardware
<1>3. pool' \in 0 .. POOL /\ parked' \in 0 .. POOL
  BY HandedOver, NetifAssumption
<1>4. TypeOK'
  BY <1>1, <1>2, <1>3, HandedOver, AnyFrameTyped, NetifAssumption DEF IInv, TypeOK
<1>5. RingInv'
  BY <1>1, <1>2 DEF IInv, RingInv, Stored, PlaceOf, Gap
<1>6. PoolInv'
  BY <1>2, HandedOver, NetifAssumption DEF PoolInv
<1> QED
  BY <1>2, <1>4, <1>5, <1>6 DEF IInv, PollInv

\* A second of the ARP timer.
LEMMA TimerIInv == IInv /\ etharp_tmr => IInv'
<1> SUFFICES ASSUME IInv, etharp_tmr PROVE IInv'
  OBVIOUS
<1>1. PICK gone \in 0 .. parked :
          /\ expiry <= 1 => gone = parked
          /\ pool' = pool + gone
          /\ parked' = parked - gone
          /\ expiry' = IF gone = parked THEN 0 ELSE expiry - 1
  BY DEF etharp_tmr
<1>2. /\ pool \in Nat /\ held \in Nat /\ parked \in Nat /\ chain \in Nat /\ POOL \in Nat
      /\ pool + held + parked + chain = POOL
      /\ expiry \in 0 .. ARP_MAXPENDING /\ ARP_MAXPENDING \in Nat
  BY NetifAssumption DEF IInv, TypeOK, PoolInv
<1>3. /\ pool' \in 0 .. POOL /\ parked' \in 0 .. POOL /\ expiry' \in 0 .. ARP_MAXPENDING
      /\ pool' + held + parked' + chain = POOL
      /\ parked' > 0 => expiry' > 0
  BY <1>1, <1>2
<1>4. UNCHANGED <<hardware, rxDescr, held, pc, chain, payload, next>>
  BY DEF etharp_tmr
<1>5. TypeOK'
  BY <1>3, <1>4 DEF IInv, TypeOK, hardware
<1>6. RingInv'
  BY <1>4 DEF IInv, RingInv, hardware, Due, Stored, PlaceOf, Gap
<1> QED
  BY <1>3, <1>4, <1>5, <1>6 DEF IInv, PollInv, PoolInv, hardware

LEMMA NextIInv == IInv /\ [Next]_vars => IInv'
<1> SUFFICES ASSUME IInv, [Next]_vars PROVE IInv'
  OBVIOUS
<1>1. CASE \E kind \in Kinds, len \in LENGTHS : Store(kind, len)
  BY <1>1, StoreIInv
<1>2. CASE Suspend
  BY <1>2, SuspendIInv
<1>3. CASE ifx_netif_input
  BY <1>3, LookIInv, CopyIInv, FreeIInv, InputIInv DEF ifx_netif_input
<1>4. CASE etharp_tmr
  BY <1>4, TimerIInv
<1>5. CASE Lose \/ UNCHANGED vars
  <2> UNCHANGED vars
    BY <1>5 DEF Lose
  <2>1. TypeOK'
    BY DEF IInv, TypeOK, vars, lent, hardware
  <2>2. RingInv'
    BY DEF IInv, RingInv, Due, Stored, PlaceOf, Gap, vars, lent, hardware
  <2> QED
    BY <2>1, <2>2 DEF IInv, PollInv, PoolInv, vars, lent, hardware
<1> QED
  BY <1>1, <1>2, <1>3, <1>4, <1>5 DEF Next

-----------------------------------------------------------------------------
(* Sending.                                                                  *)

\* Frames given to the DMA and not yet sent.
Queued == Gap(due, written, 2 * TX_DESCRIPTORS)

TxPlaceOf(slot) == Gap(txDmaAt, slot, TX_DESCRIPTORS)

\* The DMA owns the descriptors from its own up to the driver's, the frames in
\* them are numbered one after the other, and the driver has waited for the one
\* it has written to.
TxRingInv ==
    /\ \A i \in TxSlots : i \in txOwned <=> TxPlaceOf(i) < Queued
    /\ \A i \in txOwned : Gap(due, txBuffer[i], 2 * TX_DESCRIPTORS) = TxPlaceOf(i)
    /\ Queued <= TX_DESCRIPTORS
    /\ TxPlaceOf(txDescr) = IF Queued = TX_DESCRIPTORS THEN 0 ELSE Queued
    /\ txPc = "release" => txDescr \notin txOwned /\ txBuffer[txDescr] = written

\* There is something to send while the driver is at it.
TxInv == TxTypeOK /\ TxRingInv /\ (txPc # "idle" => toSend > 0)

LEMMA InitTxInv == TxInit => TxInv
<1> SUFFICES ASSUME TxInit PROVE TxInv
  OBVIOUS
<1>1. TxTypeOK
  BY NetifTxAssumption DEF TxInit, TxTypeOK, TxSlots, TxNumbers
<1>2. TxRingInv
  BY NetifTxAssumption DEF TxInit, TxRingInv, Queued, TxPlaceOf, Gap, TxSlots
<1> QED
  BY <1>1, <1>2 DEF TxInit, TxInv

LEMMA StartTxInv == ASSUME TxInv, NEW n \in 0 .. BURST, StartSending(n) PROVE TxInv'
<1>1. TxTypeOK' /\ (txPc' # "idle" => toSend' > 0)
  BY NetifTxAssumption DEF TxInv, TxTypeOK, StartSending
<1>2. TxRingInv'
  BY DEF TxInv, TxRingInv, Queued, TxPlaceOf, Gap, StartSending
<1> QED
  BY <1>1, <1>2 DEF TxInv

LEMMA WaitTxInv == TxInv /\ WaitTransmitBuffer => TxInv'
<1> SUFFICES ASSUME TxInv, WaitTransmitBuffer PROVE TxInv'
  OBVIOUS
<1>1. TxTypeOK' /\ (txPc' # "idle" => toSend' > 0)
  BY DEF TxInv, TxTypeOK, WaitTransmitBuffer
<1>2. \A i \in txOwned : txBuffer'[i] = txBuffer[i]
  BY DEF TxInv, TxTypeOK, WaitTransmitBuffer
<1>3. txBuffer'[txDescr] = written
  BY DEF TxInv, TxTypeOK, WaitTransmitBuffer
<1>4. TxRingInv'
  BY <1>2, <1>3 DEF TxInv, TxRingInv, Queued, TxPlaceOf, Gap, WaitTransmitBuffer
<1> QED
  BY <1>1, <1>4 DEF TxInv

\* The driver gives a descriptor to the DMA: one more is queued.
LEMMA SendTxInv == TxInv /\ SendTransmitBuffer => TxInv'
<1> SUFFICES ASSUME TxInv, SendTransmitBuffer PROVE TxInv'
  OBVIOUS
<1>1. TxTypeOK' /\ (txPc' # "idle" => toSend' > 0)
  <2>1. toSend > 0 /\ toSend \in 0 .. BURST
    BY DEF TxInv, TxTypeOK, SendTransmitBuffer
  <2>2. toSend' \in 0 .. BURST /\ (toSend # 1 => toSend' > 0)
    BY <2>1, NetifTxAssumption DEF SendTransmitBuffer
  <2>3. txDescr' \in TxSlots /\ written' \in TxNumbers
    BY NetifTxAssumption
    DEF TxInv, TxTypeOK, SendTransmitBuffer, TxAfter, TxFollowing, TxSlots, TxNumbers
  <2> QED
    BY <2>2, <2>3 DEF TxInv, TxTypeOK, SendTransmitBuffer
<1>2. Queued < TX_DESCRIPTORS /\ TxPlaceOf(txDescr) = Queued /\ Queued \in Nat
  BY NetifTxAssumption
  DEF TxInv, TxTypeOK, TxRingInv, SendTransmitBuffer, Queued, Gap, TxPlaceOf, TxSlots, TxNumbers
<1>3. Queued' = Queued + 1
  BY NetifTxAssumption, <1>2
  DEF TxInv, TxTypeOK, SendTransmitBuffer, Queued, Gap, TxFollowing, TxNumbers
<1>4. \A i \in TxSlots :
          /\ TxPlaceOf(i)' = TxPlaceOf(i) /\ TxPlaceOf(i) \in Int
          /\ i # txDescr => TxPlaceOf(i) # TxPlaceOf(txDescr)
  BY NetifTxAssumption DEF TxInv, TxTypeOK, SendTransmitBuffer, TxPlaceOf, Gap, TxSlots
<1>5. \A i \in TxSlots : i \in txOwned' <=> TxPlaceOf(i)' < Queued'
  BY <1>2, <1>3, <1>4 DEF TxInv, TxRingInv, TxTypeOK, SendTransmitBuffer
<1>6. \A i \in txOwned' : Gap(due, txBuffer[i], 2 * TX_DESCRIPTORS)' = TxPlaceOf(i)'
  <2> SUFFICES ASSUME NEW i \in txOwned'
               PROVE  Gap(due, txBuffer[i], 2 * TX_DESCRIPTORS) = TxPlaceOf(i)'
    BY DEF SendTransmitBuffer
  <2>1. CASE i = txDescr
    BY <2>1, <1>2, <1>4 DEF TxInv, TxTypeOK, TxRingInv, SendTransmitBuffer, Queued
  <2>2. CASE i # txDescr
    BY <2>2, <1>4 DEF TxInv, TxTypeOK, TxRingInv, SendTransmitBuffer
  <2> QED
    BY <2>1, <2>2
<1>7. TxPlaceOf(txDescr)' = IF Queued' = TX_DESCRIPTORS THEN 0 ELSE Queued'
  BY NetifTxAssumption, <1>2, <1>3
  DEF TxInv, TxTypeOK, SendTransmitBuffer, TxPlaceOf, Gap, TxAfter, TxSlots
<1>8. Queued' <= TX_DESCRIPTORS
  BY <1>2, <1>3, NetifTxAssumption
<1> QED
  BY <1>1, <1>5, <1>6, <1>7, <1>8 DEF TxInv, TxRingInv, SendTransmitBuffer

\* The DMA has sent its first: one fewer is queued, and each moves up.
LEMMA TransmitTxInv == TxInv /\ Transmit => TxInv'
<1> SUFFICES ASSUME TxInv, Transmit PROVE TxInv'
  OBVIOUS
<1>1. TxTypeOK' /\ (txPc' # "idle" => toSend' > 0)
  BY NetifTxAssumption DEF TxInv, TxTypeOK, Transmit, TxAfter, TxFollowing, TxSlots, TxNumbers
<1>2. TxPlaceOf(txDmaAt) = 0 /\ txDmaAt \in TxSlots
  BY NetifTxAssumption DEF TxInv, TxTypeOK, TxPlaceOf, Gap, TxSlots
<1>3. Queued > 0 /\ Queued <= TX_DESCRIPTORS /\ Queued \in Nat
  BY <1>2, NetifTxAssumption DEF TxInv, TxTypeOK, TxRingInv, Transmit, Queued, Gap, TxNumbers
<1>4. Queued' = Queued - 1
  BY <1>3, NetifTxAssumption
  DEF TxInv, TxTypeOK, Transmit, Queued, Gap, TxFollowing, TxNumbers
<1>5. \A i \in TxSlots :
          /\ TxPlaceOf(i)' = IF i = txDmaAt THEN TX_DESCRIPTORS - 1 ELSE TxPlaceOf(i) - 1
          /\ TxPlaceOf(i) \in 0 .. TX_DESCRIPTORS - 1
          /\ i # txDmaAt => TxPlaceOf(i) > 0
  BY NetifTxAssumption DEF TxInv, TxTypeOK, Transmit, TxPlaceOf, Gap, TxAfter, TxSlots
<1>6. \A i \in TxSlots : i \in txOwned' <=> TxPlaceOf(i)' < Queued'
  <2> SUFFICES ASSUME NEW i \in TxSlots PROVE i \in txOwned' <=> TxPlaceOf(i)' < Queued'
    OBVIOUS
  <2>1. i \in txOwned <=> TxPlaceOf(i) < Queued
    BY DEF TxInv, TxRingInv
  <2> QED
    BY <2>1, <1>3, <1>4, <1>5, NetifTxAssumption DEF Transmit
<1>7. \A i \in txOwned' : Gap(due, txBuffer[i], 2 * TX_DESCRIPTORS)' = TxPlaceOf(i)'
  <2> SUFFICES ASSUME NEW i \in txOwned'
               PROVE  Gap(due', txBuffer[i], 2 * TX_DESCRIPTORS) = TxPlaceOf(i)'
    BY DEF Transmit
  <2>1. i \in txOwned /\ i # txDmaAt /\ i \in TxSlots /\ txBuffer[i] \in TxNumbers
    BY DEF TxInv, TxTypeOK, Transmit
  <2>2. Gap(due, txBuffer[i], 2 * TX_DESCRIPTORS) = TxPlaceOf(i)
    BY <2>1 DEF TxInv, TxRingInv
  <2>3. TxPlaceOf(i) > 0 /\ TxPlaceOf(i) \in Int /\ TxPlaceOf(i)' = TxPlaceOf(i) - 1
    BY <2>1, <1>5
  <2>4. due \in TxNumbers /\ due' = TxFollowing(due)
    BY DEF TxInv, TxTypeOK, Transmit
  <2> HIDE DEF TxPlaceOf
  <2> QED
    BY <2>1, <2>2, <2>3, <2>4, NetifTxAssumption DEF Gap, TxFollowing, TxNumbers
<1>8. TxPlaceOf(txDescr)' = IF Queued' = TX_DESCRIPTORS THEN 0 ELSE Queued'
  <2>1. txDescr' = txDescr /\ txDescr \in TxSlots
    BY DEF TxInv, TxTypeOK, Transmit
  <2>2. TxPlaceOf(txDescr)'
            = IF txDescr = txDmaAt THEN TX_DESCRIPTORS - 1 ELSE TxPlaceOf(txDescr) - 1
    BY <1>5, <2>1 DEF TxPlaceOf
  <2>3. TxPlaceOf(txDescr) = IF Queued = TX_DESCRIPTORS THEN 0 ELSE Queued
    BY DEF TxInv, TxRingInv
  <2>4. txDescr = txDmaAt <=> TxPlaceOf(txDescr) = 0
    BY <1>2, <1>5, <2>1
  <2> QED
    BY <1>3, <1>4, <2>2, <2>3, <2>4, NetifTxAssumption
<1>9. Queued' <= TX_DESCRIPTORS
  BY <1>3, <1>4, NetifTxAssumption
<1> QED
  BY <1>1, <1>6, <1>7, <1>8, <1>9 DEF TxInv, TxRingInv, Transmit

LEMMA OtherTxInv == TxInv /\ (TxSuspend \/ UNCHANGED txVars) => TxInv'
<1> SUFFICES ASSUME TxInv, TxSuspend \/ UNCHANGED txVars PROVE TxInv'
  OBVIOUS
<1>1. TxTypeOK' /\ (txPc' # "idle" => toSend' > 0)
  BY DEF TxInv, TxTypeOK, TxSuspend, txVars
<1>2. TxRingInv'
  BY DEF TxInv, TxRingInv, Queued, TxPlaceOf, Gap, TxSuspend, txVars
<1> QED
  BY <1>1, <1>2 DEF TxInv

-----------------------------------------------------------------------------
(* Both.                                                                     *)

\* Sending leaves reception alone.
LEMMA ReceptionSteps == [BothNext]_both => [Next]_vars
BY DEF BothNext, both, Receive, SendOfItsOwn, Second, Send, Hardware, Next, ifx_netif_input

LEMMA NextTxInv == TxInv /\ [BothNext]_both => TxInv'
<1> SUFFICES ASSUME TxInv, [BothNext]_both PROVE TxInv'
  OBVIOUS
<1>1. CASE Receive \/ SendOfItsOwn \/ Second
  BY <1>1, StartTxInv, OtherTxInv DEF Receive, SendOfItsOwn, Second
<1>2. CASE Send
  BY <1>2, WaitTxInv, SendTxInv DEF Send, low_level_output
<1>3. CASE Hardware
  BY <1>3, TransmitTxInv, OtherTxInv DEF Hardware
<1>4. CASE UNCHANGED both
  BY <1>4, OtherTxInv DEF both
<1> QED
  BY <1>1, <1>2, <1>3, <1>4 DEF BothNext

LEMMA Invariance == BothSpec => [](IInv /\ TxInv)
<1>1. BothInit => IInv /\ TxInv
  BY InitIInv, InitTxInv DEF BothInit
<1>2. IInv /\ TxInv /\ [BothNext]_both => IInv' /\ TxInv'
  BY NextIInv, NextTxInv, ReceptionSteps
<1> QED
  BY <1>1, <1>2, PTL DEF BothSpec

-----------------------------------------------------------------------------

\* Slots, numbers, pool and poll keep their types (netif.c).
THEOREM TypeCorrect == BothSpec => [](TypeOK /\ TxTypeOK)
<1>1. IInv /\ TxInv => TypeOK /\ TxTypeOK
  BY DEF IInv, TxInv
<1> QED
  BY <1>1, Invariance, PTL

\* netif.c, ifx_netif_input: no pbuf is lost or freed twice, however many
\* frames of whatever kind have come and however long ARP keeps its own.
THEOREM PbufsAccounted == BothSpec => []NoPbufLost
<1>1. IInv => NoPbufLost
  BY DEF IInv, PoolInv, NoPbufLost
<1> QED
  BY <1>1, Invariance, PTL

\* netif.c:417: with a pool that holds a full reassembly and one frame, a frame
\* is left to block the ring only for pbufs of packets that wait for an address,
\* and these give back enough.
THEOREM BlockedByArpOnly == BothSpec => []OnlyArpBlocks
<1>1. IInv => OnlyArpBlocks
  <2> SUFFICES ASSUME IInv, Blocked
               PROVE  PbufsFor(buffer[rxDescr]) <= pool + parked /\ expiry > 0
    BY DEF OnlyArpBlocks
  <2> DEFINE n == PbufsFor(buffer[rxDescr])
  <2>1. buffer[rxDescr] \in Frames
    BY DEF IInv, TypeOK
  <2>2. n \in Nat /\ HELD_MAX + n <= POOL
    BY <2>1, PbufsFit
  <2>3. n > pool /\ pool + held + parked = POOL
    BY DEF Blocked, IInv, TypeOK, PoolInv
  <2> HIDE DEF n
  <2>4. n <= pool + parked /\ parked > 0
    BY <2>2, <2>3, NetifAssumption DEF IInv, TypeOK
  <2> QED
    BY <2>4 DEF IInv, PoolInv, n
<1> QED
  BY <1>1, Invariance, PTL

\* netif.c:407: frames reach lwIP once each, in order, and before the DMA can
\* write over them.
THEOREM FramesInOrder == BothSpec => []EachFrameOnce
<1>1. IInv => EachFrameOnce
  <2> SUFFICES ASSUME IInv, pc = "free" PROVE payload.number = next
    BY DEF EachFrameOnce, IInv, PollInv
  <2>1. rxDescr \in owned /\ rxDescr \in Slots /\ payload = buffer[rxDescr]
    BY DEF IInv, TypeOK, PollInv
  <2>2. Gap(next, payload.number, 2 * DESCRIPTORS) = 0
    BY <2>1, NetifAssumption DEF IInv, RingInv, Due, PlaceOf, Gap, Slots
  <2>3. payload.number \in Numbers /\ next \in Numbers
    BY DEF IInv, TypeOK, Frames
  <2> QED
    BY <2>2, <2>3, NetifAssumption DEF Gap, Numbers
<1> QED
  BY <1>1, Invariance, PTL

\* netif.c:298: whatever the driver sends while the DMA is behind, it writes over
\* no frame that is not out yet.
THEOREM SendingInOrder == BothSpec => []SentInOrder
<1>1. TxInv => SentInOrder
  <2> SUFFICES ASSUME TxInv, txDmaAt \in txOwned PROVE txBuffer[txDmaAt] = due
    BY DEF SentInOrder
  <2>1. Gap(due, txBuffer[txDmaAt], 2 * TX_DESCRIPTORS) = 0
    BY NetifTxAssumption DEF TxInv, TxTypeOK, TxRingInv, TxPlaceOf, Gap, TxSlots
  <2>2. txBuffer[txDmaAt] \in TxNumbers /\ due \in TxNumbers
    BY DEF TxInv, TxTypeOK
  <2> QED
    BY <2>1, <2>2, NetifTxAssumption DEF Gap, TxNumbers
<1> QED
  BY <1>1, Invariance, PTL

=============================================================================
